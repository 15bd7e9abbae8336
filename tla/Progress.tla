------------------------------ MODULE Progress ------------------------------
(***************************************************************************)
(* updater_progress_poll of src/src/updater_swupdate.c and the callbacks   *)
(* and broadcast of src/src/http.c: one message of swupdate's progress     *)
(* socket is read per turn of the poll loop, and what it changes is sent   *)
(* to the browsers on a websocket at that moment.                          *)
(*                                                                         *)
(* swupdate's progress server (not under src/) accepts the connection,     *)
(* writes whole messages, and may drop the connection or stop; what is in  *)
(* the socket can still be read afterwards.  A websocket delivers frames   *)
(* in order, so a client shows what was last sent to it.                   *)
(***************************************************************************)
EXTENDS Integers, Sequences

CONSTANTS
    Clients,        \* websocket clients
    Infos,          \* texts a message can carry
    Mangled,        \* those of them a frame does not carry as they are
    Messages,       \* progress messages: status, source, info, step, percent
    ByteMod,        \* range of a uint8_t: 256 in the code
    MaxBacklog      \* bound: messages waiting in the progress socket

Statuses == {"idle", "start", "run", "success", "failure", "download", "done",
             "subprocess", "progress"}
Sources  == {"unknown", "webserver", "suricatta", "downloader", "local"}

\* A message with infolen = 0 has NoInfo; step is cur_step, 0 before the first.
\* Garbled is what a page shows for a text the frame mangles.
NoInfo  == "none"
Garbled == "garbled"
MessageType == [status : Statuses, source : Sources,
                info : Infos \cup {NoInfo, Garbled},
                step : Nat, percent : Nat]

ASSUME ProgressAssumption ==
    /\ Messages \subseteq MessageType
    /\ Mangled \subseteq Infos /\ NoInfo \notin Mangled
    /\ ByteMod \in Nat \ {0} /\ MaxBacklog \in Nat \ {0}

VARIABLES
    valid,      \* http->env->valid: the environment could be opened
    u,          \* updater_progress_s: ipc and the values last told
    inbox,      \* messages in the progress socket
    server,     \* swupdate's side: does it accept, is our connection up
    sockets,    \* the clients with a websocket
    told,       \* told[c]: the fields the page of client c was told
    shown,      \* shown[c]: and the values it shows for them
    reported,   \* history: the values swupdate's messages last reported
    joined      \* history: joined[c] is `reported' when c connected

pages == <<sockets, told, shown, joined>>
vars  == <<valid, u, inbox, server, reported, pages>>

NoIpc  == 0             \* after memset
BadIpc == -1            \* progress_ipc_connect failed, or the socket closed
SomeFd == 1             \* any descriptor

Nothing == [status |-> "idle", source |-> "unknown", info |-> NoInfo,
            step |-> 0, percent |-> 0]
Fields  == DOMAIN Nothing

TypeOK ==
    /\ valid \in BOOLEAN
    /\ u \in [ipc : {NoIpc, BadIpc, SomeFd}, status : Statuses,
              source : Sources, step : Nat, percent : Nat]
    /\ inbox \in Seq(Messages) /\ Len(inbox) <= MaxBacklog
    /\ server \in [accepts : BOOLEAN, up : BOOLEAN]
    /\ reported \in MessageType
    /\ sockets \subseteq Clients
    /\ told \in [Clients -> SUBSET Fields]
    /\ shown \in [Clients -> MessageType]
    /\ joined \in [Clients -> MessageType]

Init ==
    /\ valid \in BOOLEAN
    /\ u = [ipc |-> NoIpc, status |-> "idle", source |-> "unknown",
            step |-> 0, percent |-> 0]
    /\ inbox = <<>>
    /\ server \in [accepts : BOOLEAN, up : {FALSE}]
    /\ reported = Nothing
    /\ sockets = {}
    /\ told = [c \in Clients |-> {}]
    /\ shown = [c \in Clients |-> Nothing]
    /\ joined = [c \in Clients |-> Nothing]

-----------------------------------------------------------------------------
\* Mutants of the conditions: a failure is told once; && for ||, twice; a
\* return to idle is not told.
TellsChangeOnly(m)      == m.status # u.status
TellsChangeToFailure(m) == m.status # u.status /\ m.status = "failure"
TellsUnlessIdle(m)      == m.status \notin {u.status, "idle"} \/ m.status = "failure"
TellsStepAndPercent(m)  == m.step # u.step /\ m.percent # u.percent /\ m.step # 0

\* The conditions under which updater_progress_poll calls each callback.
TellsStatus(m) == m.status # u.status \/ m.status = "failure"
TellsSource(m) == m.source # u.source
TellsInfo(m)   == m.info # NoInfo
TellsStep(m)   == (m.step # u.step \/ m.percent # u.percent) /\ m.step # 0

\* The fields the frames of the callbacks carry.
Told(m) ==
    (IF TellsStatus(m) THEN {"status"} ELSE {}) \cup
    (IF TellsSource(m) THEN {"source"} ELSE {}) \cup
    (IF TellsInfo(m)   THEN {"info"} ELSE {}) \cup
    (IF TellsStep(m)   THEN {"step", "percent"} ELSE {})

\* The values in the frames.  The text of an info is printed between quotes
\* into 512 bytes, and http_broadcast_json takes the result as a format: a
\* text with a quote or a '%', or too long a one, does not get through.  The
\* step callback takes uint8_t.
Carried(m) == [m EXCEPT !.info    = IF @ \in Mangled THEN Garbled ELSE @,
                        !.step    = @ % ByteMod,
                        !.percent = @ % ByteMod]

\* http_broadcast_json: the frames go to every connection that is a websocket.
Broadcast(m) ==
    /\ told' = [c \in Clients |-> IF c \in sockets THEN told[c] \cup Told(m)
                                                  ELSE told[c]]
    /\ shown' = [c \in Clients |->
                    [f \in Fields |-> IF c \in sockets /\ f \in Told(m)
                                     THEN Carried(m)[f] ELSE shown[c][f]]]

\* Mutant: the status that is kept is the source's, another enum.
CachedMixed(m) ==
    [u EXCEPT !.status  = IF TellsStatus(m) THEN m.source ELSE @,
              !.source  = IF TellsSource(m) THEN m.source ELSE @,
              !.step    = IF TellsStep(m) THEN m.step ELSE @,
              !.percent = IF TellsStep(m) THEN m.percent ELSE @]

\* The values the structure keeps to tell a change.
Cached(m) ==
    [u EXCEPT !.status  = IF TellsStatus(m) THEN m.status ELSE @,
              !.source  = IF TellsSource(m) THEN m.source ELSE @,
              !.step    = IF TellsStep(m) THEN m.step ELSE @,
              !.percent = IF TellsStep(m) THEN m.percent ELSE @]

\* What swupdate has reported when m is its last message: it says nothing of
\* the info or the step when it has none.
ReportedWith(m) ==
    [f \in Fields |-> IF \/ f = "info" /\ m.info = NoInfo
                         \/ f \in {"step", "percent"} /\ m.step = 0
                      THEN reported[f] ELSE m[f]]

\* progress_ipc_receive gives a whole message.
PollMessage ==
    /\ valid /\ u.ipc > 0
    /\ inbox # <<>>
    /\ LET m == Head(inbox) IN
       /\ Broadcast(m)
       /\ u' = Cached(m)
       /\ reported' = ReportedWith(m)
    /\ inbox' = Tail(inbox)
    /\ UNCHANGED <<valid, server, sockets, joined>>

\* progress_ipc_receive finds the socket closed: it resets the descriptor.
PollEof ==
    /\ valid /\ u.ipc > 0
    /\ inbox = <<>> /\ ~server.up
    /\ u' = [u EXCEPT !.ipc = BadIpc]
    /\ UNCHANGED <<valid, inbox, server, reported, pages>>

\* No connection: one attempt per turn, which swupdate accepts or not.
PollConnect ==
    /\ valid /\ u.ipc <= 0
    /\ u' = [u EXCEPT !.ipc = IF server.accepts THEN SomeFd ELSE BadIpc]
    /\ server' = [server EXCEPT !.up = server.accepts]
    /\ UNCHANGED <<valid, inbox, reported, pages>>

\* The progress part of http_poll; without a message it does nothing.
Poll == PollMessage \/ PollEof \/ PollConnect

-----------------------------------------------------------------------------
\* swupdate's progress server.
ServerSend ==
    /\ server.up
    /\ Len(inbox) < MaxBacklog
    /\ \E m \in Messages : inbox' = Append(inbox, m)
    /\ UNCHANGED <<valid, u, server, reported, pages>>

ServerDrops ==
    /\ server.up
    /\ server' \in [accepts : BOOLEAN, up : {FALSE}]
    /\ UNCHANGED <<valid, u, inbox, reported, pages>>

ServerStarts ==
    /\ ~server.accepts
    /\ server' = [server EXCEPT !.accepts = TRUE]
    /\ UNCHANGED <<valid, u, inbox, reported, pages>>

\* A browser opens, or closes, its websocket.
Join(c) ==
    /\ c \notin sockets
    /\ sockets' = sockets \cup {c}
    /\ joined' = [joined EXCEPT ![c] = reported]
    /\ UNCHANGED <<valid, u, inbox, server, reported, told, shown>>

Leave(c) ==
    /\ c \in sockets
    /\ sockets' = sockets \ {c}
    /\ told' = [told EXCEPT ![c] = {}]
    /\ shown' = [shown EXCEPT ![c] = Nothing]
    /\ joined' = [joined EXCEPT ![c] = Nothing]
    /\ UNCHANGED <<valid, u, inbox, server, reported>>

Next ==
    \/ PollMessage
    \/ PollEof
    \/ PollConnect
    \/ ServerSend
    \/ ServerDrops
    \/ ServerStarts
    \/ \E c \in Clients : Join(c) \/ Leave(c)

SafetySpec == Init /\ [][Next]_vars

\* atxsys_poll is called for ever; nothing is assumed of swupdate or clients.
Spec == SafetySpec /\ WF_vars(Poll)

-----------------------------------------------------------------------------
\* Reported values that no frame carries as they are: texts that are mangled,
\* and numbers that do not fit a uint8_t.
Distorted(f) ==
    \/ f = "info" /\ reported.info \in Mangled
    \/ f \in {"step", "percent"} /\ reported[f] >= ByteMod

\* What a page shows of a field is what swupdate last reported of it, however
\* often the progress connection was lost and made again in between; only of
\* a distorted value does it show what the frame made of it.
ShownIsReported ==
    \A c \in sockets : \A f \in told[c] :
        shown[c][f] = IF Distorted(f) THEN Carried(reported)[f] ELSE reported[f]

\* A page that was told nothing of a field has missed nothing: the field has
\* the value it had when the page connected.
NothingMissed ==
    \A c \in sockets : \A f \in Fields \ told[c] : reported[f] = joined[c][f]

\* Every report of a failure reaches every page, also one that connected after
\* the failure was first reported and so was told nothing of the status.
FailureReachesAll ==
    [][(PollMessage /\ reported'.status = "failure") =>
          \A c \in sockets : "status" \in told'[c] /\ shown'[c].status = "failure"]_vars

\* A status waiting in the socket comes to be shown by every page that stays
\* connected, except one that connected when it was already the status.
StatusIsShown ==
    \A c \in Clients : \A st \in Statuses :
        (c \in sockets /\ \E i \in DOMAIN inbox : inbox[i].status = st) ~>
            \/ c \notin sockets
            \/ "status" \in told[c] /\ shown[c].status = st
            \/ "status" \notin told[c] /\ u.status = st

=============================================================================
