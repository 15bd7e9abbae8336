---------------------------- MODULE UpdateRoute ----------------------------
(***************************************************************************)
(* update_handler of src/src/http_route_update.c: firmware uploads, as     *)
(* multipart requests on any number of HTTP connections that all share the *)
(* single http->updater.                                                   *)
(*                                                                         *)
(* Mongoose (not under src/) parses the requests and calls the handler,    *)
(* one event at a time, from mg_mgr_poll.  It keeps the bytes the handler  *)
(* leaves (num_data_consumed) and offers them again at the next poll; it   *)
(* drops what it offered when the handler does not set that field; when a  *)
(* connection closes with a multipart request unfinished it delivers       *)
(* MG_EV_HTTP_PART_END before forgetting it.                               *)
(***************************************************************************)
EXTENDS Updater

CONSTANTS
    Conns,      \* HTTP connections (slots: a closed one is used again)
    Sizes       \* sizes of the uploaded files

ASSUME RouteAssumption == Sizes \subseteq Nat \ {0}

VARIABLES
    conn,       \* conn[c]: the connection's place in its multipart request
    reply       \* reply[c]: the JSON reply last sent on c in this request

vars == <<updaterVars, conn, reply>>

NoPart   == 0
NoReply  == [code |-> 0, received |-> 0, from |-> NoPart]
IdleConn == [st |-> "idle", part |-> NoPart, size |-> 0, pos |-> 0,
             closing |-> FALSE]

\* st: idle; request: between the parts of a request; part: inside one;
\* done: the request is complete.  part is the part's number (that of the
\* session its begin started) or NoPart, size its length, pos how much of it
\* is consumed, closing the flag MG_F_SEND_AND_CLOSE.
ConnType == [st : {"idle", "request", "part", "done"},
             part : Sessions \cup {NoPart}, size : Nat, pos : Nat,
             closing : BOOLEAN]

\* received is negative when len, printed as an int, is in its upper half.
ReplyType == [code : {0, 200, 500}, received : Int, from : Sessions \cup {NoPart}]

TypeOK ==
    /\ UpdaterTypeOK
    /\ conn \in [Conns -> ConnType]
    /\ reply \in [Conns -> ReplyType]

Init ==
    /\ UpdaterStart
    /\ conn = [c \in Conns |-> IdleConn]
    /\ reply = [c \in Conns |-> NoReply]

InPart(c) == conn[c].st = "part"
Unfinished(c) == conn[c].st \in {"request", "part"}

-----------------------------------------------------------------------------
\* MG_EV_HTTP_MULTIPART_REQUEST: the handler only logs.
MultipartRequest(c) ==
    /\ ~exited
    /\ conn[c].st = "idle" \/ (conn[c].st = "done" /\ ~conn[c].closing)
    /\ conn' = [conn EXCEPT ![c].st = "request"]
    /\ reply' = [reply EXCEPT ![c] = NoReply]
    /\ UNCHANGED updaterVars

\* MG_EV_HTTP_PART_BEGIN, swupdate grants a session.
PartBegin(c) ==
    /\ ~exited
    /\ conn[c].st = "request"
    /\ \E s \in Sessions, n \in Sizes :
          /\ UpdaterInit(s)
          /\ conn' = [conn EXCEPT ![c] = [@ EXCEPT !.st = "part", !.part = s,
                                                   !.size = n, !.pos = 0]]
    /\ UNCHANGED reply

\* MG_EV_HTTP_PART_BEGIN, swupdate refuses: the whole server exits.
PartBeginRefused(c) ==
    /\ ~exited
    /\ conn[c].st = "request"
    /\ UpdaterInitRefused
    /\ UNCHANGED <<conn, reply>>

\* Mutants: a short write consumes nothing; a short write consumes it all.
ConsumedIfWhole(written, n) == IF written = n THEN n ELSE 0
ConsumedAlways(written, n)  == n

\* num_data_consumed after the handler wrote `written' of the n bytes offered.
Consumed(written, n) == Clamped(written)

\* MG_EV_HTTP_PART_DATA with n bytes, written to the session in progress,
\* which need not be the one this part began.
PartData(c) ==
    /\ ~exited
    /\ InPart(c)
    /\ UpdaterActive /\ UpdaterStatus = "OK"
    /\ \E n \in 1 .. conn[c].size - conn[c].pos : \E w \in WriteResults(n) :
          /\ UpdaterWrite(conn[c].part, conn[c].pos, w)
          /\ conn' = [conn EXCEPT ![c].pos = @ + Consumed(w, n)]
    /\ UNCHANGED reply

\* Mutant: num_data_consumed is set to 0 before the early returns.
IgnoredNotConsumed(c) ==
    /\ ~exited
    /\ InPart(c)
    /\ ~(UpdaterActive /\ UpdaterStatus = "OK")
    /\ UNCHANGED vars

\* MG_EV_HTTP_PART_DATA without an active updater: the handler returns early,
\* and Mongoose takes all it offered for consumed.
PartDataIgnored(c) ==
    /\ ~exited
    /\ InPart(c)
    /\ ~(UpdaterActive /\ UpdaterStatus = "OK")
    /\ \E n \in 1 .. conn[c].size - conn[c].pos :
          conn' = [conn EXCEPT ![c].pos = @ + n]
    /\ UNCHANGED <<updaterVars, reply>>

\* "%d" of a uint32_t: the upper half of the range prints as negative.
Printed(len) == IF 2 * len >= LenMod THEN len - LenMod ELSE len

\* Mutant: the updater is freed before the reply is built.
FreeThenReply(c) ==
    /\ reply' = [reply EXCEPT ![c] = [code |-> 200, received |-> 0,
                                      from |-> conn[c].part]]
    /\ UpdaterFree

\* The handler's case MG_EV_HTTP_PART_END: the reply, then updater_free.
HandlePartEnd(c) ==
    /\ reply' = [reply EXCEPT ![c] =
                    [code     |-> IF UpdaterStatus = "FAIL" THEN 500 ELSE 200,
                     received |-> Printed(upd.len),
                     from     |-> conn[c].part]]
    /\ UpdaterFree

\* Mutant: MG_F_SEND_AND_CLOSE is not set.
PartEndKeepsAlive(c) ==
    /\ ~exited
    /\ InPart(c)
    /\ conn[c].pos = conn[c].size
    /\ HandlePartEnd(c)
    /\ conn' = [conn EXCEPT ![c] = [IdleConn EXCEPT !.st = "request"]]

\* MG_EV_HTTP_PART_END when the whole part was consumed.
PartEnd(c) ==
    /\ ~exited
    /\ InPart(c)
    /\ conn[c].pos = conn[c].size
    /\ HandlePartEnd(c)
    /\ conn' = [conn EXCEPT ![c] = [IdleConn EXCEPT !.st = "request",
                                                    !.closing = TRUE]]

\* MG_EV_HTTP_MULTIPART_REQUEST_END after the last part: only logged.
RequestEnd(c) ==
    /\ ~exited
    /\ conn[c].st = "request"
    /\ conn' = [conn EXCEPT ![c].st = "done"]
    /\ UNCHANGED <<updaterVars, reply>>

\* Mutant: an upload that is cut off is not handled.
AbortUnhandled(c) ==
    /\ ~exited
    /\ Unfinished(c)
    /\ conn' = [conn EXCEPT ![c] = IdleConn]
    /\ UNCHANGED <<updaterVars, reply>>

\* The client, or the flag, closes the connection before the request is
\* complete: Mongoose delivers MG_EV_HTTP_PART_END, which the handler treats
\* like any other.
Abort(c) ==
    /\ ~exited
    /\ Unfinished(c)
    /\ HandlePartEnd(c)
    /\ conn' = [conn EXCEPT ![c] = IdleConn]

\* The connection closes outside a request.
Close(c) ==
    /\ ~exited
    /\ conn[c].st = "done"
    /\ conn' = [conn EXCEPT ![c] = IdleConn]
    /\ UNCHANGED <<updaterVars, reply>>

\* After exit(-1) nothing happens any more.
Exited == exited /\ UNCHANGED vars

Handler(c) ==
    \/ MultipartRequest(c)
    \/ PartBegin(c)
    \/ PartBeginRefused(c)
    \/ PartData(c)
    \/ PartDataIgnored(c)
    \/ PartEnd(c)
    \/ RequestEnd(c)
    \/ Abort(c)
    \/ Close(c)

Swupdate(s) == (SwRead(s) \/ SwClose(s)) /\ UNCHANGED <<conn, reply>>

Next ==
    \/ \E c \in Conns : Handler(c)
    \/ \E s \in Sessions : Swupdate(s)
    \/ Exited

\* http_poll runs for ever: it offers a part's bytes again until they are
\* consumed (the client is assumed to send its file), and closes what is
\* flagged; swupdate reads what it is given.  Nothing makes a client begin,
\* and nothing is assumed of swupdate closing or refusing a session.
Fairness ==
    /\ \A c \in Conns :
          /\ WF_vars(PartData(c) \/ PartDataIgnored(c) \/ PartEnd(c))
          /\ WF_vars(conn[c].closing /\ (Abort(c) \/ Close(c)))
    /\ \A s \in Sessions : WF_vars(SwRead(s) /\ UNCHANGED <<conn, reply>>)

SafetySpec == Init /\ [][Next]_vars
Spec == SafetySpec /\ Fairness

-----------------------------------------------------------------------------
\* Bytes of one part, in whatever sessions they ended up (another connection
\* may have replaced the session meanwhile), never repeat and keep the
\* file's order: short writes and EAGAIN are retried from the right place.
EachByteOnceInOrder ==
    \A s, t \in Sessions :
        \A i \in DOMAIN stream[s], j \in DOMAIN stream[t] :
            /\ s < t \/ (s = t /\ i < j)
            /\ stream[s][i][1] = stream[t][j][1]
            => stream[s][i][2] < stream[t][j][2]

\* A part never adds to an installation begun before it: its own begin has
\* ended that one.
NoOlderSession ==
    \A s \in Sessions : \A i \in DOMAIN stream[s] : stream[s][i][1] <= s

\* Every reply counts the bytes of the session that was open when its part
\* ended, and that session is closed with it (the count is taken before
\* updater_free clears it).
CountsItsSession(c) ==
    reply'[c] # reply[c] /\ reply'[c] # NoReply =>
        /\ \A s \in Sessions : chan[s] = "open" =>
              /\ chan'[s] = "ended"
              /\ reply'[c].received = Printed(Len(stream[s]) % LenMod)
        /\ (\A s \in Sessions : chan[s] # "open") => reply'[c].received = 0

ReplyCountsSession == [][\A c \in Conns : CountsItsSession(c)]_vars

\* What the server promises swupdate: InstallChannel with the sessions of
\* this module.
Channel == INSTANCE InstallChannel WITH
    Session <- Sessions,
    open    <- {s \in Sessions : chan[s] = "open"},
    ended   <- {s \in Sessions : chan[s] = "ended"},
    stream  <- stream

ImplementsChannel == Channel!Spec

-----------------------------------------------------------------------------
\* With a single connection, swupdate is given exactly the consumed part of
\* the file: nothing is lost, repeated or swapped by partial writes, and
\* nothing of an earlier, aborted upload remains.
SoloIntact ==
    /\ \A s \in Sessions : \A i \in DOMAIN stream[s] : stream[s][i] = <<s, i>>
    /\ \A c \in Conns : InPart(c) => Len(stream[conn[c].part]) = conn[c].pos

\* With a single connection, an upload that completes was given to swupdate
\* whole, its session is ended, and its reply says 200 and (when the size fits
\* an int) its size.
SoloCompleteIsWhole ==
    [][\A c \in Conns : PartEnd(c) =>
          /\ chan'[conn[c].part] = "ended"
          /\ Len(stream[conn[c].part]) = conn[c].size
          /\ reply'[c].code = 200 /\ reply'[c].from = conn[c].part
          /\ 2 * conn[c].size < LenMod => reply'[c].received = conn[c].size]_vars

\* Unless swupdate gave the session in progress up (which the code never
\* notices: it offers the bytes for ever), a part that began ends, whatever
\* the other connections do to the shared updater; or the server exited.
UploadEnds ==
    \A c \in Conns :
        InPart(c) ~> \/ ~InPart(c)
                     \/ exited
                     \/ \E s \in Sessions : upd.ipc = s /\ broken[s]

\* A connection that has had its reply is closed.
RepliedCloses ==
    \A c \in Conns :
        (reply[c] # NoReply /\ conn[c].st # "idle") ~>
            (conn[c].st = "idle" \/ exited)

=============================================================================
