------------------------------ MODULE Updater ------------------------------
(***************************************************************************)
(* struct updater_s and the functions of src/src/updater_swupdate.c that   *)
(* work on it: the one installation the HTTP server can have in progress,  *)
(* and the swupdate sessions it opens, writes to and ends.                 *)
(*                                                                         *)
(* A session is what ipc_inst_start_ext opens and ipc_end closes: a stream *)
(* socket to swupdate.  Sessions are numbered in the order they start; the *)
(* number stands for the file descriptor kept in updater->ipc.  A byte of  *)
(* an uploaded file is the pair <<part, k>>: the k-th byte of that part.   *)
(* The operators are the functions of the C file, for the modules that     *)
(* call them; swupdate itself (not under src/) reads the bytes, and may    *)
(* close its end at any time.                                              *)
(***************************************************************************)
EXTENDS Integers, Sequences, FiniteSets

CONSTANTS
    MaxSessions,    \* bound: sessions swupdate grants in a behaviour
    SockCap,        \* bytes the socket holds before write(2) gives EAGAIN
    LenMod          \* range of updater_s.len, a uint32_t: 2^32 in the code

ASSUME UpdaterAssumption ==
    /\ MaxSessions \in Nat \ {0}
    /\ SockCap \in Nat \ {0}
    /\ LenMod \in Nat \ {0}

VARIABLES
    upd,        \* http->updater: the fields ipc, len and status
    chan,       \* chan[s]: session s is "unused", "open" or "ended"; "misused"
                \* if ipc_end is called for one that is not open
    stream,     \* stream[s]: the bytes write(2) accepted for s, in order
    unread,     \* unread[s]: bytes in the socket of s, while s is open
    broken,     \* broken[s]: swupdate closed its end of s, which is open
    exited      \* the process called exit(-1)

updaterVars == <<upd, chan, stream, unread, broken, exited>>

Sessions == 1 .. MaxSessions
NoIpc    == 0       \* updater->ipc after memset: no installation
BadIpc   == -1      \* what ipc_inst_start_ext returns when it is refused

Byte == Sessions \X (Nat \ {0})

ZeroedUpdater == [ipc |-> NoIpc, len |-> 0, status |-> "OK"]

UpdaterType == [ipc : Sessions \cup {NoIpc, BadIpc}, len : 0 .. LenMod - 1,
                status : {"OK", "FAIL"}]

\* No session is ever misused.
UpdaterTypeOK ==
    /\ upd \in UpdaterType
    /\ chan \in [Sessions -> {"unused", "open", "ended"}]
    /\ stream \in [Sessions -> Seq(Byte)]
    /\ unread \in [Sessions -> 0 .. SockCap]
    /\ broken \in [Sessions -> BOOLEAN]
    /\ exited \in BOOLEAN

UpdaterStart ==
    /\ upd = ZeroedUpdater
    /\ chan = [s \in Sessions |-> "unused"]
    /\ stream = [s \in Sessions |-> <<>>]
    /\ unread = [s \in Sessions |-> 0]
    /\ broken = [s \in Sessions |-> FALSE]
    /\ exited = FALSE

-----------------------------------------------------------------------------
\* updater_active and updater_status.
UpdaterActive == upd.ipc # NoIpc
UpdaterStatus == upd.status

\* f with the session in progress, if there is one, mapped to v.
AtHeld(f, v) == [s \in Sessions |-> IF s = upd.ipc THEN v ELSE f[s]]

\* ipc_end (not under src/) for a session in this state.
IpcEnd(state) == IF state = "open" THEN "ended" ELSE "misused"

\* if (updater->ipc) ipc_end(updater->ipc): the server closes its end of the
\* session in progress; then `opened', at most one session, is opened.
EndHeldAndOpen(opened) ==
    /\ chan' = [s \in Sessions |-> IF s \in opened THEN "open"
                                   ELSE AtHeld(chan, IpcEnd(chan[s]))[s]]
    /\ unread' = AtHeld(unread, 0)
    /\ broken' = AtHeld(broken, FALSE)
    /\ UNCHANGED stream

\* The session number the next successful start gets.
Fresh(s) == s \in Sessions /\ \A r \in Sessions : chan[r] = "unused" <=> r >= s

\* Mutants of updater_init: the previous session is not ended; it is kept
\* instead of a new one; the structure is not cleared.
InitWithoutEnd(s) ==
    /\ Fresh(s)
    /\ chan' = [chan EXCEPT ![s] = "open"]
    /\ upd' = [ZeroedUpdater EXCEPT !.ipc = s]
    /\ UNCHANGED <<stream, unread, broken, exited>>
InitKeepsOpen(s) ==
    /\ Fresh(s)
    /\ IF upd.ipc = NoIpc
       THEN EndHeldAndOpen({s}) /\ upd' = [ZeroedUpdater EXCEPT !.ipc = s]
       ELSE UNCHANGED <<upd, chan, stream, unread, broken>>
    /\ UNCHANGED exited
InitKeepsLen(s) ==
    /\ Fresh(s)
    /\ EndHeldAndOpen({s})
    /\ upd' = [upd EXCEPT !.ipc = s]
    /\ UNCHANGED exited

\* updater_init: ends the installation in progress, whoever began it, clears
\* the structure and asks swupdate for a session, which it grants.  That
\* set_blocking fails is only logged, and left out: write would wait then.
UpdaterInit(s) ==
    /\ Fresh(s)
    /\ EndHeldAndOpen({s})
    /\ upd' = [ZeroedUpdater EXCEPT !.ipc = s]
    /\ UNCHANGED exited

\* updater_init when swupdate refuses (it is busy, or not there): the error
\* path is exit(-1), after the previous session was ended.
UpdaterInitRefused ==
    /\ EndHeldAndOpen({})
    /\ upd' = [ZeroedUpdater EXCEPT !.ipc = BadIpc]
    /\ exited' = TRUE

\* What write(2) can return for n bytes on the non-blocking socket: -1 when
\* the peer is gone or the socket is full, else any part that fits.
WriteResults(n) ==
    IF broken[upd.ipc] \/ unread[upd.ipc] = SockCap
    THEN {-1}
    ELSE {w \in 1 .. n : unread[upd.ipc] + w <= SockCap}

\* Mutant: without the clamp, the -1 of write(2) is counted.
NotClamped(written) == written

\* if (written < 0) written = 0.
Clamped(written) == IF written < 0 THEN 0 ELSE written

\* Bytes from + 1 to from + n of a part, in order.
Bytes(part, from, n) == [i \in 1 .. n |-> <<part, from + i>>]

\* Mutant: a count wider than the field.
WriteWithoutWrap(part, from, written) ==
    LET w == Clamped(written) IN
    /\ stream' = [stream EXCEPT ![upd.ipc] = @ \o Bytes(part, from, w)]
    /\ unread' = [unread EXCEPT ![upd.ipc] = @ + w]
    /\ upd' = [upd EXCEPT !.len = @ + w]
    /\ UNCHANGED <<chan, broken, exited>>

\* updater_write with the bytes of a part from position `from' on, when
\* write(2) returned `written'.
UpdaterWrite(part, from, written) ==
    LET w == Clamped(written) IN
    /\ stream' = [stream EXCEPT ![upd.ipc] = @ \o Bytes(part, from, w)]
    /\ unread' = [unread EXCEPT ![upd.ipc] = @ + w]
    /\ upd' = [upd EXCEPT !.len = (@ + w) % LenMod]
    /\ UNCHANGED <<chan, broken, exited>>

\* Mutant: the structure is cleared and the session stays open.
FreeWithoutEnd ==
    /\ upd' = ZeroedUpdater
    /\ UNCHANGED <<chan, stream, unread, broken, exited>>

\* updater_free.
UpdaterFree ==
    /\ EndHeldAndOpen({})
    /\ upd' = ZeroedUpdater
    /\ UNCHANGED exited

-----------------------------------------------------------------------------
\* swupdate reads a byte, which makes room in the socket.
SwRead(s) ==
    /\ unread[s] > 0
    /\ unread' = [unread EXCEPT ![s] = @ - 1]
    /\ UNCHANGED <<upd, chan, stream, broken, exited>>

\* swupdate gives the installation up: later writes fail.
SwClose(s) ==
    /\ chan[s] = "open"
    /\ ~broken[s]
    /\ broken' = [broken EXCEPT ![s] = TRUE]
    /\ UNCHANGED <<upd, chan, stream, unread, exited>>

-----------------------------------------------------------------------------
\* No session leaks: the only session open with swupdate is the one the
\* updater holds (updater_init and updater_free end it before forgetting it).
OnlyHeldOpen == \A s \in Sessions : chan[s] = "open" <=> upd.ipc = s

\* updater->len is the number of bytes swupdate's socket took in the session
\* in progress, modulo the width of the field, and 0 without a session.
LenCountsSession ==
    upd.len = IF upd.ipc \in Sessions THEN Len(stream[upd.ipc]) % LenMod ELSE 0

=============================================================================
