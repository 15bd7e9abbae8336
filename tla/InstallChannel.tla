-------------------------- MODULE InstallChannel --------------------------
(***************************************************************************)
(* What the server promises swupdate, whatever its clients do: it keeps at *)
(* most one installation open, a session that was ended is never written   *)
(* to, opened or ended again, and the bytes of a session are only ever     *)
(* appended.                                                               *)
(***************************************************************************)
EXTENDS Integers, Sequences

CONSTANT Session     \* the sessions swupdate can grant

VARIABLES
    open,       \* the sessions that are open: none, or one
    ended,      \* the sessions that were open once
    stream      \* the bytes each session was given

channelVars == <<open, ended, stream>>

Init ==
    /\ open = {}
    /\ ended = {}
    /\ stream = [s \in Session |-> <<>>]

\* A session that was never used opens; the one before it ends first.
Start(s) ==
    /\ s \notin open \cup ended
    /\ ended' = ended \cup open
    /\ open' = {s}
    /\ UNCHANGED stream

\* t continues s.
Continues(t, s) == Len(s) <= Len(t) /\ \A i \in 1 .. Len(s) : t[i] = s[i]

\* The open session is given more bytes.
Push(s) ==
    /\ s \in open
    /\ stream' = [stream EXCEPT ![s] = stream'[s]]
    /\ Continues(stream'[s], stream[s])
    /\ UNCHANGED <<open, ended>>

\* The open session ends.
Finish ==
    /\ open # {}
    /\ ended' = ended \cup open
    /\ open' = {}
    /\ UNCHANGED stream

Next ==
    \/ \E s \in Session : Start(s) \/ Push(s)
    \/ Finish

Spec == Init /\ [][Next]_channelVars

=============================================================================
