------------------------- MODULE UpdateRouteProofs -------------------------
(***************************************************************************)
(* Theorems of UpdateRoute, for any number of connections, sessions and    *)
(* file sizes.                                                             *)
(***************************************************************************)
EXTENDS UpdateRoute, Arithmetic, SequenceTheorems, TLAPS

\* A connection inside a part has a part that began, and consumed a prefix.
PartsBegun ==
    \A c \in Conns : InPart(c) =>
        /\ conn[c].part \in Sessions
        /\ chan[conn[c].part] # "unused"
        /\ conn[c].size \in Sizes
        /\ conn[c].pos <= conn[c].size

\* The process exits exactly when a start was refused.
ExitIsRefusal == exited <=> upd.ipc = BadIpc

\* A session not started yet has no bytes.
UnusedEmpty == \A s \in Sessions : chan[s] = "unused" => stream[s] = <<>>

IInv ==
    /\ TypeOK
    /\ OnlyHeldOpen
    /\ LenCountsSession
    /\ PartsBegun
    /\ ExitIsRefusal
    /\ UnusedEmpty

-----------------------------------------------------------------------------
\* What updater_write appends.
LEMMA AppendBytes ==
    ASSUME NEW q \in Seq(Byte), NEW p \in Sessions, NEW f \in Nat, NEW w \in Nat
    PROVE  /\ q \o Bytes(p, f, w) \in Seq(Byte)
           /\ Len(q \o Bytes(p, f, w)) = Len(q) + w
           /\ \A i \in 1 .. Len(q) : (q \o Bytes(p, f, w))[i] = q[i]
           /\ \A i \in Len(q) + 1 .. Len(q) + w :
                 (q \o Bytes(p, f, w))[i] = <<p, f + (i - Len(q))>>
<1> DEFINE b == Bytes(p, f, w)
<1>1. b \in [1 .. w -> Byte]
  BY DEF Bytes, Byte
<1>2. b \in Seq(Byte) /\ Len(b) = w
  BY <1>1, SeqDef DEF Bytes
<1>3. \A i \in 1 .. w : b[i] = <<p, f + i>>
  BY DEF Bytes
<1> HIDE DEF b
<1>4. /\ q \o b \in Seq(Byte)
      /\ Len(q \o b) = Len(q) + w
      /\ \A i \in 1 .. Len(q) + w :
            (q \o b)[i] = IF i <= Len(q) THEN q[i] ELSE b[i - Len(q)]
  BY <1>2
<1>5. Len(q) \in Nat
  BY DEF Byte
<1> QED
  BY <1>3, <1>4, <1>5 DEF b

-----------------------------------------------------------------------------
\* The initial states satisfy the inductive invariant.
LEMMA InitInv == Init => IInv
<1> SUFFICES ASSUME Init PROVE IInv
  OBVIOUS
<1> USE UpdaterAssumption, RouteAssumption
    DEF Init, UpdaterStart, ZeroedUpdater, IdleConn, NoReply, NoPart, NoIpc,
        BadIpc, Sessions
<1>1. 0 \in 0 .. LenMod - 1 /\ 0 \in 0 .. SockCap
  OBVIOUS
<1>2. UpdaterTypeOK
  <2>1. upd \in UpdaterType
    BY <1>1 DEF UpdaterType
  <2>2. chan \in [Sessions -> {"unused", "open", "ended"}]
    OBVIOUS
  <2>3. unread \in [Sessions -> 0 .. SockCap]
    BY <1>1
  <2>4. broken \in [Sessions -> BOOLEAN] /\ exited \in BOOLEAN
    OBVIOUS
  <2>5. stream \in [Sessions -> Seq(Byte)]
    OBVIOUS
  <2> QED
    BY <2>1, <2>2, <2>3, <2>4, <2>5 DEF UpdaterTypeOK
<1>3. TypeOK
  BY <1>2 DEF TypeOK, ConnType, ReplyType
<1>4. OnlyHeldOpen /\ LenCountsSession
  BY DEF OnlyHeldOpen, LenCountsSession
<1>5. PartsBegun /\ ExitIsRefusal /\ UnusedEmpty
  BY DEF PartsBegun, InPart, ExitIsRefusal, UnusedEmpty
<1> QED
  BY <1>3, <1>4, <1>5 DEF IInv

\* Ending the session in progress, and opening at most one other.
LEMMA EndHeldEffect ==
    ASSUME IInv, NEW opened \in SUBSET Sessions, EndHeldAndOpen(opened)
    PROVE  /\ chan' \in [Sessions -> {"unused", "open", "ended"}]
           /\ stream' = stream
           /\ unread' \in [Sessions -> 0 .. SockCap]
           /\ broken' \in [Sessions -> BOOLEAN]
           /\ \A s \in Sessions : chan'[s] = "open" <=> s \in opened
           /\ \A s \in Sessions : chan[s] # "unused" => chan'[s] # "unused"
           /\ \A s \in Sessions : chan'[s] = "unused" => chan[s] = "unused"
           /\ \A s \in Sessions \ opened : chan'[s] = "ended" <=> chan[s] # "unused"
<1> USE UpdaterAssumption
    DEF EndHeldAndOpen, AtHeld, IpcEnd, IInv, TypeOK, UpdaterTypeOK, UpdaterType, ConnType, ReplyType
<1>1. 0 \in 0 .. SockCap
  OBVIOUS
<1>2. \A s \in Sessions : chan[s] = "open" <=> upd.ipc = s
  BY DEF OnlyHeldOpen
<1>3. chan' \in [Sessions -> {"unused", "open", "ended"}] /\ stream' = stream
  BY <1>2
<1>4. unread' \in [Sessions -> 0 .. SockCap]
  BY <1>1
<1>5. broken' \in [Sessions -> BOOLEAN]
  OBVIOUS
<1>6. \A s \in Sessions : chan'[s] = "open" <=> s \in opened
  BY <1>2
<1>7. \A s \in Sessions : chan[s] # "unused" => chan'[s] # "unused"
  OBVIOUS
<1>8. \A s \in Sessions : chan'[s] = "unused" => chan[s] = "unused"
  BY <1>7
<1>9. \A s \in Sessions \ opened : chan'[s] = "ended" <=> chan[s] # "unused"
  BY <1>2
<1> QED
  BY <1>3, <1>4, <1>5, <1>6, <1>7, <1>8, <1>9

\* Every step of the specification preserves the inductive invariant.
LEMMA NextInv == IInv /\ [Next]_vars => IInv'
<1> SUFFICES ASSUME IInv, [Next]_vars PROVE IInv'
  OBVIOUS
<1> USE UpdaterAssumption, RouteAssumption
<1>t. TypeOK /\ UpdaterTypeOK
  BY DEF IInv, TypeOK, ConnType, ReplyType
<1>1. ASSUME NEW c \in Conns, MultipartRequest(c) PROVE IInv'
  <2> USE <1>1 DEF MultipartRequest, updaterVars
  <2>1. TypeOK'
    <3>1. UpdaterTypeOK'
      BY <1>t DEF UpdaterTypeOK
    <3>2. conn' \in [Conns -> ConnType]
      BY <1>t DEF TypeOK, ConnType
    <3>3. reply' \in [Conns -> ReplyType]
      BY <1>t DEF TypeOK, ReplyType, NoReply, NoPart
    <3> QED
      BY <3>1, <3>2, <3>3 DEF TypeOK
  <2>2. PartsBegun'
    BY <1>t DEF PartsBegun, InPart, IInv, TypeOK, ConnType, ReplyType
  <2> QED
    BY <2>1, <2>2 DEF IInv, OnlyHeldOpen, LenCountsSession, ExitIsRefusal,
                      UnusedEmpty
<1>2. ASSUME NEW c \in Conns, PartBegin(c) PROVE IInv'
  <2>1. PICK s \in Sessions, n \in Sizes :
           /\ UpdaterInit(s)
           /\ conn' = [conn EXCEPT ![c] = [@ EXCEPT !.st = "part", !.part = s,
                                                    !.size = n, !.pos = 0]]
    BY <1>2 DEF PartBegin
  <2>2. reply' = reply /\ ~exited /\ exited' = exited
    BY <1>2, <2>1 DEF PartBegin, UpdaterInit
  <2>3. EndHeldAndOpen({s})
    BY <2>1 DEF UpdaterInit
  <2>4. /\ chan' \in [Sessions -> {"unused", "open", "ended"}]
        /\ stream' = stream
        /\ unread' \in [Sessions -> 0 .. SockCap]
        /\ broken' \in [Sessions -> BOOLEAN]
        /\ \A r \in Sessions : chan'[r] = "open" <=> r = s
        /\ \A r \in Sessions : chan[r] # "unused" => chan'[r] # "unused"
        /\ \A r \in Sessions : chan'[r] = "unused" => chan[r] = "unused"
    BY <2>3, EndHeldEffect
  <2>5. upd' = [ipc |-> s, len |-> 0, status |-> "OK"]
    BY <2>1 DEF UpdaterInit, ZeroedUpdater
  <2>6. s # BadIpc /\ s # NoIpc /\ chan[s] = "unused"
    BY <2>1 DEF UpdaterInit, Fresh, Sessions, BadIpc, NoIpc
  <2>7. TypeOK'
    <3>1. upd' \in UpdaterType
      BY <2>5 DEF UpdaterType
    <3>2. UpdaterTypeOK'
      BY <1>t, <2>2, <2>4, <3>1 DEF UpdaterTypeOK
    <3>3. conn' \in [Conns -> ConnType]
      BY <1>t, <2>1 DEF TypeOK, ConnType
    <3> QED
      BY <1>t, <2>2, <3>2, <3>3 DEF TypeOK
  <2>8. OnlyHeldOpen'
    BY <2>4, <2>5 DEF OnlyHeldOpen
  <2>9. LenCountsSession'
    <3>1. stream[s] = <<>>
      BY <2>6 DEF IInv, UnusedEmpty
    <3> QED
      <4>1. upd'.ipc = s /\ upd'.len = 0 /\ stream'[s] = <<>>
        BY <2>4, <2>5, <3>1
      <4>2. Len(<<>>) = 0 /\ 0 % LenMod = 0
        OBVIOUS
      <4> QED
        BY <4>1, <4>2 DEF LenCountsSession
  <2>10. PartsBegun'
    <3>1. \A d \in Conns : d # c => conn'[d] = conn[d]
      BY <1>t, <2>1 DEF TypeOK, ConnType, ReplyType
    <3>2. conn'[c].part = s /\ conn'[c].size = n /\ conn'[c].pos = 0
      BY <1>t, <2>1 DEF TypeOK, ConnType, ReplyType
    <3>3. chan'[s] # "unused"
      BY <2>4
    <3> QED
      BY <2>4, <3>1, <3>2, <3>3 DEF PartsBegun, InPart, IInv
  <2>11. ExitIsRefusal'
    BY <2>2, <2>5, <2>6 DEF ExitIsRefusal
  <2>12. UnusedEmpty'
    BY <2>4 DEF UnusedEmpty, IInv
  <2> QED
    BY <2>7, <2>8, <2>9, <2>10, <2>11, <2>12 DEF IInv
<1>3. ASSUME NEW c \in Conns, PartBeginRefused(c) PROVE IInv'
  <2>1. EndHeldAndOpen({}) /\ exited' /\ UNCHANGED <<conn, reply>>
    BY <1>3 DEF PartBeginRefused, UpdaterInitRefused
  <2>2. upd' = [ipc |-> BadIpc, len |-> 0, status |-> "OK"]
    BY <1>3 DEF PartBeginRefused, UpdaterInitRefused, ZeroedUpdater
  <2>3. /\ chan' \in [Sessions -> {"unused", "open", "ended"}]
        /\ stream' = stream
        /\ unread' \in [Sessions -> 0 .. SockCap]
        /\ broken' \in [Sessions -> BOOLEAN]
        /\ \A r \in Sessions : chan'[r] # "open"
        /\ \A r \in Sessions : chan[r] # "unused" => chan'[r] # "unused"
        /\ \A r \in Sessions : chan'[r] = "unused" => chan[r] = "unused"
    BY <2>1, EndHeldEffect
  <2>4. BadIpc \notin Sessions
    BY DEF BadIpc, Sessions
  <2>5. TypeOK'
    <3>1. upd' \in UpdaterType
      BY <2>2 DEF UpdaterType
    <3>2. exited' \in BOOLEAN /\ stream' \in [Sessions -> Seq(Byte)]
      BY <1>t, <2>1, <2>3 DEF UpdaterTypeOK
    <3>3. UpdaterTypeOK'
      BY <2>3, <3>1, <3>2 DEF UpdaterTypeOK
    <3> QED
      BY <1>t, <2>1, <3>3 DEF TypeOK
  <2> QED
    BY <2>1, <2>2, <2>3, <2>4, <2>5
    DEF IInv, OnlyHeldOpen, LenCountsSession, PartsBegun, InPart,
        ExitIsRefusal, UnusedEmpty, PartBeginRefused, UpdaterInitRefused
<1>4. ASSUME NEW c \in Conns, PartData(c) PROVE IInv'
  <2>0. PICK n \in 1 .. conn[c].size - conn[c].pos : \E w \in WriteResults(n) :
           /\ UpdaterWrite(conn[c].part, conn[c].pos, w)
           /\ conn' = [conn EXCEPT ![c].pos = @ + Consumed(w, n)]
    BY <1>4 DEF PartData
  <2>1. PICK w \in WriteResults(n) :
           /\ UpdaterWrite(conn[c].part, conn[c].pos, w)
           /\ conn' = [conn EXCEPT ![c].pos = @ + Consumed(w, n)]
    BY <2>0
  <2> DEFINE k == Clamped(w)
             h == upd.ipc
             p == conn[c].part
             f == conn[c].pos
  <2>2. InPart(c) /\ ~exited /\ UpdaterActive /\ reply' = reply
    BY <1>4 DEF PartData
  <2>3. /\ p \in Sessions /\ chan[p] # "unused"
        /\ conn[c].size \in Sizes /\ f \in Nat /\ f <= conn[c].size
        /\ conn[c].size \in Nat
    BY <1>t, <2>2 DEF IInv, PartsBegun, TypeOK, ConnType, ReplyType
  <2>4. h \in Sessions
    BY <1>t, <2>2 DEF UpdaterActive, IInv, ExitIsRefusal, UpdaterTypeOK, UpdaterType
  <2>5. /\ k \in Nat /\ f + k <= conn[c].size
        /\ unread[h] + k \in 0 .. SockCap
    <3>1. unread[h] \in 0 .. SockCap
      BY <1>t, <2>4 DEF UpdaterTypeOK, UpdaterType
    <3>2. CASE w = -1
      BY <2>3, <3>1, <3>2 DEF Clamped
    <3>3. CASE w \in 1 .. n /\ unread[h] + w <= SockCap
      BY <2>1, <2>3, <3>1, <3>3 DEF Clamped
    <3> QED
      BY <3>2, <3>3 DEF WriteResults
  <2>6. /\ stream' = [stream EXCEPT ![h] = @ \o Bytes(p, f, k)]
        /\ unread' = [unread EXCEPT ![h] = @ + k]
        /\ upd' = [upd EXCEPT !.len = (@ + k) % LenMod]
        /\ chan' = chan /\ broken' = broken /\ exited' = exited
    BY <2>1 DEF UpdaterWrite
  <2>7. conn' = [conn EXCEPT ![c].pos = f + k]
    BY <2>1 DEF Consumed
  <2>8. stream[h] \in Seq(Byte)
    BY <1>t, <2>4 DEF UpdaterTypeOK, UpdaterType
  <2> HIDE DEF k
  <2>9. /\ stream[h] \o Bytes(p, f, k) \in Seq(Byte)
        /\ Len(stream[h] \o Bytes(p, f, k)) = Len(stream[h]) + k
    <3>1. k \in Nat /\ f \in Nat /\ p \in Sessions
      BY <2>3, <2>5
    <3>2. \A q \in Seq(Byte), a \in Sessions, b \in Nat, d \in Nat :
             /\ q \o Bytes(a, b, d) \in Seq(Byte)
             /\ Len(q \o Bytes(a, b, d)) = Len(q) + d
      BY AppendBytes
    <3> HIDE DEF p, f, h
    <3> QED
      BY <2>8, <3>1, <3>2
  <2>10. (upd.len + k) % LenMod \in 0 .. LenMod - 1
    BY <1>t, <2>5 DEF UpdaterTypeOK, UpdaterType
  <2>11. TypeOK'
    <3>1. UpdaterTypeOK'
      BY <1>t, <2>4, <2>5, <2>6, <2>9, <2>10 DEF UpdaterTypeOK, UpdaterType
    <3>2. f + k \in Nat
      BY <2>3, <2>5
    <3> QED
      <4>1. conn' \in [Conns -> ConnType]
        BY <1>t, <2>7, <3>2 DEF TypeOK, ConnType
      <4> QED
        BY <1>t, <2>2, <3>1, <4>1 DEF TypeOK
  <2>12. OnlyHeldOpen'
    BY <1>t, <2>6 DEF OnlyHeldOpen, IInv, UpdaterTypeOK, UpdaterType
  <2>13. LenCountsSession'
    <3>1. upd'.ipc = h /\ upd'.len = (upd.len + k) % LenMod
      BY <1>t, <2>6 DEF UpdaterTypeOK, UpdaterType
    <3>2. Len(stream'[h]) = Len(stream[h]) + k
      BY <1>t, <2>4, <2>6, <2>9 DEF UpdaterTypeOK, UpdaterType
    <3>3. upd.len = Len(stream[h]) % LenMod
      BY <2>4 DEF IInv, LenCountsSession
    <3>4. Len(stream[h]) \in Nat
      BY <2>8
    <3>5. ((Len(stream[h]) % LenMod) + k) % LenMod = (Len(stream[h]) + k) % LenMod
      BY <2>5, <3>4, ModPlus
    <3> QED
      BY <2>4, <3>1, <3>2, <3>3, <3>5 DEF LenCountsSession
  <2>14. PartsBegun'
    BY <1>t, <2>3, <2>5, <2>6, <2>7 DEF PartsBegun, InPart, IInv, TypeOK, ConnType, ReplyType
  <2>15. ExitIsRefusal'
    BY <1>t, <2>6 DEF ExitIsRefusal, IInv, UpdaterTypeOK, UpdaterType
  <2>16. UnusedEmpty'
    <3>1. chan[h] # "unused"
      BY <2>4 DEF IInv, OnlyHeldOpen
    <3> QED
      BY <1>t, <2>6, <3>1 DEF UnusedEmpty, IInv, UpdaterTypeOK, UpdaterType
  <2> QED
    BY <2>11, <2>12, <2>13, <2>14, <2>15, <2>16 DEF IInv
<1>5. ASSUME NEW c \in Conns, PartDataIgnored(c) PROVE IInv'
  <2>1. InPart(c) /\ UNCHANGED <<updaterVars, reply>>
    BY <1>5 DEF PartDataIgnored
  <2>2. PICK n \in 1 .. conn[c].size - conn[c].pos :
           conn' = [conn EXCEPT ![c].pos = @ + n]
    BY <1>5 DEF PartDataIgnored
  <2>3. /\ conn[c].size \in Sizes /\ conn[c].size \in Nat
        /\ conn[c].pos \in Nat /\ conn[c].pos <= conn[c].size
    BY <1>t, <2>1 DEF IInv, PartsBegun, TypeOK, ConnType, ReplyType
  <2>4. conn[c].pos + n \in Nat /\ conn[c].pos + n <= conn[c].size
    BY <2>2, <2>3
  <2>5. TypeOK'
    <3>1. UpdaterTypeOK'
      BY <1>t, <2>1 DEF UpdaterTypeOK, updaterVars
    <3>2. conn' \in [Conns -> ConnType]
      BY <1>t, <2>2, <2>4 DEF TypeOK, ConnType
    <3> QED
      BY <1>t, <2>1, <3>1, <3>2 DEF TypeOK
  <2>6. PartsBegun'
    BY <1>t, <2>1, <2>2, <2>4 DEF PartsBegun, InPart, IInv, TypeOK, updaterVars, ConnType, ReplyType
  <2> QED
    BY <2>1, <2>5, <2>6 DEF IInv, OnlyHeldOpen, LenCountsSession,
                            ExitIsRefusal, UnusedEmpty, updaterVars
<1>6. ASSUME NEW c \in Conns, HandlePartEnd(c), ~exited,
             NEW st \in {"idle", "request"}, NEW b \in BOOLEAN,
             conn' = [conn EXCEPT ![c] = [IdleConn EXCEPT !.st = st, !.closing = b]]
      PROVE  IInv'
  <2>1. EndHeldAndOpen({}) /\ exited' = exited
    BY <1>6 DEF HandlePartEnd, UpdaterFree
  <2>2. upd' = [ipc |-> NoIpc, len |-> 0, status |-> "OK"]
    BY <1>6 DEF HandlePartEnd, UpdaterFree, ZeroedUpdater
  <2>3. /\ chan' \in [Sessions -> {"unused", "open", "ended"}]
        /\ stream' = stream
        /\ unread' \in [Sessions -> 0 .. SockCap]
        /\ broken' \in [Sessions -> BOOLEAN]
        /\ \A r \in Sessions : chan'[r] # "open"
        /\ \A r \in Sessions : chan[r] # "unused" => chan'[r] # "unused"
        /\ \A r \in Sessions : chan'[r] = "unused" => chan[r] = "unused"
    BY <2>1, EndHeldEffect
  <2>4. NoIpc \notin Sessions /\ NoIpc # BadIpc
    BY DEF NoIpc, BadIpc, Sessions
  <2>5. Printed(upd.len) \in Int
    BY <1>t DEF UpdaterTypeOK, Printed, UpdaterType
  <2>6. reply' \in [Conns -> ReplyType]
    BY <1>t, <1>6, <2>5 DEF HandlePartEnd, TypeOK, ReplyType, ConnType
  <2>7. UpdaterTypeOK'
    BY <1>t, <2>1, <2>2, <2>3 DEF UpdaterTypeOK, UpdaterType
  <2>8. TypeOK'
    BY <1>t, <1>6, <2>6, <2>7 DEF TypeOK, IdleConn, NoPart, ConnType, ReplyType
  <2>9. PartsBegun'
    BY <1>t, <1>6, <2>3 DEF PartsBegun, InPart, IInv, TypeOK, IdleConn, ConnType, ReplyType
  <2> QED
    BY <1>6, <2>1, <2>2, <2>3, <2>4, <2>8, <2>9
    DEF IInv, OnlyHeldOpen, LenCountsSession, ExitIsRefusal, UnusedEmpty
<1>7. ASSUME NEW c \in Conns, PartEnd(c) PROVE IInv'
  <2>1. conn' = [conn EXCEPT ![c] = [IdleConn EXCEPT !.st = "request",
                                                     !.closing = TRUE]]
    BY <1>7 DEF PartEnd
  <2> QED
    BY <1>6, <1>7, <2>1 DEF PartEnd
<1>8. ASSUME NEW c \in Conns, Abort(c) PROVE IInv'
  <2>1. conn' = [conn EXCEPT ![c] = [IdleConn EXCEPT !.st = "idle",
                                                     !.closing = FALSE]]
    BY <1>8 DEF Abort, IdleConn
  <2> QED
    BY <1>6, <1>8, <2>1 DEF Abort
<1>9. ASSUME NEW c \in Conns, RequestEnd(c) \/ Close(c) PROVE IInv'
  <2>1. UNCHANGED <<updaterVars, reply>>
    BY <1>9 DEF RequestEnd, Close
  <2>2. conn' = [conn EXCEPT ![c].st = "done"] \/ conn' = [conn EXCEPT ![c] = IdleConn]
    BY <1>9 DEF RequestEnd, Close
  <2>3. conn' \in [Conns -> ConnType]
    <3>1. IdleConn \in ConnType
      BY DEF IdleConn, ConnType, NoPart
    <3>2. [conn[c] EXCEPT !.st = "done"] \in ConnType
      BY <1>t DEF TypeOK, ConnType
    <3> QED
      BY <1>t, <2>2, <3>1, <3>2 DEF TypeOK
  <2>4. UpdaterTypeOK'
    BY <1>t, <2>1 DEF UpdaterTypeOK, updaterVars
  <2>5. TypeOK'
    BY <1>t, <2>1, <2>3, <2>4 DEF TypeOK
  <2>6. \A d \in Conns : InPart(d)' => InPart(d) /\ conn'[d] = conn[d]
    BY <1>t, <2>2 DEF InPart, TypeOK, ConnType, IdleConn
  <2>7. PartsBegun'
    BY <2>1, <2>6 DEF PartsBegun, IInv, updaterVars
  <2> QED
    BY <2>1, <2>5, <2>7 DEF IInv, OnlyHeldOpen, LenCountsSession, ExitIsRefusal,
                      UnusedEmpty, updaterVars
<1>10. ASSUME NEW s \in Sessions, Swupdate(s) PROVE IInv'
  <2>1. UNCHANGED <<upd, chan, stream, exited, conn, reply>>
    BY <1>10 DEF Swupdate, SwRead, SwClose
  <2>2. UpdaterTypeOK'
    <3>1. unread' \in [Sessions -> 0 .. SockCap]
      <4>1. unread \in [Sessions -> 0 .. SockCap]
        BY <1>t DEF UpdaterTypeOK
      <4>2. \/ unread' = unread
            \/ unread[s] > 0 /\ unread' = [unread EXCEPT ![s] = @ - 1]
        BY <1>10 DEF Swupdate, SwRead, SwClose
      <4> QED
        BY <4>1, <4>2
    <3>2. broken' \in [Sessions -> BOOLEAN]
      <4>1. broken \in [Sessions -> BOOLEAN]
        BY <1>t DEF UpdaterTypeOK
      <4>2. broken' = broken \/ broken' = [broken EXCEPT ![s] = TRUE]
        BY <1>10 DEF Swupdate, SwRead, SwClose
      <4> QED
        BY <4>1, <4>2
    <3> QED
      BY <1>t, <2>1, <3>1, <3>2 DEF UpdaterTypeOK
  <2> QED
    BY <1>t, <2>1, <2>2
    DEF IInv, TypeOK, OnlyHeldOpen, LenCountsSession, PartsBegun, InPart,
        ExitIsRefusal, UnusedEmpty, ConnType, ReplyType
<1>11. ASSUME UNCHANGED vars PROVE IInv'
  BY <1>t, <1>11
  DEF vars, updaterVars, IInv, TypeOK, UpdaterTypeOK, OnlyHeldOpen,
      LenCountsSession, PartsBegun, InPart, ExitIsRefusal, UnusedEmpty, UpdaterType,
      ConnType, ReplyType
<1> QED
  BY <1>1, <1>2, <1>3, <1>4, <1>5, <1>7, <1>8, <1>9, <1>10, <1>11
  DEF Next, Handler, Exited

\* The inductive invariant, and with it type correctness, the single open
\* session and the count of its bytes, in every reachable state.
THEOREM Invariance == SafetySpec => []IInv
BY InitInv, NextInv, PTL DEF SafetySpec

\* Type correctness of http->updater, the sessions and the connections.
THEOREM TypeCorrect == SafetySpec => []TypeOK
BY Invariance, PTL DEF IInv

\* No session with swupdate is ever open besides the one the updater holds:
\* none leaks when connections replace, abort or free each other's upload.
THEOREM NoSessionLeaks == SafetySpec => []OnlyHeldOpen
BY Invariance, PTL DEF IInv

\* The count in the reply's "received" is that of the session in progress.
THEOREM CountIsSessionLength == SafetySpec => []LenCountsSession
BY Invariance, PTL DEF IInv

-----------------------------------------------------------------------------
\* Refinement: each step of UpdateRoute is a step of InstallChannel.
LEMMA EndHeldFinishes ==
    ASSUME IInv, EndHeldAndOpen({})
    PROVE  Channel!Finish \/ UNCHANGED Channel!channelVars
<1> DEFINE open  == {s \in Sessions : chan[s] = "open"}
           ended == {s \in Sessions : chan[s] = "ended"}
<1>1. /\ stream' = stream
      /\ \A s \in Sessions : chan'[s] # "open"
      /\ \A s \in Sessions : chan'[s] = "ended" <=> chan[s] # "unused"
  BY EndHeldEffect
<1>2. \A s \in Sessions : chan[s] \in {"unused", "open", "ended"}
  BY DEF IInv, TypeOK, UpdaterTypeOK
<1>3. open' = {}
  BY <1>1
<1>4. ended' = ended \cup open
  BY <1>1, <1>2
<1>5. CASE open # {}
  BY <1>1, <1>3, <1>4, <1>5 DEF Channel!Finish
<1>6. CASE open = {}
  BY <1>1, <1>3, <1>4, <1>6 DEF Channel!channelVars
<1> QED
  BY <1>5, <1>6

\* Every step is a step of InstallChannel or leaves its state alone.
LEMMA StepRefines == IInv /\ [Next]_vars => [Channel!Next]_Channel!channelVars
<1> SUFFICES ASSUME IInv, [Next]_vars
             PROVE  Channel!Next \/ UNCHANGED Channel!channelVars
  BY DEF Channel!channelVars
<1> DEFINE open  == {s \in Sessions : chan[s] = "open"}
           ended == {s \in Sessions : chan[s] = "ended"}
<1>t. /\ chan \in [Sessions -> {"unused", "open", "ended"}]
      /\ stream \in [Sessions -> Seq(Byte)]
  BY DEF IInv, TypeOK, UpdaterTypeOK
<1>1. ASSUME UNCHANGED <<chan, stream>> PROVE UNCHANGED Channel!channelVars
  BY <1>1 DEF Channel!channelVars
<1>2. ASSUME NEW c \in Conns, PartBegin(c) PROVE Channel!Next
  <2>1. PICK s \in Sessions : UpdaterInit(s)
    BY <1>2 DEF PartBegin
  <2>2. EndHeldAndOpen({s}) /\ chan[s] = "unused"
    BY <2>1 DEF UpdaterInit, Fresh, Sessions
  <2>3. /\ stream' = stream
        /\ \A r \in Sessions : chan'[r] = "open" <=> r = s
        /\ \A r \in Sessions \ {s} : chan'[r] = "ended" <=> chan[r] # "unused"
    BY <2>2, EndHeldEffect
  <2>4. open' = {s}
    BY <2>3
  <2>5. ended' = ended \cup open
    BY <1>t, <2>2, <2>3, <2>4
  <2>6. s \notin open \cup ended
    BY <2>2
  <2>7. Channel!Start(s)
    BY <2>3, <2>4, <2>5, <2>6 DEF Channel!Start
  <2> QED
    BY <2>7 DEF Channel!Next
<1>3. ASSUME NEW c \in Conns, PartBeginRefused(c)
      PROVE  Channel!Next \/ UNCHANGED Channel!channelVars
  BY <1>3, EndHeldFinishes DEF PartBeginRefused, UpdaterInitRefused, Channel!Next
<1>4. ASSUME NEW c \in Conns, PartData(c) PROVE Channel!Next
  <2>1. PICK n \in 1 .. conn[c].size - conn[c].pos : \E w \in WriteResults(n) :
           UpdaterWrite(conn[c].part, conn[c].pos, w)
    BY <1>4 DEF PartData
  <2>2. PICK w \in WriteResults(n) : UpdaterWrite(conn[c].part, conn[c].pos, w)
    BY <2>1
  <2> DEFINE h == upd.ipc
             b == Bytes(conn[c].part, conn[c].pos, Clamped(w))
  <2>3. InPart(c) /\ ~exited /\ UpdaterActive
    BY <1>4 DEF PartData
  <2>4. h \in Sessions /\ chan[h] = "open"
    BY <2>3 DEF UpdaterActive, IInv, TypeOK, ExitIsRefusal, UpdaterTypeOK,
                UpdaterType, OnlyHeldOpen
  <2>5. stream' = [stream EXCEPT ![h] = @ \o b] /\ chan' = chan
    BY <2>2 DEF UpdaterWrite
  <2>6. /\ conn[c].part \in Sessions /\ conn[c].pos \in Nat
        /\ conn[c].size \in Nat
    BY <2>3 DEF IInv, PartsBegun, TypeOK, ConnType
  <2>7. Clamped(w) \in Nat
    BY <2>6 DEF WriteResults, Clamped
  <2>8. b \in Seq(Byte)
    <3>1. b \in [1 .. Clamped(w) -> Byte]
      BY <2>6, <2>7 DEF Bytes, Byte
    <3> QED
      BY <2>7, <3>1, SeqDef
  <2> HIDE DEF b, h
  <2>9. stream[h] \in Seq(Byte) /\ stream'[h] = stream[h] \o b
    BY <1>t, <2>4, <2>5
  <2>10. Channel!Continues(stream'[h], stream[h])
    BY <2>8, <2>9 DEF Channel!Continues
  <2>11. stream' = [stream EXCEPT ![h] = stream'[h]]
    BY <2>5, <2>9
  <2>12. Channel!Push(h)
    BY <2>4, <2>5, <2>10, <2>11 DEF Channel!Push
  <2> QED
    BY <2>4, <2>12 DEF Channel!Next
<1>5. ASSUME NEW c \in Conns, HandlePartEnd(c)
      PROVE  Channel!Next \/ UNCHANGED Channel!channelVars
  BY <1>5, EndHeldFinishes DEF HandlePartEnd, UpdaterFree, Channel!Next
<1>6. ASSUME NEW c \in Conns,
             MultipartRequest(c) \/ PartDataIgnored(c) \/ RequestEnd(c) \/ Close(c)
      PROVE  UNCHANGED <<chan, stream>>
  BY <1>6 DEF MultipartRequest, PartDataIgnored, RequestEnd, Close, updaterVars
<1>7. ASSUME NEW s \in Sessions, Swupdate(s) PROVE UNCHANGED <<chan, stream>>
  BY <1>7 DEF Swupdate, SwRead, SwClose
<1>8. ASSUME UNCHANGED vars PROVE UNCHANGED <<chan, stream>>
  BY <1>8 DEF vars, updaterVars
<1>9. ASSUME NEW c \in Conns, Handler(c)
      PROVE  Channel!Next \/ UNCHANGED Channel!channelVars
  BY <1>1, <1>2, <1>3, <1>4, <1>5, <1>6, <1>9 DEF Handler, PartEnd, Abort
<1> QED
  BY <1>1, <1>7, <1>8, <1>9 DEF Next, Exited

\* Whatever any number of clients do with the one updater they share, what
\* swupdate sees is InstallChannel: one installation at a time, ended for
\* good, its bytes only ever appended.
THEOREM Refinement == SafetySpec => ImplementsChannel
<1>1. Init => Channel!Init
  BY DEF Init, UpdaterStart, Channel!Init
<1>2. QED
  BY <1>1, StepRefines, Invariance, PTL DEF SafetySpec, ImplementsChannel, Channel!Spec

-----------------------------------------------------------------------------
\* Every reply's count is that of the session that was open, which its part
\* end closes.
LEMMA PartEndCounts ==
    ASSUME IInv, ~exited, NEW c \in Conns, NEW d \in Conns, HandlePartEnd(c)
    PROVE  CountsItsSession(d)
<1>1. reply \in [Conns -> ReplyType]
  BY DEF IInv, TypeOK
<1>2. CASE d # c
  <2>1. reply'[d] = reply[d]
    BY <1>1, <1>2 DEF HandlePartEnd
  <2> QED
    BY <2>1 DEF CountsItsSession
<1>3. CASE d = c
  <2>1. reply'[d].received = Printed(upd.len)
    BY <1>1, <1>3 DEF HandlePartEnd
  <2>2. EndHeldAndOpen({})
    BY DEF HandlePartEnd, UpdaterFree
  <2>3. \A s \in Sessions : chan[s] # "unused" => chan'[s] = "ended"
    BY <2>2, EndHeldEffect
  <2>4. ASSUME NEW s \in Sessions, chan[s] = "open"
        PROVE  /\ chan'[s] = "ended"
               /\ upd.len = Len(stream[s]) % LenMod
    BY <2>3, <2>4 DEF IInv, OnlyHeldOpen, LenCountsSession
  <2>5. ASSUME \A s \in Sessions : chan[s] # "open" PROVE Printed(upd.len) = 0
    <3>1. upd.len = 0
      BY <2>5 DEF IInv, OnlyHeldOpen, LenCountsSession
    <3> QED
      BY <3>1, UpdaterAssumption DEF Printed
  <2> QED
    BY <2>1, <2>4, <2>5 DEF CountsItsSession
<1> QED
  BY <1>2, <1>3

\* The count of every reply is the length of the session that was open when
\* its part ended (http_route_update.c, 28-45), whoever wrote its bytes.
THEOREM RepliesCount == SafetySpec => ReplyCountsSession
<1>1. IInv /\ [Next]_vars => [\A c \in Conns : CountsItsSession(c)]_vars
  <2> SUFFICES ASSUME IInv, Next, NEW d \in Conns PROVE CountsItsSession(d)
    OBVIOUS
  <2>1. reply \in [Conns -> ReplyType]
    BY DEF IInv, TypeOK
  <2>2. ASSUME NEW c \in Conns, HandlePartEnd(c), ~exited PROVE CountsItsSession(d)
    BY <2>2, PartEndCounts
  <2>3. ASSUME reply'[d] = reply[d] \/ reply'[d] = NoReply PROVE CountsItsSession(d)
    BY <2>3 DEF CountsItsSession
  <2>4. ASSUME NEW c \in Conns, MultipartRequest(c)
        PROVE  reply'[d] = reply[d] \/ reply'[d] = NoReply
    BY <2>1, <2>4 DEF MultipartRequest
  <2>5. ASSUME NEW c \in Conns,
               \/ PartBegin(c) \/ PartBeginRefused(c) \/ PartData(c)
               \/ PartDataIgnored(c) \/ RequestEnd(c) \/ Close(c)
        PROVE  reply' = reply
    BY <2>5 DEF PartBegin, PartBeginRefused, PartData, PartDataIgnored,
                RequestEnd, Close
  <2>6. ASSUME NEW s \in Sessions, Swupdate(s) PROVE reply' = reply
    BY <2>6 DEF Swupdate
  <2>7. ASSUME Exited PROVE reply' = reply
    BY <2>7 DEF Exited, vars
  <2> QED
    BY <2>2, <2>3, <2>4, <2>5, <2>6, <2>7 DEF Next, Handler, PartEnd, Abort
<1> QED
  BY <1>1, Invariance, PTL DEF SafetySpec, ReplyCountsSession

-----------------------------------------------------------------------------
\* The session in progress is the last one started.
HeldNewest ==
    \A r \in Sessions : upd.ipc \in Sessions /\ chan[r] # "unused" => r <= upd.ipc

\* No two connections are inside the same part.
PartsDistinct ==
    \A c, d \in Conns : InPart(c) /\ InPart(d) /\ conn[c].part = conn[d].part => c = d

\* Bytes are those of parts that began ...
BytesBegun ==
    \A s \in Sessions : \A i \in 1 .. Len(stream[s]) :
        chan[stream[s][i][1]] # "unused"

\* ... and, of a part in progress, those already consumed.
BytesBehind ==
    \A c \in Conns : InPart(c) =>
        \A s \in Sessions : \A i \in 1 .. Len(stream[s]) :
            stream[s][i][1] = conn[c].part => stream[s][i][2] <= conn[c].pos

OrderInv ==
    /\ HeldNewest
    /\ PartsDistinct
    /\ BytesBegun
    /\ BytesBehind
    /\ NoOlderSession
    /\ EachByteOnceInOrder

-----------------------------------------------------------------------------
\* The order invariant holds initially: nothing was written.
LEMMA OrderInit == Init => OrderInv
<1> SUFFICES ASSUME Init PROVE OrderInv
  OBVIOUS
<1>1. \A s \in Sessions : chan[s] = "unused" /\ stream[s] = <<>>
  BY DEF Init, UpdaterStart
<1>2. \A s \in Sessions : 1 .. Len(stream[s]) = {} /\ DOMAIN stream[s] = {}
  BY <1>1
<1>3. \A c \in Conns : ~InPart(c)
  BY DEF Init, InPart, IdleConn
<1> QED
  BY <1>1, <1>2, <1>3
  DEF OrderInv, HeldNewest, PartsDistinct, BytesBegun, BytesBehind,
      NoOlderSession, EachByteOnceInOrder

\* A step that writes nothing: streams stay, sessions stay begun, and a
\* connection inside a part was inside it before, at the same place or earlier.
LEMMA QuietStep ==
    ASSUME IInv, OrderInv, stream' = stream,
           \A r \in Sessions : chan[r] # "unused" => chan'[r] # "unused",
           \A r \in Sessions : upd'.ipc \in Sessions /\ chan'[r] # "unused" => r <= upd'.ipc,
           \A c \in Conns : InPart(c)' =>
              /\ InPart(c)
              /\ conn'[c].part = conn[c].part
              /\ conn[c].pos <= conn'[c].pos
              /\ conn'[c].pos \in Nat
    PROVE  OrderInv'
<1>1. \A s \in Sessions : \A i \in 1 .. Len(stream[s]) :
         stream[s][i][1] \in Sessions /\ stream[s][i][2] \in Nat
  BY DEF IInv, TypeOK, UpdaterTypeOK, Byte
<1>2. \A c \in Conns : conn[c].pos \in Nat
  BY DEF IInv, TypeOK, ConnType
<1>3. HeldNewest'
  BY DEF HeldNewest
<1>4. PartsDistinct'
  BY DEF OrderInv, PartsDistinct
<1>5. BytesBegun'
  BY <1>1 DEF OrderInv, BytesBegun
<1>6. BytesBehind'
  <2> SUFFICES ASSUME NEW c \in Conns, InPart(c)', NEW s \in Sessions,
                      NEW i \in 1 .. Len(stream[s]),
                      stream[s][i][1] = conn'[c].part
               PROVE  stream[s][i][2] <= conn'[c].pos
    BY DEF BytesBehind
  <2>1. stream[s][i][2] <= conn[c].pos
    BY DEF OrderInv, BytesBehind
  <2> QED
    BY <1>1, <1>2, <2>1
<1>7. NoOlderSession' /\ EachByteOnceInOrder'
  BY DEF OrderInv, NoOlderSession, EachByteOnceInOrder
<1> QED
  BY <1>3, <1>4, <1>5, <1>6, <1>7 DEF OrderInv

\* A part that begins takes a number no byte bears yet.
LEMMA BeginOrder ==
    ASSUME IInv, OrderInv, NEW c \in Conns, PartBegin(c)
    PROVE  OrderInv'
<1>1. PICK s \in Sessions, n \in Sizes :
         /\ UpdaterInit(s)
         /\ conn' = [conn EXCEPT ![c] = [@ EXCEPT !.st = "part", !.part = s,
                                                  !.size = n, !.pos = 0]]
  BY DEF PartBegin
<1>2. EndHeldAndOpen({s}) /\ upd'.ipc = s
  BY <1>1 DEF UpdaterInit, ZeroedUpdater
<1>3. /\ stream' = stream
      /\ \A r \in Sessions : chan[r] # "unused" => chan'[r] # "unused"
      /\ \A r \in Sessions : chan'[r] = "open" <=> r = s
      /\ \A r \in Sessions \ {s} : chan'[r] = "ended" <=> chan[r] # "unused"
      /\ chan' \in [Sessions -> {"unused", "open", "ended"}]
  BY <1>2, EndHeldEffect
<1>4. chan[s] = "unused" /\ \A r \in Sessions : chan[r] # "unused" => r < s
  BY <1>1 DEF UpdaterInit, Fresh, Sessions
<1>5. \A r \in Sessions : chan'[r] # "unused" => r <= s
  <2> SUFFICES ASSUME NEW r \in Sessions, chan'[r] # "unused" PROVE r <= s
    OBVIOUS
  <2>1. CASE r = s
    BY <2>1 DEF Sessions
  <2>2. CASE r # s
    <3>1. chan[r] # "unused"
      BY <1>3, <2>2
    <3> QED
      BY <1>4, <3>1 DEF Sessions
  <2> QED
    BY <2>1, <2>2
<1>6. /\ conn'[c].part = s
      /\ \A d \in Conns : d # c => conn'[d] = conn[d]
  BY <1>1 DEF IInv, TypeOK, ConnType
<1>7. \A d \in Conns : InPart(d) => conn[d].part # s
  BY <1>4 DEF IInv, PartsBegun
<1>8. \A r \in Sessions : \A i \in 1 .. Len(stream[r]) :
         stream[r][i][1] # s /\ stream[r][i][1] \in Sessions
  BY <1>4 DEF OrderInv, BytesBegun, IInv, TypeOK, UpdaterTypeOK, Byte
<1>9. HeldNewest'
  BY <1>2, <1>5 DEF HeldNewest
<1>10. PartsDistinct'
  BY <1>6, <1>7 DEF PartsDistinct, OrderInv, InPart
<1>11. BytesBegun'
  BY <1>3, <1>8 DEF OrderInv, BytesBegun
<1>12. BytesBehind'
  <2> SUFFICES ASSUME NEW d \in Conns, InPart(d)', NEW r \in Sessions,
                      NEW i \in 1 .. Len(stream[r]),
                      stream[r][i][1] = conn'[d].part
               PROVE  stream[r][i][2] <= conn'[d].pos
    BY <1>3 DEF BytesBehind
  <2>1. d # c
    BY <1>6, <1>8
  <2>2. InPart(d) /\ conn'[d] = conn[d]
    BY <1>6, <2>1 DEF InPart
  <2> QED
    BY <2>2 DEF OrderInv, BytesBehind
<1>13. NoOlderSession' /\ EachByteOnceInOrder'
  BY <1>3 DEF OrderInv, NoOlderSession, EachByteOnceInOrder
<1> QED
  BY <1>9, <1>10, <1>11, <1>12, <1>13 DEF OrderInv

\* A session's bytes after a write; named so that the provers can reason
\* about the result without looking into the concatenation.
With(q, part, from, n) == q \o Bytes(part, from, n)

\* What a write does: the session in progress gets the next k bytes of the
\* part, and the part's position moves by k.
LEMMA DataEffect ==
    ASSUME IInv, NEW c \in Conns, PartData(c)
    PROVE  /\ InPart(c) /\ upd.ipc \in Sessions /\ upd'.ipc = upd.ipc /\ chan' = chan
           /\ conn[c].part \in Sessions /\ conn[c].pos \in Nat
           /\ \E k \in Nat :
                 LET h == upd.ipc
                     L == Len(stream[h])
                 IN
                 /\ conn' = [conn EXCEPT ![c].pos = conn[c].pos + k]
                 /\ Len(stream'[h]) = L + k
                 /\ \A s \in Sessions \ {h} : stream'[s] = stream[s]
                 /\ \A i \in 1 .. L : stream'[h][i] = stream[h][i]
                 /\ \A i \in L + 1 .. L + k :
                       stream'[h][i] = <<conn[c].part, conn[c].pos + (i - L)>>
<1>1. PICK n \in 1 .. conn[c].size - conn[c].pos : \E w \in WriteResults(n) :
         /\ UpdaterWrite(conn[c].part, conn[c].pos, w)
         /\ conn' = [conn EXCEPT ![c].pos = @ + Consumed(w, n)]
  BY DEF PartData
<1>2. PICK w \in WriteResults(n) :
         /\ UpdaterWrite(conn[c].part, conn[c].pos, w)
         /\ conn' = [conn EXCEPT ![c].pos = @ + Consumed(w, n)]
  BY <1>1
<1> DEFINE h == upd.ipc
           p == conn[c].part
           f == conn[c].pos
<1>3. InPart(c) /\ ~exited /\ UpdaterActive
  BY DEF PartData
<1>4. h \in Sessions
  BY <1>3 DEF UpdaterActive, IInv, TypeOK, ExitIsRefusal, UpdaterTypeOK, UpdaterType
<1>5. p \in Sessions /\ f \in Nat /\ conn[c].size \in Nat
  BY <1>3 DEF IInv, PartsBegun, TypeOK, ConnType
<1>6. PICK k \in Nat : k = Clamped(w)
  BY <1>5 DEF WriteResults, Clamped
<1>7. /\ stream' = [stream EXCEPT ![h] = @ \o Bytes(p, f, k)]
      /\ chan' = chan
      /\ upd'.ipc = h
  BY <1>2, <1>6 DEF UpdaterWrite, IInv, TypeOK, UpdaterTypeOK, UpdaterType
<1>8. conn' = [conn EXCEPT ![c].pos = f + k]
  BY <1>2, <1>6 DEF Consumed
<1>9. stream \in [Sessions -> Seq(Byte)]
  BY DEF IInv, TypeOK, UpdaterTypeOK
<1> HIDE DEF h, p, f
<1>10. stream'[h] = With(stream[h], p, f, k) /\ stream[h] \in Seq(Byte)
  BY <1>4, <1>7, <1>9 DEF With
<1>11. \A q \in Seq(Byte), a \in Sessions, b \in Nat, d \in Nat :
          /\ Len(With(q, a, b, d)) = Len(q) + d
          /\ \A i \in 1 .. Len(q) : With(q, a, b, d)[i] = q[i]
          /\ \A i \in Len(q) + 1 .. Len(q) + d :
                With(q, a, b, d)[i] = <<a, b + (i - Len(q))>>
  BY AppendBytes DEF With
<1>12. /\ Len(stream'[h]) = Len(stream[h]) + k
       /\ \A i \in 1 .. Len(stream[h]) : stream'[h][i] = stream[h][i]
       /\ \A i \in Len(stream[h]) + 1 .. Len(stream[h]) + k :
             stream'[h][i] = <<p, f + (i - Len(stream[h]))>>
  <2>1. PICK q \in Seq(Byte) : q = stream[h]
    BY <1>10
  <2>2. PICK a \in Sessions, b \in Nat : a = p /\ b = f
    BY <1>5
  <2>3. /\ Len(With(q, a, b, k)) = Len(q) + k
        /\ \A i \in 1 .. Len(q) : With(q, a, b, k)[i] = q[i]
        /\ \A i \in Len(q) + 1 .. Len(q) + k :
              With(q, a, b, k)[i] = <<a, b + (i - Len(q))>>
    BY <1>11
  <2>4. stream'[h] = With(q, a, b, k)
    BY <1>10, <2>1, <2>2, Zenon
  <2> QED
    BY <2>1, <2>2, <2>3, <2>4, Zenon
<1>13. \A s \in Sessions \ {h} : stream'[s] = stream[s]
  BY <1>7, <1>9
<1> QED
  BY <1>3, <1>4, <1>5, <1>6, <1>7, <1>8, <1>12, <1>13 DEF h, p, f

\* A write appends the next bytes of its part, and moves it past them.
LEMMA DataOrder ==
    ASSUME IInv, IInv', OrderInv, NEW c \in Conns, PartData(c)
    PROVE  OrderInv'
<1> DEFINE h == upd.ipc
           L == Len(stream[h])
           p == conn[c].part
           f == conn[c].pos
<1>1. /\ InPart(c) /\ h \in Sessions /\ upd'.ipc = h /\ chan' = chan
      /\ p \in Sessions /\ f \in Nat
  BY DataEffect
<1>2. PICK k \in Nat :
         /\ conn' = [conn EXCEPT ![c].pos = f + k]
         /\ Len(stream'[h]) = L + k
         /\ \A s \in Sessions \ {h} : stream'[s] = stream[s]
         /\ \A i \in 1 .. L : stream'[h][i] = stream[h][i]
         /\ \A i \in L + 1 .. L + k : stream'[h][i] = <<p, f + (i - L)>>
  BY DataEffect
<1>3. \A s \in Sessions : /\ Len(stream[s]) \in Nat
                          /\ DOMAIN stream[s] = 1 .. Len(stream[s])
                          /\ \A i \in 1 .. Len(stream[s]) :
                                /\ stream[s][i][1] \in Sessions
                                /\ stream[s][i][2] \in Nat
  <2>1. stream \in [Sessions -> Seq(Sessions \X (Nat \ {0}))]
    BY DEF IInv, TypeOK, UpdaterTypeOK, Byte
  <2>2. \A b \in Sessions \X (Nat \ {0}) : b[1] \in Sessions /\ b[2] \in Nat
    OBVIOUS
  <2>3. \A s \in Sessions : \A i \in 1 .. Len(stream[s]) :
           stream[s][i] \in Sessions \X (Nat \ {0})
    BY <2>1
  <2> QED
    BY <2>1, <2>2, <2>3
<1>4. \A d \in Conns : /\ conn[d].part = conn'[d].part
                       /\ conn[d].st = conn'[d].st
                       /\ conn[d].pos \in Nat
                       /\ d # c => conn'[d].pos = conn[d].pos
  BY <1>2 DEF IInv, TypeOK, ConnType
<1>5. conn'[c].pos = f + k
  BY <1>2 DEF IInv, TypeOK, ConnType
<1> HIDE DEF h, L, p, f
<1>L. L = Len(stream[h]) /\ L \in Nat
  BY <1>1, <1>3 DEF L
<1>N. f \in Nat /\ L \in Nat
  BY <1>1, <1>L
<1>D. \A s \in Sessions : DOMAIN stream'[s] = 1 .. Len(stream'[s])
  BY DEF IInv, TypeOK, UpdaterTypeOK
\* A byte of the new streams is one of the old, or one of the k new ones.
<1>6. \A s \in Sessions : \A i \in 1 .. Len(stream'[s]) :
         \/ /\ i \in 1 .. Len(stream[s])
            /\ stream'[s][i] = stream[s][i]
         \/ /\ s = h /\ i \in L + 1 .. L + k
            /\ stream'[s][i] = <<p, f + (i - L)>>
  <2> SUFFICES ASSUME NEW s \in Sessions, NEW i \in 1 .. Len(stream'[s])
               PROVE  \/ /\ i \in 1 .. Len(stream[s])
                         /\ stream'[s][i] = stream[s][i]
                      \/ /\ s = h /\ i \in L + 1 .. L + k
                         /\ stream'[s][i] = <<p, f + (i - L)>>
    OBVIOUS
  <2>1. CASE s # h
    BY <1>2, <2>1
  <2>2. CASE s = h
    <3>1. i \in 1 .. L \/ i \in L + 1 .. L + k
      BY <1>2, <1>L, <2>2
    <3> QED
      BY <1>2, <1>L, <2>2, <3>1
  <2> QED
    BY <2>1, <2>2
\* The old bytes of the part are in sessions up to h, at positions up to f.
<1>7. \A s \in Sessions : \A i \in 1 .. Len(stream[s]) :
         s <= h /\ (stream[s][i][1] = p => stream[s][i][2] <= f)
  <2> SUFFICES ASSUME NEW s \in Sessions, NEW i \in 1 .. Len(stream[s])
               PROVE  s <= h /\ (stream[s][i][1] = p => stream[s][i][2] <= f)
    OBVIOUS
  <2>1. stream[s] # <<>>
    OBVIOUS
  <2>2. chan[s] # "unused"
    BY <2>1 DEF IInv, UnusedEmpty
  <2>3. s <= h
    BY <1>1, <2>2 DEF OrderInv, HeldNewest, h
  <2> QED
    BY <1>1, <2>3 DEF OrderInv, BytesBehind, p, f
<1>8. p <= h
  BY <1>1 DEF IInv, PartsBegun, OrderInv, HeldNewest, h, p
<1>9. HeldNewest' /\ PartsDistinct'
  BY <1>1, <1>4 DEF OrderInv, HeldNewest, PartsDistinct, InPart, h
<1>10. BytesBegun'
  <2> SUFFICES ASSUME NEW s \in Sessions, NEW i \in 1 .. Len(stream'[s])
               PROVE  chan[stream'[s][i][1]] # "unused"
    BY <1>1 DEF BytesBegun
  <2>1. chan[p] # "unused"
    BY <1>1 DEF IInv, PartsBegun, p
  <2>2. CASE i \in 1 .. Len(stream[s]) /\ stream'[s][i] = stream[s][i]
    BY <2>2 DEF OrderInv, BytesBegun
  <2>3. CASE stream'[s][i] = <<p, f + (i - L)>>
    BY <2>1, <2>3
  <2> QED
    BY <1>6, <2>2, <2>3
<1>11. BytesBehind'
  <2> SUFFICES ASSUME NEW d \in Conns, InPart(d)', NEW s \in Sessions,
                      NEW i \in 1 .. Len(stream'[s]),
                      stream'[s][i][1] = conn'[d].part
               PROVE  stream'[s][i][2] <= conn'[d].pos
    BY DEF BytesBehind
  <2>1. InPart(d) /\ conn[d].part = conn'[d].part
    BY <1>4 DEF InPart
  <2>2. CASE i \in 1 .. Len(stream[s]) /\ stream'[s][i] = stream[s][i]
    <3>1. stream[s][i][2] <= conn[d].pos
      BY <2>1, <2>2 DEF OrderInv, BytesBehind
    <3>2. conn[d].pos <= conn'[d].pos /\ conn'[d].pos \in Nat
      BY <1>1, <1>4, <1>5 DEF f
    <3> QED
      BY <1>3, <1>4, <2>2, <3>1, <3>2
  <2>3. CASE i \in L + 1 .. L + k /\ stream'[s][i] = <<p, f + (i - L)>>
    <3>1. d = c
      BY <1>1, <2>1, <2>3 DEF OrderInv, PartsDistinct, p
    <3> QED
      <4>1. stream'[s][i][2] = f + (i - L)
        BY <2>3
      <4> QED
        BY <1>5, <1>N, <2>3, <3>1, <4>1
  <2> QED
    BY <1>6, <2>2, <2>3
<1>12. NoOlderSession'
  <2> SUFFICES ASSUME NEW s \in Sessions, NEW i \in 1 .. Len(stream'[s])
               PROVE  stream'[s][i][1] <= s
    BY <1>D DEF NoOlderSession
  <2> QED
    BY <1>3, <1>6, <1>8 DEF OrderInv, NoOlderSession
<1>13. EachByteOnceInOrder'
  <2> SUFFICES ASSUME NEW s \in Sessions, NEW t \in Sessions,
                      NEW i \in 1 .. Len(stream'[s]), NEW j \in 1 .. Len(stream'[t]),
                      s < t \/ (s = t /\ i < j),
                      stream'[s][i][1] = stream'[t][j][1]
               PROVE  stream'[s][i][2] < stream'[t][j][2]
    BY <1>D DEF EachByteOnceInOrder
  <2>1. CASE /\ i \in 1 .. Len(stream[s]) /\ stream'[s][i] = stream[s][i]
             /\ j \in 1 .. Len(stream[t]) /\ stream'[t][j] = stream[t][j]
    BY <1>3, <2>1 DEF OrderInv, EachByteOnceInOrder
  <2>2. CASE /\ i \in 1 .. Len(stream[s]) /\ stream'[s][i] = stream[s][i]
             /\ j \in L + 1 .. L + k /\ stream'[t][j] = <<p, f + (j - L)>>
    <3>1. stream[s][i][2] <= f /\ stream[s][i][2] \in Nat
      BY <1>3, <1>7, <2>2
    <3> QED
      <4>1. stream'[t][j][2] = f + (j - L) /\ stream'[s][i][2] = stream[s][i][2]
        BY <2>2
      <4> QED
        BY <1>N, <2>2, <3>1, <4>1
  <2>3. CASE s = h /\ i \in L + 1 .. L + k /\ stream'[s][i] = <<p, f + (i - L)>>
    <3>1. CASE j \in 1 .. Len(stream[t])
      \* No old byte comes after a new one.
      <4>1. t <= h
        BY <1>7, <3>1
      <4>2. s = t /\ i < j
        BY <1>1, <2>3, <4>1 DEF Sessions
      <4>3. j <= L
        BY <1>3, <1>L, <2>3, <3>1, <4>2
      <4> QED
        BY <1>1, <1>L, <2>3, <3>1, <4>2, <4>3
    <3>2. CASE /\ t = h /\ j \in L + 1 .. L + k
               /\ stream'[t][j] = <<p, f + (j - L)>>
      <4>1. stream'[s][i][2] = f + (i - L) /\ stream'[t][j][2] = f + (j - L)
        BY <2>3, <3>2
      <4>2. i < j
        BY <1>1, <2>3, <3>2 DEF Sessions
      <4> QED
        BY <1>N, <2>3, <3>2, <4>1, <4>2
    <3> QED
      BY <1>6, <3>1, <3>2
  <2> QED
    BY <1>6, <2>1, <2>2, <2>3
<1> QED
  BY <1>9, <1>10, <1>11, <1>12, <1>13 DEF OrderInv

-----------------------------------------------------------------------------
\* Every step keeps the order invariant.
LEMMA OrderStep == IInv /\ IInv' /\ OrderInv /\ [Next]_vars => OrderInv'
<1> SUFFICES ASSUME IInv, IInv', OrderInv, [Next]_vars PROVE OrderInv'
  OBVIOUS
<1>t. /\ \A c \in Conns : conn[c].pos \in Nat /\ conn'[c].pos \in Nat
      /\ conn \in [Conns -> ConnType]
  BY DEF IInv, TypeOK, ConnType
<1>1. ASSUME NEW c \in Conns, PartBegin(c) PROVE OrderInv'
  BY <1>1, BeginOrder
<1>2. ASSUME NEW c \in Conns, PartData(c) PROVE OrderInv'
  BY <1>2, DataOrder
<1>3. ASSUME EndHeldAndOpen({}), upd'.ipc \notin Sessions,
             \A c \in Conns : InPart(c)' => InPart(c) /\ conn'[c] = conn[c]
      PROVE  OrderInv'
  <2>1. /\ stream' = stream
        /\ \A r \in Sessions : chan[r] # "unused" => chan'[r] # "unused"
    BY <1>3, EndHeldEffect
  <2>2. \A c \in Conns : conn[c].pos <= conn[c].pos
    BY <1>t
  <2> QED
    BY <1>t, <1>3, <2>1, <2>2, QuietStep
<1>4. ASSUME NEW c \in Conns, PartBeginRefused(c) PROVE OrderInv'
  BY <1>3, <1>4 DEF PartBeginRefused, UpdaterInitRefused, ZeroedUpdater, BadIpc,
                    Sessions, InPart
<1>5. ASSUME NEW c \in Conns, HandlePartEnd(c),
             NEW v \in ConnType, v.st # "part", conn' = [conn EXCEPT ![c] = v]
      PROVE  OrderInv'
  <2>1. EndHeldAndOpen({}) /\ upd'.ipc \notin Sessions
    BY <1>5 DEF HandlePartEnd, UpdaterFree, ZeroedUpdater, NoIpc, Sessions
  <2>2. \A d \in Conns : InPart(d)' => InPart(d) /\ conn'[d] = conn[d]
    BY <1>t, <1>5 DEF InPart
  <2> QED
    BY <1>3, <2>1, <2>2
<1>6. ASSUME NEW c \in Conns, PartEnd(c) \/ Abort(c) PROVE OrderInv'
  <2> DEFINE v == [IdleConn EXCEPT !.st = "request", !.closing = TRUE]
  <2>1. /\ v \in ConnType /\ v.st # "part"
        /\ IdleConn \in ConnType /\ IdleConn.st # "part"
    BY DEF IdleConn, ConnType, NoPart
  <2>2. HandlePartEnd(c) /\ (conn' = [conn EXCEPT ![c] = v] \/
                             conn' = [conn EXCEPT ![c] = IdleConn])
    BY <1>6 DEF PartEnd, Abort
  <2> HIDE DEF v
  <2> QED
    BY <1>5, <2>1, <2>2
<1>7. ASSUME UNCHANGED <<upd, chan, stream>>,
             \A c \in Conns : InPart(c)' => /\ InPart(c)
                                           /\ conn'[c].part = conn[c].part
                                           /\ conn[c].pos <= conn'[c].pos
      PROVE  OrderInv'
  <2>1. \A r \in Sessions : upd'.ipc \in Sessions /\ chan'[r] # "unused" => r <= upd'.ipc
    BY <1>7 DEF OrderInv, HeldNewest
  <2> QED
    BY <1>t, <1>7, <2>1, QuietStep
<1>8. ASSUME NEW c \in Conns, MultipartRequest(c) \/ RequestEnd(c) \/ Close(c)
      PROVE  OrderInv'
  <2>1. UNCHANGED <<upd, chan, stream>>
    BY <1>8 DEF MultipartRequest, RequestEnd, Close, updaterVars
  <2>2. \A d \in Conns : InPart(d)' => InPart(d) /\ conn'[d] = conn[d]
    BY <1>t, <1>8 DEF MultipartRequest, RequestEnd, Close, InPart, IdleConn, ConnType
  <2> QED
    BY <1>t, <1>7, <2>1, <2>2
<1>9. ASSUME NEW c \in Conns, PartDataIgnored(c) PROVE OrderInv'
  <2>1. UNCHANGED <<upd, chan, stream>> /\ InPart(c)
    BY <1>9 DEF PartDataIgnored, updaterVars
  <2>2. PICK n \in 1 .. conn[c].size - conn[c].pos :
           conn' = [conn EXCEPT ![c].pos = @ + n]
    BY <1>9 DEF PartDataIgnored
  <2>3. conn[c].pos \in Nat /\ conn[c].size \in Nat
    BY <1>t DEF ConnType
  <2>4. \A d \in Conns : InPart(d)' => /\ InPart(d)
                                      /\ conn'[d].part = conn[d].part
                                      /\ conn[d].pos <= conn'[d].pos
    BY <1>t, <2>1, <2>2, <2>3 DEF InPart, ConnType
  <2> QED
    BY <1>7, <2>1, <2>4
<1>10. ASSUME UNCHANGED <<upd, chan, stream, conn>> PROVE OrderInv'
  BY <1>t, <1>7, <1>10 DEF InPart
<1>11. ASSUME NEW s \in Sessions, Swupdate(s) PROVE OrderInv'
  BY <1>10, <1>11 DEF Swupdate, SwRead, SwClose
<1>12. ASSUME UNCHANGED vars PROVE OrderInv'
  BY <1>10, <1>12 DEF vars, updaterVars
<1> QED
  BY <1>1, <1>2, <1>4, <1>6, <1>8, <1>9, <1>11, <1>12 DEF Next, Handler, Exited

\* The order invariant holds throughout.
LEMMA OrderInvariance == SafetySpec => []OrderInv
<1>1. Init => OrderInv
  BY OrderInit
<1>2. QED
  BY <1>1, OrderStep, Invariance, PTL DEF SafetySpec

\* The bytes of an upload reach swupdate at most once and in the file's
\* order, across short writes, EAGAIN and other connections' uploads.
THEOREM BytesOnceInOrder == SafetySpec => []EachByteOnceInOrder
BY OrderInvariance, PTL DEF OrderInv

\* No installation gets bytes of an upload that began after it.
THEOREM NeverAnOlderSession == SafetySpec => []NoOlderSession
BY OrderInvariance, PTL DEF OrderInv

-----------------------------------------------------------------------------
\* A single connection.
Solo == \A c, d \in Conns : c = d

\* Alone, a connection holds the session its part began for as long as it is
\* inside the part, and nobody holds one otherwise.
HeldIsOwn ==
    /\ upd.status = "OK"
    /\ upd.ipc \in Sessions => \E c \in Conns : InPart(c)
    /\ \A c \in Conns : InPart(c) => upd.ipc = conn[c].part

SoloInv == HeldIsOwn /\ SoloIntact

\* Nothing is held at the start.
LEMMA SoloInit == Init => SoloInv
<1> SUFFICES ASSUME Init PROVE SoloInv
  OBVIOUS
<1>1. \A s \in Sessions : stream[s] = <<>> /\ DOMAIN stream[s] = {}
  BY DEF Init, UpdaterStart
<1>2. \A c \in Conns : ~InPart(c)
  BY DEF Init, InPart, IdleConn
<1>3. upd.status = "OK" /\ upd.ipc \notin Sessions
  BY DEF Init, UpdaterStart, ZeroedUpdater, NoIpc, Sessions
<1> QED
  BY <1>1, <1>2, <1>3 DEF SoloInv, HeldIsOwn, SoloIntact

\* A step that leaves the streams and the part in progress alone.
LEMMA SoloQuiet ==
    ASSUME SoloInv, UNCHANGED <<stream, upd>>,
           \A c \in Conns : InPart(c) <=> InPart(c)',
           \A c \in Conns : InPart(c) => conn'[c] = conn[c]
    PROVE  SoloInv'
BY DEF SoloInv, HeldIsOwn, SoloIntact, InPart

\* The part ends with its session, or none was in progress.
LEMMA SoloEnd ==
    ASSUME SoloInv, UNCHANGED stream, upd'.status = "OK", upd'.ipc \notin Sessions,
           \A c \in Conns : ~InPart(c)'
    PROVE  SoloInv'
BY DEF SoloInv, HeldIsOwn, SoloIntact

\* A new part starts with an empty session.
LEMMA SoloBegin ==
    ASSUME Solo, IInv, SoloInv, NEW c \in Conns, PartBegin(c)
    PROVE  SoloInv'
<1>1. PICK s \in Sessions, n \in Sizes :
         /\ UpdaterInit(s)
         /\ conn' = [conn EXCEPT ![c] = [@ EXCEPT !.st = "part", !.part = s,
                                                  !.size = n, !.pos = 0]]
  BY DEF PartBegin
<1>2. stream' = stream /\ chan[s] = "unused" /\ upd' = [ipc |-> s, len |-> 0, status |-> "OK"]
  BY <1>1 DEF UpdaterInit, EndHeldAndOpen, Fresh, ZeroedUpdater, Sessions
<1>3. Len(stream[s]) = 0
  BY <1>2 DEF IInv, UnusedEmpty
<1>4. conn'[c].st = "part" /\ conn'[c].part = s /\ conn'[c].pos = 0
  BY <1>1 DEF IInv, TypeOK, ConnType
<1>5. \A d \in Conns : d = c
  BY DEF Solo
<1> QED
  BY <1>2, <1>3, <1>4, <1>5 DEF SoloInv, HeldIsOwn, SoloIntact, InPart

\* Bytes go to the part's own session, right after those that are there.
LEMMA SoloData ==
    ASSUME Solo, IInv, SoloInv, NEW c \in Conns, PartData(c)
    PROVE  SoloInv'
<1>1. PICK n \in 1 .. conn[c].size - conn[c].pos : \E w \in WriteResults(n) :
         /\ UpdaterWrite(conn[c].part, conn[c].pos, w)
         /\ conn' = [conn EXCEPT ![c].pos = @ + Consumed(w, n)]
  BY DEF PartData
<1>2. PICK w \in WriteResults(n) :
         /\ UpdaterWrite(conn[c].part, conn[c].pos, w)
         /\ conn' = [conn EXCEPT ![c].pos = @ + Consumed(w, n)]
  BY <1>1
<1> DEFINE k == Clamped(w)
           p == conn[c].part
           f == conn[c].pos
           q == stream[p]
           b == Bytes(p, f, k)
<1>3. InPart(c) /\ conn \in [Conns -> ConnType]
  BY DEF PartData, IInv, TypeOK
<1>4. p \in Sessions /\ f \in Nat /\ upd.ipc = p
  BY <1>3 DEF IInv, PartsBegun, TypeOK, ConnType, SoloInv, HeldIsOwn
<1>5. /\ stream' = [stream EXCEPT ![p] = q \o b]
      /\ upd' = [upd EXCEPT !.len = (@ + k) % LenMod]
      /\ conn' = [conn EXCEPT ![c].pos = f + k]
  BY <1>2, <1>4 DEF UpdaterWrite, Consumed
<1>6. k \in Nat
  BY <1>3 DEF WriteResults, Clamped, ConnType
<1>7. q \in Seq(Byte) /\ Len(q) = f /\ f \in Nat
  BY <1>3, <1>4 DEF IInv, TypeOK, UpdaterTypeOK, SoloInv, SoloIntact
<1>8. \A i \in DOMAIN q : q[i] = <<p, i>>
  BY <1>4 DEF SoloInv, SoloIntact
<1>9. /\ q \o b \in Seq(Byte)
      /\ Len(q \o b) = f + k
      /\ \A i \in 1 .. Len(q) : (q \o b)[i] = q[i]
      /\ \A i \in Len(q) + 1 .. Len(q) + k : (q \o b)[i] = <<p, f + (i - Len(q))>>
  <2>1. \A r \in Seq(Byte), a \in Sessions, e \in Nat, d \in Nat :
          /\ r \o Bytes(a, e, d) \in Seq(Byte)
          /\ Len(r \o Bytes(a, e, d)) = Len(r) + d
          /\ \A i \in 1 .. Len(r) : (r \o Bytes(a, e, d))[i] = r[i]
          /\ \A i \in Len(r) + 1 .. Len(r) + d :
                (r \o Bytes(a, e, d))[i] = <<a, e + (i - Len(r))>>
    BY AppendBytes
  <2>2. p \in Sessions /\ f \in Nat
    BY <1>4
  <2> HIDE DEF p, f, q, k
  <2>3. /\ q \o b \in Seq(Byte)
        /\ Len(q \o b) = Len(q) + k
        /\ \A i \in 1 .. Len(q) : (q \o b)[i] = q[i]
        /\ \A i \in Len(q) + 1 .. Len(q) + k : (q \o b)[i] = <<p, f + (i - Len(q))>>
    BY <1>6, <1>7, <2>1, <2>2
  <2> QED
    BY <1>7, <2>3
<1>10. \A i \in DOMAIN (q \o b) : (q \o b)[i] = <<p, i>>
  <2> HIDE DEF p, f, q, k, b
  <2>1. DOMAIN (q \o b) = 1 .. f + k /\ DOMAIN q = 1 .. f
    BY <1>7, <1>9, LenProperties
  <2> SUFFICES ASSUME NEW i \in 1 .. f + k PROVE (q \o b)[i] = <<p, i>>
    BY <2>1
  <2>2. CASE i <= f
    <3>1. i \in 1 .. f
      BY <1>6, <1>7, <2>2
    <3> QED
      BY <1>7, <1>8, <1>9, <2>1, <3>1
  <2>3. CASE i > f
    <3>1. i \in Len(q) + 1 .. Len(q) + k /\ f + (i - Len(q)) = i
      BY <1>6, <1>7, <2>3
    <3> QED
      BY <1>9, <3>1
  <2>4. i <= f \/ i > f
    BY <1>6, <1>7
  <2> QED
    BY <2>2, <2>3, <2>4
<1>11. /\ stream'[p] = q \o b
       /\ \A s \in Sessions : s # p => stream'[s] = stream[s]
  BY <1>4, <1>5 DEF IInv, TypeOK, UpdaterTypeOK
<1>12. conn'[c].st = "part" /\ conn'[c].part = p /\ conn'[c].pos = f + k
  BY <1>3, <1>5 DEF InPart, ConnType
<1>13. upd'.ipc = p /\ upd'.status = "OK"
  BY <1>4, <1>5 DEF IInv, TypeOK, UpdaterTypeOK, UpdaterType, SoloInv, HeldIsOwn
<1> HIDE DEF p, f, q, k, b
<1>14. SoloIntact'
  <2>1. \A s \in Sessions : \A i \in DOMAIN stream'[s] : stream'[s][i] = <<s, i>>
    BY <1>10, <1>11 DEF SoloInv, SoloIntact
  <2>2. \A d \in Conns : d = c
    BY DEF Solo
  <2> QED
    BY <1>9, <1>11, <1>12, <2>1, <2>2 DEF SoloIntact
<1>15. HeldIsOwn'
  BY <1>12, <1>13 DEF HeldIsOwn, InPart, Solo
<1> QED
  BY <1>14, <1>15 DEF SoloInv

\* Every step keeps the invariant of a single connection.
LEMMA SoloStep == Solo /\ IInv /\ SoloInv /\ [Next]_vars => SoloInv'
<1> SUFFICES ASSUME Solo, IInv, SoloInv, [Next]_vars PROVE SoloInv'
  OBVIOUS
<1>t. conn \in [Conns -> ConnType]
  BY DEF IInv, TypeOK
<1>1. ASSUME NEW c \in Conns, PartBegin(c) PROVE SoloInv'
  BY <1>1, SoloBegin
<1>2. ASSUME NEW c \in Conns, PartData(c) PROVE SoloInv'
  BY <1>2, SoloData
<1>3. ASSUME NEW c \in Conns, PartBeginRefused(c) PROVE SoloInv'
  <2>1. UNCHANGED <<stream, conn>> /\ upd' = [ipc |-> BadIpc, len |-> 0, status |-> "OK"]
    BY <1>3 DEF PartBeginRefused, UpdaterInitRefused, EndHeldAndOpen, ZeroedUpdater
  <2>2. \A d \in Conns : ~InPart(d)'
    BY <1>3, <2>1 DEF PartBeginRefused, InPart, Solo
  <2> QED
    BY <2>1, <2>2, SoloEnd DEF BadIpc, Sessions
<1>4. ASSUME NEW c \in Conns, PartDataIgnored(c) PROVE FALSE
  <2>1. InPart(c) /\ ~(UpdaterActive /\ UpdaterStatus = "OK")
    BY <1>4 DEF PartDataIgnored
  <2>2. upd.ipc \in Sessions /\ upd.status = "OK"
    BY <2>1 DEF SoloInv, HeldIsOwn, IInv, PartsBegun
  <2> QED
    BY <2>1, <2>2 DEF UpdaterActive, UpdaterStatus, NoIpc, Sessions
<1>5. ASSUME NEW c \in Conns, PartEnd(c) \/ Abort(c) PROVE SoloInv'
  <2>1. stream' = stream /\ upd' = [ipc |-> NoIpc, len |-> 0, status |-> "OK"]
    BY <1>5 DEF PartEnd, Abort, HandlePartEnd, UpdaterFree, EndHeldAndOpen, ZeroedUpdater
  <2> DEFINE v == [IdleConn EXCEPT !.st = "request", !.closing = TRUE]
  <2>4. v.st # "part" /\ IdleConn.st # "part"
    BY DEF IdleConn
  <2>5. conn' = [conn EXCEPT ![c] = v] \/ conn' = [conn EXCEPT ![c] = IdleConn]
    BY <1>5 DEF PartEnd, Abort
  <2> HIDE DEF v
  <2>2. conn'[c].st # "part"
    BY <1>t, <2>4, <2>5
  <2>3. \A d \in Conns : ~InPart(d)'
    BY <2>2 DEF InPart, Solo
  <2> QED
    BY <2>1, <2>3, SoloEnd DEF NoIpc, Sessions
<1>6. ASSUME NEW c \in Conns, MultipartRequest(c) \/ RequestEnd(c) \/ Close(c)
      PROVE  SoloInv'
  <2>1. UNCHANGED <<stream, upd>> /\ ~InPart(c)
    BY <1>6 DEF MultipartRequest, RequestEnd, Close, updaterVars, InPart
  <2>2. conn'[c].st # "part"
    BY <1>t, <1>6 DEF MultipartRequest, RequestEnd, Close, IdleConn, ConnType
  <2> QED
    BY <2>1, <2>2, SoloQuiet DEF InPart, Solo
<1>7. ASSUME UNCHANGED <<stream, upd, conn>> PROVE SoloInv'
  BY <1>7, SoloQuiet DEF InPart
<1>8. ASSUME NEW s \in Sessions, Swupdate(s) PROVE SoloInv'
  BY <1>7, <1>8 DEF Swupdate, SwRead, SwClose
<1>9. ASSUME UNCHANGED vars PROVE SoloInv'
  BY <1>7, <1>9 DEF vars, updaterVars
<1> QED
  BY <1>1, <1>2, <1>3, <1>4, <1>5, <1>6, <1>8, <1>9 DEF Next, Handler, Exited

\* The invariant of a single connection holds throughout.
LEMMA SoloInvariance == Solo => (SafetySpec => []SoloInv)
<1>1. SUFFICES ASSUME Solo PROVE SafetySpec => []SoloInv
  OBVIOUS
<1>2. IInv /\ SoloInv /\ [Next]_vars => SoloInv'
  BY <1>1, SoloStep
<1> QED
  BY <1>2, SoloInit, Invariance, PTL DEF SafetySpec

\* With a single connection swupdate is given exactly the consumed part of the
\* file, through any short writes, aborts and earlier uploads
\* (http_route_update.c:18-26, updater_swupdate.c).
THEOREM SoloUploadIntact == Solo => (SafetySpec => []SoloIntact)
<1>1. SUFFICES ASSUME Solo PROVE SafetySpec => []SoloIntact
  OBVIOUS
<1>2. SoloInv => SoloIntact
  BY DEF SoloInv
<1>3. SafetySpec => []SoloInv
  BY <1>1, SoloInvariance
<1> QED
  BY <1>2, <1>3, PTL

\* A part that ends has been given to its session whole.
LEMMA SoloPartEnd ==
    ASSUME Solo, IInv, SoloInv, NEW c \in Conns, PartEnd(c)
    PROVE  /\ chan'[conn[c].part] = "ended"
           /\ Len(stream[conn[c].part]) = conn[c].size
           /\ reply'[c].code = 200 /\ reply'[c].from = conn[c].part
           /\ 2 * conn[c].size < LenMod => reply'[c].received = conn[c].size
<1> DEFINE p == conn[c].part
           n == conn[c].size
<1>1. InPart(c) /\ conn[c].pos = n /\ HandlePartEnd(c)
  BY DEF PartEnd
<1>2. p \in Sessions /\ upd.ipc = p /\ upd.status = "OK" /\ n \in Nat /\ Len(stream[p]) = n
  BY <1>1, RouteAssumption DEF IInv, PartsBegun, SoloInv, HeldIsOwn, SoloIntact
<1>3. chan'[p] = "ended"
  <2>1. chan[p] = "open"
    BY <1>2 DEF IInv, OnlyHeldOpen
  <2> QED
    BY <1>1, <1>2, <2>1 DEF HandlePartEnd, UpdaterFree, EndHeldAndOpen, AtHeld, IpcEnd
<1>4. reply'[c] = [code |-> 200, received |-> Printed(upd.len), from |-> p]
  BY <1>1, <1>2 DEF HandlePartEnd, UpdaterStatus, IInv, TypeOK
<1>5. upd.len = n % LenMod
  BY <1>2 DEF IInv, LenCountsSession
<1>6. ASSUME 2 * n < LenMod PROVE Printed(upd.len) = n
  <2>1. n % LenMod = n
    <3>1. n \in 0 .. LenMod - 1 /\ LenMod \in Nat \ {0}
      BY <1>2, <1>6, UpdaterAssumption
    <3> HIDE DEF n
    <3> QED
      BY <3>1
  <2>2. upd.len = n
    BY <1>5, <2>1
  <2> HIDE DEF n
  <2>3. ~(2 * n >= LenMod)
    BY <1>2, <1>6, UpdaterAssumption
  <2> QED
    BY <2>2, <2>3 DEF Printed
<1> QED
  BY <1>2, <1>3, <1>4, <1>6

\* With a single connection an upload that completes was given to swupdate
\* whole, its session has ended, and the reply gives its size.
THEOREM SoloUploadWhole == Solo => (SafetySpec => SoloCompleteIsWhole)
<1>1. SUFFICES ASSUME Solo PROVE SafetySpec => SoloCompleteIsWhole
  OBVIOUS
<1>2. IInv /\ SoloInv /\ [Next]_vars =>
        [\A c \in Conns : PartEnd(c) =>
          /\ chan'[conn[c].part] = "ended"
          /\ Len(stream[conn[c].part]) = conn[c].size
          /\ reply'[c].code = 200 /\ reply'[c].from = conn[c].part
          /\ 2 * conn[c].size < LenMod => reply'[c].received = conn[c].size]_vars
  BY <1>1, SoloPartEnd
<1>3. SafetySpec => []SoloInv
  BY <1>1, SoloInvariance
<1> QED
  BY <1>2, <1>3, Invariance, PTL DEF SafetySpec, SoloCompleteIsWhole
=============================================================================
