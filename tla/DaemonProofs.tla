---------------------------- MODULE DaemonProofs ----------------------------
(***************************************************************************)
(* Theorems of Daemon, for any number of connections, sessions and file    *)
(* sizes: the promise to swupdate holds through the teardown, in which     *)
(* handlers run on an updater that was freed, and nothing stays open.      *)
(***************************************************************************)
EXTENDS Daemon, UpdateRouteProofs

\* Nothing sets UPDATER_STATUS_FAIL.
NeverFails == upd.status = "OK"

\* Once updater_progress_free ran, the progress client is not polled again.
ProgressFreed == phase \in {"lastPoll", "closeAll", "stopped"} => ~progress

\* A process that stops has closed its connections, and did not exit.
AllClosed ==
    phase = "stopped" => ~exited /\ \A c \in Conns : conn[c].st = "idle"

DInv ==
    /\ IInv
    /\ DaemonTypeOK
    /\ HeldHasOwner
    /\ NeverFails
    /\ ProgressFreed
    /\ AllClosed

-----------------------------------------------------------------------------
\* Every step is one of UpdateRoute or is http_deinit's updater_free.
LEMMA StepKinds == [DaemonNext]_allVars => [Next]_vars \/ FreeUpdater
<1> SUFFICES ASSUME [DaemonNext]_allVars PROVE Next \/ UNCHANGED vars \/ FreeUpdater
  OBVIOUS
<1>1. ASSUME \/ Listen \/ ListenFails \/ Check \/ Interrupt \/ Kill
             \/ PollReturns \/ FreeProgress \/ LastPollReturns \/ Destroyed
             \/ Ended \/ UNCHANGED allVars
      PROVE  UNCHANGED vars
  BY <1>1 DEF Listen, ListenFails, Check, Interrupt, Kill, PollReturns,
              FreeProgress, LastPollReturns, Destroyed, Ended, allVars
<1>2. ASSUME NEW c \in Conns, Event(c) \/ CloseConnection(c) PROVE Next
  BY <1>2 DEF Event, CloseConnection, Next, Handler
<1>3. ASSUME NEW s \in Sessions, Outside(s) PROVE Next
  BY <1>3 DEF Outside, Next
<1> QED
  BY <1>1, <1>2, <1>3 DEF DaemonNext

\* updater_free outside the handler keeps the invariant of UpdateRoute.
LEMMA FreeKeeps == IInv /\ FreeUpdater => IInv'
<1> SUFFICES ASSUME IInv, FreeUpdater PROVE IInv'
  OBVIOUS
<1> USE UpdaterAssumption, RouteAssumption
<1>t. TypeOK /\ UpdaterTypeOK
  BY DEF IInv, TypeOK
<1>1. EndHeldAndOpen({}) /\ exited' = exited /\ UNCHANGED <<conn, reply>> /\ ~exited
  BY DEF FreeUpdater, UpdaterFree, Go
<1>2. upd' = [ipc |-> NoIpc, len |-> 0, status |-> "OK"]
  BY DEF FreeUpdater, UpdaterFree, ZeroedUpdater
<1>3. /\ chan' \in [Sessions -> {"unused", "open", "ended"}]
      /\ stream' = stream
      /\ unread' \in [Sessions -> 0 .. SockCap]
      /\ broken' \in [Sessions -> BOOLEAN]
      /\ \A r \in Sessions : chan'[r] # "open"
      /\ \A r \in Sessions : chan[r] # "unused" => chan'[r] # "unused"
      /\ \A r \in Sessions : chan'[r] = "unused" => chan[r] = "unused"
  BY <1>1, EndHeldEffect
<1>4. NoIpc \notin Sessions /\ NoIpc # BadIpc
  BY DEF NoIpc, BadIpc, Sessions
<1>5. UpdaterTypeOK'
  BY <1>t, <1>1, <1>2, <1>3 DEF UpdaterTypeOK, UpdaterType
<1>6. TypeOK'
  BY <1>t, <1>1, <1>5 DEF TypeOK
<1>7. PartsBegun'
  BY <1>1, <1>3 DEF PartsBegun, InPart, IInv
<1> QED
  BY <1>1, <1>2, <1>3, <1>4, <1>6, <1>7
  DEF IInv, OnlyHeldOpen, LenCountsSession, ExitIsRefusal, UnusedEmpty

\* The session in progress keeps its owner, and its status.
LEMMA OwnerKept ==
    IInv /\ HeldHasOwner /\ NeverFails /\ [Next]_vars => HeldHasOwner' /\ NeverFails'
<1> SUFFICES ASSUME IInv, HeldHasOwner, NeverFails, [Next]_vars
             PROVE  HeldHasOwner' /\ NeverFails'
  OBVIOUS
<1>t. /\ conn \in [Conns -> ConnType]
      /\ upd \in UpdaterType
      /\ NoIpc \notin Sessions /\ BadIpc \notin Sessions
  BY DEF IInv, TypeOK, UpdaterTypeOK, NoIpc, BadIpc, Sessions
<1>1. ASSUME UNCHANGED upd,
             \A c \in Conns : InPart(c) => InPart(c)' /\ conn'[c].part = conn[c].part
      PROVE  HeldHasOwner' /\ NeverFails'
  BY <1>1 DEF HeldHasOwner, NeverFails
<1>2. ASSUME upd'.ipc \notin Sessions, upd'.status = "OK"
      PROVE  HeldHasOwner' /\ NeverFails'
  BY <1>2 DEF HeldHasOwner, NeverFails
<1>3. ASSUME NEW c \in Conns,
             MultipartRequest(c) \/ RequestEnd(c) \/ Close(c)
      PROVE  HeldHasOwner' /\ NeverFails'
  <2>1. UNCHANGED upd /\ ~InPart(c)
    BY <1>3 DEF MultipartRequest, RequestEnd, Close, updaterVars, InPart
  <2>2. \A d \in Conns : d # c => conn'[d] = conn[d]
    BY <1>t, <1>3 DEF MultipartRequest, RequestEnd, Close
  <2> QED
    BY <1>1, <2>1, <2>2 DEF InPart
<1>4. ASSUME NEW c \in Conns, PartBegin(c) PROVE HeldHasOwner' /\ NeverFails'
  <2>1. PICK s \in Sessions, n \in Sizes :
           /\ UpdaterInit(s)
           /\ conn' = [conn EXCEPT ![c] = [@ EXCEPT !.st = "part", !.part = s,
                                                    !.size = n, !.pos = 0]]
    BY <1>4 DEF PartBegin
  <2>2. upd' = [ipc |-> s, len |-> 0, status |-> "OK"]
    BY <2>1 DEF UpdaterInit, ZeroedUpdater
  <2>3. conn'[c].st = "part" /\ conn'[c].part = s
    BY <1>t, <2>1 DEF ConnType
  <2> QED
    BY <2>2, <2>3 DEF HeldHasOwner, NeverFails, InPart
<1>5. ASSUME NEW c \in Conns, PartBeginRefused(c) PROVE HeldHasOwner' /\ NeverFails'
  BY <1>t, <1>2, <1>5 DEF PartBeginRefused, UpdaterInitRefused, ZeroedUpdater
<1>6. ASSUME NEW c \in Conns, PartData(c) PROVE HeldHasOwner' /\ NeverFails'
  <2>1. PICK n \in 1 .. conn[c].size - conn[c].pos : \E w \in WriteResults(n) :
           /\ UpdaterWrite(conn[c].part, conn[c].pos, w)
           /\ conn' = [conn EXCEPT ![c].pos = @ + Consumed(w, n)]
    BY <1>6 DEF PartData
  <2>2. PICK w \in WriteResults(n) :
           /\ UpdaterWrite(conn[c].part, conn[c].pos, w)
           /\ conn' = [conn EXCEPT ![c].pos = @ + Consumed(w, n)]
    BY <2>1
  <2>3. upd'.ipc = upd.ipc /\ upd'.status = upd.status
    BY <1>t, <2>2 DEF UpdaterWrite, UpdaterType
  <2>4. \A d \in Conns : conn'[d].st = conn[d].st /\ conn'[d].part = conn[d].part
    BY <1>t, <2>2 DEF ConnType
  <2> QED
    BY <2>3, <2>4 DEF HeldHasOwner, NeverFails, InPart
<1>7. ASSUME NEW c \in Conns, PartDataIgnored(c) PROVE HeldHasOwner' /\ NeverFails'
  <2>1. PICK n \in 1 .. conn[c].size - conn[c].pos :
           conn' = [conn EXCEPT ![c].pos = @ + n]
    BY <1>7 DEF PartDataIgnored
  <2>2. UNCHANGED upd
    BY <1>7 DEF PartDataIgnored, updaterVars
  <2>3. \A d \in Conns : conn'[d].st = conn[d].st /\ conn'[d].part = conn[d].part
    BY <1>t, <2>1 DEF ConnType
  <2> QED
    BY <1>1, <2>2, <2>3 DEF InPart
<1>8. ASSUME NEW c \in Conns, HandlePartEnd(c) PROVE HeldHasOwner' /\ NeverFails'
  BY <1>t, <1>2, <1>8 DEF HandlePartEnd, UpdaterFree, ZeroedUpdater
<1>9. ASSUME NEW s \in Sessions, Swupdate(s) PROVE HeldHasOwner' /\ NeverFails'
  BY <1>1, <1>9 DEF Swupdate, SwRead, SwClose, InPart
<1>10. ASSUME UNCHANGED vars PROVE HeldHasOwner' /\ NeverFails'
  BY <1>1, <1>10 DEF vars, updaterVars, InPart
<1> QED
  BY <1>3, <1>4, <1>5, <1>6, <1>7, <1>8, <1>9, <1>10
  DEF Next, Handler, PartEnd, Abort, Exited

-----------------------------------------------------------------------------
\* The initial states.
LEMMA DaemonInitInv == DaemonInit => DInv
<1> SUFFICES ASSUME DaemonInit PROVE DInv
  OBVIOUS
<1>1. IInv
  BY InitInv DEF DaemonInit
<1>2. upd = ZeroedUpdater
  BY DEF DaemonInit, Init, UpdaterStart
<1>3. NoIpc \notin Sessions
  BY DEF NoIpc, Sessions
<1> QED
  BY <1>1, <1>2, <1>3
  DEF DInv, DaemonInit, DaemonTypeOK, FlagsAgree, Phases, IInv, HeldHasOwner, NeverFails,
      ProgressFreed, AllClosed, ZeroedUpdater

\* Every step of the process keeps the invariant.
LEMMA DaemonNextInv == DInv /\ [DaemonNext]_allVars => DInv'
<1> SUFFICES ASSUME DInv, [DaemonNext]_allVars PROVE DInv'
  OBVIOUS
<1>1. IInv'
  BY StepKinds, NextInv, FreeKeeps DEF DInv
<1>2. HeldHasOwner' /\ NeverFails'
  <2>1. CASE FreeUpdater
    <3>1. upd'.ipc = NoIpc /\ upd'.status = "OK" /\ NoIpc \notin Sessions
      BY <2>1 DEF FreeUpdater, UpdaterFree, ZeroedUpdater, NoIpc, Sessions
    <3> QED
      BY <3>1 DEF HeldHasOwner, NeverFails
  <2>2. CASE [Next]_vars
    BY <2>2, OwnerKept DEF DInv
  <2> QED
    BY <2>1, <2>2, StepKinds
<1>t. /\ phase \in Phases /\ running \in BOOLEAN /\ shutdown \in BOOLEAN /\ progress \in BOOLEAN
      /\ FlagsAgree
  BY DEF DInv, DaemonTypeOK
<1> DEFINE Flags == /\ phase \in Phases /\ running \in BOOLEAN
                    /\ shutdown \in BOOLEAN /\ progress \in BOOLEAN
                    /\ FlagsAgree /\ ProgressFreed /\ AllClosed
<1>3. Flags'
  <2> USE <1>t DEF DInv, FlagsAgree, ProgressFreed, AllClosed, Phases, Go
  <2>1. ASSUME Listen \/ ListenFails \/ Check \/ PollReturns
        PROVE  Flags'
    BY <2>1 DEF Listen, ListenFails, Check, PollReturns
  <2>2. ASSUME Interrupt \/ Kill PROVE Flags'
    <3>1. UNCHANGED <<phase, progress, conn, exited>>
      BY <2>2 DEF Interrupt, Kill, vars, updaterVars
    <3>2. running' \in BOOLEAN /\ shutdown' \in BOOLEAN
      BY <2>2 DEF Interrupt, Kill
    <3>3. FlagsAgree'
      BY <2>2, <3>1 DEF Interrupt, Kill
    <3> QED
      BY <3>1, <3>2, <3>3
  <2>3. ASSUME FreeUpdater \/ FreeProgress \/ LastPollReturns PROVE Flags'
    <3>1. CASE FreeUpdater
      BY <3>1 DEF FreeUpdater
    <3>2. CASE FreeProgress
      BY <3>2 DEF FreeProgress
    <3>3. CASE LastPollReturns
      BY <3>3 DEF LastPollReturns
    <3> QED
      BY <2>3, <3>1, <3>2, <3>3
  <2>4. ASSUME Destroyed PROVE Flags'
    BY <2>4 DEF Destroyed, vars, updaterVars
  <2>5. ASSUME Ended \/ UNCHANGED allVars PROVE Flags'
    BY <2>5 DEF Ended, allVars, daemonVars, vars, updaterVars
  <2>6. ASSUME NEW c \in Conns, Event(c) \/ CloseConnection(c) PROVE Flags'
    BY <2>6 DEF Event, CloseConnection, daemonVars
  <2>7. ASSUME NEW s \in Sessions, Outside(s) PROVE Flags'
    BY <2>7 DEF Outside, Swupdate, SwRead, SwClose, daemonVars
  <2> QED
    BY <2>1, <2>2, <2>3, <2>4, <2>5, <2>6, <2>7 DEF DaemonNext
<1>4. DaemonTypeOK'
  BY <1>1, <1>3 DEF IInv, DaemonTypeOK
<1> QED
  BY <1>1, <1>2, <1>3, <1>4 DEF DInv

\* The invariant, in every reachable state.
THEOREM DaemonInvariance == DaemonSafety => []DInv
BY DaemonInitInv, DaemonNextInv, PTL DEF DaemonSafety

\* Types of the process's flags and phase, with those of the uploads; and no
\* process is torn down that was not asked to stop.
THEOREM DaemonTypeCorrect == DaemonSafety => []DaemonTypeOK
BY DaemonInvariance, PTL DEF DInv

\* A session in progress always has a connection inside the part that began
\* it, also when http_deinit freed the updater and the last poll began anew.
THEOREM HeldIsOwned == DaemonSafety => []HeldHasOwner
BY DaemonInvariance, PTL DEF DInv

\* When the process stops on request, whatever the clients were doing, no
\* session, no progress connection and no upload is left behind.
THEOREM StoppedIsClean == DaemonSafety => []StopsClean
<1>1. DInv => StopsClean
  <2> SUFFICES ASSUME DInv, phase = "stopped"
               PROVE  /\ \A s \in Sessions : chan[s] # "open"
                      /\ upd = ZeroedUpdater
                      /\ ~progress
                      /\ \A c \in Conns : conn[c].st = "idle"
    BY DEF StopsClean
  <2>1. ~progress /\ ~exited /\ \A c \in Conns : conn[c].st = "idle"
    BY DEF DInv, ProgressFreed, AllClosed
  <2>2. upd.ipc \notin Sessions
    BY <2>1 DEF DInv, HeldHasOwner, InPart
  <2>3. upd \in UpdaterType
    BY DEF DInv, IInv, TypeOK, UpdaterTypeOK
  <2>4. upd.ipc = NoIpc
    BY <2>1, <2>2, <2>3 DEF DInv, IInv, ExitIsRefusal, UpdaterType
  <2>5. upd.len = 0 /\ upd.status = "OK"
    BY <2>2 DEF DInv, IInv, LenCountsSession, NeverFails
  <2>6. upd = ZeroedUpdater
    BY <2>3, <2>4, <2>5 DEF UpdaterType, ZeroedUpdater
  <2>7. \A s \in Sessions : chan[s] # "open"
    BY <2>2 DEF DInv, IInv, OnlyHeldOpen
  <2> QED
    BY <2>1, <2>6, <2>7
<1> QED
  BY <1>1, DaemonInvariance, PTL

\* The promise to swupdate (InstallChannel) holds through the whole life of
\* the process, the part ends delivered after updater_free included: no
\* session is ended twice or written to after its end.
THEOREM DaemonRefinement == DaemonSafety => ImplementsChannel
<1>1. DaemonInit => Channel!Init
  BY DEF DaemonInit, Init, UpdaterStart, Channel!Init
<1>2. DInv /\ [DaemonNext]_allVars => [Channel!Next]_Channel!channelVars
  <2> SUFFICES ASSUME DInv, [DaemonNext]_allVars
               PROVE  [Channel!Next]_Channel!channelVars
    OBVIOUS
  <2>1. CASE FreeUpdater
    BY <2>1, EndHeldFinishes DEF DInv, FreeUpdater, UpdaterFree, Channel!Next
  <2>2. CASE [Next]_vars
    BY <2>2, StepRefines DEF DInv
  <2> QED
    BY <2>1, <2>2, StepKinds
<1> QED
  BY <1>1, <1>2, DaemonInvariance, PTL DEF DaemonSafety, ImplementsChannel, Channel!Spec

=============================================================================
