--------------------------- MODULE ProgressProofs ---------------------------
(***************************************************************************)
(* Theorems of Progress, for any clients and any messages: pages agree     *)
(* with swupdate's reports and miss none of them.                          *)
(***************************************************************************)
EXTENDS Progress, TLAPS

\* The cache that decides what is told holds the last reported values, also
\* after the progress connection was lost and made again.
CacheIsReported ==
    /\ u.status = reported.status
    /\ u.source = reported.source
    /\ u.step = reported.step
    /\ u.percent = reported.percent

\* A page that is not there was told nothing.
OfflineBlank == \A c \in Clients \ sockets : told[c] = {}

\* Of each field a page was told, it shows what a frame carries of its report.
ShownIsCarried ==
    \A c \in sockets : \A f \in told[c] : shown[c][f] = Carried(reported)[f]

IInv ==
    /\ TypeOK
    /\ CacheIsReported
    /\ OfflineBlank
    /\ ShownIsCarried
    /\ NothingMissed

-----------------------------------------------------------------------------
\* The fields of a message.
LEMMA FieldsAre == Fields = {"status", "source", "info", "step", "percent"}
BY DEF Fields, Nothing

\* A field that is told has the message's value as its report; one that is not
\* told keeps its report.
LEMMA ToldIsReported ==
    ASSUME IInv, NEW m \in MessageType, NEW f \in Fields
    PROVE  /\ f \in Told(m) => ReportedWith(m)[f] = m[f]
           /\ f \notin Told(m) => ReportedWith(m)[f] = reported[f]
<1> USE FieldsAre DEF IInv, TypeOK, CacheIsReported, Told, ReportedWith,
        TellsStatus, TellsSource, TellsInfo, TellsStep, MessageType
<1>1. CASE f = "status"
  BY <1>1
<1>2. CASE f = "source"
  BY <1>2
<1>3. CASE f = "info"
  BY <1>3
<1>4. CASE f = "step"
  BY <1>4
<1>5. CASE f = "percent"
  BY <1>5
<1> QED
  BY <1>1, <1>2, <1>3, <1>4, <1>5

\* The report after a message is a report, and so is what pages show.
LEMMA ReportedType ==
    ASSUME IInv, NEW m \in MessageType
    PROVE  ReportedWith(m) \in MessageType
BY FieldsAre DEF IInv, TypeOK, ReportedWith, MessageType

\* What a page shows before its first message is of the messages' type.
LEMMA NothingIsMessage == Nothing \in MessageType
<1>1. NoInfo \in Infos \cup {NoInfo, Garbled} /\ 0 \in Nat
  OBVIOUS
<1>2. "idle" \in Statuses /\ "unknown" \in Sources
  BY DEF Statuses, Sources
<1> QED
  BY <1>1, <1>2 DEF Nothing, MessageType

\* What a frame carries of a field depends on that field alone, and is a
\* message's.
LEMMA CarriedField ==
    ASSUME NEW m \in MessageType, NEW r \in MessageType, NEW f \in Fields,
           r[f] = m[f]
    PROVE  Carried(r)[f] = Carried(m)[f]
<1>1. CASE f = "info"
  BY <1>1 DEF Carried, MessageType
<1>2. CASE f \in {"status", "source"}
  BY <1>2 DEF Carried, MessageType
<1>3. CASE f = "step"
  BY <1>3 DEF Carried, MessageType
<1>4. CASE f = "percent"
  BY <1>4 DEF Carried, MessageType
<1> QED
  BY <1>1, <1>2, <1>3, <1>4, FieldsAre

\* What a frame carries has a message's type.
LEMMA CarriedType ==
    ASSUME NEW m \in MessageType PROVE Carried(m) \in MessageType
<1>1. m.step % ByteMod \in Nat /\ m.percent % ByteMod \in Nat
  BY ProgressAssumption DEF MessageType
<1> QED
  BY <1>1 DEF Carried, MessageType

-----------------------------------------------------------------------------
\* The invariant holds initially: there are no messages and no pages.
LEMMA InitInv == Init => IInv
<1> SUFFICES ASSUME Init PROVE IInv
  OBVIOUS
<1> USE FieldsAre DEF Init, Nothing
<1>1. Nothing \in MessageType
  BY NothingIsMessage
<1>2. valid \in BOOLEAN
  OBVIOUS
<1>8. inbox \in Seq(Messages) /\ Len(inbox) <= MaxBacklog
  BY ProgressAssumption
<1>7. server \in [accepts : BOOLEAN, up : BOOLEAN]
  OBVIOUS
<1>3. u \in [ipc : {NoIpc, BadIpc, SomeFd}, status : Statuses,
             source : Sources, step : Nat, percent : Nat]
  BY DEF Statuses, Sources
<1>4. /\ told \in [Clients -> SUBSET Fields]
      /\ shown \in [Clients -> MessageType]
      /\ joined \in [Clients -> MessageType]
  BY <1>1
<1>5. TypeOK
  BY <1>1, <1>2, <1>3, <1>4, <1>7, <1>8 DEF TypeOK
<1>6. CacheIsReported /\ OfflineBlank /\ ShownIsCarried /\ NothingMissed
  BY DEF CacheIsReported, OfflineBlank, ShownIsCarried, NothingMissed
<1> QED
  BY <1>5, <1>6 DEF IInv

\* The step that reads a message and tells the pages what it changes.
LEMMA MessageInv == ASSUME IInv, PollMessage PROVE IInv'
<1> DEFINE m == Head(inbox)
<1>1. /\ Broadcast(m) /\ u' = Cached(m) /\ reported' = ReportedWith(m)
      /\ inbox' = Tail(inbox) /\ inbox # <<>>
      /\ UNCHANGED <<valid, server, sockets, joined>>
  BY DEF PollMessage
<1>2. m \in MessageType /\ inbox \in Seq(Messages)
  BY <1>1, ProgressAssumption DEF IInv, TypeOK
<1>3. /\ inbox' \in Seq(Messages)
      /\ Len(inbox') <= MaxBacklog
  BY <1>1, <1>2, ProgressAssumption DEF IInv, TypeOK
<1> HIDE DEF m
<1>4. reported' \in MessageType
  BY <1>1, <1>2, ReportedType
<1>5. u' \in [ipc : {NoIpc, BadIpc, SomeFd}, status : Statuses,
              source : Sources, step : Nat, percent : Nat]
  BY <1>1, <1>2 DEF Cached, IInv, TypeOK, MessageType
<1>6. \A f \in Fields : f \in Told(m) => reported'[f] = m[f]
  BY <1>1, <1>2, ToldIsReported
<1>7. \A f \in Fields : f \notin Told(m) => reported'[f] = reported[f]
  BY <1>1, <1>2, ToldIsReported
<1>8. Told(m) \subseteq Fields
  BY FieldsAre DEF Told
<1>9. /\ told' = [c \in Clients |-> IF c \in sockets THEN told[c] \cup Told(m)
                                                   ELSE told[c]]
      /\ told \in [Clients -> SUBSET Fields]
      /\ shown' = [c \in Clients |->
                     [f \in Fields |-> IF c \in sockets /\ f \in Told(m)
                                      THEN Carried(m)[f] ELSE shown[c][f]]]
  BY <1>1 DEF Broadcast, IInv, TypeOK
<1>10. told' \in [Clients -> SUBSET Fields]
  BY <1>8, <1>9
<1>11. shown' \in [Clients -> MessageType]
  <2> SUFFICES ASSUME NEW c \in Clients
               PROVE  [f \in Fields |-> IF c \in sockets /\ f \in Told(m)
                            THEN Carried(m)[f] ELSE shown[c][f]] \in MessageType
    BY <1>9
  <2>1. shown[c] \in MessageType /\ Carried(m) \in MessageType
    BY <1>2, CarriedType DEF IInv, TypeOK
  <2> QED
    BY <1>2, <2>1, FieldsAre DEF MessageType
<1>12. CacheIsReported'
  <2>1. /\ u'.status = IF TellsStatus(m) THEN m.status ELSE u.status
        /\ u'.source = IF TellsSource(m) THEN m.source ELSE u.source
        /\ u'.step = IF TellsStep(m) THEN m.step ELSE u.step
        /\ u'.percent = IF TellsStep(m) THEN m.percent ELSE u.percent
    BY <1>1 DEF Cached, IInv, TypeOK
  <2>2. /\ TellsStatus(m) <=> "status" \in Told(m)
        /\ TellsSource(m) <=> "source" \in Told(m)
        /\ TellsStep(m) <=> "step" \in Told(m)
        /\ TellsStep(m) <=> "percent" \in Told(m)
    BY DEF Told
  <2> QED
    BY <1>2, <1>6, <1>7, <2>1, <2>2, FieldsAre, ReportedType
    DEF IInv, CacheIsReported, MessageType
<1>13. ShownIsCarried'
  <2> SUFFICES ASSUME NEW c \in sockets, NEW f \in told'[c]
               PROVE  shown'[c][f] = Carried(reported')[f]
    BY <1>1 DEF ShownIsCarried
  <2>1. c \in Clients /\ f \in Fields
    BY <1>10 DEF IInv, TypeOK
  <2>2. CASE f \in Told(m)
    <3>1. shown'[c][f] = Carried(m)[f]
      BY <1>9, <2>1, <2>2
    <3>2. reported'[f] = m[f]
      BY <1>6, <2>1, <2>2
    <3> QED
      BY <1>2, <1>4, <2>1, <3>1, <3>2, CarriedField
  <2>3. CASE f \notin Told(m)
    <3>1. shown'[c][f] = shown[c][f] /\ f \in told[c]
      BY <1>9, <2>1, <2>3
    <3>2. shown[c][f] = Carried(reported)[f]
      BY <3>1 DEF IInv, ShownIsCarried
    <3>3. reported'[f] = reported[f] /\ reported \in MessageType
      BY <1>7, <2>1, <2>3 DEF IInv, TypeOK
    <3> QED
      BY <1>4, <2>1, <3>1, <3>2, <3>3, CarriedField
  <2> QED
    BY <2>2, <2>3
<1>14. NothingMissed'
  <2> SUFFICES ASSUME NEW c \in sockets, NEW f \in Fields \ told'[c]
               PROVE  reported'[f] = joined[c][f]
    BY <1>1 DEF NothingMissed
  <2>1. f \notin Told(m) /\ f \notin told[c]
    BY <1>9 DEF IInv, TypeOK
  <2> QED
    BY <1>7, <2>1 DEF IInv, NothingMissed
<1>15. OfflineBlank'
  BY <1>1, <1>9 DEF OfflineBlank, IInv
<1> QED
  BY <1>1, <1>3, <1>4, <1>5, <1>10, <1>11, <1>12, <1>13, <1>14, <1>15
  DEF IInv, TypeOK

\* Every step keeps it.
LEMMA NextInv == IInv /\ [Next]_vars => IInv'
<1> SUFFICES ASSUME IInv, [Next]_vars PROVE IInv'
  OBVIOUS
<1> USE DEF IInv, TypeOK, pages
<1>1. CASE PollMessage
  BY <1>1, MessageInv
<1>2. CASE PollEof \/ PollConnect
  <2>1. /\ UNCHANGED <<valid, inbox, reported, sockets, told, shown, joined>>
        /\ u'.status = u.status /\ u'.source = u.source
        /\ u'.step = u.step /\ u'.percent = u.percent
    BY <1>2 DEF PollEof, PollConnect
  <2>2. u' \in [ipc : {NoIpc, BadIpc, SomeFd}, status : Statuses,
                source : Sources, step : Nat, percent : Nat]
    BY <1>2 DEF PollEof, PollConnect
  <2>3. server' \in [accepts : BOOLEAN, up : BOOLEAN]
    BY <1>2 DEF PollEof, PollConnect
  <2> QED
    BY <2>1, <2>2, <2>3 DEF CacheIsReported, OfflineBlank, ShownIsCarried, NothingMissed
<1>3. CASE ServerSend
  <2>1. UNCHANGED <<valid, u, server, reported, sockets, told, shown, joined>>
    BY <1>3 DEF ServerSend
  <2>2. inbox' \in Seq(Messages) /\ Len(inbox') <= MaxBacklog
    BY <1>3, ProgressAssumption DEF ServerSend
  <2> QED
    BY <2>1, <2>2 DEF CacheIsReported, OfflineBlank, ShownIsCarried, NothingMissed
<1>4. CASE ServerDrops \/ ServerStarts
  <2>1. UNCHANGED <<valid, u, inbox, reported, sockets, told, shown, joined>>
    BY <1>4 DEF ServerDrops, ServerStarts
  <2>2. server' \in [accepts : BOOLEAN, up : BOOLEAN]
    BY <1>4 DEF ServerDrops, ServerStarts
  <2> QED
    BY <2>1, <2>2 DEF CacheIsReported, OfflineBlank, ShownIsCarried, NothingMissed
<1>5. ASSUME NEW c \in Clients, Join(c) PROVE IInv'
  <2>1. /\ UNCHANGED <<valid, u, inbox, server, reported, told, shown>>
        /\ sockets' = sockets \cup {c}
        /\ joined' = [joined EXCEPT ![c] = reported]
    BY <1>5 DEF Join
  <2>2. joined' \in [Clients -> MessageType] /\ sockets' \subseteq Clients
    BY <2>1
  <2>3. ShownIsCarried'
    <3>1. told[c] = {}
      BY <1>5 DEF Join, OfflineBlank
    <3> QED
      BY <2>1, <3>1 DEF ShownIsCarried
  <2>4. NothingMissed'
    BY <2>1 DEF NothingMissed
  <2>5. OfflineBlank'
    BY <2>1 DEF OfflineBlank
  <2> QED
    BY <2>1, <2>2, <2>3, <2>4, <2>5 DEF CacheIsReported
<1>6. ASSUME NEW c \in Clients, Leave(c) PROVE IInv'
  <2>1. UNCHANGED <<valid, u, inbox, server, reported>> /\ sockets' = sockets \ {c}
    BY <1>6 DEF Leave
  <2>2. Nothing \in MessageType
    BY NothingIsMessage
  <2>3. /\ told' \in [Clients -> SUBSET Fields]
        /\ shown' \in [Clients -> MessageType]
        /\ joined' \in [Clients -> MessageType]
    BY <1>6, <2>2 DEF Leave
  <2>5. OfflineBlank'
    BY <1>6, <2>1 DEF Leave, OfflineBlank
  <2>4. \A d \in sockets' : /\ told'[d] = told[d] /\ shown'[d] = shown[d]
                            /\ joined'[d] = joined[d] /\ d \in sockets
    BY <1>6, <2>1 DEF Leave
  <2> QED
    BY <2>1, <2>3, <2>4, <2>5 DEF CacheIsReported, ShownIsCarried, NothingMissed
<1>7. CASE UNCHANGED vars
  BY <1>7 DEF vars, CacheIsReported, OfflineBlank, ShownIsCarried, NothingMissed
<1> QED
  BY <1>1, <1>2, <1>3, <1>4, <1>5, <1>6, <1>7 DEF Next

\* The cache, the pages and the history agree in every reachable state.
THEOREM Invariance == SafetySpec => []IInv
BY InitInv, NextInv, PTL DEF SafetySpec

\* Type correctness of the progress structure, the socket and the pages.
THEOREM TypeCorrect == SafetySpec => []TypeOK
BY Invariance, PTL DEF IInv

\* A frame carries what is not distorted as it is.
LEMMA CarriedWhole ==
    ASSUME TypeOK, NEW f \in Fields, ~Distorted(f)
    PROVE  Carried(reported)[f] = reported[f]
<1>1. /\ reported.step \in Nat /\ reported.percent \in Nat
      /\ reported \in MessageType /\ ByteMod \in Nat \ {0}
  BY ProgressAssumption DEF TypeOK, MessageType
<1>2. ASSUME NEW x \in Nat, x < ByteMod PROVE x % ByteMod = x
  BY <1>1, <1>2
<1>3. CASE f = "info"
  BY <1>1, <1>3 DEF Distorted, Carried, MessageType
<1>4. CASE f \in {"status", "source"}
  BY <1>1, <1>4 DEF Carried, MessageType
<1>5. CASE f = "step"
  <2>1. reported.step % ByteMod = reported.step
    BY <1>1, <1>2, <1>5 DEF Distorted
  <2> QED
    BY <1>1, <1>5, <2>1 DEF Carried, MessageType
<1>6. CASE f = "percent"
  <2>1. reported.percent % ByteMod = reported.percent
    BY <1>1, <1>2, <1>6 DEF Distorted
  <2> QED
    BY <1>1, <1>6, <2>1 DEF Carried, MessageType
<1> QED
  BY <1>3, <1>4, <1>5, <1>6, FieldsAre

\* A page never shows anything but swupdate's last report of each field, or
\* what a frame makes of it where it cannot carry it.
THEOREM PagesAgree == SafetySpec => []ShownIsReported
<1>1. IInv => ShownIsReported
  BY CarriedWhole DEF IInv, ShownIsCarried, ShownIsReported, TypeOK
<1> QED
  BY Invariance, <1>1, PTL

\* A page that stays connected is told every field that changes.
THEOREM PagesMissNothing == SafetySpec => []NothingMissed
BY Invariance, PTL DEF IInv

\* A report of a failure, also a repeated one, is shown by every page there is
\* at once, also by one that was told nothing of the status so far.
THEOREM FailureTold == SafetySpec => FailureReachesAll
<1> DEFINE Shown == (PollMessage /\ reported'.status = "failure") =>
                        \A c \in sockets : "status" \in told'[c] /\ shown'[c].status = "failure"
<1>1. IInv => Shown
  <2> SUFFICES ASSUME IInv, PollMessage, reported'.status = "failure", NEW c \in sockets
               PROVE  "status" \in told'[c] /\ shown'[c].status = "failure"
    OBVIOUS
  <2> DEFINE m == Head(inbox)
  <2>1. Broadcast(m) /\ reported' = ReportedWith(m) /\ inbox # <<>>
    BY DEF PollMessage
  <2>2. m \in MessageType
    BY <2>1, ProgressAssumption DEF IInv, TypeOK
  <2> HIDE DEF m
  <2>3. m.status = "failure"
    BY <2>1, FieldsAre DEF ReportedWith
  <2>4. "status" \in Told(m) /\ "status" \in Fields
    BY <2>3, FieldsAre DEF Told, TellsStatus
  <2>5. c \in Clients /\ told \in [Clients -> SUBSET Fields]
    BY DEF IInv, TypeOK
  <2>6. "status" \in told'[c] /\ shown'[c]["status"] = Carried(m)["status"]
    BY <2>1, <2>4, <2>5 DEF Broadcast
  <2>7. Carried(m)["status"] = "failure"
    BY <2>2, <2>3 DEF Carried, MessageType
  <2> QED
    BY <2>6, <2>7
<1> HIDE DEF Shown
<1>2. SafetySpec => [][Shown]_vars
  <2>1. IInv /\ [Next]_vars => [Shown]_vars
    BY <1>1
  <2> QED
    BY <2>1, Invariance, PTL DEF SafetySpec
<1> QED
  BY <1>2 DEF FailureReachesAll, Shown
=============================================================================
