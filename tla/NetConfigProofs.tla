-------------------------- MODULE NetConfigProofs --------------------------
(***************************************************************************)
(* What NetConfig promises, for every set of configurations.  The          *)
(* inductive invariant says what the file holds at each stage.             *)
(***************************************************************************)
EXTENDS NetConfig, TLAPS

USE NetConfigAssumption

\* A stage that has truncated the file has no whole text in it yet.
OpenIsTorn ==
    /\ pc = "creating" => file = Torn
    /\ pc = "putting" => file \in {Torn, TornLong}

\* Replies are queued by handlers that have returned, in a running server.
QueuedWhenServing == queued # NoReply => pc = "serving"

\* A PUT whose 200 is still queued has stored its configuration.
QueuedIsStored ==
    queued.stored # None /\ "put" \notin failed => file = queued.stored

\* The boot that creates the file does so from the defaults.
CreatesDefault == pc = "creating" => mem = Default

\* Without an I/O error, what is about to be rendered is what is found in the
\* file, or the file is too long.
RendersFile ==
    pc \in {"render", "rendering"} /\ "boot" \notin failed =>
        (file \in Accepted /\ mem = ReadAs(file)) \/ file \in Oversize

\* The value the stage works with is there.
HasValue ==
    /\ pc \in {"render", "rendering"} => mem # None
    /\ pc \in {"creating", "putting"} => mem \in Configs

IInv ==
    /\ TypeOK
    /\ OpenIsTorn
    /\ QueuedWhenServing
    /\ QueuedIsStored
    /\ CreatesDefault
    /\ RendersFile
    /\ HasValue
    /\ AcknowledgedIsStored
    /\ ReadsItsWrites

USE DEF TypeOK, Stages, NoReply, Reply, Configs, Accepted, ReadAs, Oversize, Rejected,
        OpenIsTorn, QueuedWhenServing, QueuedIsStored, CreatesDefault,
        RendersFile, HasValue, AcknowledgedIsStored, ReadsItsWrites

\* The initial states satisfy the invariant.
LEMMA InitInv == Init => IInv
BY DEF Init, IInv

\* The boot's steps keep it.
LEMMA BootInv == ASSUME IInv, Boot PROVE IInv'
<1> USE DEF IInv
<1>1. CASE Start
  BY <1>1 DEF Start
<1>2. CASE BootRead
  BY <1>2 DEF BootRead
<1>3. CASE BootUnread
  BY <1>3 DEF BootUnread
<1>4. CASE BootCreate
  BY <1>4 DEF BootCreate
<1>5. ASSUME NEW written \in BOOLEAN, BootCreated(written)
      PROVE  IInv'
  BY <1>5 DEF BootCreated
<1>6. CASE BootReadFails
  BY <1>6 DEF BootReadFails
<1>7. CASE RenderOpen
  BY <1>7 DEF RenderOpen
<1>8. CASE RenderOpenFails
  BY <1>8 DEF RenderOpenFails
<1>9. ASSUME NEW written \in BOOLEAN, Render(written)
      PROVE  IInv'
  BY <1>9 DEF Render
<1> QED BY <1>1, <1>2, <1>3, <1>4, <1>5, <1>6, <1>7, <1>8, <1>9 DEF Boot

\* The requests' steps keep it.
LEMMA RequestInv == ASSUME IInv, Request PROVE IInv'
<1> USE DEF IInv
<1>1. CASE PutRefused
  BY <1>1 DEF PutRefused, Serving
<1>2. ASSUME NEW c \in Configs, PutOpen(c)
      PROVE  IInv'
  BY <1>2 DEF PutOpen, Serving, Heads
<1>3. CASE PutStored
  BY <1>3 DEF PutStored
<1>4. CASE PutNotStored
  BY <1>4 DEF PutNotStored, Heads
<1>5. CASE Get
  BY <1>5 DEF Get, Serving, Echoed
<1>6. CASE Deliver
  BY <1>6 DEF Deliver
<1> QED BY <1>1, <1>2, <1>3, <1>4, <1>5, <1>6 DEF Request

\* Every step keeps it.
LEMMA NextInv == IInv /\ [Next]_vars => IInv'
<1> SUFFICES ASSUME IInv, [Next]_vars PROVE IInv'
  OBVIOUS
<1>1. CASE Crash
  BY <1>1 DEF Crash, IInv
<1>2. CASE UNCHANGED vars
  BY <1>2 DEF vars, IInv
<1> QED BY <1>1, <1>2, BootInv, RequestInv DEF Next

\* The invariant holds throughout.
THEOREM Invariance == Spec => []IInv
<1>1. IInv /\ [Next]_vars => IInv'
  BY NextInv
<1> QED BY InitInv, <1>1, PTL DEF Spec

\* The state stays in its types.
THEOREM TypeCorrect == Spec => []TypeOK
<1>1. IInv => TypeOK
  BY DEF IInv
<1> QED BY Invariance, <1>1, PTL

\* A configuration whose 200 was received stays in the file, whole, through
\* crashes at any point, boots and refused requests (put, 49-58).
THEOREM AcknowledgedKept == Spec => []AcknowledgedIsStored
<1>1. IInv => AcknowledgedIsStored
  BY DEF IInv
<1> QED BY Invariance, <1>1, PTL

\* GET answers with the configuration last acknowledged.
THEOREM ReadBack == Spec => []ReadsItsWrites
<1>1. IInv => ReadsItsWrites
  BY DEF IInv
<1> QED BY Invariance, <1>1, PTL

\* A file the parser rejects does not reach the interfaces.
THEOREM RejectedUnused == Spec => RejectedLeavesInterfaces
<1> DEFINE Leaves == (file \in Rejected /\ "boot" \notin failed')
                        => ifaces' = ifaces
<1>1. IInv /\ [Next]_vars => [Leaves]_vars
  <2> SUFFICES ASSUME IInv, Next, file \in Rejected, "boot" \notin failed'
               PROVE  ifaces' = ifaces
    BY DEF Leaves
  <2>1. ~RenderOpen
    BY DEF RenderOpen, IInv
  <2>2. ASSUME NEW written \in BOOLEAN, Render(written)
        PROVE  FALSE
    BY <2>2 DEF Render, IInv
  <2>3. CASE Boot
    BY <2>1, <2>2, <2>3 DEF Boot, Start, BootRead, BootUnread, BootCreate,
       BootCreated, BootReadFails, RenderOpenFails
  <2>4. CASE Request
    BY <2>4 DEF Request, PutRefused, PutOpen, PutStored,
       PutNotStored, Get, Deliver
  <2>5. CASE Crash
    BY <2>5 DEF Crash
  <2> QED BY <2>3, <2>4, <2>5 DEF Next
<1> QED BY Invariance, <1>1, PTL DEF Spec, RejectedLeavesInterfaces

\* A boot without I/O errors leaves the interfaces rendered from the file.
THEOREM BootRenders == Spec => BootApplies
<1> DEFINE Applies ==
       (/\ pc \in Stages \ {"serving", "putting"} /\ pc' = "serving"
        /\ file \in Plain /\ "boot" \notin failed') => ifaces' = file
<1>1. IInv /\ [Next]_vars => [Applies]_vars
  <2> SUFFICES ASSUME IInv, Next,
                      pc \in Stages \ {"serving", "putting"}, pc' = "serving",
                      file \in Plain, "boot" \notin failed'
               PROVE  ifaces' = file
    BY DEF Applies
  <2>1. ASSUME NEW written \in BOOLEAN, Render(written)
        PROVE  ifaces' = file
    BY <2>1 DEF Render, IInv
  <2>2. CASE Boot
    BY <2>1, <2>2 DEF Boot, Start, BootRead, BootUnread, BootCreate,
       BootCreated, BootReadFails, RenderOpen, RenderOpenFails
  <2>3. CASE Request
    BY <2>3 DEF Request, PutRefused, PutOpen, PutStored,
       PutNotStored, Get, Deliver, Serving
  <2>4. CASE Crash
    BY <2>4 DEF Crash
  <2> QED BY <2>2, <2>3, <2>4 DEF Next
<1> QED BY Invariance, <1>1, PTL DEF Spec, BootApplies
=============================================================================
