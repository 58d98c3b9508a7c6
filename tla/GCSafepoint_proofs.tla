------------------------ MODULE GCSafepoint_proofs ------------------------
(***************************************************************************)
(* Theorems about GCSafepoint, for every finite set of VMs and boxes.      *)
(***************************************************************************)
EXTENDS GCSafepoint, FiniteSetTheorems, TLAPS

(***************************************************************************)
(* Typing, one step per action.  The counter of a protected box needs its  *)
(* own invariant (ClosurePinned) to stay a natural number.                 *)
(***************************************************************************)
\* Workers that hold a ProtectedGCRoot on b.
Pinners(b) == {v \in VM : closure[v] = b}

\* The counted protection of a box is the number of worker lambdas that pin it.
ClosurePinned == \A b \in Box : protectedRoots[b] = Cardinality(Pinners(b))

\* closure[v] is set exactly while v is between Spawn and Unprotect.
ClosureWhere == \A v \in VM : pc[v] = "none" => closure[v] = NoBox

TypeInv == TypeOK /\ ClosurePinned /\ ClosureWhere

LEMMA PinnersFinite == \A b : IsFiniteSet(Pinners(b)) /\ Cardinality(Pinners(b)) \in Nat
  BY ConstAssumption, FS_Subset, FS_CardinalityType DEF Pinners

LEMMA TypeInit == Init => TypeInv
<1> SUFFICES ASSUME Init PROVE TypeInv
  OBVIOUS
<1>1. TypeOK
  BY DEF Init, TypeOK, PCs
<1>2. ClosurePinned
  <2> SUFFICES ASSUME NEW b \in Box PROVE protectedRoots[b] = Cardinality(Pinners(b))
    BY DEF ClosurePinned
  <2>1. Pinners(b) = {}
    BY ConstAssumption DEF Init, Pinners
  <2> QED BY <2>1, FS_EmptySet DEF Init
<1>3. ClosureWhere
  BY DEF Init, ClosureWhere
<1> QED BY <1>1, <1>2, <1>3 DEF TypeInv

\* Every action but Spawn and Unprotect leaves the pins alone.
LEMMA PinsUnchanged ==
  ASSUME TypeInv, UNCHANGED <<closure, protectedRoots>>,
         \A v \in VM : pc'[v] = "none" => pc[v] = "none"
  PROVE  ClosurePinned' /\ ClosureWhere'
  BY DEF TypeInv, ClosurePinned, ClosureWhere, Pinners

LEMMA SpawnPins ==
  ASSUME TypeInv, NEW v \in VM, NEW w \in VM, NEW b \in Box, Spawn(v, w, b)
  PROVE  TypeInv'
<1> USE DEF TypeInv
<1>0. closure[w] = NoBox
  BY DEF ClosureWhere, Spawn
<1>1. TypeOK'
  BY DEF Spawn, TypeOK, PCs, Goto, coordVars
<1>2. ClosurePinned'
  <2> SUFFICES ASSUME NEW c \in Box PROVE protectedRoots'[c] = Cardinality(Pinners(c)')
    BY DEF ClosurePinned
  <2>1. CASE c = b
    <3>1. Pinners(c)' = Pinners(c) \cup {w}
      BY <2>1 DEF Spawn, Pinners, TypeOK
    <3>2. w \notin Pinners(c)
      BY <1>0, ConstAssumption DEF Pinners
    <3>3. Cardinality(Pinners(c)') = Cardinality(Pinners(c)) + 1
      BY <3>1, <3>2, PinnersFinite, FS_AddElement
    <3> QED BY <2>1, <3>3 DEF Spawn, ClosurePinned, TypeOK
  <2>2. CASE c # b
    <3>1. Pinners(c)' = Pinners(c)
      BY <2>2, <1>0, ConstAssumption DEF Spawn, Pinners, TypeOK
    <3> QED BY <2>2, <3>1 DEF Spawn, ClosurePinned, TypeOK
  <2> QED BY <2>1, <2>2
<1>3. ClosureWhere'
  BY DEF Spawn, ClosureWhere, TypeOK, Goto
<1> QED BY <1>1, <1>2, <1>3

LEMMA UnprotectPins ==
  ASSUME TypeInv, NEW v \in VM, Unprotect(v)
  PROVE  TypeInv'
<1> USE DEF TypeInv
<1>1. CASE closure[v] = NoBox
  <2>1. closure' = closure /\ protectedRoots' = protectedRoots
    BY <1>1 DEF Unprotect, TypeOK
  <2>2. TypeOK'
    BY <2>1 DEF Unprotect, TypeOK, PCs, Goto, coordVars
  <2>3. ClosurePinned' /\ ClosureWhere'
    BY <1>1, <2>1 DEF Unprotect, TypeOK, Goto, ClosurePinned, ClosureWhere, Pinners
  <2> QED BY <2>2, <2>3
<1>2. CASE closure[v] # NoBox
  <2>a. PICK b \in Box : closure[v] = b
    BY <1>2 DEF TypeOK
  <2>0. protectedRoots' = [protectedRoots EXCEPT ![b] = @ - 1]
    BY <1>2, <2>a DEF Unprotect, TypeOK
  <2>1. Pinners(b)' = Pinners(b) \ {v} /\ v \in Pinners(b)
    BY <2>a, ConstAssumption DEF Unprotect, Pinners, TypeOK
  <2>2. Cardinality(Pinners(b)') = Cardinality(Pinners(b)) - 1
    BY <2>1, PinnersFinite, FS_RemoveElement
  <2>3. Cardinality(Pinners(b)') \in Nat
    BY <2>1, PinnersFinite, FS_Subset, FS_CardinalityType
  <2>4. protectedRoots[b] = Cardinality(Pinners(b)) /\ protectedRoots[b] \in Nat
    BY <2>0 DEF ClosurePinned, TypeOK
  <2>5. protectedRoots' \in [Box -> Nat]
    BY <2>0, <2>2, <2>3, <2>4 DEF TypeOK
  <2>6. TypeOK'
    BY <2>5 DEF Unprotect, TypeOK, PCs, Goto, coordVars
  <2>7. ClosurePinned'
    <3> SUFFICES ASSUME NEW c \in Box PROVE protectedRoots'[c] = Cardinality(Pinners(c)')
      BY DEF ClosurePinned
    <3>1. CASE c = b
      BY <3>1, <2>0, <2>2, <2>4 DEF TypeOK
    <3>2. CASE c # b
      <4>1. Pinners(c)' = Pinners(c)
        BY <3>2, <2>a, ConstAssumption DEF Unprotect, Pinners, TypeOK
      <4> QED BY <3>2, <4>1, <2>0 DEF ClosurePinned, TypeOK
    <3> QED BY <3>1, <3>2
  <2>8. ClosureWhere'
    BY DEF Unprotect, ClosureWhere, TypeOK, Goto
  <2> QED BY <2>6, <2>7, <2>8
<1> QED BY <1>1, <1>2

LEMMA TypeStep == TypeInv /\ [Next]_vars => TypeInv'
<1> SUFFICES ASSUME TypeInv, [Next]_vars PROVE TypeInv'
  OBVIOUS
<1> USE DEF coordVars, threadVars, heapVars
<1>1. CASE UNCHANGED vars
  BY <1>1 DEF vars, TypeInv, TypeOK, ClosurePinned, ClosureWhere, Pinners
<1>2. ASSUME NEW v \in VM, Lifecycle(v) PROVE TypeInv'
  <2>1. CASE Boot(v)
    <3>1. TypeOK'
      BY <2>1 DEF Boot, TypeInv, TypeOK, PCs, Goto
    <3> QED BY <3>1, <2>1, PinsUnchanged DEF Boot, TypeInv, TypeOK, Goto
  <2>2. CASE Register(v)
    <3>1. TypeOK'
      BY <2>2 DEF Register, TypeInv, TypeOK, PCs, Goto
    <3> QED BY <3>1, <2>2, PinsUnchanged DEF Register, TypeInv, TypeOK, Goto
  <2>3. CASE Finish(v)
    <3>1. TypeOK'
      BY <2>3 DEF Finish, TypeInv, TypeOK, PCs, Goto
    <3> QED BY <3>1, <2>3, PinsUnchanged DEF Finish, TypeInv, TypeOK, Goto
  <2>4. CASE Unregister(v)
    <3>1. TypeOK'
      BY <2>4 DEF Unregister, TypeInv, TypeOK, PCs, Goto
    <3> QED BY <3>1, <2>4, PinsUnchanged DEF Unregister, TypeInv, TypeOK, Goto
  <2>5. CASE Unprotect(v)
    BY <2>5, UnprotectPins
  <2>6. ASSUME NEW w \in VM, NEW b \in Box, Spawn(v, w, b) PROVE TypeInv'
    BY <2>6, SpawnPins
  <2> QED BY <1>2, <2>1, <2>2, <2>3, <2>4, <2>5, <2>6 DEF Lifecycle
<1>3. ASSUME NEW v \in VM, Mutate(v) PROVE TypeInv'
  <2>2. UNCHANGED <<closure, protectedRoots, pc>>
    BY <1>3 DEF Mutate, AllocOther, Alloc, Pop, Load, Store, Erase
  <2>3. TypeOK'
    <3> USE DEF TypeInv, TypeOK
    <3>1. ASSUME NEW b \in Box, Alloc(v, b) PROVE TypeOK' BY <3>1 DEF Alloc
    <3>2. ASSUME NEW b \in Box, Pop(v, b) PROVE TypeOK' BY <3>2 DEF Pop
    <3>3. ASSUME NEW b \in Box, NEW c \in Box, Load(v, b, c) PROVE TypeOK' BY <3>3 DEF Load
    <3>4. ASSUME NEW b \in Box, NEW c \in Box, Store(v, b, c) PROVE TypeOK' BY <3>4 DEF Store
    <3>5. ASSUME NEW b \in Box, NEW c \in Box, Erase(v, b, c) PROVE TypeOK' BY <3>5 DEF Erase
    <3>6. CASE AllocOther(v) BY <3>6 DEF AllocOther
    <3> QED BY <1>3, <3>1, <3>2, <3>3, <3>4, <3>5, <3>6 DEF Mutate
  <2> QED BY <2>2, <2>3, PinsUnchanged DEF TypeInv
<1>4. ASSUME NEW v \in VM, PollStep(v) PROVE TypeInv'
  <2>1. TypeOK'
    <3> USE DEF TypeInv, TypeOK, PCs, Goto
    <3>1. CASE PollSnapshot(v) BY <3>1 DEF PollSnapshot
    <3>2. CASE PollJoin(v) BY <3>2 DEF PollJoin
    <3>3. CASE CvWait(v) BY <3>3 DEF CvWait
    <3>4. CASE Elect(v) BY <3>4 DEF Elect
    <3>5. CASE GatherFails(v) BY <3>5 DEF GatherFails
    <3>6. CASE PollResume(v) BY <3>6 DEF PollResume
    <3> QED BY <1>4, <3>1, <3>2, <3>3, <3>4, <3>5, <3>6 DEF PollStep
  <2>2. /\ UNCHANGED <<closure, protectedRoots>>
        /\ \A u \in VM : pc'[u] = "none" => pc[u] = "none"
    BY <1>4 DEF PollStep, PollSnapshot, PollJoin, CvWait, Elect, GatherFails, PollResume,
                Goto, TypeInv, TypeOK
  <2> QED BY <2>1, <2>2, PinsUnchanged DEF TypeInv
<1>5. ASSUME NEW v \in VM, Collect(v) PROVE TypeInv'
  <2>1. TypeOK'
    <3> USE DEF TypeInv, TypeOK, PCs, Goto
    <3>1. CASE Trace(v) BY <3>1 DEF Trace, Reach
    <3>2. CASE CollectFails(v) BY <3>2 DEF CollectFails
    <3>3. CASE Sweep(v) BY <3>3 DEF Sweep
    <3>4. CASE EndCollection(v) BY <3>4 DEF EndCollection
    <3>5. CASE EndFailed(v) BY <3>5 DEF EndFailed
    <3>6. CASE ReclaimReset(v) BY <3>6 DEF ReclaimReset
    <3>7. CASE ReclaimPool(v) BY <3>7 DEF ReclaimPool
    <3> QED BY <1>5, <3>1, <3>2, <3>3, <3>4, <3>5, <3>6, <3>7 DEF Collect
  <2>2. /\ UNCHANGED <<closure, protectedRoots>>
        /\ \A u \in VM : pc'[u] = "none" => pc[u] = "none"
    BY <1>5 DEF Collect, Trace, CollectFails, Sweep, EndCollection, EndFailed, ReclaimReset,
                ReclaimPool, Goto, TypeInv, TypeOK
  <2> QED BY <2>1, <2>2, PinsUnchanged DEF TypeInv
<1>6. ASSUME NEW v \in VM, Blocking(v) PROVE TypeInv'
  <2>1. TypeOK'
    <3> USE DEF TypeInv, TypeOK, PCs, Goto
    <3>1. ASSUME NEW l \in {"locking", "sleeping"}, BeginBlockingNative(v, l) PROVE TypeOK'
      BY <3>1 DEF BeginBlockingNative
    <3>2. CASE AcquireLock(v) BY <3>2 DEF AcquireLock
    <3>3. CASE WakeUp(v) BY <3>3 DEF WakeUp
    <3>4. CASE EndBlockingNative(v) BY <3>4 DEF EndBlockingNative
    <3>5. CASE Unlock(v) BY <3>5 DEF Unlock
    <3> QED BY <1>6, <3>1, <3>2, <3>3, <3>4, <3>5 DEF Blocking
  <2>2. /\ UNCHANGED <<closure, protectedRoots>>
        /\ \A u \in VM : pc'[u] = "none" => pc[u] = "none"
    BY <1>6 DEF Blocking, BeginBlockingNative, AcquireLock, WakeUp, EndBlockingNative, Unlock,
                Goto, TypeInv, TypeOK
  <2> QED BY <2>1, <2>2, PinsUnchanged DEF TypeInv
<1> QED BY <1>1, <1>2, <1>3, <1>4, <1>5, <1>6 DEF Next

\* Every variable keeps its type; in particular the protection counter of a box
\* never goes below zero, however workers that pin the same closure interleave.
THEOREM TypeCorrect == Spec => []TypeOK
<1>1. Spec => []TypeInv
  BY TypeInit, TypeStep, PTL DEF Spec
<1> QED BY <1>1, PTL DEF TypeInv

(***************************************************************************)
(* Reach is the least closed superset.                                     *)
(***************************************************************************)
Graph == [Box -> SUBSET Box]

LEMMA ReachContains ==
  ASSUME NEW R \in SUBSET Box, NEW g
  PROVE  R \subseteq Reach(R, g)
  BY DEF Reach

LEMMA ReachClosed ==
  ASSUME NEW R, NEW g \in Graph
  PROVE  Closed(Reach(R, g), g)
<1> SUFFICES ASSUME NEW b \in Reach(R, g), NEW c \in g[b] PROVE c \in Reach(R, g)
  BY DEF Closed
<1>1. b \in Box /\ c \in Box
  BY DEF Reach, Graph
<1>2. ASSUME NEW S \in SUBSET Box, R \subseteq S, Closed(S, g) PROVE c \in S
  BY <1>2, <1>1 DEF Reach, Closed
<1> QED BY <1>1, <1>2 DEF Reach

LEMMA ReachLeast ==
  ASSUME NEW S \in SUBSET Box, NEW R, R \subseteq S, NEW g, Closed(S, g)
  PROVE  Reach(R, g) \subseteq S
  BY DEF Reach

(***************************************************************************)
(* The inductive invariant.  NoDangling is not inductive: whether the      *)
(* sweep is safe depends on what the elected VM gathered and marked, that  *)
(* on what parked VMs published, and that on who may run during a trace.   *)
(***************************************************************************)
Unregistered == {"none", "starting", "exited"}
CollectPCs   == {"tracing", "sweeping", "swept", "failed"}
ParkedPCs    == CollectPCs \cup {"waiting", "resetting", "pooling", "locking", "sleeping", "woken"}

\* Flags and sets of the coordinator agree with where the threads are.
CoordInv ==
    /\ \A v \in VM : v \in participants <=> pc[v] \notin Unregistered
    /\ \A v \in VM : v \in parked <=> pc[v] \in ParkedPCs
    /\ collectionRunning <=> \E v \in VM : pc[v] \in CollectPCs
    /\ \A v, w \in VM : pc[v] \in CollectPCs /\ pc[w] \in CollectPCs => v = w
    /\ collectionRunning => collectionRequested /\ participants \subseteq parked

\* Published and unpublished snapshots are exact; a VM without frames holds nothing.
RootsInv == \A v \in VM :
    /\ pc[v] \in ParkedPCs => roots[v] = stack[v]
    /\ pc[v] = "snap" => snapshot[v] = stack[v]
    /\ pc[v] \in Unregistered \cup {"exiting"} => stack[v] = {}

\* What threads can reach.
Live == Reach(Held, refs)

\* What the elected VM gathered covers every stack, what it marked covers Live.
MarkInv == \A v \in VM :
    /\ pc[v] = "tracing" => \A w \in VM : stack[w] \subseteq allRoots[v]
    /\ pc[v] = "sweeping" => Live \subseteq marked[v]

\* Registry, retired lists and pool are disjoint and only owned boxes have contents.
BoxInv ==
    /\ \A b \in Box : b \notin entries /\ (\A v \in VM : b \notin retired[v]) => refs[b] = {}
    /\ pool \cap entries = {}
    /\ \A v \in VM : retired[v] \cap (entries \cup pool) = {}
    /\ \A v, w \in VM : v # w => retired[v] \cap retired[w] = {}
    /\ \A v \in VM : retired[v] # {} => pc[v] \in {"swept", "resetting", "pooling"}
    /\ \A v \in VM : pc[v] = "pooling" => \A b \in retired[v] : refs[b] = {}

IInv == TypeInv /\ CoordInv /\ RootsInv /\ MarkInv /\ BoxInv /\ Live \subseteq entries

\* Beside it: a thread that sleeps has a reason to, that is, whoever took the reason
\* away also notified.
SleepersWait == \A v \in asleep : MustWait(v)

\* Coordinator flags, one step per action.
LEMMA CoordStep == IInv /\ [Next]_vars => CoordInv'
<1> SUFFICES ASSUME IInv, [Next]_vars PROVE CoordInv'
  OBVIOUS
<1> USE DEF IInv, TypeInv, TypeOK, Goto, coordVars, threadVars, heapVars,
           Unregistered, CollectPCs, ParkedPCs
<1>1. CASE UNCHANGED vars
  BY <1>1 DEF vars, CoordInv, AllParked
<1>2. ASSUME NEW v \in VM, Lifecycle(v) PROVE CoordInv'
  <2>1. CASE Boot(v)
    BY <2>1 DEF Boot, CoordInv, AllParked
  <2>2. CASE Register(v)
    BY <2>2 DEF Register, CoordInv, AllParked
  <2>3. CASE Finish(v)
    BY <2>3 DEF Finish, CoordInv, AllParked
  <2>4. CASE Unregister(v)
    BY <2>4 DEF Unregister, CoordInv, AllParked
  <2>5. CASE Unprotect(v)
    BY <2>5 DEF Unprotect, CoordInv, AllParked
  <2>6. ASSUME NEW w \in VM, NEW b \in Box, Spawn(v, w, b) PROVE CoordInv'
    BY <2>6 DEF Spawn, CoordInv, AllParked
  <2> QED BY <1>2, <2>1, <2>2, <2>3, <2>4, <2>5, <2>6 DEF Lifecycle
<1>3. ASSUME NEW v \in VM, Mutate(v) PROVE CoordInv'
  <2>1. ASSUME NEW b \in Box, Alloc(v, b) PROVE CoordInv'
    BY <2>1 DEF Alloc, CoordInv, AllParked
  <2>2. ASSUME NEW b \in Box, Pop(v, b) PROVE CoordInv'
    BY <2>2 DEF Pop, CoordInv, AllParked
  <2>3. ASSUME NEW b \in Box, NEW c \in Box, Load(v, b, c) PROVE CoordInv'
    BY <2>3 DEF Load, CoordInv, AllParked
  <2>4. ASSUME NEW b \in Box, NEW c \in Box, Store(v, b, c) PROVE CoordInv'
    BY <2>4 DEF Store, CoordInv, AllParked
  <2>5. ASSUME NEW b \in Box, NEW c \in Box, Erase(v, b, c) PROVE CoordInv'
    BY <2>5 DEF Erase, CoordInv, AllParked
  <2>6. CASE AllocOther(v)
    BY <2>6 DEF AllocOther, CoordInv, AllParked
  <2> QED BY <1>3, <2>1, <2>2, <2>3, <2>4, <2>5, <2>6 DEF Mutate
<1>4. ASSUME NEW v \in VM, PollStep(v) PROVE CoordInv'
  <2>1. CASE PollSnapshot(v)
    BY <2>1 DEF PollSnapshot, CoordInv, AllParked
  <2>2. CASE PollJoin(v)
    BY <2>2 DEF PollJoin, CoordInv, AllParked
  <2>3. CASE CvWait(v)
    BY <2>3 DEF CvWait, CoordInv, AllParked
  <2>4. CASE Elect(v)
    BY <2>4 DEF Elect, CoordInv, AllParked
  <2>5. CASE GatherFails(v)
    BY <2>5 DEF GatherFails, CoordInv, AllParked
  <2>6. CASE PollResume(v)
    BY <2>6 DEF PollResume, CoordInv, AllParked
  <2> QED BY <1>4, <2>1, <2>2, <2>3, <2>4, <2>5, <2>6 DEF PollStep
<1>5. ASSUME NEW v \in VM, Collect(v) PROVE CoordInv'
  <2>1. CASE Trace(v)
    BY <2>1 DEF Trace, CoordInv, AllParked
  <2>2. CASE CollectFails(v)
    BY <2>2 DEF CollectFails, CoordInv, AllParked
  <2>3. CASE Sweep(v)
    BY <2>3 DEF Sweep, CoordInv, AllParked
  <2>4. CASE EndCollection(v)
    BY <2>4 DEF EndCollection, CoordInv, AllParked
  <2>5. CASE EndFailed(v)
    BY <2>5 DEF EndFailed, CoordInv, AllParked
  <2>6. CASE ReclaimReset(v)
    BY <2>6 DEF ReclaimReset, CoordInv, AllParked
  <2>7. CASE ReclaimPool(v)
    BY <2>7 DEF ReclaimPool, CoordInv, AllParked
  <2> QED BY <1>5, <2>1, <2>2, <2>3, <2>4, <2>5, <2>6, <2>7 DEF Collect
<1>6. ASSUME NEW v \in VM, Blocking(v) PROVE CoordInv'
  <2>1. ASSUME NEW l \in {"locking", "sleeping"}, BeginBlockingNative(v, l) PROVE CoordInv'
    BY <2>1 DEF BeginBlockingNative, CoordInv, AllParked
  <2>2. CASE AcquireLock(v)
    BY <2>2 DEF AcquireLock, CoordInv, AllParked
  <2>3. CASE WakeUp(v)
    BY <2>3 DEF WakeUp, CoordInv, AllParked
  <2>4. CASE EndBlockingNative(v)
    BY <2>4 DEF EndBlockingNative, CoordInv, AllParked
  <2>5. CASE Unlock(v)
    BY <2>5 DEF Unlock, CoordInv, AllParked
  <2> QED BY <1>6, <2>1, <2>2, <2>3, <2>4, <2>5 DEF Blocking
<1> QED BY <1>1, <1>2, <1>3, <1>4, <1>5, <1>6 DEF Next

\* Snapshots: the trace freezes parked VMs, so only the owner changes its stack.
LEMMA RootsStep == IInv /\ [Next]_vars => RootsInv'
<1> SUFFICES ASSUME IInv, [Next]_vars PROVE RootsInv'
  OBVIOUS
<1> USE DEF IInv, TypeInv, TypeOK, Goto, coordVars, threadVars, heapVars,
           Unregistered, CollectPCs, ParkedPCs
<1>1. CASE UNCHANGED vars
  BY <1>1 DEF vars, RootsInv, CoordInv
<1>2. ASSUME NEW v \in VM, Lifecycle(v) PROVE RootsInv'
  <2>1. CASE Boot(v)
    BY <2>1 DEF Boot, RootsInv, CoordInv
  <2>2. CASE Register(v)
    BY <2>2 DEF Register, RootsInv, CoordInv
  <2>3. CASE Finish(v)
    BY <2>3 DEF Finish, RootsInv, CoordInv
  <2>4. CASE Unregister(v)
    BY <2>4 DEF Unregister, RootsInv, CoordInv
  <2>5. CASE Unprotect(v)
    BY <2>5 DEF Unprotect, RootsInv, CoordInv
  <2>6. ASSUME NEW w \in VM, NEW b \in Box, Spawn(v, w, b) PROVE RootsInv'
    BY <2>6 DEF Spawn, RootsInv, CoordInv
  <2> QED BY <1>2, <2>1, <2>2, <2>3, <2>4, <2>5, <2>6 DEF Lifecycle
<1>3. ASSUME NEW v \in VM, Mutate(v) PROVE RootsInv'
  <2>1. ASSUME NEW b \in Box, Alloc(v, b) PROVE RootsInv'
    BY <2>1 DEF Alloc, RootsInv, CoordInv
  <2>2. ASSUME NEW b \in Box, Pop(v, b) PROVE RootsInv'
    BY <2>2 DEF Pop, RootsInv, CoordInv
  <2>3. ASSUME NEW b \in Box, NEW c \in Box, Load(v, b, c) PROVE RootsInv'
    BY <2>3 DEF Load, RootsInv, CoordInv
  <2>4. ASSUME NEW b \in Box, NEW c \in Box, Store(v, b, c) PROVE RootsInv'
    BY <2>4 DEF Store, RootsInv, CoordInv
  <2>5. ASSUME NEW b \in Box, NEW c \in Box, Erase(v, b, c) PROVE RootsInv'
    BY <2>5 DEF Erase, RootsInv, CoordInv
  <2>6. CASE AllocOther(v)
    BY <2>6 DEF AllocOther, RootsInv, CoordInv
  <2> QED BY <1>3, <2>1, <2>2, <2>3, <2>4, <2>5, <2>6 DEF Mutate
<1>4. ASSUME NEW v \in VM, PollStep(v) PROVE RootsInv'
  <2>1. CASE PollSnapshot(v)
    BY <2>1 DEF PollSnapshot, RootsInv, CoordInv
  <2>2. CASE PollJoin(v)
    BY <2>2 DEF PollJoin, RootsInv, CoordInv
  <2>3. CASE CvWait(v)
    BY <2>3 DEF CvWait, RootsInv, CoordInv
  <2>4. CASE Elect(v)
    BY <2>4 DEF Elect, RootsInv, CoordInv
  <2>5. CASE GatherFails(v)
    BY <2>5 DEF GatherFails, RootsInv, CoordInv
  <2>6. CASE PollResume(v)
    BY <2>6 DEF PollResume, RootsInv, CoordInv
  <2> QED BY <1>4, <2>1, <2>2, <2>3, <2>4, <2>5, <2>6 DEF PollStep
<1>5. ASSUME NEW v \in VM, Collect(v) PROVE RootsInv'
  <2>1. CASE Trace(v)
    BY <2>1 DEF Trace, RootsInv, CoordInv
  <2>2. CASE CollectFails(v)
    BY <2>2 DEF CollectFails, RootsInv, CoordInv
  <2>3. CASE Sweep(v)
    BY <2>3 DEF Sweep, RootsInv, CoordInv
  <2>4. CASE EndCollection(v)
    BY <2>4 DEF EndCollection, RootsInv, CoordInv
  <2>5. CASE EndFailed(v)
    BY <2>5 DEF EndFailed, RootsInv, CoordInv
  <2>6. CASE ReclaimReset(v)
    BY <2>6 DEF ReclaimReset, RootsInv, CoordInv
  <2>7. CASE ReclaimPool(v)
    BY <2>7 DEF ReclaimPool, RootsInv, CoordInv
  <2> QED BY <1>5, <2>1, <2>2, <2>3, <2>4, <2>5, <2>6, <2>7 DEF Collect
<1>6. ASSUME NEW v \in VM, Blocking(v) PROVE RootsInv'
  <2>1. ASSUME NEW l \in {"locking", "sleeping"}, BeginBlockingNative(v, l) PROVE RootsInv'
    BY <2>1 DEF BeginBlockingNative, RootsInv, CoordInv
  <2>2. CASE AcquireLock(v)
    BY <2>2 DEF AcquireLock, RootsInv, CoordInv
  <2>3. CASE WakeUp(v)
    BY <2>3 DEF WakeUp, RootsInv, CoordInv
  <2>4. CASE EndBlockingNative(v)
    BY <2>4 DEF EndBlockingNative, RootsInv, CoordInv
  <2>5. CASE Unlock(v)
    BY <2>5 DEF Unlock, RootsInv, CoordInv
  <2> QED BY <1>6, <2>1, <2>2, <2>3, <2>4, <2>5 DEF Blocking
<1> QED BY <1>1, <1>2, <1>3, <1>4, <1>5, <1>6 DEF Next

(***************************************************************************)
(* No step but an allocation adds to what the threads can reach.           *)
(***************************************************************************)
LEMMA HeldInBox == ASSUME TypeOK PROVE Held \subseteq Box
  BY DEF TypeOK, Held

LEMMA LiveFacts ==
  ASSUME TypeOK
  PROVE  Live \subseteq Box /\ Held \subseteq Live /\ Closed(Live, refs)
<1>1. Held \in SUBSET Box /\ refs \in Graph
  BY HeldInBox DEF TypeOK, Graph
<1>2. Live \subseteq Box
  BY DEF Live, Reach
<1> QED BY <1>1, <1>2, ReachContains, ReachClosed DEF Live

LEMMA LiveShrinks ==
  ASSUME TypeOK, Held' \subseteq Live, \A b \in Live : refs'[b] \subseteq Live
  PROVE  Live' \subseteq Live
<1>1. Live \in SUBSET Box
  BY LiveFacts
<1>2. Closed(Live, refs')
  BY DEF Closed
<1>3. Live' = Reach(Held', refs')
  BY DEF Live, Reach, Closed
<1> HIDE DEF Live
<1> QED BY <1>1, <1>2, <1>3, ReachLeast

LEMMA LiveQuiet ==
  ASSUME UNCHANGED <<stack, closure, refs>>
  PROVE  Live' = Live
  BY DEF Live, Held, Reach, Closed

\* Bytecode that only moves references a thread already has.
LEMMA LiveMutate ==
  ASSUME IInv, NEW v \in VM, NEW b \in Box, NEW c \in Box,
         Pop(v, b) \/ Load(v, b, c) \/ Store(v, b, c) \/ Erase(v, b, c)
  PROVE  Live' \subseteq Live
<1>0. TypeOK BY DEF IInv, TypeInv
<1>1. Live \subseteq Box /\ Held \subseteq Live /\ \A x \in Live : refs[x] \subseteq Live
  BY <1>0, LiveFacts DEF Closed
<1>2. \A u \in VM : stack[u] \subseteq Live
  BY <1>0, <1>1 DEF Held, TypeOK
<1>3. Held' \subseteq Live
  <2>1. \A u \in VM : stack'[u] \subseteq Live
    BY <1>0, <1>1, <1>2 DEF Pop, Load, Store, Erase, TypeOK
  <2>2. closure' = closure
    BY DEF Pop, Load, Store, Erase, threadVars
  <2> QED BY <1>1, <2>1, <2>2 DEF Held
<1>4. \A x \in Live : refs'[x] \subseteq Live
  BY <1>0, <1>1, <1>2 DEF Pop, Load, Store, Erase, TypeOK
<1> QED BY <1>0, <1>3, <1>4, LiveShrinks

\* Starting, picking up and ending a worker.
LEMMA LiveLifecycle ==
  ASSUME IInv, NEW v \in VM, NEW w \in VM, NEW b \in Box,
         Register(v) \/ Finish(v) \/ Unprotect(v) \/ Spawn(v, w, b)
  PROVE  Live' \subseteq Live
<1>0. TypeOK BY DEF IInv, TypeInv
<1>1. Live \subseteq Box /\ Held \subseteq Live /\ \A x \in Live : refs[x] \subseteq Live
  BY <1>0, LiveFacts DEF Closed
<1>2. Held' \subseteq Held
  BY <1>0, ConstAssumption DEF Register, Finish, Unprotect, Spawn, TypeOK, Held
<1>3. refs' = refs
  BY DEF Register, Finish, Unprotect, Spawn
<1> QED BY <1>0, <1>1, <1>2, <1>3, LiveShrinks

LEMMA LiveReset ==
  ASSUME IInv, NEW v \in VM, ReclaimReset(v)
  PROVE  Live' \subseteq Live
<1>0. TypeOK BY DEF IInv, TypeInv
<1>1. Live \subseteq Box /\ Held \subseteq Live /\ \A x \in Live : refs[x] \subseteq Live
  BY <1>0, LiveFacts DEF Closed
<1>2. Held' = Held
  BY DEF ReclaimReset, Held
<1>3. \A x \in Live : refs'[x] \subseteq Live
  BY <1>1 DEF ReclaimReset
<1> QED BY <1>0, <1>1, <1>2, <1>3, LiveShrinks

LEMMA LiveStep ==
  ASSUME IInv, [Next]_vars, ~ \E v \in VM, b \in Box : Alloc(v, b)
  PROVE  Live' \subseteq Live
<1> USE DEF coordVars, threadVars, heapVars
<1>1. CASE UNCHANGED vars
  BY <1>1, LiveQuiet DEF vars
<1>2. ASSUME NEW v \in VM, Lifecycle(v) PROVE Live' \subseteq Live
  <2>1. CASE Boot(v) \/ Unregister(v)
    BY <2>1, LiveQuiet DEF Boot, Unregister
  <2>2. CASE Register(v) \/ Finish(v) \/ Unprotect(v) \/ \E w \in VM, b \in Box : Spawn(v, w, b)
    <3>1. CASE Box = {}
      BY <3>1 DEF Live, Reach
    <3>2. CASE Box # {}
      BY <2>2, <3>2, LiveLifecycle
    <3> QED BY <3>1, <3>2
  <2> QED BY <1>2, <2>1, <2>2 DEF Lifecycle
<1>3. ASSUME NEW v \in VM, Mutate(v) PROVE Live' \subseteq Live
  <2>1. CASE AllocOther(v)
    BY <2>1, LiveQuiet DEF AllocOther
  <2>2. CASE ~AllocOther(v)
    BY <1>3, <2>2, LiveMutate DEF Mutate
  <2> QED BY <2>1, <2>2
<1>4. ASSUME NEW v \in VM, PollStep(v) PROVE Live' \subseteq Live
  <2>1. UNCHANGED <<stack, closure, refs>>
    BY <1>4 DEF PollStep, PollSnapshot, PollJoin, CvWait, Elect, GatherFails, PollResume
  <2> QED BY <2>1, LiveQuiet
<1>5. ASSUME NEW v \in VM, Collect(v) PROVE Live' \subseteq Live
  <2>1. CASE ReclaimReset(v)
    BY <2>1, LiveReset
  <2>2. CASE ~ReclaimReset(v)
    <3>1. UNCHANGED <<stack, closure, refs>>
      BY <1>5, <2>2 DEF Collect, Trace, CollectFails, Sweep, EndCollection, EndFailed, ReclaimPool
    <3> QED BY <3>1, LiveQuiet
  <2> QED BY <2>1, <2>2
<1>6. ASSUME NEW v \in VM, Blocking(v) PROVE Live' \subseteq Live
  <2>1. UNCHANGED <<stack, closure, refs>>
    BY <1>6 DEF Blocking, BeginBlockingNative, AcquireLock, WakeUp, EndBlockingNative, Unlock
  <2> QED BY <2>1, LiveQuiet
<1> QED BY <1>1, <1>2, <1>3, <1>4, <1>5, <1>6 DEF Next

\* A fresh box is reachable only through the stack it was pushed on.
LEMMA LiveAlloc ==
  ASSUME IInv, NEW v \in VM, NEW b \in Box, Alloc(v, b)
  PROVE  Live' \subseteq Live \cup {b}
<1>0. TypeOK BY DEF IInv, TypeInv
<1>1. Live \subseteq Box /\ Held \subseteq Live /\ \A x \in Live : refs[x] \subseteq Live
  BY <1>0, LiveFacts DEF Closed
<1>2. refs[b] = {}
  BY DEF IInv, BoxInv, Alloc
<1>3. Held' \subseteq Live \cup {b}
  BY <1>0, <1>1 DEF Alloc, TypeOK, Held, threadVars
<1>4. refs' = refs /\ Live' = Reach(Held', refs')
  BY DEF Alloc, Live, Reach, Closed
<1>5. Closed(Live \cup {b}, refs')
  BY <1>1, <1>2, <1>4 DEF Closed
<1>6. Live \cup {b} \in SUBSET Box
  BY <1>1
<1> HIDE DEF Live
<1> QED BY <1>3, <1>4, <1>5, <1>6, ReachLeast

(***************************************************************************)
(* Marks and the heap.                                                     *)
(***************************************************************************)
\* During a trace nobody executes bytecode.
LEMMA NoMutatorInTrace ==
  ASSUME IInv, NEW v \in VM, pc[v] \in CollectPCs, NEW w \in VM
  PROVE  pc[w] \notin {"run", "snap", "exiting"}
  BY DEF IInv, CoordInv, CollectPCs, ParkedPCs, Unregistered

\* What Trace marks contains everything the threads hold.
LEMMA TraceCovers ==
  ASSUME IInv, NEW v \in VM, Trace(v)
  PROVE  Live \subseteq marked'[v]
<1> DEFINE R == allRoots[v] \cup (ProtectedIds \cap entries)
<1>0. TypeOK /\ refs \in Graph /\ R \in SUBSET Box
  BY DEF IInv, TypeInv, TypeOK, Graph, ProtectedIds
<1>1. ASSUME NEW w \in VM PROVE stack[w] \subseteq R
  BY DEF IInv, MarkInv, Trace
<1>2. ASSUME NEW w \in VM, closure[w] # NoBox PROVE closure[w] \in R
  <2>0. PICK b \in Box : closure[w] = b
    BY <1>0, <1>2 DEF TypeOK
  <2>1. w \in Pinners(b)
    BY <2>0 DEF Pinners
  <2>2. Cardinality(Pinners(b)) # 0
    BY <2>1, PinnersFinite, FS_EmptySet
  <2>3. protectedRoots[b] > 0
    BY <2>2, <1>0 DEF IInv, TypeInv, ClosurePinned, TypeOK
  <2>4. b \in Live
    BY <2>0, <1>0, <1>2, LiveFacts DEF Held
  <2>5. b \in entries
    BY <2>4 DEF IInv
  <2> QED BY <2>0, <2>3, <2>5 DEF ProtectedIds
<1>3. Held \subseteq R
  BY <1>1, <1>2, ConstAssumption DEF Held
<1>4. marked'[v] = Reach(R, refs)
  BY <1>0 DEF Trace, TypeOK
<1>5. R \subseteq Reach(R, refs) /\ Closed(Reach(R, refs), refs)
  BY <1>0, ReachContains, ReachClosed
<1>6. Reach(R, refs) \in SUBSET Box
  BY DEF Reach
<1> HIDE DEF R
<1>7. Reach(Held, refs) \subseteq Reach(R, refs)
  BY <1>3, <1>5, <1>6, ReachLeast
<1> QED BY <1>4, <1>7 DEF Live

\* During a trace no stack changes, and only the elected VM moves on.
LEMMA FrozenStep ==
  ASSUME IInv, [Next]_vars, NEW u \in VM, pc[u] \in CollectPCs
  PROVE  /\ stack' = stack
         /\ pc'[u] # pc[u] \/ (allRoots'[u] = allRoots[u] /\ marked'[u] = marked[u])
         /\ ~ \E v \in VM, b \in Box : Alloc(v, b)
<1>0. \A w \in VM : pc[w] \notin {"run", "snap", "exiting"}
  BY NoMutatorInTrace
<1>1. collectionRunning
  BY DEF IInv, CoordInv
<1> USE <1>0, <1>1 DEF IInv, TypeInv, TypeOK, Goto, coordVars, threadVars, heapVars
<1>2. CASE UNCHANGED vars
  BY <1>2 DEF vars, Alloc
<1>3. ASSUME NEW v \in VM, Lifecycle(v) PROVE stack' = stack /\ UNCHANGED <<allRoots, marked>>
  BY <1>3 DEF Lifecycle, Boot, Register, Finish, Unregister, Unprotect, Spawn
<1>4. ASSUME NEW v \in VM, Mutate(v) PROVE FALSE
  BY <1>4 DEF Mutate, AllocOther, Alloc, Pop, Load, Store, Erase
<1>5. ASSUME NEW v \in VM, PollStep(v) PROVE stack' = stack /\ UNCHANGED <<allRoots, marked>>
  BY <1>5 DEF PollStep, PollSnapshot, PollJoin, CvWait, Elect, GatherFails, PollResume
<1>6. ASSUME NEW v \in VM, Collect(v)
      PROVE  stack' = stack /\ (pc'[u] # pc[u] \/ (allRoots'[u] = allRoots[u] /\ marked'[u] = marked[u]))
  BY <1>6 DEF Collect, Trace, CollectFails, Sweep, EndCollection, EndFailed, ReclaimReset, ReclaimPool
<1>7. ASSUME NEW v \in VM, Blocking(v) PROVE stack' = stack /\ UNCHANGED <<allRoots, marked>>
  BY <1>7 DEF Blocking, BeginBlockingNative, AcquireLock, WakeUp, EndBlockingNative, Unlock
<1>8. ~ \E v \in VM, b \in Box : Alloc(v, b)
  BY DEF Alloc
<1> QED BY <1>2, <1>3, <1>4, <1>5, <1>6, <1>7, <1>8 DEF Next, vars

\* Only Elect enters "tracing" and only Trace enters "sweeping".
LEMMA EntersCollect ==
  ASSUME IInv, [Next]_vars, NEW u \in VM, pc'[u] # pc[u]
  PROVE  (pc'[u] = "tracing" => Elect(u)) /\ (pc'[u] = "sweeping" => Trace(u))
<1> USE DEF IInv, TypeInv, TypeOK, Goto, coordVars, threadVars, heapVars
<1>1. CASE UNCHANGED vars
  BY <1>1 DEF vars
<1>2. ASSUME NEW v \in VM, Lifecycle(v) PROVE pc'[u] \notin {"tracing", "sweeping"}
  BY <1>2 DEF Lifecycle, Boot, Register, Finish, Unregister, Unprotect, Spawn
<1>3. ASSUME NEW v \in VM, Mutate(v) PROVE FALSE
  BY <1>3 DEF Mutate, AllocOther, Alloc, Pop, Load, Store, Erase
<1>4. ASSUME NEW v \in VM, PollStep(v) PROVE Elect(u) \/ pc'[u] \notin {"tracing", "sweeping"}
  BY <1>4 DEF PollStep, PollSnapshot, PollJoin, CvWait, Elect, GatherFails, PollResume
<1>5. ASSUME NEW v \in VM, Collect(v) PROVE Trace(u) \/ pc'[u] \notin {"tracing", "sweeping"}
  BY <1>5 DEF Collect, Trace, CollectFails, Sweep, EndCollection, EndFailed, ReclaimReset, ReclaimPool
<1>6. ASSUME NEW v \in VM, Blocking(v) PROVE pc'[u] \notin {"tracing", "sweeping"}
  BY <1>6 DEF Blocking, BeginBlockingNative, AcquireLock, WakeUp, EndBlockingNative, Unlock
<1>7. Elect(u) => pc'[u] = "tracing"
  BY DEF Elect
<1>8. Trace(u) => pc'[u] = "sweeping"
  BY DEF Trace
<1> QED BY <1>1, <1>2, <1>3, <1>4, <1>5, <1>6, <1>7, <1>8 DEF Next

LEMMA MarkStep == IInv /\ [Next]_vars => MarkInv'
<1> SUFFICES ASSUME IInv, [Next]_vars, NEW u \in VM
             PROVE  /\ pc'[u] = "tracing" => \A w \in VM : stack'[w] \subseteq allRoots'[u]
                    /\ pc'[u] = "sweeping" => Live' \subseteq marked'[u]
  BY DEF MarkInv
<1>1. CASE pc'[u] = pc[u] /\ pc[u] \in {"tracing", "sweeping"}
  <2>1. pc[u] \in CollectPCs
    BY <1>1 DEF CollectPCs
  <2>2. stack' = stack /\ allRoots'[u] = allRoots[u] /\ marked'[u] = marked[u]
    BY <1>1, <2>1, FrozenStep
  <2>3. Live' \subseteq Live
    BY <2>1, FrozenStep, LiveStep
  <2> QED BY <1>1, <2>2, <2>3 DEF IInv, MarkInv
<1>2. CASE pc'[u] # pc[u] /\ pc'[u] = "tracing"
  <2>1. Elect(u)
    BY <1>2, EntersCollect
  <2>2. ASSUME NEW w \in VM PROVE stack[w] \subseteq UNION {roots[x] : x \in participants}
    <3>1. CASE w \in participants
      BY <3>1, <2>1 DEF Elect, AllParked, IInv, CoordInv, RootsInv
    <3>2. CASE w \notin participants
      BY <3>2 DEF IInv, CoordInv, RootsInv
    <3> QED BY <3>1, <3>2
  <2> QED BY <1>2, <2>1, <2>2 DEF Elect, IInv, TypeInv, TypeOK, heapVars
<1>3. CASE pc'[u] # pc[u] /\ pc'[u] = "sweeping"
  <2>1. Trace(u)
    BY <1>3, EntersCollect
  <2>2. Live' = Live
    BY <2>1, LiveQuiet DEF Trace, heapVars
  <2> QED BY <1>3, <2>1, <2>2, TraceCovers
<1> QED BY <1>1, <1>2, <1>3

\* The bookkeeping of boxes, one step per action.
LEMMA BoxStep == IInv /\ [Next]_vars => BoxInv'
<1> SUFFICES ASSUME IInv, [Next]_vars PROVE BoxInv'
  OBVIOUS
<1> USE DEF IInv, TypeInv, TypeOK, Goto, coordVars, threadVars, heapVars
<1>1. CASE UNCHANGED vars
  BY <1>1 DEF vars, BoxInv
<1>2. ASSUME NEW v \in VM, Lifecycle(v) PROVE BoxInv'
  <2>1. CASE Boot(v)
    BY <2>1 DEF Boot, BoxInv
  <2>2. CASE Register(v)
    BY <2>2 DEF Register, BoxInv
  <2>3. CASE Finish(v)
    BY <2>3 DEF Finish, BoxInv
  <2>4. CASE Unregister(v)
    BY <2>4 DEF Unregister, BoxInv
  <2>5. CASE Unprotect(v)
    BY <2>5 DEF Unprotect, BoxInv
  <2>6. ASSUME NEW w \in VM, NEW b \in Box, Spawn(v, w, b) PROVE BoxInv'
    BY <2>6 DEF Spawn, BoxInv
  <2> QED BY <1>2, <2>1, <2>2, <2>3, <2>4, <2>5, <2>6 DEF Lifecycle
<1>3. ASSUME NEW v \in VM, Mutate(v) PROVE BoxInv'
  <2>1. ASSUME NEW b \in Box, Alloc(v, b) PROVE BoxInv'
    BY <2>1 DEF Alloc, BoxInv
  <2>2. ASSUME NEW b \in Box, Pop(v, b) PROVE BoxInv'
    BY <2>2 DEF Pop, BoxInv
  <2>3. ASSUME NEW b \in Box, NEW c \in Box, Load(v, b, c) PROVE BoxInv'
    BY <2>3 DEF Load, BoxInv
  <2>4. ASSUME NEW b \in Box, NEW c \in Box, Store(v, b, c) PROVE BoxInv'
    <3>1. b \in entries
      BY <2>4, LiveFacts DEF Store, Held
    <3> QED BY <2>4, <3>1 DEF Store, BoxInv
  <2>5. ASSUME NEW b \in Box, NEW c \in Box, Erase(v, b, c) PROVE BoxInv'
    <3>1. b \in entries
      BY <2>5, LiveFacts DEF Erase, Held
    <3> QED BY <2>5, <3>1 DEF Erase, BoxInv
  <2>6. CASE AllocOther(v)
    BY <2>6 DEF AllocOther, BoxInv
  <2> QED BY <1>3, <2>1, <2>2, <2>3, <2>4, <2>5, <2>6 DEF Mutate
<1>4. ASSUME NEW v \in VM, PollStep(v) PROVE BoxInv'
  <2>1. CASE PollSnapshot(v)
    BY <2>1 DEF PollSnapshot, BoxInv
  <2>2. CASE PollJoin(v)
    BY <2>2 DEF PollJoin, BoxInv
  <2>3. CASE CvWait(v)
    BY <2>3 DEF CvWait, BoxInv
  <2>4. CASE Elect(v)
    BY <2>4 DEF Elect, BoxInv
  <2>5. CASE GatherFails(v)
    BY <2>5 DEF GatherFails, BoxInv
  <2>6. CASE PollResume(v)
    BY <2>6 DEF PollResume, BoxInv
  <2> QED BY <1>4, <2>1, <2>2, <2>3, <2>4, <2>5, <2>6 DEF PollStep
<1>5. ASSUME NEW v \in VM, Collect(v) PROVE BoxInv'
  <2>1. CASE Trace(v)
    BY <2>1 DEF Trace, BoxInv
  <2>2. CASE CollectFails(v)
    BY <2>2 DEF CollectFails, BoxInv
  <2>3. CASE Sweep(v)
    BY <2>3 DEF Sweep, BoxInv
  <2>4. CASE EndCollection(v)
    BY <2>4 DEF EndCollection, BoxInv
  <2>5. CASE EndFailed(v)
    BY <2>5 DEF EndFailed, BoxInv
  <2>6. CASE ReclaimReset(v)
    BY <2>6 DEF ReclaimReset, BoxInv
  <2>7. CASE ReclaimPool(v)
    BY <2>7 DEF ReclaimPool, BoxInv
  <2> QED BY <1>5, <2>1, <2>2, <2>3, <2>4, <2>5, <2>6, <2>7 DEF Collect
<1>6. ASSUME NEW v \in VM, Blocking(v) PROVE BoxInv'
  <2>1. ASSUME NEW l \in {"locking", "sleeping"}, BeginBlockingNative(v, l) PROVE BoxInv'
    BY <2>1 DEF BeginBlockingNative, BoxInv
  <2>2. CASE AcquireLock(v)
    BY <2>2 DEF AcquireLock, BoxInv
  <2>3. CASE WakeUp(v)
    BY <2>3 DEF WakeUp, BoxInv
  <2>4. CASE EndBlockingNative(v)
    BY <2>4 DEF EndBlockingNative, BoxInv
  <2>5. CASE Unlock(v)
    BY <2>5 DEF Unlock, BoxInv
  <2> QED BY <1>6, <2>1, <2>2, <2>3, <2>4, <2>5 DEF Blocking
<1> QED BY <1>1, <1>2, <1>3, <1>4, <1>5, <1>6 DEF Next

LEMMA EntriesStep == IInv /\ [Next]_vars => Live' \subseteq entries'
<1> SUFFICES ASSUME IInv, [Next]_vars PROVE Live' \subseteq entries'
  OBVIOUS
<1>1. CASE \E v \in VM, b \in Box : Alloc(v, b)
  BY <1>1, LiveAlloc DEF Alloc, IInv
<1>2. CASE \E v \in VM : Sweep(v)
  <2>1. PICK v \in VM : Sweep(v)
    BY <1>2
  <2>2. Live \subseteq marked[v]
    BY <2>1 DEF IInv, MarkInv, Sweep
  <2>3. Live' = Live
    BY <2>1, LiveQuiet DEF Sweep
  <2> QED BY <2>1, <2>2, <2>3 DEF Sweep, IInv
<1>3. CASE ~(\E v \in VM, b \in Box : Alloc(v, b)) /\ ~(\E v \in VM : Sweep(v))
  <2>1. Live' \subseteq Live
    BY <1>3, LiveStep
  <2>2. entries' = entries
    <3> USE DEF coordVars, threadVars, heapVars
    <3>1. CASE UNCHANGED vars
      BY <3>1 DEF vars
    <3>2. ASSUME NEW v \in VM, Lifecycle(v) PROVE entries' = entries
      BY <3>2 DEF Lifecycle, Boot, Register, Finish, Unregister, Unprotect, Spawn
    <3>3. ASSUME NEW v \in VM, Mutate(v) PROVE entries' = entries
      BY <3>3, <1>3 DEF Mutate, AllocOther, Pop, Load, Store, Erase
    <3>4. ASSUME NEW v \in VM, PollStep(v) PROVE entries' = entries
      BY <3>4 DEF PollStep, PollSnapshot, PollJoin, CvWait, Elect, GatherFails, PollResume
    <3>5. ASSUME NEW v \in VM, Collect(v) PROVE entries' = entries
      BY <3>5, <1>3 DEF Collect, Trace, CollectFails, EndCollection, EndFailed, ReclaimReset,
                        ReclaimPool
    <3>6. ASSUME NEW v \in VM, Blocking(v) PROVE entries' = entries
      BY <3>6 DEF Blocking, BeginBlockingNative, AcquireLock, WakeUp, EndBlockingNative, Unlock
    <3> QED BY <3>1, <3>2, <3>3, <3>4, <3>5, <3>6 DEF Next
  <2> QED BY <2>1, <2>2 DEF IInv
<1> QED BY <1>1, <1>2, <1>3

LEMMA InvInit == Init => IInv
<1> SUFFICES ASSUME Init PROVE IInv
  OBVIOUS
<1>1. TypeInv
  BY TypeInit
<1>2. CoordInv /\ RootsInv /\ BoxInv
  BY DEF Init, CoordInv, RootsInv, BoxInv, Unregistered, CollectPCs, ParkedPCs
<1>3. MarkInv
  BY DEF Init, MarkInv
<1>4. Held = {}
  BY ConstAssumption DEF Init, Held
<1>5. Closed({}, refs)
  BY DEF Closed
<1>6. Live \subseteq entries
  BY <1>4, <1>5, ReachLeast DEF Live
<1> QED BY <1>1, <1>2, <1>3, <1>6 DEF IInv

LEMMA InvStep == IInv /\ [Next]_vars => IInv'
<1> SUFFICES ASSUME IInv, [Next]_vars PROVE IInv'
  OBVIOUS
<1>1. TypeInv'
  BY TypeStep DEF IInv
<1> QED BY <1>1, CoordStep, RootsStep, MarkStep, BoxStep, EntriesStep DEF IInv

LEMMA Invariance == Spec => []IInv
  BY InvInit, InvStep, PTL DEF Spec

\* While a trace runs every registered VM is parked and exactly one collects, for any
\* number of VMs that poll, block, start and exit in any order.
THEOREM WorldStops == Spec => []StopTheWorld
<1>1. IInv => StopTheWorld
  BY DEF IInv, TypeInv, TypeOK, CoordInv, StopTheWorld, AllParked, Unregistered, CollectPCs, ParkedPCs
<1> QED BY <1>1, Invariance, PTL

(***************************************************************************)
(* No wakeup is lost.                                                      *)
(***************************************************************************)
\* A step that notifies leaves nobody asleep.
LEMMA NotifyWakes == asleep' = {} => SleepersWait'
  BY DEF SleepersWait

\* A step that moves no sleeping thread and takes away no reason to wait.
LEMMA ReasonStays ==
  ASSUME SleepersWait, asleep' = asleep,
         \A w \in asleep : pc'[w] = pc[w],
         collectionRunning => collectionRunning',
         (\E w \in asleep : pc[w] = "waiting") =>
            /\ collectionRequested => collectionRequested'
            /\ ~AllParked => (collectionRunning' \/ ~AllParked')
  PROVE  SleepersWait'
<1> SUFFICES ASSUME NEW w \in asleep PROVE MustWait(w)'
  BY DEF SleepersWait
<1>1. MustWait(w)
  BY DEF SleepersWait
<1>2. CASE pc[w] = "waiting"
  BY <1>1, <1>2 DEF MustWait
<1>3. CASE pc[w] # "waiting"
  BY <1>1, <1>3 DEF MustWait
<1> QED BY <1>2, <1>3

LEMMA SleepStep == IInv /\ SleepersWait /\ [Next]_vars => SleepersWait'
<1> SUFFICES ASSUME IInv, SleepersWait, [Next]_vars PROVE SleepersWait'
  OBVIOUS
<1> USE DEF coordVars, threadVars, heapVars
<1>0. pc \in [VM -> PCs] /\ asleep \subseteq VM
  BY DEF IInv, TypeInv, TypeOK
<1>1. CASE UNCHANGED vars
  BY <1>1, ReasonStays DEF vars, AllParked
<1>2. ASSUME NEW v \in VM, Lifecycle(v) PROVE SleepersWait'
  <2>1. CASE Boot(v)
    <3>1. \A w \in asleep : w # v
      BY <2>1 DEF Boot, SleepersWait, MustWait
    <3> QED BY <2>1, <1>0, <3>1, ReasonStays DEF Boot, Goto, AllParked
  <2>2. CASE Register(v)
    <3>1. collectionRunning = FALSE /\ \A w \in asleep : w # v
      BY <2>2 DEF Register
    <3>2. ~AllParked => ~AllParked'
      BY <2>2 DEF Register, AllParked
    <3> QED BY <2>2, <1>0, <3>1, <3>2, ReasonStays DEF Register, Goto
  <2>3. CASE Finish(v)
    <3>1. \A w \in asleep : w # v
      BY <2>3 DEF Finish, SleepersWait, MustWait
    <3> QED BY <2>3, <1>0, <3>1, ReasonStays DEF Finish, Goto, AllParked
  <2>4. CASE Unregister(v)
    BY <2>4, NotifyWakes DEF Unregister
  <2>5. CASE Unprotect(v)
    <3>1. \A w \in asleep : w # v
      BY <2>5 DEF Unprotect, SleepersWait, MustWait
    <3> QED BY <2>5, <1>0, <3>1, ReasonStays DEF Unprotect, Goto, AllParked
  <2>6. ASSUME NEW w \in VM, NEW b \in Box, Spawn(v, w, b) PROVE SleepersWait'
    <3>1. \A u \in asleep : u # w
      BY <2>6 DEF Spawn, SleepersWait, MustWait
    <3> QED BY <2>6, <1>0, <3>1, ReasonStays DEF Spawn, Goto, AllParked
  <2> QED BY <1>2, <2>1, <2>2, <2>3, <2>4, <2>5, <2>6 DEF Lifecycle
<1>3. ASSUME NEW v \in VM, PollStep(v) PROVE SleepersWait'
  <2>1. CASE PollSnapshot(v)
    <3>1. \A w \in asleep : w # v
      BY <2>1 DEF PollSnapshot, SleepersWait, MustWait
    <3> QED BY <2>1, <1>0, <3>1, ReasonStays DEF PollSnapshot, Goto, AllParked
  <2>2. CASE PollJoin(v)
    <3>1. CASE asleep' = {}
      BY <3>1, NotifyWakes
    <3>2. CASE asleep' # {}
      <4>1. \A w \in asleep : w # v
        BY <2>2 DEF PollJoin, SleepersWait, MustWait
      <4> QED BY <2>2, <1>0, <3>2, <4>1, ReasonStays DEF PollJoin, Goto, AllParked
    <3> QED BY <3>1, <3>2
  <2>3. CASE CvWait(v)
    BY <2>3 DEF CvWait, SleepersWait, MustWait, AllParked
  <2>4. CASE Elect(v)
    BY <2>4, <1>0, ReasonStays DEF Elect, Goto
  <2>5. CASE GatherFails(v)
    BY <2>5, NotifyWakes DEF GatherFails
  <2>6. CASE PollResume(v)
    <3>1. \A w \in asleep : pc[w] # "waiting"
      BY <2>6 DEF PollResume, SleepersWait, MustWait
    <3> QED BY <2>6, <1>0, <3>1, ReasonStays DEF PollResume, Goto
  <2> QED BY <1>3, <2>1, <2>2, <2>3, <2>4, <2>5, <2>6 DEF PollStep
<1>4. ASSUME NEW v \in VM, Collect(v) PROVE SleepersWait'
  <2>1. CASE Trace(v)
    <3>1. \A w \in asleep : w # v
      BY <2>1 DEF Trace, SleepersWait, MustWait
    <3> QED BY <2>1, <1>0, <3>1, ReasonStays DEF Trace, Goto, AllParked
  <2>2. CASE CollectFails(v)
    <3>1. \A w \in asleep : w # v
      BY <2>2 DEF CollectFails, SleepersWait, MustWait
    <3> QED BY <2>2, <1>0, <3>1, ReasonStays DEF CollectFails, Goto, AllParked
  <2>3. CASE Sweep(v)
    <3>1. \A w \in asleep : w # v
      BY <2>3 DEF Sweep, SleepersWait, MustWait
    <3> QED BY <2>3, <1>0, <3>1, ReasonStays DEF Sweep, Goto, AllParked
  <2>4. CASE EndCollection(v)
    BY <2>4, NotifyWakes DEF EndCollection
  <2>5. CASE EndFailed(v)
    BY <2>5, NotifyWakes DEF EndFailed
  <2>6. CASE ReclaimReset(v)
    <3>1. \A w \in asleep : w # v
      BY <2>6 DEF ReclaimReset, SleepersWait, MustWait
    <3> QED BY <2>6, <1>0, <3>1, ReasonStays DEF ReclaimReset, Goto, AllParked
  <2>7. CASE ReclaimPool(v)
    <3>1. \A w \in asleep : w # v
      BY <2>7 DEF ReclaimPool, SleepersWait, MustWait
    <3> QED BY <2>7, <1>0, <3>1, ReasonStays DEF ReclaimPool, Goto, AllParked
  <2> QED BY <1>4, <2>1, <2>2, <2>3, <2>4, <2>5, <2>6, <2>7 DEF Collect
<1>5. ASSUME NEW v \in VM, Blocking(v) PROVE SleepersWait'
  <2>1. ASSUME NEW l \in {"locking", "sleeping"}, BeginBlockingNative(v, l) PROVE SleepersWait'
    BY <2>1, NotifyWakes DEF BeginBlockingNative
  <2>2. CASE AcquireLock(v)
    <3>1. \A w \in asleep : w # v
      BY <2>2 DEF AcquireLock, SleepersWait, MustWait
    <3> QED BY <2>2, <1>0, <3>1, ReasonStays DEF AcquireLock, Goto, AllParked
  <2>3. CASE WakeUp(v)
    <3>1. \A w \in asleep : w # v
      BY <2>3 DEF WakeUp, SleepersWait, MustWait
    <3> QED BY <2>3, <1>0, <3>1, ReasonStays DEF WakeUp, Goto, AllParked
  <2>4. CASE EndBlockingNative(v)
    BY <2>4, NotifyWakes DEF EndBlockingNative
  <2>5. CASE Unlock(v)
    <3>1. \A w \in asleep : w # v
      BY <2>5 DEF Unlock, SleepersWait, MustWait
    <3> QED BY <2>5, <1>0, <3>1, ReasonStays DEF Unlock, Goto, AllParked
  <2> QED BY <1>5, <2>1, <2>2, <2>3, <2>4, <2>5 DEF Blocking
<1>6. ASSUME NEW v \in VM, Mutate(v) PROVE SleepersWait'
  <2>1. UNCHANGED <<coordVars, threadVars>>
    BY <1>6 DEF Mutate, AllocOther, Alloc, Pop, Load, Store, Erase
  <2> QED BY <2>1, ReasonStays DEF AllParked
<1> QED BY <1>1, <1>2, <1>3, <1>4, <1>5, <1>6 DEF Next

LEMMA SleepersAlwaysWait == Spec => []SleepersWait
<1>1. Init => SleepersWait
  BY DEF Init, SleepersWait
<1> QED BY <1>1, SleepStep, Invariance, PTL DEF Spec

\* gc_safepoint.cpp:64-66, 106, 157, 164-168, 173: whoever sleeps on the condition variable
\* still has to wait, and a thread that is awake will end the wait.
THEOREM SleepersRemembered == Spec => []NoSleeperForgotten
<1>1. IInv /\ SleepersWait => NoSleeperForgotten
  <2> SUFFICES ASSUME IInv, SleepersWait, NEW v \in asleep
               PROVE  /\ MustWait(v)
                      /\ \E w \in VM \ asleep :
                           IF collectionRunning THEN pc[w] \in CollectPCs ELSE w \in participants \ parked
    BY DEF NoSleeperForgotten, CollectPCs
  <2> USE DEF IInv, CoordInv
  <2>0. MustWait(v) /\ v \in VM
    BY DEF SleepersWait, TypeInv, TypeOK
  <2>1. CASE collectionRunning
    <3>1. PICK w \in VM : pc[w] \in CollectPCs
      BY <2>1
    <3>2. w \notin asleep
      BY <3>1 DEF SleepersWait, MustWait, CollectPCs
    <3> QED BY <2>0, <2>1, <3>1, <3>2
  <2>2. CASE ~collectionRunning
    <3>1. PICK w \in participants : w \notin parked
      BY <2>0, <2>2 DEF MustWait, AllParked
    <3>2. w \in VM
      BY <3>1 DEF TypeInv, TypeOK
    <3>3. w \notin asleep
      BY <2>2, <3>1, <3>2 DEF SleepersWait, MustWait, ParkedPCs
    <3> QED BY <2>0, <2>2, <3>1, <3>2, <3>3
  <2> QED BY <2>1, <2>2
<1> QED BY <1>1, Invariance, SleepersAlwaysWait, PTL

\* No thread ever reaches a box that was retired, pooled or destroyed.
THEOREM NeverDangling == Spec => []NoDangling
<1>1. IInv => NoDangling
  BY DEF IInv, NoDangling, Live
<1> QED BY <1>1, Invariance, PTL

\* A parked VM stays rooted until it resumes, through any number of collections that
\* faster VMs start meanwhile.
THEOREM RootsKept == Spec => []ParkedRootsKept
<1>1. IInv => ParkedRootsKept
  BY DEF IInv, TypeInv, TypeOK, CoordInv, RootsInv, ParkedRootsKept
<1> QED BY <1>1, Invariance, PTL

\* Boxes reach the pool empty, and a box is registered, retired or pooled, never two of
\* them, although peers allocate while a collector is still reclaiming.
THEOREM PoolStaysClean == Spec => []PoolClean
<1>1. IInv => PoolClean
  BY DEF IInv, TypeInv, TypeOK, BoxInv, PoolClean
<1> QED BY <1>1, Invariance, PTL

LEMMA FrozenHeap ==
  ASSUME IInv, [Next]_vars, collectionRunning, collectionRunning'
  PROVE  /\ UNCHANGED <<participants, parked, roots, stack>>
         /\ \A b \in entries' : refs'[b] = refs[b]
<1>0. \A w \in VM : pc[w] \notin {"run", "snap", "exiting"}
  BY NoMutatorInTrace DEF IInv, CoordInv
<1> USE <1>0 DEF IInv, TypeInv, TypeOK, Goto, coordVars, threadVars, heapVars
<1>1. CASE UNCHANGED vars
  BY <1>1 DEF vars
<1>2. ASSUME NEW v \in VM, Lifecycle(v)
      PROVE  UNCHANGED <<participants, parked, roots, stack, refs>>
  BY <1>2 DEF Lifecycle, Boot, Register, Finish, Unregister, Unprotect, Spawn
<1>3. ASSUME NEW v \in VM, Mutate(v) PROVE FALSE
  BY <1>3 DEF Mutate, AllocOther, Alloc, Pop, Load, Store, Erase
<1>4. ASSUME NEW v \in VM, PollStep(v)
      PROVE  UNCHANGED <<participants, parked, roots, stack, refs>>
  BY <1>4 DEF PollStep, PollSnapshot, PollJoin, CvWait, Elect, GatherFails, PollResume,
              CoordInv
<1>5. ASSUME NEW v \in VM, Collect(v)
      PROVE  /\ UNCHANGED <<participants, parked, roots, stack>>
             /\ \A b \in entries' : refs'[b] = refs[b]
  BY <1>5 DEF Collect, Trace, CollectFails, Sweep, EndCollection, EndFailed, ReclaimReset,
              ReclaimPool, BoxInv
<1>6. ASSUME NEW v \in VM, Blocking(v)
      PROVE  UNCHANGED <<participants, parked, roots, stack, refs>>
  BY <1>6 DEF Blocking, BeginBlockingNative, AcquireLock, WakeUp, EndBlockingNative, Unlock
<1> QED BY <1>1, <1>2, <1>3, <1>4, <1>5, <1>6 DEF Next

\* From the election to the end of the sweep nobody joins, leaves, unparks or changes
\* a box that survives.
THEOREM TraceIsFrozen == Spec => TraceFrozen
<1>1. IInv /\ [Next]_vars
      => [collectionRunning /\ collectionRunning' =>
            /\ UNCHANGED <<participants, parked, roots, stack>>
            /\ \A b \in entries' : refs'[b] = refs[b]]_vars
  BY FrozenHeap
<1> QED BY <1>1, Invariance, PTL DEF Spec, TraceFrozen

(***************************************************************************)
(* GCSafepoint implements ManagedHeap.                                     *)
(***************************************************************************)
LEMMA SweepVanishes ==
  ASSUME IInv, NEW v \in VM, Sweep(v)
  PROVE  Heap!Vanish(entries \ marked[v])
<1> DEFINE S == entries \ marked[v]
<1>0. TypeOK /\ Live \subseteq marked[v]
  BY DEF IInv, TypeInv, MarkInv, Sweep
<1>1. Live \in SUBSET Box /\ Held \subseteq Live /\ \A b \in Live : refs[b] \subseteq Live
  BY <1>0, LiveFacts DEF Closed
<1>2. Heap!InUse \subseteq Live
  BY <1>1 DEF Heap!InUse, Held
<1>3. Heap!IsClosed(Live)
  BY <1>1 DEF Heap!IsClosed, LiveRefs
<1>4. Heap!Usable \subseteq Live
  BY <1>1, <1>2, <1>3 DEF Heap!Usable
<1>5. S \cap Heap!Usable = {}
  BY <1>0, <1>4
<1>6. entries' = entries \ S
  BY DEF Sweep
<1>7. LiveRefs' = [b \in Box |-> IF b \in S THEN {} ELSE LiveRefs[b]]
  BY <1>6 DEF Sweep, LiveRefs
<1>8. UNCHANGED <<stack, closure>>
  BY DEF Sweep
<1> QED BY <1>5, <1>6, <1>7, <1>8 DEF Heap!Vanish

LEMMA HeapMutate ==
  ASSUME IInv, NEW v \in VM, Mutate(v)
  PROVE  Heap!HeapNext \/ UNCHANGED <<stack, closure, LiveRefs, entries>>
<1> USE DEF coordVars, threadVars, heapVars
<1>0. TypeOK /\ Live \subseteq entries /\ Held \subseteq Live /\ Closed(Live, refs)
  BY LiveFacts DEF IInv, TypeInv
<1>a. stack[v] \subseteq Live
  BY <1>0 DEF Held, TypeOK
<1>6. CASE AllocOther(v)
  BY <1>6 DEF AllocOther, LiveRefs
<1> SUFFICES ASSUME ~AllocOther(v) PROVE Heap!HeapNext
  BY <1>6
<1>1. PICK b \in Box : \/ Alloc(v, b) \/ Pop(v, b)
                       \/ \E c \in Box : Load(v, b, c) \/ Store(v, b, c) \/ Erase(v, b, c)
  BY DEF Mutate
<1>2. CASE Alloc(v, b)
  <2>1. refs[b] = {}
    BY <1>2 DEF IInv, BoxInv, Alloc
  <2>2. LiveRefs' = LiveRefs /\ LiveRefs[b] = {}
    BY <1>2, <2>1, <1>0 DEF Alloc, LiveRefs
  <2>3. Heap!NewBox(v, b)
    BY <1>2, <2>2 DEF Alloc, Heap!NewBox, Heap!Grow
  <2> QED BY <2>3 DEF Heap!HeapNext
<1>3. CASE Pop(v, b)
  <2>1. LiveRefs' = LiveRefs
    BY <1>3 DEF Pop, LiveRefs
  <2>2. Heap!Forget(v, {b}) /\ {b} \in SUBSET Box
    BY <1>3, <2>1 DEF Pop, Heap!Forget
  <2> QED BY <2>2 DEF Heap!HeapNext
<1>4. ASSUME NEW c \in Box, Load(v, b, c) PROVE Heap!HeapNext
  <2>1. LiveRefs' = LiveRefs
    BY <1>4 DEF Load, LiveRefs
  <2>2. b \in entries /\ c \in entries /\ c \in LiveRefs[b]
    BY <1>4, <1>0, <1>a DEF Load, LiveRefs, Closed
  <2>3. Heap!Get(v, b, c)
    BY <1>4, <2>1, <2>2 DEF Load, Heap!Get, Heap!Grow
  <2> QED BY <2>3 DEF Heap!HeapNext
<1>5. ASSUME NEW c \in Box, Store(v, b, c) \/ Erase(v, b, c) PROVE Heap!HeapNext
  <2>1. b \in entries /\ b \in stack[v]
    BY <1>5, <1>0, <1>a DEF Store, Erase
  <2>2. LiveRefs' = [LiveRefs EXCEPT ![b] = refs'[b]]
    BY <1>5, <2>1, <1>0 DEF Store, Erase, LiveRefs, TypeOK
  <2>3. refs'[b] \subseteq LiveRefs[b] \cup stack[v] /\ refs'[b] \in SUBSET Box
    BY <1>5, <2>1, <1>0 DEF Store, Erase, LiveRefs, TypeOK
  <2>4. Heap!Put(v, b, refs'[b])
    BY <1>5, <2>1, <2>2, <2>3 DEF Store, Erase, Heap!Put
  <2> QED BY <2>3, <2>4 DEF Heap!HeapNext
<1> QED BY <1>1, <1>2, <1>3, <1>4, <1>5

LEMMA HeapLifecycle ==
  ASSUME IInv, NEW v \in VM, Lifecycle(v)
  PROVE  Heap!HeapNext \/ UNCHANGED <<stack, closure, LiveRefs, entries>>
<1> USE DEF coordVars, threadVars, heapVars
<1>0. TypeOK BY DEF IInv, TypeInv
<1>1. UNCHANGED <<refs, entries>>
  BY DEF Lifecycle, Boot, Register, Finish, Unregister, Unprotect, Spawn
<1>2. LiveRefs' = LiveRefs
  BY <1>1 DEF LiveRefs
<1>3. CASE Boot(v) \/ Unregister(v)
  BY <1>1, <1>2, <1>3 DEF Boot, Unregister
<1>4. CASE Register(v)
  <2>1. stack[v] = {} /\ closure' = closure
    BY <1>4 DEF IInv, RootsInv, Unregistered, Register
  <2>2. CASE closure[v] = NoBox
    BY <1>0, <1>1, <1>2, <1>4, <2>1, <2>2 DEF Register, TypeOK
  <2>3. CASE closure[v] # NoBox
    BY <1>0, <1>1, <1>2, <1>4, <2>1, <2>3 DEF Register, Heap!PickUp, Heap!Grow, Heap!HeapNext
  <2> QED BY <2>2, <2>3
<1>5. CASE Finish(v)
  <2>1. Heap!Forget(v, Box) /\ Box \in SUBSET Box
    BY <1>0, <1>1, <1>2, <1>5 DEF Finish, Heap!Forget, TypeOK
  <2> QED BY <2>1 DEF Heap!HeapNext
<1>6. CASE Unprotect(v)
  BY <1>1, <1>2, <1>6 DEF Unprotect, Heap!Release, Heap!HeapNext
<1>7. ASSUME NEW w \in VM, NEW b \in Box, Spawn(v, w, b) PROVE Heap!HeapNext
  <2>1. closure[w] = NoBox
    BY <1>7 DEF IInv, TypeInv, ClosureWhere, Spawn
  <2> QED BY <1>1, <1>2, <1>7, <2>1 DEF Spawn, Heap!Start, Heap!HeapNext
<1> QED BY <1>3, <1>4, <1>5, <1>6, <1>7 DEF Lifecycle

LEMMA HeapStep ==
  ASSUME IInv, [Next]_vars
  PROVE  Heap!HeapNext \/ UNCHANGED <<stack, closure, LiveRefs, entries>>
<1> USE DEF coordVars, threadVars, heapVars
<1>1. CASE UNCHANGED vars
  BY <1>1 DEF vars, LiveRefs
<1>2. ASSUME NEW v \in VM, PollStep(v) PROVE UNCHANGED <<stack, closure, LiveRefs, entries>>
  BY <1>2 DEF PollStep, PollSnapshot, PollJoin, CvWait, Elect, GatherFails, PollResume, LiveRefs
<1>3. ASSUME NEW v \in VM, Blocking(v) PROVE UNCHANGED <<stack, closure, LiveRefs, entries>>
  BY <1>3 DEF Blocking, BeginBlockingNative, AcquireLock, WakeUp, EndBlockingNative, Unlock,
              LiveRefs
<1>4. ASSUME NEW v \in VM, Collect(v)
      PROVE  Heap!HeapNext \/ UNCHANGED <<stack, closure, LiveRefs, entries>>
  <2>1. CASE Sweep(v)
    <3>1. entries \ marked[v] \in SUBSET Box
      BY DEF IInv, TypeInv, TypeOK
    <3> QED BY <2>1, <3>1, SweepVanishes DEF Heap!HeapNext
  <2>2. CASE ReclaimReset(v)
    BY <2>2 DEF ReclaimReset, LiveRefs, IInv, BoxInv
  <2>3. CASE ~Sweep(v) /\ ~ReclaimReset(v)
    BY <1>4, <2>3 DEF Collect, Trace, CollectFails, EndCollection, EndFailed, ReclaimPool, LiveRefs
  <2> QED BY <2>1, <2>2, <2>3
<1> QED BY <1>1, <1>2, <1>3, <1>4, HeapMutate, HeapLifecycle DEF Next

\* Seen by the programs the collector only removes boxes nobody can reach: every step
\* of the runtime is a step of ManagedHeap or leaves its variables alone.
THEOREM CollectorIsInvisible == Spec => ImplementsManagedHeap
<1>1. Init => Heap!HeapInit
  BY DEF Init, Heap!HeapInit, LiveRefs
<1>2. IInv /\ [Next]_vars => [Heap!HeapNext]_(Heap!hvars)
  BY HeapStep DEF Heap!hvars
<1> QED BY <1>1, <1>2, Invariance, PTL DEF Spec, ImplementsManagedHeap, Heap!HeapSpec

=============================================================================
