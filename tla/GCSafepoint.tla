---------------------------- MODULE GCSafepoint ----------------------------
(***************************************************************************)
(* The stop-the-world rendezvous of the zl runtime and the tracing         *)
(* collector it protects: GCSafepointCoordinator (gc_safepoint.cpp),       *)
(* TracingGC (gc.cpp) and the places where a VM meets them (vm.cpp,        *)
(* native.cpp).                                                            *)
(*                                                                         *)
(* Every step is one critical section of the coordinator mutex, one        *)
(* critical section of the collector's registry mutex, or work a thread    *)
(* does between two of them.  A VM is a registered participant; "thread"   *)
(* below is what executes it.  The VMs of async bodies share the thread of *)
(* the VM that pumps them, which is parked meanwhile: they take the steps  *)
(* of any VM between two blocking natives.  A name of VM is reused after   *)
(* the VM is gone, which stands for the fresh id that nextId would hand    *)
(* out.                                                                    *)
(*                                                                         *)
(* A Box is one managed allocation (list, map, object, closure).  refs is  *)
(* the object graph, stack[v] what VM::gcRoots reports for v: frames,      *)
(* operands, native arguments, async invocation.  A program's static       *)
(* storage is read by the trace like any other container and is not told   *)
(* apart from a box.                                                       *)
(***************************************************************************)
EXTENDS Integers, FiniteSets

CONSTANTS VM,           \* names of virtual machines, the coordinator's participants
          Box,          \* managed allocations
          NoBox,        \* a worker without an entry closure
          NoVM,         \* nobody holds the user mutex
          FreeListCap,  \* kFreeListCap
          MaxRefs       \* bound: references stored in one box

ASSUME ConstAssumption ==
    /\ IsFiniteSet(VM) /\ IsFiniteSet(Box)
    /\ NoBox \notin Box /\ NoVM \notin VM
    /\ FreeListCap \in Nat /\ MaxRefs \in Nat

VARIABLES
    \* coordinator, under its mutex
    participants, parked, roots, collectionRequested, collectionRunning, asleep,
    \* threads
    pc, snapshot, allRoots, marked, retired, closure, holder,
    \* managed heap
    stack, refs, entries, pool, protectedRoots, pressure

coordVars  == <<participants, parked, roots, collectionRequested, collectionRunning, asleep>>
threadVars == <<pc, snapshot, allRoots, marked, retired, closure, holder>>
heapVars   == <<stack, refs, entries, pool, protectedRoots, pressure>>
vars       == <<coordVars, threadVars, heapVars>>

\* Where a thread is.  "snap": in poll, lock released, snapshot built.
\* "waiting": in the while loop of poll.  "tracing" .. "failed": elected, inside
\* collect.  "resetting", "pooling": inside reclaim.  "locking", "sleeping": in a
\* bracketed native wait.  "woken": the wait is over, endBlockingNative pending.
PCs == {"none", "starting", "run", "snap", "waiting", "tracing", "sweeping",
        "swept", "failed", "resetting", "pooling", "locking", "sleeping",
        "woken", "exiting", "exited"}

(***************************************************************************)
(* Reachability: the least set that contains R and is closed under refs.   *)
(***************************************************************************)
Closed(S, g) == \A b \in S : g[b] \subseteq S

Reach(R, g) == {b \in Box : \A S \in SUBSET Box : R \subseteq S /\ Closed(S, g) => b \in S}

\* What threads may still use: stacks, and closures handed to unborn workers.
Held == {b \in Box : \E v \in VM : b \in stack[v] \/ closure[v] = b}

AllParked == participants \subseteq parked

ProtectedIds == {b \in Box : protectedRoots[b] > 0}

Goto(v, l) == pc' = [pc EXCEPT ![v] = l]

Init ==
    /\ participants = {} /\ parked = {} /\ asleep = {}
    /\ roots = [v \in VM |-> {}]
    /\ collectionRequested = FALSE /\ collectionRunning = FALSE
    /\ pc = [v \in VM |-> "none"]
    /\ snapshot = [v \in VM |-> {}] /\ allRoots = [v \in VM |-> {}]
    /\ marked = [v \in VM |-> {}] /\ retired = [v \in VM |-> {}]
    /\ closure = [v \in VM |-> NoBox] /\ holder = NoVM
    /\ stack = [v \in VM |-> {}] /\ refs = [b \in Box |-> {}]
    /\ entries = {} /\ pool = {}
    /\ protectedRoots = [b \in Box |-> 0] /\ pressure = FALSE

(***************************************************************************)
(* Threads come and go.                                                    *)
(***************************************************************************)
\* main constructs the first VM of the process.
Boot(v) ==
    /\ \A w \in VM : pc[w] = "none"
    /\ Goto(v, "starting")
    /\ UNCHANGED <<coordVars, snapshot, allRoots, marked, retired, closure, holder, heapVars>>

\* Mutant: the worker is started without pinning its closure.
SpawnUnpinned(v, w, b) ==
    /\ pc[v] = "run" /\ pc[w] = "none" /\ b \in stack[v]
    /\ closure' = [closure EXCEPT ![w] = b]
    /\ Goto(w, "starting")
    /\ UNCHANGED <<coordVars, snapshot, allRoots, marked, retired, holder, heapVars>>

\* Thread.start / Task.spawn: pin the closure, then start the worker.
Spawn(v, w, b) ==
    /\ pc[v] = "run" /\ pc[w] = "none" /\ b \in stack[v]
    /\ protectedRoots' = [protectedRoots EXCEPT ![b] = @ + 1]
    /\ closure' = [closure EXCEPT ![w] = b]
    /\ Goto(w, "starting")
    /\ UNCHANGED <<coordVars, snapshot, allRoots, marked, retired, holder,
                   stack, refs, entries, pool, pressure>>

\* Mutant: a new VM does not wait for the trace.
RegisterNow(v) ==
    /\ pc[v] = "starting"
    /\ participants' = participants \cup {v}
    /\ stack' = [stack EXCEPT ![v] = IF closure[v] = NoBox THEN {} ELSE {closure[v]}]
    /\ Goto(v, "run")
    /\ UNCHANGED <<parked, roots, collectionRequested, collectionRunning, asleep,
                   snapshot, allRoots, marked, retired, closure, holder,
                   refs, entries, pool, protectedRoots, pressure>>

\* registerParticipant waits for a trace, never for a mere request.
Register(v) ==
    /\ pc[v] = "starting" /\ v \notin asleep /\ ~collectionRunning
    /\ participants' = participants \cup {v}
    /\ stack' = [stack EXCEPT ![v] = IF closure[v] = NoBox THEN {} ELSE {closure[v]}]
    /\ Goto(v, "run")
    /\ UNCHANGED <<parked, roots, collectionRequested, collectionRunning, asleep,
                   snapshot, allRoots, marked, retired, closure, holder,
                   refs, entries, pool, protectedRoots, pressure>>

\* The entry function returned: its frames are gone, ~VM runs.
Finish(v) ==
    /\ pc[v] = "run" /\ holder # v
    /\ stack' = [stack EXCEPT ![v] = {}]
    /\ Goto(v, "exiting")
    /\ UNCHANGED <<coordVars, snapshot, allRoots, marked, retired, closure, holder,
                   refs, entries, pool, protectedRoots, pressure>>

\* Mutant: leaving does not notify the waiting pollers.
UnregisterSilent(v) ==
    /\ pc[v] = "exiting" /\ v \notin asleep /\ ~collectionRunning
    /\ participants' = participants \ {v}
    /\ parked' = parked \ {v}
    /\ roots' = [roots EXCEPT ![v] = {}]
    /\ Goto(v, "exited")
    /\ UNCHANGED <<collectionRequested, collectionRunning, asleep, snapshot, allRoots,
                   marked, retired, closure, holder, heapVars>>

\* unregisterParticipant: leaves, and lets waiting pollers look again.
Unregister(v) ==
    /\ pc[v] = "exiting" /\ v \notin asleep /\ ~collectionRunning
    /\ participants' = participants \ {v}
    /\ parked' = parked \ {v}
    /\ roots' = [roots EXCEPT ![v] = {}]
    /\ asleep' = {}
    /\ Goto(v, "exited")
    /\ UNCHANGED <<collectionRequested, collectionRunning, snapshot, allRoots, marked,
                   retired, closure, holder, heapVars>>

\* The worker's lambda dies after its VM: ~ProtectedGCRoot.
Unprotect(v) ==
    /\ pc[v] = "exited"
    /\ protectedRoots' = IF closure[v] = NoBox THEN protectedRoots
                         ELSE [protectedRoots EXCEPT ![closure[v]] = @ - 1]
    /\ closure' = [closure EXCEPT ![v] = NoBox]
    /\ Goto(v, "none")
    /\ UNCHANGED <<coordVars, snapshot, allRoots, marked, retired, holder,
                   stack, refs, entries, pool, pressure>>

(***************************************************************************)
(* The mutator: bytecode between two safepoints.                           *)
(***************************************************************************)
\* makeGC*: a pooled box when there is one, else a fresh one.  Counting the
\* allocation may reach the threshold (pressure = shouldCollect).
Alloc(v, b) ==
    /\ pc[v] = "run"
    /\ b \notin entries /\ \A w \in VM : b \notin retired[w]
    /\ pool # {} => b \in pool
    /\ pool' = pool \ {b}
    /\ entries' = entries \cup {b}
    /\ stack' = [stack EXCEPT ![v] = @ \cup {b}]
    /\ pressure' \in {pressure, TRUE}
    /\ UNCHANGED <<coordVars, threadVars, refs, protectedRoots>>

\* makeGC* for one of the boxes a program has beyond those Box names: nothing is said
\* of it but that it counts towards the threshold.
AllocOther(v) ==
    /\ pc[v] = "run"
    /\ pressure' = TRUE
    /\ UNCHANGED <<coordVars, threadVars, stack, refs, entries, pool, protectedRoots>>

Load(v, b, c) ==
    /\ pc[v] = "run" /\ b \in stack[v] /\ c \in refs[b]
    /\ stack' = [stack EXCEPT ![v] = @ \cup {c}]
    /\ UNCHANGED <<coordVars, threadVars, refs, entries, pool, protectedRoots, pressure>>

Store(v, b, c) ==
    /\ pc[v] = "run" /\ b \in stack[v] /\ c \in stack[v]
    /\ Cardinality(refs[b] \cup {c}) <= MaxRefs
    /\ refs' = [refs EXCEPT ![b] = @ \cup {c}]
    /\ UNCHANGED <<coordVars, threadVars, stack, entries, pool, protectedRoots, pressure>>

Erase(v, b, c) ==
    /\ pc[v] = "run" /\ b \in stack[v] /\ c \in refs[b]
    /\ refs' = [refs EXCEPT ![b] = @ \ {c}]
    /\ UNCHANGED <<coordVars, threadVars, stack, entries, pool, protectedRoots, pressure>>

Pop(v, b) ==
    /\ pc[v] = "run" /\ b \in stack[v]
    /\ stack' = [stack EXCEPT ![v] = @ \ {b}]
    /\ UNCHANGED <<coordVars, threadVars, refs, entries, pool, protectedRoots, pressure>>

(***************************************************************************)
(* GCSafepointCoordinator::poll.                                           *)
(***************************************************************************)
\* Slow path: the lock is dropped and the snapshot built outside it.
PollSnapshot(v) ==
    /\ pc[v] = "run" /\ v \in participants
    /\ collectionRequested \/ pressure
    /\ snapshot' = [snapshot EXCEPT ![v] = stack[v]]
    /\ Goto(v, "snap")
    /\ UNCHANGED <<coordVars, allRoots, marked, retired, closure, holder, heapVars>>

\* Relocked: join, or request, or find that the request has gone.
PollJoin(v) ==
    /\ pc[v] = "snap"
    /\ collectionRequested' = (collectionRequested \/ pressure)
    /\ snapshot' = [snapshot EXCEPT ![v] = {}]
    /\ \/ /\ collectionRequested'
          /\ roots' = [roots EXCEPT ![v] = snapshot[v]]
          /\ parked' = parked \cup {v}
          /\ asleep' = {}
          /\ Goto(v, "waiting")
       \/ /\ ~collectionRequested'
          /\ Goto(v, "run")
          /\ UNCHANGED <<roots, parked, asleep>>
    /\ UNCHANGED <<participants, collectionRunning, allRoots, marked, retired, closure,
                   holder, heapVars>>

\* cv.wait, in poll's loop or behind the predicates of the other three.
MustWait(v) ==
    \/ pc[v] = "waiting" /\ collectionRequested /\ (collectionRunning \/ ~AllParked)
    \/ pc[v] \in {"starting", "exiting", "woken"} /\ collectionRunning

CvWait(v) ==
    /\ v \notin asleep /\ MustWait(v)
    /\ asleep' = asleep \cup {v}
    /\ UNCHANGED <<participants, parked, roots, collectionRequested, collectionRunning,
                   threadVars, heapVars>>

\* The last one to park (or to wake) collects for everybody.
Elect(v) ==
    /\ pc[v] = "waiting" /\ v \notin asleep
    /\ collectionRequested /\ ~collectionRunning /\ AllParked
    /\ allRoots' = [allRoots EXCEPT ![v] = UNION {roots[w] : w \in participants}]
    /\ collectionRunning' = TRUE
    /\ Goto(v, "tracing")
    /\ UNCHANGED <<participants, parked, roots, collectionRequested, asleep, snapshot,
                   marked, retired, closure, holder, heapVars>>

\* Gathering the roots runs out of memory, still under the lock.
GatherFails(v) ==
    /\ pc[v] = "waiting" /\ v \notin asleep
    /\ collectionRequested /\ ~collectionRunning /\ AllParked
    /\ collectionRequested' = FALSE
    /\ parked' = parked \ {v}
    /\ roots' = [roots EXCEPT ![v] = {}]
    /\ asleep' = {}
    /\ Goto(v, "run")
    /\ UNCHANGED <<participants, collectionRunning, snapshot, allRoots, marked, retired,
                   closure, holder, heapVars>>

\* The rendezvous is over and this VM leaves the loop.
PollResume(v) ==
    /\ pc[v] = "waiting" /\ v \notin asleep /\ ~collectionRequested
    /\ parked' = parked \ {v}
    /\ roots' = [roots EXCEPT ![v] = {}]
    /\ Goto(v, "run")
    /\ UNCHANGED <<participants, collectionRequested, collectionRunning, asleep,
                   snapshot, allRoots, marked, retired, closure, holder, heapVars>>

(***************************************************************************)
(* TracingGC::collect and Collection::reclaim, run by the elected VM.      *)
(***************************************************************************)
Trace(v) ==
    /\ pc[v] = "tracing"
    /\ marked' = [marked EXCEPT
                    ![v] = Reach(allRoots[v] \cup (ProtectedIds \cap entries), refs)]
    /\ allRoots' = [allRoots EXCEPT ![v] = {}]
    /\ Goto(v, "sweeping")
    /\ UNCHANGED <<coordVars, snapshot, retired, closure, holder, heapVars>>

\* Marking or the sweep's reservations run out of memory: nothing was detached.
CollectFails(v) ==
    /\ pc[v] \in {"tracing", "sweeping"}
    /\ marked' = [marked EXCEPT ![v] = {}]
    /\ allRoots' = [allRoots EXCEPT ![v] = {}]
    /\ Goto(v, "failed")
    /\ UNCHANGED <<coordVars, snapshot, retired, closure, holder, heapVars>>

Sweep(v) ==
    /\ pc[v] = "sweeping"
    /\ retired' = [retired EXCEPT ![v] = entries \ marked[v]]
    /\ entries' = entries \cap marked[v]
    /\ marked' = [marked EXCEPT ![v] = {}]
    /\ pressure' = FALSE
    /\ Goto(v, "swept")
    /\ UNCHANGED <<coordVars, snapshot, allRoots, closure, holder,
                   stack, refs, pool, protectedRoots>>

\* Mutants: the end of a collection drops every snapshot, or wakes nobody.
EndCollectionClears(v) ==
    /\ pc[v] = "swept"
    /\ collectionRunning' = FALSE /\ collectionRequested' = FALSE /\ asleep' = {}
    /\ roots' = [w \in VM |-> {}]
    /\ Goto(v, "resetting")
    /\ UNCHANGED <<participants, parked, snapshot, allRoots, marked, retired, closure,
                   holder, heapVars>>

EndCollectionSilent(v) ==
    /\ pc[v] = "swept"
    /\ collectionRunning' = FALSE /\ collectionRequested' = FALSE
    /\ Goto(v, "resetting")
    /\ UNCHANGED <<participants, parked, roots, asleep, snapshot, allRoots, marked,
                   retired, closure, holder, heapVars>>

\* Relocked after collect: peers may run, this VM stays parked with its roots.
EndCollection(v) ==
    /\ pc[v] = "swept"
    /\ collectionRunning' = FALSE
    /\ collectionRequested' = FALSE
    /\ asleep' = {}
    /\ Goto(v, "resetting")
    /\ UNCHANGED <<participants, parked, roots, snapshot, allRoots, marked, retired,
                   closure, holder, heapVars>>

\* Relocked after a failed collect: unparked in the same critical section.
EndFailed(v) ==
    /\ pc[v] = "failed"
    /\ collectionRunning' = FALSE
    /\ collectionRequested' = FALSE
    /\ parked' = parked \ {v}
    /\ roots' = [roots EXCEPT ![v] = {}]
    /\ asleep' = {}
    /\ Goto(v, "run")
    /\ UNCHANGED <<participants, snapshot, allRoots, marked, retired, closure, holder,
                   heapVars>>

\* Mutant: the boxes go to the pool as they are.
ReclaimNoReset(v) ==
    /\ pc[v] = "resetting"
    /\ Goto(v, "pooling")
    /\ UNCHANGED <<coordVars, snapshot, allRoots, marked, retired, closure, holder, heapVars>>

\* reclaim, first loop: reset the retired boxes without any lock.
ReclaimReset(v) ==
    /\ pc[v] = "resetting"
    /\ refs' = [b \in Box |-> IF b \in retired[v] THEN {} ELSE refs[b]]
    /\ Goto(v, "pooling")
    /\ UNCHANGED <<coordVars, snapshot, allRoots, marked, retired, closure, holder,
                   stack, entries, pool, protectedRoots, pressure>>

\* reclaim, second loop: pool what the cap admits, destroy the rest.
ReclaimPool(v) ==
    /\ pc[v] = "pooling"
    /\ \E S \in SUBSET retired[v] :
         /\ Cardinality(pool \cup S) <= FreeListCap
         /\ S # retired[v] => Cardinality(pool \cup S) = FreeListCap
         /\ pool' = pool \cup S
    /\ retired' = [retired EXCEPT ![v] = {}]
    /\ Goto(v, "waiting")
    /\ UNCHANGED <<coordVars, snapshot, allRoots, marked, closure, holder,
                   stack, refs, entries, protectedRoots, pressure>>

(***************************************************************************)
(* Bracketed native waits: VM::BlockingNativeCall.                         *)
(***************************************************************************)
\* beginBlockingNative, before a lock (Mutex.withLock) or a timed wait.  A program
\* that locks a mutex its own callback holds is left out: std::mutex leaves that
\* undefined.
BeginBlockingNative(v, l) ==
    /\ pc[v] = "run" /\ v \in participants
    /\ l = "locking" => holder # v
    /\ roots' = [roots EXCEPT ![v] = stack[v]]
    /\ parked' = parked \cup {v}
    /\ asleep' = {}
    /\ Goto(v, l)
    /\ UNCHANGED <<participants, collectionRequested, collectionRunning, snapshot,
                   allRoots, marked, retired, closure, holder, heapVars>>

AcquireLock(v) ==
    /\ pc[v] = "locking" /\ holder = NoVM
    /\ holder' = v
    /\ Goto(v, "woken")
    /\ UNCHANGED <<coordVars, snapshot, allRoots, marked, retired, closure, heapVars>>

WakeUp(v) ==
    /\ pc[v] = "sleeping"
    /\ Goto(v, "woken")
    /\ UNCHANGED <<coordVars, snapshot, allRoots, marked, retired, closure, holder, heapVars>>

\* Mutant: the native returns to its VM in the middle of a trace.
EndBlockingNow(v) ==
    /\ pc[v] = "woken"
    /\ parked' = parked \ {v}
    /\ roots' = [roots EXCEPT ![v] = {}]
    /\ asleep' = {}
    /\ Goto(v, "run")
    /\ UNCHANGED <<participants, collectionRequested, collectionRunning, snapshot,
                   allRoots, marked, retired, closure, holder, heapVars>>

\* endBlockingNative waits for a trace, never for a mere request.
EndBlockingNative(v) ==
    /\ pc[v] = "woken" /\ v \notin asleep /\ ~collectionRunning
    /\ parked' = parked \ {v}
    /\ roots' = [roots EXCEPT ![v] = {}]
    /\ asleep' = {}
    /\ Goto(v, "run")
    /\ UNCHANGED <<participants, collectionRequested, collectionRunning, snapshot,
                   allRoots, marked, retired, closure, holder, heapVars>>

\* The callback of Mutex.withLock returned.
Unlock(v) ==
    /\ pc[v] = "run" /\ holder = v
    /\ holder' = NoVM
    /\ UNCHANGED <<coordVars, pc, snapshot, allRoots, marked, retired, closure, heapVars>>

Lifecycle(v) == Boot(v) \/ Register(v) \/ Finish(v) \/ Unregister(v) \/ Unprotect(v)
                \/ \E w \in VM, b \in Box : Spawn(v, w, b)
Mutate(v)    == \/ AllocOther(v)
                \/ \E b \in Box : \/ Alloc(v, b) \/ Pop(v, b)
                                  \/ \E c \in Box : Load(v, b, c) \/ Store(v, b, c) \/ Erase(v, b, c)
PollStep(v)  == PollSnapshot(v) \/ PollJoin(v) \/ CvWait(v) \/ Elect(v) \/ GatherFails(v)
                \/ PollResume(v)
Collect(v)   == Trace(v) \/ CollectFails(v) \/ Sweep(v) \/ EndCollection(v) \/ EndFailed(v)
                \/ ReclaimReset(v) \/ ReclaimPool(v)
Blocking(v)  == \/ \E l \in {"locking", "sleeping"} : BeginBlockingNative(v, l)
                \/ AcquireLock(v) \/ WakeUp(v) \/ EndBlockingNative(v) \/ Unlock(v)

Next == \E v \in VM : Lifecycle(v) \/ Mutate(v) \/ PollStep(v) \/ Collect(v) \/ Blocking(v)

Spec == Init /\ [][Next]_vars

(***************************************************************************)
(* Fairness: the operating system runs every thread, a wait on the user    *)
(* mutex is eventually served, a sleep ends and a callback returns; the    *)
(* interpreter polls at least every 128 instructions, so a running VM      *)
(* cannot pass its safepoint forever while a collection is wanted.  The    *)
(* waits on the coordinator's condition variable are strongly fair: a      *)
(* notified thread whose predicate is true time and again gets the mutex   *)
(* first at some point.  Nothing of the kind is assumed of a collector     *)
(* that reclaims: it asks again only when the boxes it destroys are gone,  *)
(* and a peer can allocate, request and park in the meantime every time.   *)
(* Nothing forces a VM to allocate, spawn or finish, and no collection has *)
(* to succeed.                                                             *)
(***************************************************************************)
Forced(v) == PollJoin(v) \/ CvWait(v) \/ Elect(v) \/ Trace(v) \/ Sweep(v)
             \/ EndCollection(v) \/ EndFailed(v) \/ ReclaimReset(v) \/ ReclaimPool(v)
             \/ Unprotect(v) \/ WakeUp(v)

Woken(v) == PollResume(v) \/ EndBlockingNative(v) \/ Register(v) \/ Unregister(v)

Fairness == \A v \in VM : /\ WF_vars(Forced(v)) /\ SF_vars(PollSnapshot(v)) /\ SF_vars(Woken(v))
                          /\ SF_vars(AcquireLock(v)) /\ SF_vars(Unlock(v))

FairSpec == Spec /\ Fairness

(***************************************************************************)
(* Properties.                                                             *)
(***************************************************************************)
\* Types; the protection counter of a box never goes below zero (gc.cpp:482-487).
TypeOK ==
    /\ participants \subseteq VM /\ parked \subseteq VM /\ asleep \subseteq VM
    /\ roots \in [VM -> SUBSET Box]
    /\ collectionRequested \in BOOLEAN /\ collectionRunning \in BOOLEAN
    /\ pc \in [VM -> PCs]
    /\ snapshot \in [VM -> SUBSET Box] /\ allRoots \in [VM -> SUBSET Box]
    /\ marked \in [VM -> SUBSET Box] /\ retired \in [VM -> SUBSET Box]
    /\ closure \in [VM -> Box \cup {NoBox}] /\ holder \in VM \cup {NoVM}
    /\ stack \in [VM -> SUBSET Box] /\ refs \in [Box -> SUBSET Box]
    /\ entries \subseteq Box /\ pool \subseteq Box
    /\ protectedRoots \in [Box -> Nat] /\ pressure \in BOOLEAN

\* gc_safepoint.cpp: while a trace runs the request is up, every registered VM is
\* parked, and exactly one VM is inside collect.
StopTheWorld ==
    collectionRunning =>
        /\ collectionRequested /\ AllParked
        /\ \E v \in participants : \A w \in VM :
               pc[w] \in {"tracing", "sweeping", "swept", "failed"} <=> w = v

\* gc.cpp: nothing a thread can still reach - from its stack, or from the closure
\* a worker was started with - has been retired, pooled or destroyed.
NoDangling == Reach(Held, refs) \subseteq entries

\* gc_safepoint.cpp:141-143: the snapshot of a parked VM covers its stack until it
\* resumes, also when a faster VM starts a second collection.
ParkedRootsKept == \A v \in parked : stack[v] \subseteq roots[v]

\* gc.cpp:175-178: a recycled box is indistinguishable from a fresh one, and a box
\* is never in the registry, a retired list and the pool at the same time.
PoolClean ==
    /\ \A b \in pool : refs[b] = {}
    /\ pool \cap entries = {}
    /\ \A v \in VM : retired[v] \cap (entries \cup pool) = {}
    /\ \A v, w \in VM : v # w => retired[v] \cap retired[w] = {}

\* gc_safepoint.cpp: no VM joins, leaves, unparks or mutates a live box during a
\* trace.
TraceFrozen ==
    [][collectionRunning /\ collectionRunning' =>
         /\ UNCHANGED <<participants, parked, roots, stack>>
         /\ \A b \in entries' : refs'[b] = refs[b]]_vars

\* The contents of boxes the runtime still owns; a retired box has none.
LiveRefs == [b \in Box |-> IF b \in entries THEN refs[b] ELSE {}]

\* gc.hpp:65-74: seen by the programs, collection, retirement and recycling are
\* only the disappearance of boxes nobody can reach.
Heap == INSTANCE ManagedHeap WITH refs <- LiveRefs
ImplementsManagedHeap == Heap!HeapSpec

\* gc_safepoint.cpp:64-66, 106, 157, 164-168, 173: a thread asleep on the condition
\* variable still has its reason to wait - no change of the state it waits on went by
\* without a notification - and a thread that is awake is there to end the wait: the
\* VM inside collect, or a registered VM that has yet to park.
NoSleeperForgotten == \A v \in asleep :
    /\ MustWait(v)
    /\ \E w \in VM \ asleep :
         IF collectionRunning THEN pc[w] \in {"tracing", "sweeping", "swept", "failed"}
         ELSE w \in participants \ parked

\* gc_safepoint.cpp:64-66, 103, 125, 157, 164-168, 173: no wakeup is lost: a VM that
\* entered the loop of poll leaves it, and one whose native wait ended runs again,
\* unless it is itself elected again and again without end: 164-190 send a collector
\* back into the loop, where it may find the next request of a peer that is parked.
WaitsEnd == \A v \in VM :
    []<>(pc[v] = "tracing") \/ (pc[v] \in {"waiting", "woken"} ~> pc[v] = "run")
=============================================================================
