--------------------------- MODULE RuntimeThread ---------------------------
(***************************************************************************)
(* Thread.start, Thread.join and the implicit join of a dropped Thread     *)
(* (runtime_thread.hpp, runtime_thread.cpp, native.cpp).  A std::thread    *)
(* object is tracked by where it is: in its RuntimeThreadState, in a join  *)
(* call, in a VM's DeferredThreadJoins, or disposed of (joined, detached). *)
(* A worker may run forever; the teardown bound of joinOrAbandon is a      *)
(* choice to give up at any moment before the worker is done.              *)
(***************************************************************************)
EXTENDS Naturals, FiniteSets, Sequences

CONSTANTS Handle,     \* ZL Thread values
          Vm          \* VM threads that share them

ASSUME ConstAssumption ==
    /\ IsFiniteSet(Handle) /\ Handle \cap Vm = {} /\ "none" \notin Handle
    /\ {"none", "state", "pending", "joined", "detached"} \cap Vm = {}

VARIABLES
    os,               \* the worker: "none", "running", "done" (flag stored), "exited"
    failure,          \* workers that ended with an uncaught exception
    where,            \* the std::thread object
    owned,            \* handles some Value still refers to
    pending,          \* each VM's deferred joins, newest first
    pc, target,       \* each VM's step
    finished,         \* VMs in the teardown of run
    aliveWorkers,     \* gAliveWorkerThreads
    abandoned,        \* gAbandonedWorkerThreads
    rethrown          \* failures a join rethrew

vars == <<os, failure, where, owned, pending, pc, target, finished, aliveWorkers, abandoned,
          rethrown>>

None == "none"
Idle(v) == pc[v] = "run"

Init ==
    /\ os = [h \in Handle |-> "none"] /\ failure = {}
    /\ where = [h \in Handle |-> None] /\ owned = {}
    /\ pending = [v \in Vm |-> <<>>]
    /\ pc = [v \in Vm |-> "run"] /\ target = [v \in Vm |-> None] /\ finished = {}
    /\ aliveWorkers = 0 /\ abandoned = FALSE /\ rethrown = {}

\* A VM at an instruction boundary has drained its deferred joins.
AtInstruction(v) == Idle(v) /\ v \notin finished /\ pending[v] = <<>>

(***************************************************************************)
(* The worker.                                                             *)
(***************************************************************************)
\* startWith, called by Thread.start: the worker is counted before it exists.
startWith(v, h) ==
    /\ AtInstruction(v) /\ os[h] = "none"
    /\ os' = [os EXCEPT ![h] = "running"] /\ where' = [where EXCEPT ![h] = "state"]
    /\ owned' = owned \cup {h} /\ aliveWorkers' = aliveWorkers + 1
    /\ UNCHANGED <<failure, pending, pc, target, finished, abandoned, rethrown>>

\* The entry function returns, or throws and leaves its exception behind; the flag is
\* stored.
WorkerEnds(h, fails) ==
    /\ os[h] = "running" /\ os' = [os EXCEPT ![h] = "done"]
    /\ failure' = IF fails THEN failure \cup {h} ELSE failure
    /\ UNCHANGED <<where, owned, pending, pc, target, finished, aliveWorkers, abandoned, rethrown>>

\* Mutant: the worker gives its count back only when it returned.
WorkerExitsUncounted(h) ==
    /\ os[h] = "done" /\ os' = [os EXCEPT ![h] = "exited"]
    /\ aliveWorkers' = IF h \in failure THEN aliveWorkers ELSE aliveWorkers - 1
    /\ UNCHANGED <<failure, where, owned, pending, pc, target, finished, abandoned, rethrown>>

WorkerExits(h) ==
    /\ os[h] = "done" /\ os' = [os EXCEPT ![h] = "exited"]
    /\ aliveWorkers' = aliveWorkers - 1
    /\ UNCHANGED <<failure, where, owned, pending, pc, target, finished, abandoned, rethrown>>

(***************************************************************************)
(* Thread.join                                                             *)
(***************************************************************************)
\* The handle moves into the call; if an earlier join has taken it there is nothing to
\* wait for.
join(v, h) ==
    /\ AtInstruction(v) /\ h \in owned
    /\ IF where[h] = "state"
         THEN /\ where' = [where EXCEPT ![h] = v]
              /\ pc' = [pc EXCEPT ![v] = "join"] /\ target' = [target EXCEPT ![v] = h]
         ELSE UNCHANGED <<where, pc, target>>
    /\ UNCHANGED <<os, failure, owned, pending, finished, aliveWorkers, abandoned, rethrown>>

\* Mutant: join returns without looking for a failure.
joinReturnsSilent(v) ==
    /\ pc[v] = "join" /\ os[target[v]] = "exited"
    /\ where' = [where EXCEPT ![target[v]] = "joined"]
    /\ pc' = [pc EXCEPT ![v] = "run"] /\ target' = [target EXCEPT ![v] = None]
    /\ UNCHANGED <<os, failure, owned, pending, finished, aliveWorkers, abandoned, rethrown>>

joinReturns(v) ==
    /\ pc[v] = "join" /\ os[target[v]] = "exited"
    /\ where' = [where EXCEPT ![target[v]] = "joined"]
    /\ rethrown' = rethrown \cup ({target[v]} \cap failure)
    /\ pc' = [pc EXCEPT ![v] = "run"] /\ target' = [target EXCEPT ![v] = None]
    /\ UNCHANGED <<os, failure, owned, pending, finished, aliveWorkers, abandoned>>

(***************************************************************************)
(* A dropped handle.                                                       *)
(***************************************************************************)
\* Mutant: the destructor lets the std::thread object go.
dropLoses(v, h) ==
    /\ Idle(v) /\ h \in owned /\ \A x \in Vm : target[x] # h
    /\ owned' = owned \ {h}
    /\ where' = IF where[h] = "state" THEN [where EXCEPT ![h] = "destroyed"] ELSE where
    /\ UNCHANGED <<os, failure, pending, pc, target, finished, aliveWorkers, abandoned, rethrown>>

\* The last reference goes inside an instruction of v: ~RuntimeThreadState retires the
\* node to v's queue.
drop(v, h) ==
    /\ Idle(v) /\ h \in owned /\ \A x \in Vm : target[x] # h
    /\ owned' = owned \ {h}
    /\ IF where[h] = "state"
         THEN /\ where' = [where EXCEPT ![h] = "pending"]
              /\ pending' = [pending EXCEPT ![v] = <<h>> \o @]
         ELSE UNCHANGED <<where, pending>>
    /\ UNCHANGED <<os, failure, pc, target, finished, aliveWorkers, abandoned, rethrown>>

\* The worker itself drops its last reference: a thread cannot join itself.
dropSelf(h) ==
    /\ os[h] = "running" /\ h \in owned /\ \A x \in Vm : target[x] # h
    /\ owned' = owned \ {h}
    /\ where' = IF where[h] = "state" THEN [where EXCEPT ![h] = "detached"] ELSE where
    /\ UNCHANGED <<os, failure, pending, pc, target, finished, aliveWorkers, abandoned, rethrown>>

\* drain, before the next instruction and at the end of run, takes the nodes one by one.
drain(v) ==
    /\ Idle(v) /\ pending[v] # <<>>
    /\ pc' = [pc EXCEPT ![v] = "drain"] /\ target' = [target EXCEPT ![v] = Head(pending[v])]
    /\ pending' = [pending EXCEPT ![v] = Tail(@)]
    /\ UNCHANGED <<os, failure, where, owned, finished, aliveWorkers, abandoned, rethrown>>

\* The loop's next node, or its end.
DrainNext(v) ==
    IF pending[v] = <<>>
      THEN pc' = [pc EXCEPT ![v] = "run"] /\ target' = [target EXCEPT ![v] = None] /\ UNCHANGED pending
      ELSE /\ target' = [target EXCEPT ![v] = Head(pending[v])]
           /\ pending' = [pending EXCEPT ![v] = Tail(@)] /\ UNCHANGED pc

\* Mutant: only a drain in mid-run gives up at the bound, one at teardown waits on.
joinUnboundedAtEnd(v) ==
    /\ pc[v] = "drain" /\ DrainNext(v)
    /\ LET h == target[v] IN
         \/ os[h] = "exited" /\ where' = [where EXCEPT ![h] = "joined"]
            /\ UNCHANGED abandoned
         \/ /\ v \notin finished /\ os[h] = "running"
            /\ where' = [where EXCEPT ![h] = "detached"] /\ abandoned' = TRUE
    /\ UNCHANGED <<os, failure, owned, finished, aliveWorkers, rethrown>>

\* Join a worker that is done; give up on one that still runs at the bound.
joinOrAbandon(v) ==
    /\ pc[v] = "drain" /\ DrainNext(v)
    /\ LET h == target[v] IN
         \/ os[h] = "exited" /\ where' = [where EXCEPT ![h] = "joined"]
            /\ UNCHANGED abandoned
         \/ /\ os[h] = "running" /\ where' = [where EXCEPT ![h] = "detached"]
            /\ abandoned' = TRUE
    /\ UNCHANGED <<os, failure, owned, finished, aliveWorkers, rethrown>>

\* The VM's run ends: what its frames still owned is dropped, then drained.
FinishVm(v) ==
    /\ AtInstruction(v) /\ finished' = finished \cup {v}
    /\ UNCHANGED <<os, failure, where, owned, pending, pc, target, aliveWorkers, abandoned, rethrown>>

Next ==
    \/ \E v \in Vm, h \in Handle : startWith(v, h) \/ join(v, h) \/ drop(v, h)
    \/ \E h \in Handle : WorkerEnds(h, TRUE) \/ WorkerEnds(h, FALSE) \/ WorkerExits(h) \/ dropSelf(h)
    \/ \E v \in Vm : joinReturns(v) \/ drain(v) \/ joinOrAbandon(v) \/ FinishVm(v)

\* A VM that drains goes on, and a worker whose flag is stored exits.  Nobody has to end a
\* worker.
Spec == /\ Init /\ [][Next]_vars
        /\ \A v \in Vm : WF_vars(drain(v)) /\ WF_vars(joinOrAbandon(v))
        /\ \A h \in Handle : WF_vars(WorkerExits(h))

(***************************************************************************)
(* Properties.                                                             *)
(***************************************************************************)
\* runtime_thread.cpp:31-70, 87-106: a std::thread is never destroyed joinable (which ends
\* the process): while its worker may run it is in its handle, in one join, in one VM's
\* queue or drain, or was detached; and it is joined only after the worker exited.
NeverDestroyedJoinable == \A h \in Handle : os[h] # "none" =>
    LET queues == {v \in Vm : \E i \in DOMAIN pending[v] : pending[v][i] = h}
        calls  == {v \in Vm : target[v] = h}
    IN  CASE where[h] = "state"    -> h \in owned /\ queues = {} /\ calls = {}
          [] where[h] = "pending"  -> h \notin owned /\ Cardinality(queues) + Cardinality(calls) = 1
          [] where[h] \in Vm       -> queues = {} /\ calls = {where[h]}
          [] where[h] = "joined"   -> os[h] = "exited"
          [] where[h] = "detached" -> h \notin owned
          [] OTHER                 -> FALSE

\* runtime_thread.hpp:14-20, 100-104: the count is exactly the workers that can still act,
\* so a channel operation that reads 0 is alone.
AliveIsExact == aliveWorkers = Cardinality({h \in Handle : os[h] \in {"running", "done"}})

\* runtime_thread.cpp:104-112: a join that waited rethrows the worker's failure.
JoinRethrows == \A h \in Handle : where[h] = "joined" /\ h \in owned /\ h \in failure => h \in rethrown

\* runtime_thread.cpp:43-55, 72-85: the drain at the end of a VM's run ends, whatever the
\* workers of the dropped handles do, and however many handles are dropped while it is
\* at work.  What a drain in mid-run does is not claimed: runtime_thread.hpp:59-62 says
\* that it keeps waiting, and the code gives up there too.
DrainReturns == \A v \in Vm :
    v \in finished /\ (pc[v] = "drain" \/ pending[v] # <<>>) ~> Idle(v) /\ pending[v] = <<>>
=============================================================================
