---------------------------- MODULE TaskExecutor ----------------------------
(***************************************************************************)
(* Task.spawn on the CPU pool: the native (native.cpp), RuntimeTaskExecutor *)
(* and the two process-wide variables they share, gAliveWorkerThreads and  *)
(* gCurrentSpawningTask.  The program's main thread spawns and cancels;    *)
(* closures on the workers spawn further tasks.  The pool is destroyed     *)
(* when the program has ended.                                             *)
(***************************************************************************)
EXTENDS Naturals, Sequences, FiniteSets

CONSTANTS Spawned, Worker

ASSUME ConstAssumption == /\ IsFiniteSet(Spawned) /\ IsFiniteSet(Worker)
                          /\ "none" \notin Spawned /\ "none" \notin Worker

VARIABLES
    status, requested, children,  \* RuntimeTaskState
    asked,                        \* tasks asked to cancel while their closure ran
    queue, stopping, aliveWorkers,
    current,                      \* gCurrentSpawningTask
    pc, task, previous,           \* workers: the work they hold, the guard they built
    cancelling,                   \* main inside Task.cancel: the task and the status it read
    mainDone

stateVars  == <<status, requested, children, asked>>
workerVars == <<pc, task, previous>>
poolVars   == <<queue, stopping, aliveWorkers>>
vars == <<stateVars, poolVars, current, workerVars, cancelling, mainDone>>

None == "none"
Thread == Worker \cup {None}            \* None is the main thread
isTerminal(t) == status[t] \in {"Succeeded", "Failed", "Cancelled"}
InBody(t) == \E w \in Worker : pc[w] = "body" /\ task[w] = t

Init ==
    /\ status = [t \in Spawned |-> "absent"] /\ requested = [t \in Spawned |-> FALSE]
    /\ children = [t \in Spawned |-> {}] /\ asked = {}
    /\ queue = <<>> /\ stopping = FALSE /\ aliveWorkers = 0 /\ current = None
    /\ pc = [w \in Worker |-> "idle"] /\ task = [w \in Worker |-> None]
    /\ previous = [w \in Worker |-> None]
    /\ cancelling = <<>> /\ mainDone = FALSE

\* The live tasks a request on t reaches, t included; the cascade stops at a task that is
\* settled or already asked.
Reached(t) ==
    LET live == {c \in Spawned : status[c] \in {"Pending", "Running"} /\ ~requested[c]}
        D[n \in 0..Cardinality(Spawned)] ==
            IF n = 0 THEN {t} ELSE D[n - 1] \cup (live \cap UNION {children[p] : p \in D[n - 1]})
    IN  D[Cardinality(Spawned)]

Ask(S) == /\ requested' = [t \in Spawned |-> requested[t] \/ t \in S]
          /\ asked' = asked \cup {t \in S : InBody(t)}

cancel(t) == status' = [status EXCEPT ![t] = "Cancelled"] /\ Ask(Reached(t)) /\ UNCHANGED children

\* Mutant: the count goes up only once a worker has the task.
taskSpawnUncounted(th, t) ==
    /\ IF th = None THEN ~mainDone /\ cancelling = <<>> ELSE pc[th] = "body"
    /\ status[t] = "absent" /\ ~stopping
    /\ status' = [status EXCEPT ![t] = "Pending"]
    /\ children' = IF current = None THEN children ELSE [children EXCEPT ![current] = @ \cup {t}]
    /\ requested' = [requested EXCEPT ![t] = current # None /\ requested[current]]
    /\ queue' = Append(queue, t)
    /\ UNCHANGED <<asked, stopping, aliveWorkers, current, workerVars, cancelling, mainDone>>

\* Task.spawn: the new task joins whatever gCurrentSpawningTask names, is counted and
\* queued.
taskSpawn(th, t) ==
    /\ IF th = None THEN ~mainDone /\ cancelling = <<>> ELSE pc[th] = "body"
    /\ status[t] = "absent" /\ ~stopping
    /\ status' = [status EXCEPT ![t] = "Pending"]
    /\ children' = IF current = None THEN children ELSE [children EXCEPT ![current] = @ \cup {t}]
    /\ requested' = [requested EXCEPT ![t] = current # None /\ requested[current]]
    /\ aliveWorkers' = aliveWorkers + 1 /\ queue' = Append(queue, t)
    /\ UNCHANGED <<asked, stopping, current, workerVars, cancelling, mainDone>>

\* A closure cannot spawn once the pool stops: enqueue throws and the closure fails.
taskSpawnRefused(w) ==
    /\ stopping /\ pc[w] = "body" /\ \E t \in Spawned : status[t] = "absent"
    /\ pc' = [pc EXCEPT ![w] = "failed"] /\ current' = previous[w]
    /\ UNCHANGED <<stateVars, poolVars, task, previous, cancelling, mainDone>>

\* Mutant: a stopping pool drops what is queued.
workerStops(w) ==
    /\ pc[w] = "idle" /\ stopping
    /\ pc' = [pc EXCEPT ![w] = "exited"]
    /\ UNCHANGED <<stateVars, poolVars, current, task, previous, cancelling, mainDone>>

workerExit(w) ==
    /\ pc[w] = "idle" /\ stopping /\ queue = <<>>
    /\ pc' = [pc EXCEPT ![w] = "exited"]
    /\ UNCHANGED <<stateVars, poolVars, current, task, previous, cancelling, mainDone>>

workerTake(w) ==
    /\ pc[w] = "idle" /\ queue # <<>>
    /\ pc' = [pc EXCEPT ![w] = "check"] /\ task' = [task EXCEPT ![w] = Head(queue)]
    /\ queue' = Tail(queue)
    /\ UNCHANGED <<stateVars, stopping, aliveWorkers, current, previous, cancelling,
                   mainDone>>

\* Mutant: a task that was asked to cancel is skipped and not settled.
CheckSkips(w) ==
    /\ pc[w] = "check"
    /\ LET t == task[w] IN
         pc' = [pc EXCEPT ![w] = IF isTerminal(t) \/ requested[t] THEN "done" ELSE "start"]
    /\ UNCHANGED <<stateVars, poolVars, current, task, previous, cancelling, mainDone>>

\* The lambda: a task cancelled before its worker got to it never runs.
CheckCancelled(w) ==
    /\ pc[w] = "check"
    /\ LET t == task[w] IN
         /\ pc' = [pc EXCEPT ![w] = IF isTerminal(t) \/ requested[t] THEN "done" ELSE "start"]
         /\ IF requested[t] /\ ~isTerminal(t) THEN cancel(t) ELSE UNCHANGED stateVars
    /\ UNCHANGED <<poolVars, current, task, previous, cancelling, mainDone>>

\* Mutant: the closure runs whatever happened since the check.
StartAnyway(w) ==
    /\ pc[w] = "start"
    /\ LET t == task[w] IN
         /\ status' = [status EXCEPT ![t] = IF @ = "Pending" THEN "Running" ELSE @]
         /\ previous' = [previous EXCEPT ![w] = current] /\ current' = t
         /\ pc' = [pc EXCEPT ![w] = "body"]
    /\ UNCHANGED <<requested, children, asked, poolVars, task, cancelling, mainDone>>

\* start throws unless the task is still Pending; fail then throws too, into nothing.
Start(w) ==
    /\ pc[w] = "start"
    /\ LET t == task[w] IN
         IF status[t] = "Pending"
           THEN /\ status' = [status EXCEPT ![t] = "Running"]
                /\ previous' = [previous EXCEPT ![w] = current] /\ current' = t
                /\ pc' = [pc EXCEPT ![w] = "body"]
           ELSE pc' = [pc EXCEPT ![w] = "done"] /\ UNCHANGED <<status, previous, current>>
    /\ UNCHANGED <<requested, children, asked, poolVars, task, cancelling, mainDone>>

\* The closure returns or throws; the guard puts back what it found.
BodyEnds(w, how) ==
    /\ pc[w] = "body"
    /\ pc' = [pc EXCEPT ![w] = how] /\ current' = previous[w]
    /\ UNCHANGED <<stateVars, poolVars, task, previous, cancelling, mainDone>>

\* Mutant: the result is delivered although the task was asked to cancel.
CompletedDelivers(w) ==
    /\ pc[w] = "returned" /\ pc' = [pc EXCEPT ![w] = "succeed"]
    /\ UNCHANGED <<stateVars, poolVars, current, task, previous, cancelling, mainDone>>

Completed(w) ==
    /\ pc[w] = "returned"
    /\ pc' = [pc EXCEPT ![w] = IF requested[task[w]] THEN "cancel" ELSE "succeed"]
    /\ UNCHANGED <<stateVars, poolVars, current, task, previous, cancelling, mainDone>>

\* The terminal transition; a task settled meanwhile keeps its state.
Settle(w) ==
    /\ pc[w] \in {"succeed", "cancel", "failed"} /\ pc' = [pc EXCEPT ![w] = "done"]
    /\ LET t == task[w] IN
         CASE isTerminal(t) -> UNCHANGED stateVars
           [] pc[w] = "cancel" /\ ~isTerminal(t) -> cancel(t)
           [] pc[w] = "succeed" /\ ~isTerminal(t) ->
                status' = [status EXCEPT ![t] = "Succeeded"] /\ UNCHANGED <<requested, children, asked>>
           [] pc[w] = "failed" /\ ~isTerminal(t) ->
                status' = [status EXCEPT ![t] = "Failed"] /\ UNCHANGED <<requested, children, asked>>
    /\ UNCHANGED <<poolVars, current, task, previous, cancelling, mainDone>>

Uncount(w) ==
    /\ pc[w] = "done"
    /\ pc' = [pc EXCEPT ![w] = "idle"] /\ task' = [task EXCEPT ![w] = None]
    /\ aliveWorkers' = aliveWorkers - 1
    /\ UNCHANGED <<stateVars, queue, stopping, current, previous, cancelling, mainDone>>

\* Task.cancel on the main thread: the status is read under the task's lock, the call it
\* selects takes the lock again.  If the task settled in between, cancel throws
\* logic_error and requestCancellation does nothing.
TaskCancelReads(t) ==
    /\ ~mainDone /\ cancelling = <<>> /\ status[t] \in {"Pending", "Running"}
    /\ cancelling' = <<t, status[t]>>
    /\ UNCHANGED <<stateVars, poolVars, current, workerVars, mainDone>>

TaskCancelActs ==
    /\ cancelling # <<>> /\ cancelling' = <<>>
    /\ LET t == cancelling[1] IN
         CASE isTerminal(t) -> UNCHANGED stateVars
           [] cancelling[2] = "Pending" /\ ~isTerminal(t) -> cancel(t)
           [] cancelling[2] = "Running" /\ ~isTerminal(t) ->
                IF requested[t] THEN UNCHANGED stateVars
                ELSE Ask(Reached(t)) /\ UNCHANGED <<status, children>>
    /\ UNCHANGED <<poolVars, current, workerVars, mainDone>>

\* The program ends; the pool's destructor lets the workers finish the queue.
MainEnds ==
    /\ ~mainDone /\ cancelling = <<>> /\ mainDone' = TRUE
    /\ UNCHANGED <<stateVars, poolVars, current, workerVars, cancelling>>

Stop ==
    /\ mainDone /\ ~stopping /\ stopping' = TRUE
    /\ UNCHANGED <<stateVars, queue, aliveWorkers, current, workerVars, cancelling,
                   mainDone>>

WorkerStep(w) ==
    \/ workerExit(w) \/ workerTake(w) \/ CheckCancelled(w) \/ Start(w)
    \/ \E how \in {"returned", "failed"} : BodyEnds(w, how)
    \/ taskSpawnRefused(w) \/ Completed(w) \/ Settle(w) \/ Uncount(w)

Next ==
    \/ \E w \in Worker : WorkerStep(w)
    \/ \E th \in Thread, t \in Spawned : taskSpawn(th, t)
    \/ \E t \in Spawned : TaskCancelReads(t)
    \/ TaskCancelActs \/ MainEnds \/ Stop

\* The workers keep running and closures return.
Spec == Init /\ [][Next]_vars /\ \A w \in Worker : WF_vars(WorkerStep(w))

(***************************************************************************)
(* Properties.                                                             *)
(***************************************************************************)
Holding == {w \in Worker : pc[w] \notin {"idle", "exited"}}

\* runtime_task_executor.cpp:38-43: no task is queued or running uncounted, so a channel
\* operation that reads 0 may conclude that nobody is left to serve it, and none stays
\* counted once its worker is done with it.
CountMatches == aliveWorkers = Len(queue) + Cardinality(Holding)

\* native.cpp:1933-1935: a spawn that settled before its worker started it never runs its
\* closure.
CancelledNeverRuns ==
    [][\A t \in Spawned : InBody(t)' /\ ~InBody(t) => ~isTerminal(t)]_vars

\* native.cpp:1952-1956, docs/changelog.md:306: a closure asked to cancel while it ran
\* never delivers its result.
AskedNeverSucceeds == \A t \in asked : status[t] # "Succeeded"

\* runtime_task_executor.cpp:33-47 and 49-71: no spawn is stranded: one that has not started
\* is queued or with the worker about to start it, one that runs is with the worker that
\* will settle it, and no worker leaves while anything is queued.
NoneStranded ==
    /\ \A t \in Spawned :
         /\ status[t] = "Pending" =>
              \/ \E i \in 1 .. Len(queue) : queue[i] = t
              \/ \E w \in Worker : task[w] = t /\ pc[w] \in {"check", "start"}
         /\ status[t] = "Running" =>
              \E w \in Worker : task[w] = t /\ pc[w] \in {"body", "returned", "succeed", "cancel", "failed"}
    /\ \A w \in Worker : pc[w] = "exited" => stopping /\ queue = <<>>

\* runtime_task_executor.cpp:22-31 and 49-71: every spawn settles, the ones still queued
\* when the pool stops included.
SpawnsSettle == \A t \in Spawned : status[t] # "absent" ~> isTerminal(t)
=============================================================================
