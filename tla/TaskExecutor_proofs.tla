------------------------ MODULE TaskExecutor_proofs ------------------------
(***************************************************************************)
(* Theorems about TaskExecutor, for every finite set of tasks and workers. *)
(***************************************************************************)
EXTENDS TaskExecutor, FiniteSetTheorems, TLAPS

(***************************************************************************)
(* The inductive invariant.                                                *)
(***************************************************************************)
PCs == {"idle", "exited", "check", "start", "body", "returned", "succeed", "cancel", "failed", "done"}

Types ==
    /\ status \in [Spawned -> {"absent", "Pending", "Running", "Succeeded", "Failed", "Cancelled"}]
    /\ requested \in [Spawned -> BOOLEAN]
    /\ queue \in Seq(Spawned)
    /\ pc \in [Worker -> PCs] /\ task \in [Worker -> Spawned \cup {None}]
    /\ cancelling = <<>> \/ \E t \in Spawned, s \in {"Pending", "Running"} : cancelling = <<t, s>>

\* A worker has a task exactly while it is counted as holding one.
HeldTask == \A w \in Worker : task[w] = None <=> pc[w] \in {"idle", "exited"}

\* A task is in one worker's hands or once in the queue, and only if it was spawned.
HeldOnce == /\ \A v, w \in Worker : task[v] = task[w] /\ task[v] # None => v = w
            /\ \A w \in Worker : task[w] # None => status[task[w]] # "absent"
QueuedOnce == /\ \A i, j \in 1 .. Len(queue) : queue[i] = queue[j] => i = j
              /\ \A i \in 1 .. Len(queue) : /\ status[queue[i]] \notin {"absent", "Succeeded"}
                                            /\ \A w \in Worker : task[w] # queue[i]

\* Only a worker's own completion makes a task succeed, and nothing follows it.
SucceededLast == \A w \in Worker : task[w] # None /\ status[task[w]] = "Succeeded" => pc[w] = "done"

\* The request of a closure that was asked is there when its worker looks.
AskedStays == \A t \in asked : /\ t \in Spawned /\ requested[t] /\ status[t] \notin {"absent", "Succeeded"}
                               /\ \A w \in Worker : task[w] = t => pc[w] # "succeed"

Safe == Types /\ HeldTask /\ HeldOnce /\ QueuedOnce /\ SucceededLast /\ AskedStays

Inv == Safe /\ CountMatches

\* Where an unsettled task is; with Inv, NoneStranded is inductive.
InQueue(t)  == \E i \in 1 .. Len(queue) : queue[i] = t
Awaiting(t) == \E w \in Worker : task[w] = t /\ pc[w] \in {"check", "start"}
Underway(t) == \E w \in Worker : task[w] = t /\ pc[w] \in {"body", "returned", "succeed", "cancel", "failed"}
Tended(t)   == /\ status[t] = "Pending" => InQueue(t) \/ Awaiting(t)
               /\ status[t] = "Running" => Underway(t)

LEMMA HoldingFinite == IsFiniteSet(Holding) /\ Cardinality(Holding) \in Nat
  BY ConstAssumption, FS_Subset, FS_CardinalityType DEF Holding

LEMMA InvInit == Init => Inv
<1> SUFFICES ASSUME Init PROVE Inv
  OBVIOUS
<1>1. Safe
  BY ConstAssumption DEF Init, Safe, Types, PCs, HeldTask, HeldOnce, QueuedOnce, SucceededLast, AskedStays, None
<1>2. Holding = {}
  BY DEF Init, Holding
<1>3. Len(queue) = 0 /\ aliveWorkers = 0
  BY DEF Init
<1> QED BY <1>1, <1>2, <1>3, FS_EmptySet DEF Inv, CountMatches

(***************************************************************************)
(* What the calls on RuntimeTaskState do, whoever makes them.              *)
(***************************************************************************)
\* At most, workers are done with what they hold.
Ends == /\ pc' \in [Worker -> PCs]
        /\ \A w \in Worker : pc'[w] = pc[w] \/ (pc'[w] = "done" /\ pc[w] \notin {"idle", "exited"})

\* A request reaches any set of tasks.
LEMMA AskSafe ==
  ASSUME Safe, NEW S, Ask(S), Ends, UNCHANGED <<queue, task>>, cancelling' \in {cancelling, <<>>},
         status' = status \/ \E t \in Spawned : status' = [status EXCEPT ![t] = "Cancelled"]
  PROVE  Safe'
<1> USE DEF Safe
<1>0. \A t \in Spawned : status'[t] = status[t] \/ status'[t] = "Cancelled"
  BY DEF Types
<1>1. Types'
  BY DEF Ask, Types, Ends
<1>2. HeldTask'
  BY DEF HeldTask, Ends
<1>3. HeldOnce'
  BY <1>0 DEF HeldOnce, Types
<1>4. QueuedOnce'
  BY <1>0 DEF QueuedOnce, Types
<1>5. SucceededLast'
  BY <1>0 DEF SucceededLast, Types, Ends
<1>6. AskedStays'
  <2> SUFFICES ASSUME NEW t \in asked'
               PROVE  /\ t \in Spawned /\ requested'[t] /\ status'[t] \notin {"absent", "Succeeded"}
                      /\ \A w \in Worker : task'[w] = t => pc'[w] # "succeed"
    BY DEF AskedStays
  <2>1. CASE t \in asked
    BY <1>0, <2>1 DEF AskedStays, Ask, Ends
  <2>2. CASE t \in S /\ InBody(t)
    <3>1. PICK v \in Worker : pc[v] = "body" /\ task[v] = t
      BY <2>2 DEF InBody
    <3>2. t # None /\ t \in Spawned
      BY <3>1 DEF HeldTask, Types
    <3>3. status[t] \notin {"absent", "Succeeded"}
      BY <3>1, <3>2 DEF HeldOnce, SucceededLast
    <3>4. \A w \in Worker : task[w] = t => pc[w] # "succeed"
      BY <3>1, <3>2 DEF HeldOnce
    <3> QED BY <1>0, <2>2, <3>2, <3>3, <3>4 DEF Ask, Ends
  <2> QED BY <2>1, <2>2 DEF Ask
<1> QED BY <1>1, <1>2, <1>3, <1>4, <1>5, <1>6

LEMMA CancelSafe ==
  ASSUME Safe, NEW t \in Spawned, cancel(t), Ends, UNCHANGED <<queue, task>>, cancelling' \in {cancelling, <<>>}
  PROVE  Safe'
  BY AskSafe DEF cancel

\* The calls on RuntimeTaskState that a worker or the main thread makes.
LEMMA CheckSafe ==
  ASSUME Safe, NEW w \in Worker, CheckCancelled(w)
  PROVE  Safe'
<1>1. /\ pc[w] = "check" /\ UNCHANGED <<queue, task, cancelling>>
      /\ pc' = [pc EXCEPT ![w] = IF isTerminal(task[w]) \/ requested[task[w]] THEN "done" ELSE "start"]
  BY DEF CheckCancelled, poolVars
<1>2. task[w] \in Spawned
  BY <1>1 DEF Safe, Types, HeldTask
<1>3. CASE requested[task[w]] /\ ~isTerminal(task[w])
  <2>1. cancel(task[w]) /\ Ends
    BY <1>1, <1>3 DEF CheckCancelled, Ends, PCs, Safe, Types
  <2> QED BY <1>1, <1>2, <2>1, CancelSafe
<1>4. CASE ~(requested[task[w]] /\ ~isTerminal(task[w]))
  <2>1. UNCHANGED <<status, requested, children, asked>>
    BY <1>4 DEF CheckCancelled, stateVars
  <2>2. pc' \in [Worker -> PCs] /\ pc'[w] \in {"done", "start"} /\ \A v \in Worker : v # w => pc'[v] = pc[v]
    BY <1>1 DEF Safe, Types, PCs
  <2>3. Types' /\ HeldTask' /\ HeldOnce' /\ QueuedOnce'
    BY <1>1, <2>1, <2>2 DEF Safe, Types, HeldTask, HeldOnce, QueuedOnce
  <2>4. SucceededLast' /\ AskedStays'
    BY <1>1, <2>1, <2>2 DEF Safe, SucceededLast, AskedStays
  <2> QED BY <2>3, <2>4 DEF Safe
<1> QED BY <1>3, <1>4

LEMMA SettleSafe ==
  ASSUME Safe, NEW w \in Worker, Settle(w)
  PROVE  Safe'
<1> DEFINE t == task[w]
<1>1. /\ pc[w] \in {"succeed", "cancel", "failed"} /\ UNCHANGED <<queue, task, cancelling>>
      /\ pc' = [pc EXCEPT ![w] = "done"]
  BY DEF Settle, poolVars
<1>2. t \in Spawned /\ t # None
  BY <1>1, ConstAssumption DEF Safe, Types, HeldTask, None
<1>3. Ends /\ pc' \in [Worker -> PCs] /\ pc'[w] = "done" /\ \A v \in Worker : v # w => pc'[v] = pc[v]
  BY <1>1 DEF Ends, PCs, Safe, Types
<1>4. CASE pc[w] = "cancel" /\ ~isTerminal(t)
  <2>1. cancel(t)
    BY <1>4 DEF Settle
  <2> QED BY <1>1, <1>2, <1>3, <2>1, CancelSafe
<1>5. CASE isTerminal(t) \/ pc[w] # "cancel"
  <2>1. /\ UNCHANGED <<requested, asked>>
        /\ \/ status' = status
           \/ status' = [status EXCEPT ![t] = "Failed"]
           \/ pc[w] = "succeed" /\ status' = [status EXCEPT ![t] = "Succeeded"]
    BY <1>1, <1>5 DEF Settle, stateVars
  <2>2. /\ \A u \in Spawned : u # t => status'[u] = status[u]
        /\ status'[t] = status[t] \/ status'[t] = "Failed" \/ (status'[t] = "Succeeded" /\ pc[w] = "succeed")
    BY <1>2, <2>1 DEF Safe, Types
  <2>3. \A v \in Worker : v # w => task[v] # t
    BY <1>2 DEF Safe, HeldOnce
  <2>4. Types'
    BY <1>1, <1>3, <2>1 DEF Safe, Types
  <2>5. HeldTask'
    BY <1>1, <1>3 DEF Safe, HeldTask
  <2>6. HeldOnce'
    BY <1>1, <2>2 DEF Safe, Types, HeldOnce
  <2>7. QueuedOnce'
    <3>1. \A i \in 1 .. Len(queue) : queue[i] # t /\ queue[i] \in Spawned
      BY DEF Safe, QueuedOnce, Types
    <3> QED BY <1>1, <2>2, <3>1 DEF Safe, QueuedOnce
  <2>8. SucceededLast'
    BY <1>1, <1>3, <2>2, <2>3 DEF Safe, Types, SucceededLast
  <2>9. AskedStays'
    <3>1. pc[w] = "succeed" => t \notin asked
      BY DEF Safe, AskedStays
    <3> QED BY <1>1, <1>3, <2>1, <2>2, <3>1 DEF Safe, AskedStays
  <2> QED BY <2>4, <2>5, <2>6, <2>7, <2>8, <2>9 DEF Safe
<1> QED BY <1>4, <1>5

LEMMA ActsSafe ==
  ASSUME Safe, TaskCancelActs
  PROVE  Safe'
<1>1. cancelling # <<>> /\ cancelling' = <<>> /\ UNCHANGED <<queue, pc, task>>
  BY DEF TaskCancelActs, poolVars, workerVars
<1>2. PICK t \in Spawned, s \in {"Pending", "Running"} : cancelling = <<t, s>>
  BY <1>1 DEF Safe, Types
<1>3. cancelling[1] = t /\ cancelling[2] = s
  BY <1>2
<1>4. Ends
  BY <1>1 DEF Ends, Safe, Types
<1>5. CASE s = "Pending" /\ ~isTerminal(t)
  <2>1. cancel(t)
    BY <1>3, <1>5 DEF TaskCancelActs
  <2> QED BY <1>1, <1>4, <2>1, CancelSafe
<1>6. CASE s = "Running" /\ ~isTerminal(t) /\ ~requested[t]
  <2>1. Ask(Reached(t)) /\ status' = status
    BY <1>3, <1>6 DEF TaskCancelActs
  <2> QED BY <1>1, <1>4, <2>1, AskSafe
<1>7. CASE isTerminal(t) \/ (s = "Running" /\ ~isTerminal(t) /\ requested[t])
  <2>1. UNCHANGED <<status, requested, asked>>
    BY <1>3, <1>7 DEF TaskCancelActs, stateVars
  <2> QED BY <1>1, <2>1 DEF Safe, Types, HeldTask, HeldOnce, QueuedOnce, SucceededLast, AskedStays
<1> QED BY <1>5, <1>6, <1>7

LEMMA SpawnSafe ==
  ASSUME Safe, NEW th \in Thread, NEW t \in Spawned, taskSpawn(th, t)
  PROVE  Safe'
<1> DEFINE q == Append(queue, t)
<1>1. /\ status[t] = "absent" /\ status' = [status EXCEPT ![t] = "Pending"] /\ queue' = q
      /\ UNCHANGED <<asked, pc, task, cancelling>>
  BY DEF taskSpawn, workerVars
<1>2. requested' \in [Spawned -> BOOLEAN] /\ \A u \in Spawned : u # t => requested'[u] = requested[u]
  <2>1. CASE current = None
    <3>1. requested' = [requested EXCEPT ![t] = FALSE]
      BY <2>1 DEF taskSpawn
    <3> QED BY <3>1 DEF Safe, Types
  <2>2. CASE current # None
    BY <2>2 DEF taskSpawn, Safe, Types
  <2> QED BY <2>1, <2>2
<1>3. /\ q \in Seq(Spawned) /\ Len(q) = Len(queue) + 1 /\ q[Len(queue) + 1] = t
      /\ \A i \in 1 .. Len(q) : i # Len(queue) + 1 => i \in 1 .. Len(queue) /\ q[i] = queue[i]
  BY DEF Safe, Types
<1> HIDE DEF q
<1>4. status'[t] = "Pending" /\ \A u \in Spawned : u # t => status'[u] = status[u]
  BY <1>1 DEF Safe, Types
<1>5. (\A w \in Worker : task[w] # t) /\ (\A i \in 1 .. Len(queue) : queue[i] # t) /\ t \notin asked
  BY <1>1, ConstAssumption DEF Safe, HeldOnce, QueuedOnce, AskedStays, None
<1>6. Types'
  BY <1>1, <1>2, <1>3 DEF Safe, Types
<1>7. HeldTask'
  BY <1>1 DEF Safe, HeldTask
<1>8. HeldOnce'
  BY <1>1, <1>4, <1>5 DEF Safe, Types, HeldOnce
<1>9. QueuedOnce'
  <2>1. ASSUME NEW i \in 1 .. Len(q) PROVE /\ status'[q[i]] \notin {"absent", "Succeeded"}
                                           /\ \A w \in Worker : task'[w] # q[i]
    <3>1. CASE i = Len(queue) + 1
      BY <1>1, <1>3, <1>4, <1>5, <3>1
    <3>2. CASE i # Len(queue) + 1
      BY <1>1, <1>3, <1>4, <1>5, <3>2 DEF Safe, QueuedOnce, Types
    <3> QED BY <3>1, <3>2
  <2>2. ASSUME NEW i \in 1 .. Len(q), NEW j \in 1 .. Len(q), q[i] = q[j] PROVE i = j
    BY <1>3, <1>5, <2>2 DEF Safe, QueuedOnce
  <2> QED BY <1>1, <2>1, <2>2 DEF QueuedOnce
<1>10. SucceededLast' /\ AskedStays'
  BY <1>1, <1>2, <1>4, <1>5 DEF Safe, Types, SucceededLast, AskedStays
<1> QED BY <1>6, <1>7, <1>8, <1>9, <1>10 DEF Safe

LEMMA TakeSafe ==
  ASSUME Safe, NEW w \in Worker, workerTake(w)
  PROVE  Safe' /\ Len(queue') = Len(queue) - 1
<1> DEFINE t == Head(queue)
           q == Tail(queue)
<1>1. /\ pc[w] = "idle" /\ queue # <<>> /\ queue' = q
      /\ pc' = [pc EXCEPT ![w] = "check"] /\ task' = [task EXCEPT ![w] = t]
      /\ UNCHANGED <<status, requested, asked, cancelling>>
  BY DEF workerTake, stateVars
<1>2. /\ t \in Spawned /\ 1 \in 1 .. Len(queue) /\ t = queue[1] /\ q \in Seq(Spawned) /\ Len(q) = Len(queue) - 1
      /\ \A i \in 1 .. Len(q) : i + 1 \in 1 .. Len(queue) /\ q[i] = queue[i + 1]
  BY <1>1 DEF Safe, Types
<1>3. t # None
  BY <1>2, ConstAssumption DEF None
<1> HIDE DEF q
<1>4. /\ task'[w] = t /\ \A v \in Worker : v # w => task'[v] = task[v]
      /\ pc'[w] = "check" /\ \A v \in Worker : v # w => pc'[v] = pc[v]
  BY <1>1 DEF Safe, Types
<1>5. status[t] \notin {"absent", "Succeeded"} /\ \A v \in Worker : task[v] # t
  BY <1>2 DEF Safe, QueuedOnce
<1> HIDE DEF t
<1>6. Types'
  BY <1>1, <1>2 DEF Safe, Types, PCs
<1>7. HeldTask'
  BY <1>1, <1>3, <1>4 DEF Safe, HeldTask
<1>8. HeldOnce'
  BY <1>1, <1>4, <1>5 DEF Safe, HeldOnce
<1>9. QueuedOnce'
  <2>1. ASSUME NEW i \in 1 .. Len(q) PROVE q[i] # t
    <3>1. queue[i + 1] = queue[1] => i + 1 = 1
      BY <1>2 DEF Safe, QueuedOnce
    <3> QED BY <1>2, <3>1
  <2>2. ASSUME NEW i \in 1 .. Len(q), NEW j \in 1 .. Len(q), q[i] = q[j] PROVE i = j
    <3>1. queue[i + 1] = queue[j + 1] => i + 1 = j + 1
      BY <1>2 DEF Safe, QueuedOnce
    <3> QED BY <1>2, <2>2, <3>1
  <2>3. ASSUME NEW i \in 1 .. Len(q) PROVE /\ status[q[i]] \notin {"absent", "Succeeded"}
                                           /\ \A v \in Worker : task'[v] # q[i]
    BY <1>2, <1>4, <2>1 DEF Safe, QueuedOnce
  <2> QED BY <1>1, <2>2, <2>3 DEF QueuedOnce
<1>10. SucceededLast' /\ AskedStays'
  BY <1>1, <1>4, <1>5 DEF Safe, SucceededLast, AskedStays
<1> QED BY <1>1, <1>2, <1>6, <1>7, <1>8, <1>9, <1>10 DEF Safe

LEMMA StartSafe ==
  ASSUME Safe, NEW w \in Worker, Start(w)
  PROVE  Safe'
<1> DEFINE t == task[w]
<1>1. pc[w] = "start" /\ UNCHANGED <<requested, asked, queue, task, cancelling>>
  BY DEF Start, poolVars
<1>2. t \in Spawned /\ t # None
  BY <1>1, ConstAssumption DEF Safe, Types, HeldTask, None
<1>3. /\ pc' \in [Worker -> PCs] /\ pc'[w] \in {"body", "done"} /\ \A v \in Worker : v # w => pc'[v] = pc[v]
      /\ pc'[w] = "body" => status[t] = "Pending"
  BY <1>1 DEF Start, Safe, Types, PCs
<1>4. /\ status' \in [Spawned -> {"absent", "Pending", "Running", "Succeeded", "Failed", "Cancelled"}]
      /\ \A u \in Spawned : status'[u] = status[u] \/ (status[u] = "Pending" /\ status'[u] = "Running")
  BY <1>2 DEF Start, Safe, Types
<1>5. Types' /\ HeldTask'
  BY <1>1, <1>3, <1>4 DEF Safe, Types, HeldTask
<1>6. HeldOnce' /\ QueuedOnce'
  BY <1>1, <1>4 DEF Safe, Types, HeldOnce, QueuedOnce
<1>7. SucceededLast' /\ AskedStays'
  BY <1>1, <1>2, <1>3, <1>4 DEF Safe, Types, SucceededLast, AskedStays
<1> QED BY <1>5, <1>6, <1>7 DEF Safe

\* Steps of a worker that only look at its task.
LEMMA WorkerSafe ==
  ASSUME Safe, NEW w \in Worker, NEW p \in PCs, pc' = [pc EXCEPT ![w] = p],
         UNCHANGED <<status, requested, asked, queue, task, cancelling>>,
         pc[w] \in {"idle", "exited"} <=> p \in {"idle", "exited"},
         pc[w] # "done", p = "succeed" => ~requested[task[w]]
  PROVE  Safe'
<1>1. pc' \in [Worker -> PCs] /\ pc'[w] = p /\ \A v \in Worker : v # w => pc'[v] = pc[v]
  BY DEF Safe, Types
<1>2. Types' /\ HeldTask'
  BY <1>1 DEF Safe, Types, HeldTask
<1>3. HeldOnce' /\ QueuedOnce'
  BY DEF Safe, HeldOnce, QueuedOnce
<1>4. SucceededLast' /\ AskedStays'
  BY <1>1 DEF Safe, SucceededLast, AskedStays
<1> QED BY <1>2, <1>3, <1>4 DEF Safe

LEMMA UncountSafe ==
  ASSUME Safe, NEW w \in Worker, Uncount(w)
  PROVE  Safe'
<1>1. /\ pc' = [pc EXCEPT ![w] = "idle"] /\ task' = [task EXCEPT ![w] = None]
      /\ UNCHANGED <<status, requested, asked, queue, cancelling>>
  BY DEF Uncount, stateVars
<1>2. /\ pc' \in [Worker -> PCs] /\ pc'[w] = "idle" /\ \A v \in Worker : v # w => pc'[v] = pc[v]
      /\ task' \in [Worker -> Spawned \cup {None}] /\ task'[w] = None
      /\ \A v \in Worker : v # w => task'[v] = task[v]
  BY <1>1 DEF Safe, Types, PCs
<1>3. Types' /\ HeldTask'
  BY <1>1, <1>2 DEF Safe, Types, HeldTask
<1>4. HeldOnce'
  BY <1>1, <1>2 DEF Safe, HeldOnce
<1>5. QueuedOnce'
  <2>1. \A i \in 1 .. Len(queue) : queue[i] # None
    BY ConstAssumption DEF Safe, Types, None
  <2> QED BY <1>1, <1>2, <2>1 DEF Safe, QueuedOnce
<1>6. SucceededLast' /\ AskedStays'
  BY <1>1, <1>2 DEF Safe, SucceededLast, AskedStays
<1> QED BY <1>3, <1>4, <1>5, <1>6 DEF Safe

(***************************************************************************)
(* The count, and the steps together.                                      *)
(***************************************************************************)
\* The workers that hold a task, before and after a step of w.
LEMMA SameHolding ==
  ASSUME Inv, NEW w \in Worker, UNCHANGED <<queue, aliveWorkers>>,
         \A v \in Worker : v # w => pc'[v] = pc[v],
         pc'[w] \in {"idle", "exited"} <=> pc[w] \in {"idle", "exited"}
  PROVE  CountMatches'
<1>1. Holding' = Holding
  BY DEF Holding
<1> QED BY <1>1 DEF Inv, CountMatches

LEMMA WorkerStepInv ==
  ASSUME Inv, NEW w \in Worker, WorkerStep(w)
  PROVE  Inv'
<1>0. pc \in [Worker -> PCs] /\ queue \in Seq(Spawned)
  BY DEF Inv, Safe, Types
<1>1. CASE workerExit(w)
  <2>1. /\ pc[w] = "idle" /\ pc' = [pc EXCEPT ![w] = "exited"] /\ "exited" \in PCs
        /\ UNCHANGED <<status, requested, asked, queue, task, cancelling, aliveWorkers>>
    BY <1>1 DEF workerExit, stateVars, poolVars, PCs
  <2>2. Safe'
    BY <2>1, WorkerSafe DEF Inv
  <2>3. CountMatches'
    BY <1>0, <2>1, SameHolding
  <2> QED BY <2>2, <2>3 DEF Inv
<1>2. CASE workerTake(w)
  <2>1. Safe' /\ Len(queue') = Len(queue) - 1 /\ aliveWorkers' = aliveWorkers
    BY <1>2, TakeSafe DEF Inv, workerTake
  <2>2. Holding' = Holding \cup {w} /\ w \notin Holding
    BY <1>0, <1>2 DEF workerTake, Holding
  <2>3. Cardinality(Holding') = Cardinality(Holding) + 1
    BY <2>2, HoldingFinite, FS_AddElement
  <2>4. Len(queue) \in Nat /\ Cardinality(Holding) \in Nat
    BY <1>0, HoldingFinite
  <2>5. CountMatches'
    BY <2>1, <2>3, <2>4 DEF Inv, CountMatches
  <2> QED BY <2>1, <2>5 DEF Inv
<1>3. CASE CheckCancelled(w)
  <2>1. CountMatches'
    BY <1>0, <1>3, SameHolding DEF CheckCancelled, poolVars
  <2> QED BY <1>3, <2>1, CheckSafe DEF Inv
<1>4. CASE Start(w)
  <2>1. CountMatches'
    BY <1>0, <1>4, SameHolding DEF Start, poolVars
  <2> QED BY <1>4, <2>1, StartSafe DEF Inv
<1>5. ASSUME NEW how \in {"returned", "failed"}, BodyEnds(w, how) PROVE Inv'
  <2>1. /\ pc[w] = "body" /\ pc' = [pc EXCEPT ![w] = how] /\ how \in PCs
        /\ UNCHANGED <<status, requested, asked, queue, task, cancelling, aliveWorkers>>
    BY <1>5 DEF BodyEnds, stateVars, poolVars, PCs
  <2>2. Safe'
    BY <2>1, WorkerSafe DEF Inv
  <2>3. CountMatches'
    BY <1>0, <2>1, SameHolding
  <2> QED BY <2>2, <2>3 DEF Inv
<1>6. CASE taskSpawnRefused(w)
  <2>1. /\ pc[w] = "body" /\ pc' = [pc EXCEPT ![w] = "failed"] /\ "failed" \in PCs
        /\ UNCHANGED <<status, requested, asked, queue, task, cancelling, aliveWorkers>>
    BY <1>6 DEF taskSpawnRefused, stateVars, poolVars, PCs
  <2>2. Safe'
    BY <2>1, WorkerSafe DEF Inv
  <2>3. CountMatches'
    BY <1>0, <2>1, SameHolding
  <2> QED BY <2>2, <2>3 DEF Inv
<1>7. CASE Completed(w)
  <2> DEFINE p == IF requested[task[w]] THEN "cancel" ELSE "succeed"
  <2>1. /\ pc[w] = "returned" /\ pc' = [pc EXCEPT ![w] = p] /\ p \in PCs
        /\ p = "succeed" => ~requested[task[w]]
        /\ p \notin {"idle", "exited"}
        /\ UNCHANGED <<status, requested, asked, queue, task, cancelling, aliveWorkers>>
    BY <1>7 DEF Completed, stateVars, poolVars, PCs
  <2> HIDE DEF p
  <2>2. Safe'
    BY <2>1, WorkerSafe DEF Inv
  <2>3. CountMatches'
    BY <1>0, <2>1, SameHolding
  <2> QED BY <2>2, <2>3 DEF Inv
<1>8. CASE Settle(w)
  <2>1. CountMatches'
    BY <1>0, <1>8, SameHolding DEF Settle, poolVars
  <2> QED BY <1>8, <2>1, SettleSafe DEF Inv
<1>9. CASE Uncount(w)
  <2>1. Safe'
    BY <1>9, UncountSafe DEF Inv
  <2>2. Holding' = Holding \ {w} /\ w \in Holding /\ aliveWorkers' = aliveWorkers - 1 /\ queue' = queue
    BY <1>0, <1>9 DEF Uncount, Holding
  <2>3. Cardinality(Holding') = Cardinality(Holding) - 1
    BY <2>2, HoldingFinite, FS_RemoveElement
  <2>4. Len(queue) \in Nat /\ Cardinality(Holding) \in Nat
    BY <1>0, HoldingFinite
  <2>5. CountMatches'
    BY <2>2, <2>3, <2>4 DEF Inv, CountMatches
  <2> QED BY <2>1, <2>5 DEF Inv
<1> QED BY <1>1, <1>2, <1>3, <1>4, <1>5, <1>6, <1>7, <1>8, <1>9 DEF WorkerStep

LEMMA InvStep == Inv /\ [Next]_vars => Inv'
<1> SUFFICES ASSUME Inv, [Next]_vars PROVE Inv'
  OBVIOUS
<1>1. ASSUME UNCHANGED <<status, requested, asked, queue, pc, task, aliveWorkers>>, Types' PROVE Inv'
  BY <1>1 DEF Inv, Safe, HeldTask, HeldOnce, QueuedOnce, SucceededLast, AskedStays, CountMatches, Holding
<1>2. CASE UNCHANGED vars
  BY <1>1, <1>2 DEF vars, stateVars, workerVars, poolVars, Inv, Safe, Types
<1>3. CASE MainEnds \/ Stop
  BY <1>1, <1>3 DEF MainEnds, Stop, stateVars, workerVars, poolVars, Inv, Safe, Types
<1>4. ASSUME NEW t \in Spawned, TaskCancelReads(t) PROVE Inv'
  <2>1. Types'
    BY <1>4 DEF TaskCancelReads, stateVars, workerVars, poolVars, Inv, Safe, Types
  <2> QED BY <1>1, <1>4, <2>1 DEF TaskCancelReads, stateVars, workerVars, poolVars
<1>5. CASE TaskCancelActs
  <2>1. UNCHANGED <<queue, aliveWorkers, pc>>
    BY <1>5 DEF TaskCancelActs, poolVars, workerVars
  <2>2. CountMatches'
    BY <2>1 DEF Inv, CountMatches, Holding
  <2> QED BY <1>5, <2>2, ActsSafe DEF Inv
<1>6. ASSUME NEW th \in Thread, NEW t \in Spawned, taskSpawn(th, t) PROVE Inv'
  <2>1. queue \in Seq(Spawned)
    BY DEF Inv, Safe, Types
  <2>2. aliveWorkers' = aliveWorkers + 1 /\ Len(queue') = Len(queue) + 1 /\ Len(queue) \in Nat
    BY <1>6, <2>1 DEF taskSpawn
  <2>3. Holding' = Holding
    BY <1>6 DEF taskSpawn, workerVars, Holding
  <2>4. CountMatches'
    BY <2>2, <2>3, HoldingFinite DEF Inv, CountMatches
  <2> QED BY <1>6, <2>4, SpawnSafe DEF Inv
<1> QED BY <1>2, <1>3, <1>4, <1>5, <1>6, WorkerStepInv DEF Next

LEMMA InvHolds == Spec => []Inv
  BY InvInit, InvStep, PTL DEF Spec

(***************************************************************************)
(* Where the unsettled tasks are.                                          *)
(***************************************************************************)
\* A step of w on its task t that leaves every other worker, the queue and the other
\* unsettled tasks where they are; the last hypothesis is what it owes its own task.
LEMMA OthersTended ==
  ASSUME Safe, NEW w \in Worker, NEW t \in Spawned, task[w] = t, \A u \in Spawned : Tended(u),
         UNCHANGED <<queue, task>>, \A v \in Worker : v # w => pc'[v] = pc[v],
         \A u \in Spawned : u # t => status'[u] = status[u] \/ status'[u] = "Cancelled",
         Tended(t)'
  PROVE  \A u \in Spawned : Tended(u)'
<1> SUFFICES ASSUME NEW u \in Spawned, u # t PROVE Tended(u)'
  OBVIOUS
<1>1. status'[u] = status[u] \/ status'[u] = "Cancelled"
  OBVIOUS
<1>2. InQueue(u) => InQueue(u)'
  BY DEF InQueue
<1>3. (Awaiting(u) => Awaiting(u)') /\ (Underway(u) => Underway(u)')
  BY DEF Awaiting, Underway
<1> QED BY <1>1, <1>2, <1>3 DEF Tended

\* A step that starts nothing, settles what it settles and moves no worker or queue.
LEMMA TendedCancel ==
  ASSUME \A u \in Spawned : Tended(u), UNCHANGED <<queue, pc, task>>,
         \A u \in Spawned : status'[u] = status[u] \/ status'[u] = "Cancelled"
  PROVE  \A u \in Spawned : Tended(u)'
  BY DEF Tended, InQueue, Awaiting, Underway

LEMMA CancelMarks ==
  ASSUME Safe, NEW t \in Spawned, cancel(t)
  PROVE  status'[t] = "Cancelled" /\ \A u \in Spawned : u # t => status'[u] = status[u]
  BY DEF cancel, Safe, Types

LEMMA TendedSpawn ==
  ASSUME Safe, \A u \in Spawned : Tended(u), NEW th \in Thread, NEW t \in Spawned, taskSpawn(th, t)
  PROVE  \A u \in Spawned : Tended(u)'
<1> DEFINE q == Append(queue, t)
<1>1. /\ status' = [status EXCEPT ![t] = "Pending"] /\ queue' = q /\ UNCHANGED <<pc, task>>
      /\ queue \in Seq(Spawned) /\ status \in [Spawned -> {"absent", "Pending", "Running", "Succeeded", "Failed", "Cancelled"}]
  BY DEF taskSpawn, workerVars, Safe, Types
<1>2. /\ Len(q) = Len(queue) + 1 /\ Len(queue) \in Nat /\ q[Len(queue) + 1] = t
      /\ \A i \in 1 .. Len(queue) : i \in 1 .. Len(q) /\ q[i] = queue[i]
  BY <1>1
<1> HIDE DEF q
<1>3. InQueue(t)' /\ \A u : InQueue(u) => InQueue(u)'
  <2>1. Len(queue) + 1 \in 1 .. Len(q)
    BY <1>2
  <2> QED BY <1>1, <1>2, <2>1 DEF InQueue
<1>4. \A u : (Awaiting(u) <=> Awaiting(u)') /\ (Underway(u) <=> Underway(u)')
  BY <1>1 DEF Awaiting, Underway
<1> QED BY <1>1, <1>3, <1>4 DEF Tended

LEMMA TendedTake ==
  ASSUME Safe, \A u \in Spawned : Tended(u), NEW w \in Worker, workerTake(w)
  PROVE  \A u \in Spawned : Tended(u)'
<1> DEFINE q == Tail(queue)
<1>0. PICK t \in Spawned : t = Head(queue)
  BY DEF workerTake, Safe, Types
<1>1. /\ pc[w] = "idle" /\ queue # <<>> /\ queue' = q /\ status' = status
      /\ pc' = [pc EXCEPT ![w] = "check"] /\ task' = [task EXCEPT ![w] = t]
  BY <1>0 DEF workerTake, stateVars
<1>2. /\ \A i \in 1 .. Len(queue) : i # 1 => i - 1 \in 1 .. Len(q) /\ q[i - 1] = queue[i]
      /\ t = queue[1]
  <2>1. queue \in Seq(Spawned) /\ Len(q) = Len(queue) - 1 /\ t = queue[1] /\ Len(queue) \in Nat
        /\ \A j \in 1 .. Len(q) : q[j] = queue[j + 1]
    BY <1>0, <1>1 DEF Safe, Types
  <2> HIDE DEF q
  <2>2. \A i \in 1 .. Len(queue) : i # 1 => i - 1 \in 1 .. Len(q) /\ (i - 1) + 1 = i
    BY <2>1
  <2> QED BY <2>1, <2>2
<1> HIDE DEF q
<1>3. /\ task'[w] = t /\ \A v \in Worker : v # w => task'[v] = task[v]
      /\ pc'[w] = "check" /\ \A v \in Worker : v # w => pc'[v] = pc[v]
  BY <1>1 DEF Safe, Types
<1>4. \A u : InQueue(u) => InQueue(u)' \/ u = t
  BY <1>1, <1>2 DEF InQueue
<1>5. Awaiting(t)'
  BY <1>3 DEF Awaiting
<1>6. \A u : (Awaiting(u) => Awaiting(u)') /\ (Underway(u) => Underway(u)')
  BY <1>1, <1>3 DEF Awaiting, Underway
<1> QED BY <1>1, <1>4, <1>5, <1>6 DEF Tended

\* A worker's own task, step by step.
LEMMA TendedWorker ==
  ASSUME Safe, \A u \in Spawned : Tended(u), NEW w \in Worker, WorkerStep(w)
  PROVE  \A u \in Spawned : Tended(u)'
<1> DEFINE t == task[w]
<1>0. /\ pc \in [Worker -> PCs] /\ task \in [Worker -> Spawned \cup {None}]
      /\ status \in [Spawned -> {"absent", "Pending", "Running", "Succeeded", "Failed", "Cancelled"}]
      /\ pc[w] \notin {"idle", "exited"} => t \in Spawned /\ t # None
  BY DEF Safe, Types, HeldTask
<1>1. CASE workerExit(w)
  BY <1>0, <1>1 DEF workerExit, stateVars, poolVars, Tended, InQueue, Awaiting, Underway
<1>2. CASE workerTake(w)
  BY <1>2, TendedTake
<1>3. CASE CheckCancelled(w)
  <2>1. pc[w] = "check" /\ UNCHANGED <<queue, task>> /\ \A v \in Worker : v # w => pc'[v] = pc[v]
    BY <1>0, <1>3 DEF CheckCancelled, poolVars
  <2>2. CASE requested[t] /\ ~isTerminal(t)
    <3>1. cancel(t)
      BY <1>3, <2>2 DEF CheckCancelled
    <3>2. Tended(t)' /\ \A u \in Spawned : u # t => status'[u] = status[u]
      BY <1>0, <2>1, <3>1, CancelMarks DEF Tended
    <3> QED BY <1>0, <2>1, <3>2, OthersTended
  <2>3. CASE ~(requested[t] /\ ~isTerminal(t))
    <3>1. status' = status /\ pc'[w] = IF isTerminal(t) THEN "done" ELSE "start"
      BY <1>0, <1>3, <2>3 DEF CheckCancelled, stateVars
    <3>2. ~Underway(t)
      BY <1>0, <2>1 DEF Underway, Safe, HeldOnce
    <3>3. Tended(t)'
      BY <1>0, <2>1, <3>1, <3>2 DEF Tended, Awaiting, isTerminal
    <3> QED BY <1>0, <2>1, <3>1, <3>3, OthersTended
  <2> QED BY <2>2, <2>3
<1>4. CASE Start(w)
  <2>1. pc[w] = "start" /\ UNCHANGED <<queue, task>> /\ \A v \in Worker : v # w => pc'[v] = pc[v]
    BY <1>0, <1>4 DEF Start, poolVars
  <2>2. \A u \in Spawned : u # t => status'[u] = status[u]
    BY <1>0, <1>4 DEF Start
  <2>3. Tended(t)'
    <3>1. CASE status[t] = "Pending"
      <4>1. status'[t] = "Running" /\ pc'[w] = "body"
        BY <1>0, <1>4, <2>1, <3>1 DEF Start
      <4> QED BY <2>1, <4>1 DEF Tended, Underway
    <3>2. CASE status[t] # "Pending"
      <4>1. status' = status
        BY <1>4, <3>2 DEF Start
      <4>2. ~Underway(t)
        BY <1>0, <2>1 DEF Underway, Safe, HeldOnce
      <4> QED BY <1>0, <2>1, <3>2, <4>1, <4>2 DEF Tended
    <3> QED BY <3>1, <3>2
  <2> QED BY <1>0, <2>1, <2>2, <2>3, OthersTended
<1>5. ASSUME pc[w] \in {"body", "returned"}, pc'[w] \in {"returned", "failed", "succeed", "cancel"},
             UNCHANGED <<status, queue, task>>, \A v \in Worker : v # w => pc'[v] = pc[v]
      PROVE  \A u \in Spawned : Tended(u)'
  <2>1. Underway(t) /\ Underway(t)'
    BY <1>5 DEF Underway
  <2>2. ~Awaiting(t) /\ ~InQueue(t)
    BY <1>0, <1>5 DEF Awaiting, InQueue, Safe, HeldOnce, QueuedOnce
  <2>3. Tended(t)'
    BY <1>0, <1>5, <2>1, <2>2 DEF Tended
  <2> QED BY <1>0, <1>5, <2>3, OthersTended
<1>6. ASSUME NEW how \in {"returned", "failed"}, BodyEnds(w, how) PROVE \A u \in Spawned : Tended(u)'
  BY <1>0, <1>5, <1>6 DEF BodyEnds, stateVars, poolVars
<1>7. CASE taskSpawnRefused(w)
  BY <1>0, <1>5, <1>7 DEF taskSpawnRefused, stateVars, poolVars
<1>8. CASE Completed(w)
  BY <1>0, <1>5, <1>8 DEF Completed, stateVars, poolVars
<1>9. CASE Settle(w)
  <2>1. /\ pc[w] \in {"succeed", "cancel", "failed"} /\ UNCHANGED <<queue, task>>
        /\ \A v \in Worker : v # w => pc'[v] = pc[v]
    BY <1>0, <1>9 DEF Settle, poolVars
  <2>2. isTerminal(t)' /\ \A u \in Spawned : u # t => status'[u] = status[u]
    <3>1. CASE isTerminal(t)
      BY <1>9, <3>1 DEF Settle, stateVars, isTerminal
    <3>2. CASE pc[w] = "cancel" /\ ~isTerminal(t)
      BY <1>0, <1>9, <2>1, <3>2, CancelMarks DEF Settle, isTerminal
    <3>3. CASE pc[w] # "cancel" /\ ~isTerminal(t)
      <4>1. status' = [status EXCEPT ![t] = "Succeeded"] \/ status' = [status EXCEPT ![t] = "Failed"]
        BY <1>9, <2>1, <3>3 DEF Settle
      <4> QED BY <1>0, <2>1, <4>1 DEF isTerminal
    <3> QED BY <3>1, <3>2, <3>3
  <2>3. Tended(t)'
    BY <2>2 DEF Tended, isTerminal
  <2> QED BY <1>0, <2>1, <2>2, <2>3, OthersTended
<1>10. CASE Uncount(w)
  <2>1. pc[w] = "done" /\ UNCHANGED <<status, queue>> /\ \A v \in Worker : v # w => pc'[v] = pc[v] /\ task'[v] = task[v]
    BY <1>0, <1>10 DEF Uncount, stateVars
  <2>2. \A u : (Awaiting(u) => Awaiting(u)') /\ (Underway(u) => Underway(u)')
    BY <2>1 DEF Awaiting, Underway
  <2> QED BY <2>1, <2>2 DEF Tended, InQueue
<1> QED BY <1>1, <1>2, <1>3, <1>4, <1>6, <1>7, <1>8, <1>9, <1>10 DEF WorkerStep

LEMMA TendedActs ==
  ASSUME Safe, \A u \in Spawned : Tended(u), TaskCancelActs
  PROVE  \A u \in Spawned : Tended(u)'
<1>1. cancelling # <<>> /\ UNCHANGED <<queue, pc, task>>
  BY DEF TaskCancelActs, poolVars, workerVars
<1>2. PICK t \in Spawned, s \in {"Pending", "Running"} : cancelling = <<t, s>>
  BY <1>1 DEF Safe, Types
<1>3. cancelling[1] = t /\ cancelling[2] = s
  BY <1>2
<1>4. status' = status \/ cancel(t)
  BY <1>3 DEF TaskCancelActs, stateVars
<1> QED BY <1>1, <1>4, CancelMarks, TendedCancel

\* A worker leaves a stopping pool whose queue is empty, and nothing is queued again.
LEMMA ExitedStep ==
  ASSUME Safe, [Next]_vars, \A w \in Worker : pc[w] = "exited" => stopping /\ queue = <<>>
  PROVE  (\A w \in Worker : pc[w] = "exited" => stopping /\ queue = <<>>)'
<1>0. pc \in [Worker -> PCs]
  BY DEF Safe, Types
<1>1. CASE UNCHANGED vars
  BY <1>1 DEF vars, poolVars, workerVars
<1>2. ASSUME NEW v \in Worker, WorkerStep(v)
      PROVE  (\A w \in Worker : pc[w] = "exited" => stopping /\ queue = <<>>)'
  <2>1. /\ stopping' = stopping /\ (queue = <<>> => queue' = queue)
        /\ \A w \in Worker : w # v => pc'[w] = pc[w]
    BY <1>0, <1>2 DEF WorkerStep, workerExit, workerTake, CheckCancelled, Start, BodyEnds, taskSpawnRefused,
              Completed, Settle, Uncount, poolVars
  <2>2. pc'[v] = "exited" => stopping /\ queue = <<>>
    BY <1>0, <1>2 DEF WorkerStep, workerExit, workerTake, CheckCancelled, Start, BodyEnds, taskSpawnRefused,
              Completed, Settle, Uncount, poolVars
  <2> QED BY <2>1, <2>2
<1>3. ASSUME NEW th \in Thread, NEW t \in Spawned, taskSpawn(th, t)
      PROVE  (\A w \in Worker : pc[w] = "exited" => stopping /\ queue = <<>>)'
  BY <1>3 DEF taskSpawn, workerVars
<1>4. ASSUME NEW t \in Spawned, TaskCancelReads(t)
      PROVE  (\A w \in Worker : pc[w] = "exited" => stopping /\ queue = <<>>)'
  BY <1>4 DEF TaskCancelReads, poolVars, workerVars
<1>5. CASE TaskCancelActs
  BY <1>5 DEF TaskCancelActs, poolVars, workerVars
<1>6. CASE MainEnds
  BY <1>6 DEF MainEnds, poolVars, workerVars
<1>7. CASE Stop
  BY <1>7 DEF Stop, workerVars
<1> QED BY <1>1, <1>2, <1>3, <1>4, <1>5, <1>6, <1>7 DEF Next

(***************************************************************************)
(* Theorems.                                                               *)
(***************************************************************************)
\* gAliveWorkerThreads counts every task from the moment it is queued to the moment its
\* worker is done with it, and no other.
THEOREM TasksCounted == Spec => []CountMatches
<1>1. Inv => CountMatches
  BY DEF Inv
<1> QED BY <1>1, InvHolds, PTL

\* runtime_task_executor.cpp:33-47, 49-71: every unsettled spawn is queued or in the hands of
\* the worker that will settle it, whatever is cancelled meanwhile and whenever the pool is
\* told to stop.
THEOREM NoneIsStranded == Spec => []NoneStranded
<1> DEFINE Gone == \A w \in Worker : pc[w] = "exited" => stopping /\ queue = <<>>
<1>1. NoneStranded <=> (\A t \in Spawned : Tended(t)) /\ Gone
  BY DEF NoneStranded, Tended, InQueue, Awaiting, Underway
<1>2. Init => NoneStranded
  BY DEF Init, NoneStranded
<1>3. ASSUME Inv, NoneStranded, [Next]_vars PROVE NoneStranded'
  <2>0. Safe /\ (\A t \in Spawned : Tended(t)) /\ Gone
    BY <1>1, <1>3 DEF Inv
  <2>1. Gone'
    BY <1>3, <2>0, ExitedStep
  <2>2. \A t \in Spawned : Tended(t)'
    <3>1. CASE UNCHANGED vars
      BY <2>0, <3>1 DEF vars, stateVars, poolVars, workerVars, Tended, InQueue, Awaiting, Underway
    <3>2. CASE \E w \in Worker : WorkerStep(w)
      BY <2>0, <3>2, TendedWorker
    <3>3. CASE \E th \in Thread, t \in Spawned : taskSpawn(th, t)
      BY <2>0, <3>3, TendedSpawn
    <3>4. CASE TaskCancelActs
      BY <2>0, <3>4, TendedActs
    <3>5. CASE (\E t \in Spawned : TaskCancelReads(t)) \/ MainEnds \/ Stop
      BY <2>0, <3>5 DEF TaskCancelReads, MainEnds, Stop, stateVars, poolVars, workerVars,
                        Tended, InQueue, Awaiting, Underway
    <3> QED BY <1>3, <3>1, <3>2, <3>3, <3>4, <3>5 DEF Next
  <2> QED BY <2>1, <2>2 DEF NoneStranded, Tended, InQueue, Awaiting, Underway
<1> QED BY <1>2, <1>3, InvHolds, PTL DEF Spec

\* A closure asked to cancel while it ran never delivers its result, whatever the main
\* thread, other workers and the cascade do between its return and its completion.
THEOREM AskedNeverDelivers == Spec => []AskedNeverSucceeds
<1>1. Inv => AskedNeverSucceeds
  BY DEF Inv, Safe, AskedStays, AskedNeverSucceeds
<1> QED BY <1>1, InvHolds, PTL

\* A closure is entered only while its task is unsettled, so one cancelled before its
\* worker got to it never runs.
THEOREM CancelledStaysOut == Spec => CancelledNeverRuns
<1>1. ASSUME Inv, [Next]_vars
      PROVE  [\A t \in Spawned : InBody(t)' /\ ~InBody(t) => ~isTerminal(t)]_vars
  <2>0. pc \in [Worker -> PCs] /\ task \in [Worker -> Spawned \cup {None}]
    BY <1>1 DEF Inv, Safe, Types
  <2>1. ASSUME \A v \in Worker : pc'[v] = "body" => pc[v] = "body" /\ task'[v] = task[v]
        PROVE  \A t \in Spawned : InBody(t)' /\ ~InBody(t) => ~isTerminal(t)
    BY <2>1 DEF InBody
  <2>2. ASSUME NEW w \in Worker, Start(w)
        PROVE  \A t \in Spawned : InBody(t)' /\ ~InBody(t) => ~isTerminal(t)
    <3> SUFFICES ASSUME NEW t \in Spawned, InBody(t)', ~InBody(t) PROVE ~isTerminal(t)
      OBVIOUS
    <3>1. PICK v \in Worker : pc'[v] = "body" /\ task'[v] = t
      BY DEF InBody
    <3>2. task' = task /\ v = w
      BY <2>0, <2>2, <3>1 DEF Start, InBody
    <3>3. status[t] = "Pending"
      BY <2>0, <2>2, <3>1, <3>2 DEF Start
    <3> QED BY <3>3 DEF isTerminal
  <2>3. ASSUME NEW w \in Worker, WorkerStep(w), ~Start(w)
        PROVE  \A v \in Worker : pc'[v] = "body" => pc[v] = "body" /\ task'[v] = task[v]
    <3>1. CASE workerTake(w) \/ Uncount(w)
      BY <2>0, <3>1 DEF workerTake, Uncount
    <3>2. CASE ~(workerTake(w) \/ Uncount(w))
      <4>1. task' = task /\ \E p \in PCs \ {"body"} : pc' = [pc EXCEPT ![w] = p]
        <5>1. CASE CheckCancelled(w) \/ Settle(w) \/ Completed(w)
          BY <5>1 DEF CheckCancelled, Settle, Completed, PCs
        <5>2. CASE workerExit(w) \/ taskSpawnRefused(w) \/ \E how \in {"returned", "failed"} : BodyEnds(w, how)
          BY <5>2 DEF workerExit, taskSpawnRefused, BodyEnds, PCs
        <5> QED BY <2>3, <3>2, <5>1, <5>2 DEF WorkerStep
      <4> QED BY <2>0, <4>1
    <3> QED BY <3>1, <3>2
  <2>4. ASSUME \/ \E th \in Thread, t \in Spawned : taskSpawn(th, t)
               \/ \E t \in Spawned : TaskCancelReads(t)
               \/ TaskCancelActs \/ MainEnds \/ Stop
        PROVE  UNCHANGED <<pc, task>>
    BY <2>4 DEF taskSpawn, TaskCancelReads, TaskCancelActs, MainEnds, Stop, workerVars
  <2>5. CASE UNCHANGED vars
    BY <2>5
  <2>6. CASE Next
    BY <2>1, <2>2, <2>3, <2>4, <2>6 DEF Next
  <2> QED BY <1>1, <2>5, <2>6
<1> QED BY <1>1, InvHolds, PTL DEF Spec, CancelledNeverRuns
=============================================================================
