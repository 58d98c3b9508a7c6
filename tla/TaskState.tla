----------------------------- MODULE TaskState -----------------------------
(***************************************************************************)
(* RuntimeTaskState (runtime_task.cpp): the state of a Task<T> shared by   *)
(* every thread that completes, cancels, awaits or spawns from it.  A step *)
(* is one critical section of one task's mutex, or one continuation run    *)
(* outside it.  todo[th] is the rest of the call thread th is in: the      *)
(* continuations it still has to run and the cascade it still has to push  *)
(* down the spawn tree, innermost call first.  Calls that throw            *)
(* logic_error change nothing and are left out.                            *)
(***************************************************************************)
EXTENDS Naturals, Sequences, FiniteSets

CONSTANTS Task, Thread,
          Cont,        \* continuations passed to then
          Observer     \* continuations passed to onCancellation

ASSUME ConstAssumption == Cont \cap Observer = {} /\ "none" \notin Task

VARIABLES status, requested, failureObserved,
          continuations, cancellationContinuations, spawnedChildren,
          alive,       \* tasks some shared_ptr still owns (spawn edges are weak)
          reported,    \* failures the destructor printed
          todo, ran,   \* ran[c]: how often continuation c was called
          target       \* the task each continuation was registered on

vars == <<status, requested, failureObserved, continuations, cancellationContinuations,
          spawnedChildren, alive, reported, todo, ran, target>>

Callback == Cont \cup Observer
NoTask   == "none"
Statuses == {"Pending", "Running", "Succeeded", "Failed", "Cancelled"}

isTerminal(t) == status[t] \in {"Succeeded", "Failed", "Cancelled"}

Run(c)       == [op |-> "run", arg |-> c]
Request(t)   == [op |-> "request", arg |-> t]
Propagate(t) == [op |-> "propagate", arg |-> t]

\* A set of calls in some order.
Calls(S, Call(_)) == {s \in [1..Cardinality(S) -> {Call(x) : x \in S}] :
                        \A i, j \in DOMAIN s : s[i] = s[j] => i = j}

Idle(th) == todo[th] = <<>>

\* Replace the head of th's call, or start one.
Continue(th, calls, rest) == todo' = [todo EXCEPT ![th] = calls \o rest]

Init ==
    /\ status = [t \in Task |-> "Pending"] /\ requested = [t \in Task |-> FALSE]
    /\ failureObserved = [t \in Task |-> FALSE]
    /\ continuations = [t \in Task |-> {}] /\ cancellationContinuations = [t \in Task |-> {}]
    /\ spawnedChildren = [t \in Task |-> {}]
    /\ alive = Task /\ reported = {}
    /\ todo = [th \in Thread |-> <<>>] /\ ran = [c \in Callback |-> 0]
    /\ target = [c \in Callback |-> NoTask]

start(th, t) ==
    /\ Idle(th) /\ t \in alive /\ status[t] = "Pending"
    /\ status' = [status EXCEPT ![t] = "Running"]
    /\ UNCHANGED <<requested, failureObserved, continuations, cancellationContinuations,
                   spawnedChildren, alive, reported, todo, ran, target>>

\* succeed and fail: the terminal transition drops the cancellation observers and
\* takes the continuations, which run after the lock is released.
complete(th, t, s) ==
    /\ Idle(th) /\ t \in alive /\ ~isTerminal(t)
    /\ status' = [status EXCEPT ![t] = s]
    /\ continuations' = [continuations EXCEPT ![t] = {}]
    /\ cancellationContinuations' = [cancellationContinuations EXCEPT ![t] = {}]
    /\ \E calls \in Calls(continuations[t], Run) : Continue(th, calls, <<>>)
    /\ UNCHANGED <<requested, failureObserved, spawnedChildren, alive, reported, ran, target>>

succeed(th, t) == complete(th, t, "Succeeded")
fail(th, t)    == complete(th, t, "Failed")

\* Mutant: a terminal cancellation does not reach the children.
cancelAlone(th, t) ==
    /\ Idle(th) /\ t \in alive /\ ~isTerminal(t)
    /\ status' = [status EXCEPT ![t] = "Cancelled"]
    /\ requested' = [requested EXCEPT ![t] = TRUE]
    /\ continuations' = [continuations EXCEPT ![t] = {}]
    /\ cancellationContinuations' = [cancellationContinuations EXCEPT ![t] = {}]
    /\ \E c1 \in Calls(continuations[t], Run), c2 \in Calls(cancellationContinuations[t], Run) :
         Continue(th, c1 \o c2, <<>>)
    /\ UNCHANGED <<failureObserved, spawnedChildren, alive, reported, ran, target>>

cancel(th, t) ==
    /\ Idle(th) /\ t \in alive /\ ~isTerminal(t)
    /\ status' = [status EXCEPT ![t] = "Cancelled"]
    /\ requested' = [requested EXCEPT ![t] = TRUE]
    /\ continuations' = [continuations EXCEPT ![t] = {}]
    /\ cancellationContinuations' = [cancellationContinuations EXCEPT ![t] = {}]
    /\ \E c1 \in Calls(continuations[t], Run), c2 \in Calls(cancellationContinuations[t], Run) :
         Continue(th, c1 \o c2 \o <<Propagate(t)>>, <<>>)
    /\ UNCHANGED <<failureObserved, spawnedChildren, alive, reported, ran, target>>

\* The locked section of requestCancellation and what it leaves to do.
requestCancellation(th, t, rest) ==
    /\ IF isTerminal(t) \/ requested[t]
         THEN /\ Continue(th, <<>>, rest)
              /\ UNCHANGED <<requested, cancellationContinuations>>
         ELSE /\ requested' = [requested EXCEPT ![t] = TRUE]
              /\ cancellationContinuations' = [cancellationContinuations EXCEPT ![t] = {}]
              /\ \E calls \in Calls(cancellationContinuations[t], Run) :
                   Continue(th, calls \o <<Propagate(t)>>, rest)
    /\ UNCHANGED <<status, failureObserved, continuations, spawnedChildren, alive,
                   reported, ran, target>>

\* Mutant: a continuation of a task that was asked to stop is called at once.
thenEarly(th, t, c) ==
    /\ Idle(th) /\ t \in alive /\ target[c] = NoTask
    /\ target' = [target EXCEPT ![c] = t]
    /\ IF isTerminal(t) \/ requested[t]
         THEN Continue(th, <<Run(c)>>, <<>>) /\ UNCHANGED continuations
         ELSE continuations' = [continuations EXCEPT ![t] = @ \cup {c}] /\ UNCHANGED todo
    /\ UNCHANGED <<status, requested, failureObserved, cancellationContinuations,
                   spawnedChildren, alive, reported, ran>>

\* Mutant: a continuation is registered whatever the status.
thenRegisters(th, t, c) ==
    /\ Idle(th) /\ t \in alive /\ target[c] = NoTask
    /\ target' = [target EXCEPT ![c] = t]
    /\ continuations' = [continuations EXCEPT ![t] = @ \cup {c}]
    /\ UNCHANGED <<status, requested, failureObserved, cancellationContinuations,
                   spawnedChildren, alive, reported, todo, ran>>

then(th, t, c) ==
    /\ Idle(th) /\ t \in alive /\ target[c] = NoTask
    /\ target' = [target EXCEPT ![c] = t]
    /\ IF isTerminal(t)
         THEN Continue(th, <<Run(c)>>, <<>>) /\ UNCHANGED continuations
         ELSE continuations' = [continuations EXCEPT ![t] = @ \cup {c}] /\ UNCHANGED todo
    /\ UNCHANGED <<status, requested, failureObserved, cancellationContinuations,
                   spawnedChildren, alive, reported, ran>>

\* Mutant: an observer of a requested cancellation runs and stays registered.
onCancellationBoth(th, t, c) ==
    /\ Idle(th) /\ t \in alive /\ target[c] = NoTask
    /\ target' = [target EXCEPT ![c] = t]
    /\ IF requested[t] THEN Continue(th, <<Run(c)>>, <<>>) ELSE UNCHANGED todo
    /\ cancellationContinuations' =
         IF isTerminal(t) THEN cancellationContinuations
         ELSE [cancellationContinuations EXCEPT ![t] = @ \cup {c}]
    /\ UNCHANGED <<status, requested, failureObserved, continuations, spawnedChildren,
                   alive, reported, ran>>

\* Runs now, waits for a request, or is dropped by a task that completed.
onCancellation(th, t, c) ==
    /\ Idle(th) /\ t \in alive /\ target[c] = NoTask
    /\ target' = [target EXCEPT ![c] = t]
    /\ IF requested[t] THEN Continue(th, <<Run(c)>>, <<>>) ELSE UNCHANGED todo
    /\ cancellationContinuations' =
         IF requested[t] \/ isTerminal(t) THEN cancellationContinuations
         ELSE [cancellationContinuations EXCEPT ![t] = @ \cup {c}]
    /\ UNCHANGED <<status, requested, failureObserved, continuations, spawnedChildren,
                   alive, reported, ran>>

\* Mutant: a child added after the request is only recorded.
addSpawnedChildLate(th, p, t) ==
    /\ Idle(th) /\ {p, t} \subseteq alive /\ p # t
    /\ status[t] = "Pending" /\ ~requested[t] /\ \A q \in Task : t \notin spawnedChildren[q]
    /\ spawnedChildren[t] = {}
    /\ spawnedChildren' = [spawnedChildren EXCEPT ![p] = @ \cup {t}]
    /\ UNCHANGED <<status, requested, failureObserved, continuations,
                   cancellationContinuations, alive, reported, todo, ran, target>>

\* t was just created by the body of p.
addSpawnedChild(th, p, t) ==
    /\ Idle(th) /\ {p, t} \subseteq alive /\ p # t
    /\ status[t] = "Pending" /\ ~requested[t] /\ \A q \in Task : t \notin spawnedChildren[q]
    /\ spawnedChildren[t] = {}
    /\ spawnedChildren' = [spawnedChildren EXCEPT ![p] = @ \cup {t}]
    /\ IF requested[p] THEN Continue(th, <<Request(t)>>, <<>>) ELSE UNCHANGED todo
    /\ UNCHANGED <<status, requested, failureObserved, continuations,
                   cancellationContinuations, alive, reported, ran, target>>

\* observe waits for a terminal status; ignore does not.
observe(th, t) ==
    /\ Idle(th) /\ t \in alive /\ status[t] \in {"Failed", "Cancelled"}
    /\ failureObserved' = [failureObserved EXCEPT ![t] = TRUE]
    /\ UNCHANGED <<status, requested, continuations, cancellationContinuations,
                   spawnedChildren, alive, reported, todo, ran, target>>

ignore(th, t) ==
    /\ Idle(th) /\ t \in alive /\ ~failureObserved[t]
    /\ failureObserved' = [failureObserved EXCEPT ![t] = TRUE]
    /\ UNCHANGED <<status, requested, continuations, cancellationContinuations,
                   spawnedChildren, alive, reported, todo, ran, target>>

\* The last owner lets go: ~RuntimeTaskState.  A task some call works on is owned.
InCall(t) == \E th \in Thread : \E i \in DOMAIN todo[th] :
                 todo[th][i].op # "run" /\ todo[th][i].arg = t

drop(t) ==
    /\ t \in alive /\ ~InCall(t)
    /\ alive' = alive \ {t}
    /\ reported' = IF status[t] = "Failed" /\ ~failureObserved[t] THEN reported \cup {t} ELSE reported
    /\ UNCHANGED <<status, requested, failureObserved, continuations,
                   cancellationContinuations, spawnedChildren, todo, ran, target>>

\* The next thing a running call does.
RunContinuation(th) ==
    /\ ~Idle(th) /\ Head(todo[th]).op = "run"
    /\ LET c == Head(todo[th]).arg IN ran' = [ran EXCEPT ![c] = @ + 1]
    /\ Continue(th, <<>>, Tail(todo[th]))
    /\ UNCHANGED <<status, requested, failureObserved, continuations,
                   cancellationContinuations, spawnedChildren, alive, reported, target>>

ReceiveRequest(th) ==
    /\ ~Idle(th) /\ Head(todo[th]).op = "request"
    /\ requestCancellation(th, Head(todo[th]).arg, Tail(todo[th]))

propagateCancellationToChildren(th) ==
    /\ ~Idle(th) /\ Head(todo[th]).op = "propagate"
    /\ LET t == Head(todo[th]).arg
           live == {c \in spawnedChildren[t] : c \in alive /\ ~isTerminal(c)}
       IN \E calls \in Calls(live, Request) : Continue(th, calls, Tail(todo[th]))
    /\ UNCHANGED <<status, requested, failureObserved, continuations,
                   cancellationContinuations, spawnedChildren, alive, reported, ran, target>>

CallStep(th) == RunContinuation(th) \/ ReceiveRequest(th) \/ propagateCancellationToChildren(th)

UserCancel(th, t) ==
    /\ Idle(th) /\ t \in alive /\ ~isTerminal(t) /\ ~requested[t]
    /\ requestCancellation(th, t, <<>>)

Next ==
    \/ \E th \in Thread : CallStep(th)
    \/ \E th \in Thread, t \in Task :
         \/ start(th, t) \/ succeed(th, t) \/ fail(th, t) \/ cancel(th, t) \/ UserCancel(th, t)
         \/ observe(th, t) \/ ignore(th, t)
         \/ \E c \in Cont : then(th, t, c)
         \/ \E c \in Observer : onCancellation(th, t, c)
         \/ \E p \in Task : addSpawnedChild(th, p, t)
    \/ \E t \in Task : drop(t)

\* A thread inside a call runs on; nobody has to start one.
Spec == Init /\ [][Next]_vars /\ \A th \in Thread : WF_vars(CallStep(th))

(***************************************************************************)
(* Properties.                                                             *)
(***************************************************************************)
\* Types; no continuation is ever called twice (runtime_task.cpp:74-82).
TypeOK ==
    /\ status \in [Task -> Statuses] /\ requested \in [Task -> BOOLEAN]
    /\ failureObserved \in [Task -> BOOLEAN]
    /\ continuations \in [Task -> SUBSET Cont]
    /\ cancellationContinuations \in [Task -> SUBSET Observer]
    /\ spawnedChildren \in [Task -> SUBSET Task]
    /\ alive \subseteq Task /\ reported \subseteq Task
    /\ ran \in [Callback -> 0..1] /\ target \in [Callback -> Task \cup {NoTask}]

\* runtime_task.hpp:41-47, 52-53: seen by the code that shares them, tasks are promises:
\* whichever thread settles one first decides, nothing changes a settled task, and
\* registration, completion, cancellation and the calls they leave to run, in any
\* interleaving, amount to callbacks called at most once, after what they waited for.
Outcome == [t \in Task |-> IF isTerminal(t) THEN status[t] ELSE "Unsettled"]
Promise == INSTANCE Promise WITH outcome <- Outcome, called <- ran
ImplementsPromise == Promise!PromiseSpec

Pending(c) == \E th \in Thread : \E i \in DOMAIN todo[th] : todo[th][i] = Run(c)

\* runtime_task.cpp:217-236 against 58-83: a continuation registered while the task
\* settles is neither lost nor run twice: it is waiting, about to run, or has run once,
\* and it never waits on a settled task; a cancellation observer runs at most once, only
\* for a cancelled task, and is gone when the task completed first.
CallbacksOnce ==
    /\ \A c \in Cont : target[c] # NoTask =>
         LET waiting == c \in continuations[target[c]]
         IN  /\ (IF waiting THEN 1 ELSE 0) + (IF Pending(c) THEN 1 ELSE 0) + ran[c] = 1
             /\ waiting => ~isTerminal(target[c])
    /\ \A c \in Observer : target[c] # NoTask =>
         LET t == target[c]
         IN  /\ ran[c] = 1 \/ Pending(c) => requested[t]
             /\ c \in cancellationContinuations[t] => ~requested[t] /\ ~isTerminal(t) /\ ran[c] = 0

\* runtime_task.hpp:57-62: no spawn escapes its parent's cancellation: a live child of a
\* cancelled parent has the request or some call is bringing it.
CascadeComplete == \A p \in Task : requested[p] =>
    \A t \in spawnedChildren[p] :
        \/ t \notin alive \/ isTerminal(t) \/ requested[t]
        \/ \E th \in Thread : \E i \in DOMAIN todo[th] :
               todo[th][i] \in {Request(t), Propagate(p)}

\* runtime_task.hpp:57-62: the requests under way arrive, down to the last descendant.
CascadeArrives == []<>(\A p \in Task : requested[p] =>
    \A t \in spawnedChildren[p] : requested[t] \/ isTerminal(t) \/ t \notin alive)
=============================================================================
