-------------------------- MODULE AsyncInvocation --------------------------
(***************************************************************************)
(* Async functions on the cooperative scheduler (vm.cpp, runtime_          *)
(* scheduler.cpp).  A body is the child VM of one async call; its Task has *)
(* the same name.  One thread owns the scheduler: it runs the main program *)
(* and, while that pumps, the bodies, nested on its C++ stack.  Other      *)
(* threads settle the tasks of native operations and, where a program      *)
(* hands a Task to them, cancel bodies.  Task state transitions are those  *)
(* of module TaskState, taken in one step.                                 *)
(***************************************************************************)
EXTENDS Naturals, Sequences, FiniteSets

CONSTANTS Body,          \* async calls the program makes
          Native,        \* tasks other threads settle
          MaxAwaits,     \* awaits and blocks one body executes
          Modes          \* the kinds of program considered

ASSUME ConstAssumption ==
    /\ IsFiniteSet(Body) /\ Body \cap Native = {} /\ "none" \notin Body \cup Native
    /\ MaxAwaits \in Nat
    /\ Modes \subseteq [blocking : SUBSET Body, shared : SUBSET Body]

VARIABLES
    status, requested,          \* RuntimeTaskState
    waiters,                    \* task -> bodies registered with then, in order
    observers,                  \* body -> its awaits registered with onCancellation
    parent,                     \* the spawn edge
    invocation,                 \* bodies whose asyncInvocation_ is engaged
    started, awaited, resumeIp, \* AsyncInvocation
    ready,                      \* the scheduler's queue
    inflight,                   \* frames another thread is about to enqueue
    stack,                      \* execute() calls of bodies on the scheduler's thread
    main, entry,                \* runImpl, and the task it waits for (entryTask_)
    afar,                       \* another thread inside Task.cancel: the status it read
    mode,                       \* the program: do bodies reach Task.block through
                                \* synchronous helpers, does another thread hold a
                                \* body's Task and cancel it
    undefined                   \* an empty asyncInvocation_ was dereferenced

taskVars == <<status, requested, waiters, observers, parent>>
bodyVars == <<invocation, started, awaited, resumeIp>>
vars == <<taskVars, bodyVars, ready, inflight, stack, main, entry, afar, mode, undefined>>

Task == Body \cup Native
None == "none"

isTerminal(t) == status[t] \in {"Succeeded", "Failed", "Cancelled"}
Raised(t)     == IF status[t] = "Succeeded" THEN None ELSE status[t]  \* by observe
Live(b)       == status[b] \in {"Pending", "Running"} /\ ~requested[b]

\* The frames Await leaves behind: the first enters the body unconditionally, the second
\* only if the body still waits for that task.
Resume(b, n) == [kind |-> "resume", body |-> b, what |-> n]
Wake(b, t)   == [kind |-> "wake", body |-> b, what |-> t]

Wakes(t)   == [i \in DOMAIN waiters[t] |-> Wake(waiters[t][i], t)]
Cancels(b) == [i \in DOMAIN observers[b] |-> Resume(b, observers[b][i])]

\* The bodies a request on b reaches: b and, from each on, its live children.
Cascade(b) ==
    {c \in Body : \A D \in SUBSET Body :
         b \in D /\ (\A x \in Body : parent[x] \in D /\ Live(x) => x \in D) => c \in D}

Running == stack # <<>>
Top     == stack[Len(stack)]
Below   == SubSeq(stack, 1, Len(stack) - 1)
Push(f) == stack' = Append(stack, f)
Pop     == stack' = Below
Step(f) == stack' = Append(Below, f)
At(pc)  == ~undefined /\ Running /\ Top.pc = pc
OnStack(b) == \E i \in DOMAIN stack : stack[i].body = b

Init ==
    /\ status = [t \in Task |-> IF t \in Native THEN "Running" ELSE "absent"]
    /\ requested = [b \in Body |-> FALSE] /\ waiters = [t \in Task |-> <<>>]
    /\ observers = [b \in Body |-> <<>>] /\ parent = [b \in Body |-> None]
    /\ invocation = {} /\ started = {} /\ awaited = [b \in Body |-> None]
    /\ resumeIp = [b \in Body |-> 0]
    /\ ready = <<>> /\ inflight = {} /\ stack = <<>>
    /\ main = "run" /\ entry = None /\ afar = <<>> /\ mode \in Modes /\ undefined = FALSE

(***************************************************************************)
(* Task state.                                                             *)
(***************************************************************************)

\* succeed and fail of b's own task, on the scheduler's thread.
Settle(b, s) ==
    /\ status' = [status EXCEPT ![b] = s]
    /\ waiters' = [waiters EXCEPT ![b] = <<>>] /\ observers' = [observers EXCEPT ![b] = <<>>]
    /\ ready' = ready \o Wakes(b)
    /\ UNCHANGED <<requested, parent>>

\* The requests reach the bodies in R.
Ask(R) == /\ requested' = [b \in Body |-> requested[b] \/ b \in R]
          /\ observers' = [b \in Body |-> IF b \in R THEN <<>> ELSE observers[b]]

\* The cancellation frames of the bodies in R, which the cascade visits in some order,
\* each body's together and in the order of its observers.
Slots(R)   == UNION {{<<b, i>> : i \in DOMAIN observers[b]} : b \in R}
InOrder(o) == \A j, k \in DOMAIN o : j < k /\ o[j][1] = o[k][1] =>
                  o[j][2] < o[k][2] /\ \A l \in j..k : o[l][1] = o[j][1]
Frames(R)  == {[k \in DOMAIN o |-> Cancels(o[k][1])[o[k][2]]] :
                  o \in {o \in [1..Cardinality(Slots(R)) -> Slots(R)] : InOrder(o)}}

\* cancel of b's own task, on the scheduler's thread.
SettleCancelled(b) ==
    /\ status' = [status EXCEPT ![b] = "Cancelled"]
    /\ waiters' = [waiters EXCEPT ![b] = <<>>]
    /\ Ask(Cascade(b))
    /\ \E fs \in Frames(Cascade(b) \ {b}) : ready' = ready \o Wakes(b) \o Cancels(b) \o fs
    /\ UNCHANGED parent

requestCancellation(b) ==
    /\ IF Live(b)
         THEN /\ Ask(Cascade(b))
              /\ \E fs \in Frames(Cascade(b) \ {b}) : ready' = ready \o Cancels(b) \o fs
         ELSE UNCHANGED <<requested, observers, ready>>
    /\ UNCHANGED <<status, waiters, parent>>

(***************************************************************************)
(* The scheduler's thread.                                                 *)
(***************************************************************************)

\* The program, or a body it runs, makes an async call.
InProgram == ~undefined /\ (IF Running THEN Top.pc = "run" ELSE main = "run")
Spawner   == IF Running THEN Top.body ELSE None

scheduleAsyncInvocation(b) ==
    /\ InProgram /\ status[b] = "absent"
    /\ status' = [status EXCEPT ![b] = "Pending"]
    /\ parent' = [parent EXCEPT ![b] = Spawner]
    /\ requested' = [requested EXCEPT ![b] = Running /\ requested[Top.body]]
    /\ invocation' = invocation \cup {b}
    /\ ready' = Append(ready, Resume(b, 0))
    /\ UNCHANGED <<waiters, observers, started, awaited, resumeIp, inflight, stack, main,
                   entry, afar, mode, undefined>>

\* Mutant: the body is not entered with the cancellation it was resumed for.
EnterQuiet(b) ==
    LET t       == awaited[b]
        settled == t # None /\ isTerminal(t)
        raise   == IF settled THEN Raised(t) ELSE None
        how     == IF b \notin started THEN "start" ELSE IF settled THEN "value" ELSE "nothing"
    IN  /\ awaited' = [awaited EXCEPT ![b] = IF settled THEN None ELSE t]
        /\ IF b \notin started /\ status[b] = "Cancelled"
             THEN invocation' = invocation \ {b} /\ UNCHANGED <<started, status, stack>>
             ELSE /\ started' = started \cup {b}
                  /\ status' = IF b \in started THEN status ELSE [status EXCEPT ![b] = "Running"]
                  /\ Push([body |-> b, ip |-> resumeIp[b], pc |-> "run", on |-> None,
                           raise |-> raise, how |-> how])
                  /\ UNCHANGED invocation
        /\ UNCHANGED <<requested, waiters, observers, parent, resumeIp>>

\* resumeAsyncInvocation up to the first instruction: collect the awaited result, start
\* the body, raise a requested cancellation.
Enter(b) ==
    LET t       == awaited[b]
        settled == t # None /\ isTerminal(t)
        raise   == IF requested[b] THEN "Cancelled"
                   ELSE IF settled THEN Raised(t) ELSE None
        how     == IF b \notin started THEN "start" ELSE IF settled THEN "value" ELSE "nothing"
    IN  /\ awaited' = [awaited EXCEPT ![b] = IF settled THEN None ELSE t]
        /\ IF b \notin started /\ status[b] = "Cancelled"
             THEN invocation' = invocation \ {b} /\ UNCHANGED <<started, status, stack>>
             ELSE /\ started' = started \cup {b}
                  /\ status' = IF b \in started THEN status ELSE [status EXCEPT ![b] = "Running"]
                  /\ Push([body |-> b, ip |-> resumeIp[b], pc |-> "run", on |-> None,
                           raise |-> raise, how |-> how])
                  /\ UNCHANGED invocation
        /\ UNCHANGED <<requested, waiters, observers, parent, resumeIp>>

\* The thread pumps: the program waits for its entry task or drains what is left, or the
\* innermost body blocks on a task.
Pumping ==
    /\ ~undefined
    /\ IF Running THEN Top.pc = "block" /\ ~isTerminal(Top.on)
       ELSE \/ main \in {"block", "pump"} /\ ~isTerminal(entry)
            \/ main = "drain"

Applies(f) == f.body \in invocation /\ (f.kind = "wake" => awaited[f.body] = f.what)

runOne ==
    /\ Pumping /\ ready # <<>>
    /\ ready' = Tail(ready)
    /\ IF Applies(Head(ready)) THEN Enter(Head(ready).body)
       ELSE UNCHANGED <<taskVars, bodyVars, stack>>
    /\ UNCHANGED <<inflight, main, entry, afar, mode, undefined>>

(***************************************************************************)
(* One step of the innermost body.                                         *)
(***************************************************************************)
Calm == At("run") /\ Top.raise = None

\* Await, first half: a requested cancellation or a settled task needs no suspension.
AwaitCheck(t) ==
    /\ Calm /\ Top.ip < MaxAwaits /\ status[t] # "absent"
    /\ LET b == Top.body
           f == [Top EXCEPT !.ip = @ + 1, !.how = "value"]
       IN  Step(IF b \in invocation /\ requested[b] THEN [f EXCEPT !.raise = "Cancelled"]
                ELSE IF isTerminal(t) THEN [f EXCEPT !.raise = Raised(t)]
                ELSE IF t = b \/ b \notin invocation THEN [f EXCEPT !.raise = "Failed"]
                ELSE [f EXCEPT !.pc = "await", !.on = t])
    /\ UNCHANGED <<taskVars, bodyVars, ready, inflight, main, entry, afar, mode, undefined>>

\* onCancellation: runs at once if the request came in between.
AwaitObserve ==
    /\ At("await")
    /\ LET b == Top.body IN
         /\ resumeIp' = [resumeIp EXCEPT ![b] = Top.ip]
         /\ awaited' = [awaited EXCEPT ![b] = Top.on]
         /\ IF requested[b]
              THEN ready' = Append(ready, Resume(b, Top.ip)) /\ UNCHANGED observers
              ELSE /\ UNCHANGED ready
                   /\ observers' = IF isTerminal(b) THEN observers
                                   ELSE [observers EXCEPT ![b] = Append(@, Top.ip)]
    /\ Step([Top EXCEPT !.pc = "then"])
    /\ UNCHANGED <<status, requested, waiters, parent, invocation, started, inflight, main,
                   entry, afar, mode, undefined>>

\* Mutant: the continuation is registered without looking at the task again.
AwaitThenBlind ==
    /\ At("then")
    /\ waiters' = [waiters EXCEPT ![Top.on] = Append(@, Top.body)] /\ UNCHANGED ready
    /\ Pop
    /\ UNCHANGED <<status, requested, observers, parent, bodyVars, inflight, main, entry,
                   afar, mode, undefined>>

\* then: registers, or runs at once if the task settled in between; the body suspends.
AwaitThen ==
    /\ At("then")
    /\ LET b == Top.body IN
         IF isTerminal(Top.on)
           THEN ready' = Append(ready, Wake(b, Top.on)) /\ UNCHANGED waiters
           ELSE waiters' = [waiters EXCEPT ![Top.on] = Append(@, b)] /\ UNCHANGED ready
    /\ Pop
    /\ UNCHANGED <<status, requested, observers, parent, bodyVars, inflight, main, entry,
                   afar, mode, undefined>>

\* A handler of the body takes the exception.
Catch ==
    /\ At("run") /\ Top.raise # None
    /\ Step([Top EXCEPT !.raise = None, !.how = "value"])
    /\ UNCHANGED <<taskVars, bodyVars, ready, inflight, main, entry, afar, mode, undefined>>

\* The invocation is over: it is reset, then its task settles as s.  The handlers read it
\* without asking whether it is still there.
Leave(b, s) ==
    IF b \in invocation
      THEN /\ invocation' = invocation \ {b}
           /\ CASE s = "Cancelled" /\ ~isTerminal(b) -> SettleCancelled(b) /\ UNCHANGED undefined
                [] s # "Cancelled" /\ ~isTerminal(b) -> Settle(b, s) /\ UNCHANGED undefined
                [] s = "Succeeded" /\ isTerminal(b) ->
                     undefined' = TRUE /\ UNCHANGED <<taskVars, ready>>
                [] OTHER -> UNCHANGED <<taskVars, ready, undefined>>
      ELSE undefined' = TRUE /\ UNCHANGED <<invocation, taskVars, ready>>

\* An exception leaves the body: one it was resumed with, or (Return) one of its own.
Uncaught ==
    /\ At("run") /\ Top.raise # None
    /\ Leave(Top.body, Top.raise) /\ Pop
    /\ UNCHANGED <<started, awaited, resumeIp, inflight, main, entry, afar, mode>>

Return ==
    /\ Calm /\ \E s \in {"Succeeded", "Failed"} : Leave(Top.body, s)
    /\ Pop
    /\ UNCHANGED <<started, awaited, resumeIp, inflight, main, entry, afar, mode>>

\* Task.block in a synchronous function the body calls.
TaskBlock(t) ==
    /\ Calm /\ Top.body \in mode.blocking /\ status[t] # "absent" /\ Top.ip < MaxAwaits
    /\ Step([Top EXCEPT !.pc = "block", !.on = t, !.ip = @ + 1])
    /\ UNCHANGED <<taskVars, bodyVars, ready, inflight, main, entry, afar, mode, undefined>>

Unblock ==
    /\ At("block") /\ isTerminal(Top.on)
    /\ Step([Top EXCEPT !.pc = "run", !.on = None, !.how = "value",
                        !.raise = Raised(Top.on)])
    /\ UNCHANGED <<taskVars, bodyVars, ready, inflight, main, entry, afar, mode, undefined>>

\* Mutant: a running body's task is cancelled outright.
TaskCancelNow(b) ==
    /\ InProgram /\ status[b] \in {"Pending", "Running"}
    /\ SettleCancelled(b)
    /\ UNCHANGED <<bodyVars, inflight, stack, main, entry, afar, mode, undefined>>

\* Task.cancel by the program or by a body.
TaskCancel(b) ==
    /\ InProgram
    /\ CASE status[b] = "Pending" -> SettleCancelled(b)
         [] status[b] = "Running" -> requestCancellation(b)
         [] OTHER -> FALSE
    /\ UNCHANGED <<bodyVars, inflight, stack, main, entry, afar, mode, undefined>>

(***************************************************************************)
(* runImpl.                                                                *)
(***************************************************************************)
MainReturns ==
    /\ main = "run" /\ ~Running
    /\ entry' \in {b \in Body : status[b] # "absent"} \cup {None}
    /\ main' = IF entry' = None THEN "drain" ELSE "pump"
    /\ UNCHANGED <<taskVars, bodyVars, ready, inflight, stack, afar, mode, undefined>>

\* Task.block in synchronous code of the program.
MainBlocks(t) ==
    /\ main = "run" /\ ~Running /\ status[t] # "absent" /\ ~isTerminal(t)
    /\ main' = "block" /\ entry' = t
    /\ UNCHANGED <<taskVars, bodyVars, ready, inflight, stack, afar, mode, undefined>>

MainSettled ==
    /\ main \in {"block", "pump"} /\ ~Running /\ isTerminal(entry)
    /\ main' = IF main = "pump" THEN "drain" ELSE "run"
    /\ entry' = None
    /\ UNCHANGED <<taskVars, bodyVars, ready, inflight, stack, afar, mode, undefined>>

MainIdle ==
    /\ main = "drain" /\ ~Running /\ ready = <<>>
    /\ main' = "done"
    /\ UNCHANGED <<taskVars, bodyVars, ready, inflight, stack, entry, afar, mode, undefined>>

(***************************************************************************)
(* Other threads.                                                          *)
(***************************************************************************)
NativeSettles(t, s) ==
    /\ t \in Native /\ ~isTerminal(t)
    /\ status' = [status EXCEPT ![t] = s]
    /\ inflight' = inflight \cup {Wakes(t)[i] : i \in DOMAIN waiters[t]}
    /\ waiters' = [waiters EXCEPT ![t] = <<>>]
    /\ UNCHANGED <<requested, observers, parent, bodyVars, ready, stack, main, entry, afar, mode, undefined>>

\* RuntimeScheduler::enqueue.
enqueue(f) ==
    /\ f \in inflight
    /\ ready' = Append(ready, f) /\ inflight' = inflight \ {f}
    /\ UNCHANGED <<taskVars, bodyVars, stack, main, entry, afar, mode, undefined>>

\* Task.cancel elsewhere reads the status first and acts on it later.
AfarReads(b) ==
    /\ b \in mode.shared /\ afar = <<>> /\ status[b] \in {"Pending", "Running"}
    /\ afar' = <<b, status[b]>>
    /\ UNCHANGED <<taskVars, bodyVars, ready, inflight, stack, main, entry, mode, undefined>>

AfarActs ==
    /\ afar # <<>> /\ afar' = <<>>
    /\ LET b == afar[1]
           R == Cascade(b) IN
         IF afar[2] = "Pending" /\ ~isTerminal(b)
           THEN /\ status' = [status EXCEPT ![b] = "Cancelled"]
                /\ waiters' = [waiters EXCEPT ![b] = <<>>] /\ Ask(R)
                /\ inflight' = inflight \cup {Wakes(b)[i] : i \in DOMAIN waiters[b]}
                                        \cup UNION {{Cancels(c)[i] : i \in DOMAIN observers[c]} : c \in R}
           ELSE IF afar[2] = "Running" /\ Live(b)
           THEN /\ Ask(R)
                /\ inflight' = inflight \cup UNION {{Cancels(c)[i] : i \in DOMAIN observers[c]} : c \in R}
                /\ UNCHANGED <<status, waiters>>
           ELSE UNCHANGED <<status, waiters, requested, observers, inflight>>
    /\ UNCHANGED <<parent, bodyVars, ready, stack, main, entry, mode, undefined>>

BodyStep ==
    \/ \E t \in Task : AwaitCheck(t) \/ TaskBlock(t)
    \/ AwaitObserve \/ AwaitThen \/ Catch \/ Uncaught \/ Return \/ Unblock

SchedulerStep == runOne \/ BodyStep \/ MainReturns \/ MainSettled \/ MainIdle

Next ==
    \/ SchedulerStep
    \/ \E b \in Body : scheduleAsyncInvocation(b) \/ TaskCancel(b) \/ AfarReads(b)
    \/ \E t \in Task : MainBlocks(t)
    \/ \E t \in Native, s \in {"Succeeded", "Failed"} : NativeSettles(t, s)
    \/ \E f \in inflight : enqueue(f)
    \/ AfarActs

\* The scheduler's thread and a thread about to enqueue run on; a native operation need
\* never finish.
Spec == Init /\ [][Next]_vars /\ WF_vars(SchedulerStep) /\ WF_vars(\E f \in inflight : enqueue(f))

(***************************************************************************)
(* Properties.                                                             *)
(***************************************************************************)
FrameType == [kind : {"resume"}, body : Body, what : 0..MaxAwaits]
             \cup [kind : {"wake"}, body : Body, what : Task]

\* Types: an exception a body is resumed with comes from a task that did not succeed
\* (vm.cpp:1537-1561), and frames name awaits the body really executed (vm.cpp:972-987).
TypeOK ==
    /\ status \in [Task -> {"absent", "Pending", "Running", "Succeeded", "Failed", "Cancelled"}]
    /\ requested \in [Body -> BOOLEAN] /\ parent \in [Body -> Body \cup {None}]
    /\ waiters \in [Task -> Seq(Body)] /\ observers \in [Body -> Seq(1..MaxAwaits)]
    /\ started \subseteq Body /\ invocation \subseteq Body
    /\ awaited \in [Body -> Task \cup {None}] /\ resumeIp \in [Body -> 0..MaxAwaits]
    /\ ready \in Seq(FrameType) /\ inflight \subseteq FrameType
    /\ mode \in Modes /\ main \in {"run", "block", "pump", "drain", "done"} /\ entry \in Task \cup {None}
    /\ stack \in Seq([body : Body, ip : 0..MaxAwaits, pc : {"run", "await", "then", "block"},
                      on : Task \cup {None}, raise : {None, "Failed", "Cancelled"},
                      how : {"start", "value", "nothing"}])

\* vm.cpp:1529-1597: a body that executes owns its invocation and its task is Running:
\* nobody settles a task under the body that computes it.  This is about programs that
\* neither block inside a body nor cancel it from another thread.
RunsUnsettled == mode.blocking = {} /\ mode.shared = {} => \A i \in DOMAIN stack :
    stack[i].body \in invocation /\ status[stack[i].body] = "Running"

\* vm.cpp:1537-1561: a body is entered for a reason: it starts, the task it waited for
\* gave it a value or an exception, or its cancellation was requested.
NeverEntersEmpty == \A i \in DOMAIN stack :
    stack[i].how # "nothing" \/ stack[i].raise = "Cancelled"

Suspended(b) == b \in invocation /\ ~OnStack(b)
Queued(b)    == \E f \in inflight \cup {ready[i] : i \in DOMAIN ready} : f.body = b /\ Applies(f)

\* vm.cpp:972-988 against tasks settling and cancellations arriving at any moment: a body
\* that is not running has a frame on the way, or waits for a task that is not settled
\* and that knows it, and no cancellation is requested.
NoLostWakeup == \A b \in Body : Suspended(b) =>
    \/ Queued(b)
    \/ /\ b \in started /\ ~requested[b] /\ ~isTerminal(awaited[b])
       /\ b \in {waiters[awaited[b]][i] : i \in DOMAIN waiters[awaited[b]]}

\* vm.cpp:1581: a completion that lost a race never becomes a second terminal transition
\* and its error never reaches the handlers with the invocation gone.
StaleCompletionAbsorbed == ~undefined

\* vm.cpp:980-987, 577-594: a body whose task to wait for settled, or whose cancellation
\* was requested, runs again unless the program ends first.  About programs no body of
\* which blocks: one that blocks on a body below it on the same stack never returns.
WakesUp == \A b \in Body :
    (mode.blocking = {} /\ Suspended(b) /\ b \in started /\ (requested[b] \/ isTerminal(awaited[b])))
        ~> (~Suspended(b) \/ main = "done" \/ undefined)
=============================================================================
