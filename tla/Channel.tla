------------------------------ MODULE Channel ------------------------------
(***************************************************************************)
(* One bounded Channel (native.cpp) between the main thread, the async     *)
(* frames on its scheduler and worker threads.  A step is one critical     *)
(* section of the channel's mutex or what follows it; blocking operations  *)
(* retry until they can proceed.  A value is sent at most once and names   *)
(* the task of its sendAsync.  Frames run only while the main thread pumps *)
(* and use the async operations.                                           *)
(***************************************************************************)
EXTENDS Integers, Sequences, FiniteSets

CONSTANTS Worker, Val,
          Recv,        \* tasks of receiveAsync
          Capacity

ASSUME ConstAssumption == /\ Capacity \in Nat \ {0} /\ Val \cap Recv = {} /\ "none" \notin Val \cup Recv
                          /\ IsFiniteSet(Worker) /\ {"main", "frame"} \cap Worker = {}

VARIABLES
    items, pendingSends, pendingReceives,   \* ChannelState
    status,                  \* of the async operations' tasks
    removing,                \* cancelled tasks whose cancellation hook has still to run
    pc, val, task,           \* each thread's operation
    used, delivered, swallowed,
    alive, frames, worker,   \* gAliveWorkerThreads, the scheduler's queue, the workers
    falseAlarm,              \* a deadlock was reported while somebody could still act
    swept                    \* values the collector reclaimed in a receiver's hands

chanVars == <<items, pendingSends, pendingReceives, status, removing>>
opVars   == <<pc, val, task>>
dataVars == <<used, delivered, swallowed>>
envVars  == <<alive, frames, worker, falseAlarm>>
vars     == <<chanVars, opVars, dataVars, envVars, swept>>

None   == "none"
Main   == "main"
Frame  == "frame"
Thread == Worker \cup {Main, Frame}

Live(t)   == status[t] = "Pending"
LiveAt(q) == {i \in DOMAIN q : Live(q[i])}
Ready(q)  == LiveAt(q) # {}
First(q)  == CHOOSE i \in LiveAt(q) : \A j \in LiveAt(q) : i <= j
\* A rendezvous pops past terminal tasks, and past them all if none is live.
Rest(q)   == IF Ready(q) THEN SubSeq(q, First(q) + 1, Len(q)) ELSE <<>>
\* q without the entry of t: a task is queued once, by the operation that created it.
Without(q, t) ==
    IF \A i \in DOMAIN q : q[i] # t THEN q
    ELSE LET i == CHOOSE i \in DOMAIN q : q[i] = t
         IN  SubSeq(q, 1, i - 1) \o SubSeq(q, i + 1, Len(q))

Full     == Len(items) >= Capacity
Unlocked == pc[Main] \notin {"checkSend", "checkReceive"}

\* The main thread's C++ stack: a frame runs while Main pumps, Main goes on when it is done.
MayStep(th) == Unlocked /\ (th = Main => pc[Frame] = "idle")
MayCall(th) ==
    /\ MayStep(th)
    /\ CASE th = Main  -> pc[Main] = "idle"
         [] th = Frame -> pc[Frame] = "run"
         [] OTHER      -> pc[th] = "idle" /\ worker[th] = "run"
Home(th) == IF th = Frame THEN "run" ELSE "idle"

Set(th, p, v, t) == /\ pc' = [pc EXCEPT ![th] = p] /\ val' = [val EXCEPT ![th] = v]
                    /\ task' = [task EXCEPT ![th] = t]
Finish(th) == Set(th, Home(th), None, None)

Init ==
    /\ items = <<>> /\ pendingSends = <<>> /\ pendingReceives = <<>>
    /\ status = [t \in Val \cup Recv |-> "absent"] /\ removing = {}
    /\ pc = [th \in Thread |-> "idle"] /\ val = [th \in Thread |-> None]
    /\ task = [th \in Thread |-> None]
    /\ used = {} /\ delivered = {} /\ swallowed = {}
    /\ alive = 0 /\ frames = 0 /\ worker = [w \in Worker |-> "new"] /\ falseAlarm = FALSE
    /\ swept = {}

(***************************************************************************)
(* send                                                                    *)
(***************************************************************************)
Send(th, v) ==
    /\ MayCall(th) /\ th # Frame /\ v \notin used
    /\ used' = used \cup {v} /\ Set(th, "send", v, None)
    /\ UNCHANGED <<chanVars, delivered, swallowed, envVars, swept>>

\* Mutant: a waiting receiver does not keep the value out of the buffer.
SendTryBuffers(th) ==
    /\ pc[th] = "send" /\ MayStep(th) /\ ~Full
    /\ items' = Append(items, val[th]) /\ Finish(th)
    /\ UNCHANGED <<pendingReceives, pendingSends, status, removing, dataVars, envVars, swept>>

\* Mutant: the buffer takes one value too many.
SendTryOver(th) ==
    /\ pc[th] = "send" /\ MayStep(th) /\ (Ready(pendingReceives) \/ Len(items) <= Capacity)
    /\ pendingReceives' = Rest(pendingReceives)
    /\ IF Ready(pendingReceives)
         THEN Set(th, "hand", val[th], pendingReceives[First(pendingReceives)]) /\ UNCHANGED items
         ELSE items' = Append(items, val[th]) /\ Finish(th)
    /\ UNCHANGED <<pendingSends, status, removing, dataVars, envVars, swept>>

\* A live receiver is taken off the queue and completed after the lock is released; else
\* the value goes into the buffer.
SendTry(th) ==
    /\ pc[th] = "send" /\ MayStep(th) /\ (Ready(pendingReceives) \/ ~Full)
    /\ pendingReceives' = Rest(pendingReceives)
    /\ IF Ready(pendingReceives)
         THEN Set(th, "hand", val[th], pendingReceives[First(pendingReceives)]) /\ UNCHANGED items
         ELSE items' = Append(items, val[th]) /\ Finish(th)
    /\ UNCHANGED <<pendingSends, status, removing, dataVars, envVars, swept>>

\* The receiver's task takes the value unless it was cancelled after the handoff.
HandOver(th) ==
    /\ pc[th] \in {"hand", "handAsync"} /\ (th = Main => pc[Frame] = "idle")
    /\ LET r == task[th] v == val[th] IN
         IF Live(r) THEN /\ status' = [status EXCEPT ![r] = "Succeeded"]
                         /\ delivered' = delivered \cup {v} /\ UNCHANGED swallowed
         ELSE swallowed' = swallowed \cup {v} /\ UNCHANGED <<status, delivered>>
    /\ Finish(th)
    /\ UNCHANGED <<items, pendingSends, pendingReceives, removing, used, envVars, swept>>

sendAsync(th, v) ==
    /\ MayCall(th) /\ v \notin used /\ used' = used \cup {v}
    /\ pendingReceives' = Rest(pendingReceives)
    /\ CASE Ready(pendingReceives) ->
              /\ status' = [status EXCEPT ![v] = "Succeeded"]
              /\ Set(th, "handAsync", v, pendingReceives[First(pendingReceives)])
              /\ UNCHANGED <<items, pendingSends>>
         [] ~Ready(pendingReceives) /\ ~Full ->
              /\ status' = [status EXCEPT ![v] = "Succeeded"]
              /\ items' = Append(items, v) /\ UNCHANGED <<pendingSends, opVars>>
         [] ~Ready(pendingReceives) /\ Full ->
              /\ status' = [status EXCEPT ![v] = "Pending"]
              /\ pendingSends' = Append(pendingSends, v) /\ UNCHANGED <<items, opVars>>
    /\ UNCHANGED <<removing, delivered, swallowed, envVars, swept>>

(***************************************************************************)
(* receive                                                                 *)
(***************************************************************************)
Receive(th) ==
    /\ MayCall(th) /\ th # Frame
    /\ Set(th, "receive", None, None)
    /\ UNCHANGED <<chanVars, dataVars, envVars, swept>>

\* Mutant: the queued senders are asked even while the buffer holds values, and stay queued.
ReceiveTryKeeps(th) ==
    /\ pc[th] = "receive" /\ MayStep(th) /\ (items # <<>> \/ Ready(pendingSends))
    /\ IF items # <<>>
         THEN /\ Set(th, "took", Head(items), None)
              /\ items' = Tail(items) /\ UNCHANGED pendingSends
         ELSE /\ Set(th, "took", pendingSends[First(pendingSends)], pendingSends[First(pendingSends)])
              /\ UNCHANGED <<items, pendingSends>>
    /\ UNCHANGED <<pendingReceives, status, removing, dataVars, envVars, swept>>

ReceiveTry(th) ==
    /\ pc[th] = "receive" /\ MayStep(th) /\ (items # <<>> \/ Ready(pendingSends))
    /\ IF items # <<>>
         THEN /\ Set(th, "took", Head(items), None)
              /\ items' = Tail(items) /\ UNCHANGED pendingSends
         ELSE /\ Set(th, "took", pendingSends[First(pendingSends)], pendingSends[First(pendingSends)])
              /\ pendingSends' = Rest(pendingSends) /\ UNCHANGED items
    /\ UNCHANGED <<pendingReceives, status, removing, dataVars, envVars, swept>>

\* After the lock: the sender's task completes, receive returns and its VM is active again.
Return(th) ==
    /\ pc[th] \in {"took", "tookAsync"} /\ (th = Main => pc[Frame] = "idle")
    /\ LET s == task[th] IN
         status' = IF s # None /\ Live(s) THEN [status EXCEPT ![s] = "Succeeded"] ELSE status
    /\ delivered' = delivered \cup {val[th]}
    /\ Finish(th)
    /\ UNCHANGED <<items, pendingSends, pendingReceives, removing, used, swallowed, envVars, swept>>

receiveAsync(th, r) ==
    /\ MayCall(th) /\ status[r] = "absent"
    /\ CASE items # <<>> ->
              /\ items' = Tail(items) /\ delivered' = delivered \cup {Head(items)}
              /\ status' = [status EXCEPT ![r] = "Succeeded"]
              /\ UNCHANGED <<pendingSends, pendingReceives, opVars>>
         [] items = <<>> /\ Ready(pendingSends) ->
              /\ Set(th, "tookAsync", pendingSends[First(pendingSends)], pendingSends[First(pendingSends)])
              /\ pendingSends' = Rest(pendingSends)
              /\ status' = [status EXCEPT ![r] = "Succeeded"]
              /\ UNCHANGED <<items, pendingReceives, delivered>>
         [] items = <<>> /\ ~Ready(pendingSends) ->
              /\ status' = [status EXCEPT ![r] = "Pending"]
              /\ pendingReceives' = Append(pendingReceives, r)
              /\ pendingSends' = <<>> /\ UNCHANGED <<items, delivered, opVars>>
    /\ UNCHANGED <<removing, used, swallowed, envVars, swept>>

(***************************************************************************)
(* Cancellation of a queued operation: the transition, then the hook that  *)
(* removes it from the queue under the channel's lock.                     *)
(***************************************************************************)
Cancel(th, t) ==
    /\ MayCall(th) /\ Live(t) /\ status' = [status EXCEPT ![t] = "Cancelled"]
    /\ removing' = removing \cup {t}
    /\ UNCHANGED <<items, pendingSends, pendingReceives, opVars, dataVars, envVars, swept>>

RemoveWaiter(t) ==
    /\ t \in removing /\ Unlocked /\ removing' = removing \ {t}
    /\ pendingSends' = Without(pendingSends, t)
    /\ pendingReceives' = Without(pendingReceives, t)
    /\ UNCHANGED <<items, status, opVars, dataVars, envVars, swept>>

(***************************************************************************)
(* channelBlockWouldDeadlock: only the main thread asks, with the lock     *)
(* held: first the workers, then the scheduler's queue.                    *)
(***************************************************************************)
Blocked == \/ pc[Main] = "send" /\ Full /\ ~Ready(pendingReceives)
           \/ pc[Main] = "receive" /\ items = <<>> /\ ~Ready(pendingSends)

\* Mutant: the workers are not counted.
CheckWorkersBlind ==
    /\ Blocked /\ pc[Frame] = "idle"
    /\ pc' = [pc EXCEPT ![Main] = IF pc[Main] = "send" THEN "checkSend" ELSE "checkReceive"]
    /\ UNCHANGED <<chanVars, val, task, dataVars, envVars, swept>>

CheckWorkers ==
    /\ Blocked /\ pc[Frame] = "idle" /\ alive = 0
    /\ pc' = [pc EXCEPT ![Main] = IF pc[Main] = "send" THEN "checkSend" ELSE "checkReceive"]
    /\ UNCHANGED <<chanVars, val, task, dataVars, envVars, swept>>

CheckFrames ==
    /\ ~Unlocked
    /\ IF frames > 0
         THEN /\ pc' = [pc EXCEPT ![Main] = IF pc[Main] = "checkSend" THEN "send" ELSE "receive"]
              /\ UNCHANGED <<val, task, used, falseAlarm>>
         ELSE /\ Finish(Main) /\ used' = used \ {val[Main]}
              /\ falseAlarm' = (falseAlarm \/ \E w \in Worker : worker[w] \in {"run", "woke"})
    /\ UNCHANGED <<chanVars, delivered, swallowed, alive, frames, worker, swept>>

(***************************************************************************)
(* Workers and frames.                                                     *)
(***************************************************************************)
StartWorker(w) ==
    /\ MayCall(Main) /\ worker[w] = "new"
    /\ worker' = [worker EXCEPT ![w] = "run"] /\ alive' = alive + 1
    /\ UNCHANGED <<chanVars, opVars, dataVars, frames, falseAlarm, swept>>

\* A worker settles a task an async body waits for: the body's frame is queued.
WakeFrame(w) ==
    /\ worker[w] = "run" /\ pc[w] = "idle"
    /\ worker' = [worker EXCEPT ![w] = "woke"] /\ frames' = frames + 1
    /\ UNCHANGED <<chanVars, opVars, dataVars, alive, falseAlarm, swept>>

EndWorker(w) ==
    /\ worker[w] \in {"run", "woke"} /\ pc[w] = "idle"
    /\ worker' = [worker EXCEPT ![w] = "gone"] /\ alive' = alive - 1
    /\ UNCHANGED <<chanVars, opVars, dataVars, frames, falseAlarm, swept>>

pumpSchedulerOne ==
    /\ frames > 0 /\ pc[Frame] = "idle" /\ (Blocked \/ pc[Main] = "idle")
    /\ frames' = frames - 1 /\ pc' = [pc EXCEPT ![Frame] = "run"]
    /\ UNCHANGED <<chanVars, val, task, dataVars, alive, worker, falseAlarm, swept>>

FrameEnds ==
    /\ pc[Frame] = "run" /\ pc' = [pc EXCEPT ![Frame] = "idle"]
    /\ UNCHANGED <<chanVars, val, task, dataVars, envVars, swept>>

\* A collection started by th.  Threads inside send or receive count as parked with the
\* roots they had on entry; the channel's queues are traced through its object.
Parked(th) == pc[th] \in {"send", "receive", "hand", "took", "checkSend", "checkReceive"}
Inactive(th) == CASE th = Frame -> pc[Frame] = "idle"
                  [] th = Main  -> Parked(Main)
                  [] OTHER      -> Parked(th) \/ worker[th] \in {"new", "gone"}

Collect(th) ==
    /\ MayCall(th) /\ \A x \in Thread \ {th} : Inactive(x) \/ (th = Frame /\ x = Main)
    /\ swept' = swept \cup {val[x] : x \in {y \in Thread : pc[y] = "took"}}
    /\ UNCHANGED <<chanVars, opVars, dataVars, envVars>>

Next ==
    \/ \E th \in Thread :
         \/ \E v \in Val : Send(th, v) \/ sendAsync(th, v)
         \/ \E r \in Recv : receiveAsync(th, r)
         \/ SendTry(th) \/ HandOver(th) \/ Receive(th) \/ ReceiveTry(th) \/ Return(th)
         \/ \E t \in Val \cup Recv : Cancel(th, t)
         \/ Collect(th)
    \/ \E t \in Val \cup Recv : RemoveWaiter(t)
    \/ \E w \in Worker : StartWorker(w) \/ WakeFrame(w) \/ EndWorker(w)
    \/ CheckWorkers \/ CheckFrames \/ pumpSchedulerOne \/ FrameEnds

Spec == Init /\ [][Next]_vars

(***************************************************************************)
(* Properties.                                                             *)
(***************************************************************************)
PCs == {"idle", "run", "send", "receive", "hand", "handAsync", "took",
        "tookAsync", "checkSend", "checkReceive"}

\* Types; the buffer never exceeds the capacity it was created with (native.cpp:1634-1644,
\* 1695).
TypeOK ==
    /\ items \in Seq(Val) /\ Len(items) <= Capacity
    /\ pendingSends \in Seq(Val) /\ pendingReceives \in Seq(Recv)
    /\ status \in [Val \cup Recv -> {"absent", "Pending", "Succeeded", "Cancelled"}]
    /\ removing \subseteq Val \cup Recv /\ pc \in [Thread -> PCs]
    /\ val \in [Thread -> Val \cup {None}] /\ task \in [Thread -> Val \cup Recv \cup {None}]
    /\ used \cup delivered \cup swallowed \cup swept \subseteq Val
    /\ alive \in Nat /\ frames \in Nat /\ worker \in [Worker -> {"new", "run", "woke", "gone"}]

Copies(v) == Cardinality({i \in DOMAIN items : items[i] = v})
             + Cardinality({i \in DOMAIN pendingSends : pendingSends[i] = v /\ Live(v)})
             + Cardinality({th \in Thread : val[th] = v})
             + (IF v \in delivered THEN 1 ELSE 0) + (IF v \in swallowed THEN 1 ELSE 0)

\* native.cpp:1663-1911: every value handed to the channel is in one place at a time: in
\* the buffer, with a live queued sender, in the hands of one operation, or received once;
\* it is gone only if its own sendAsync was cancelled while queued.
Conserved == \A v \in used :
    Copies(v) = 1 \/ (status[v] = "Cancelled" /\ Copies(v) = 0)

\* The rendezvous is complete: no live receiver waits while the buffer holds a value or a
\* live sender waits (native.cpp:1672-1694, 1807-1837, 1862-1890).
NoStuckPair == Ready(pendingReceives) => items = <<>> /\ ~Ready(pendingSends)

\* native.cpp:1647-1654: a deadlock is reported only when no worker and no frame could
\* still serve the operation.
NoFalseAlarm == ~falseAlarm

\* ChannelCancelledWaiters.zl:6-8 and docs/changelog.md:84-87: a cancelled waiter neither
\* swallows a send nor delivers its own value.
CancelIsClean == swallowed = {} /\ \A v \in delivered : status[v] # "Cancelled"

\* vm.hpp:57-58: managed data is touched only after reactivation, so what receive returns
\* is never reclaimed in its hands.
ReceivedSurvives == swept = {}
=============================================================================
