------------------------------ MODULE Promise ------------------------------
(***************************************************************************)
(* What a Task<T> promises the code that shares it, whatever threads work  *)
(* on it: one outcome, decided once; a cancellation request that is never  *)
(* taken back; continuations that are called at most once and not before   *)
(* the outcome is known; cancellation observers that are called at most    *)
(* once and only for a request.  There are no threads, no locks, no queue  *)
(* of callbacks and no spawn tree here.                                    *)
(***************************************************************************)
EXTENDS Naturals

CONSTANTS Task, NoTask,
          Cont, Observer    \* callbacks for the outcome, and for a request

VARIABLES outcome,   \* "Unsettled" until the task is settled
          requested, \* somebody asked the task to stop, or it was cancelled
          target,    \* the task a callback was registered on
          called     \* how often a callback was called

vars == <<outcome, requested, target, called>>

Settled(t) == outcome[t] # "Unsettled"

Init == /\ outcome = [t \in Task |-> "Unsettled"] /\ requested = [t \in Task |-> FALSE]
        /\ target = [c \in Cont \cup Observer |-> NoTask]
        /\ called = [c \in Cont \cup Observer |-> 0]

\* A cancelled task counts as asked to stop.
Settle(t, o) ==
    /\ ~Settled(t)
    /\ outcome' = [outcome EXCEPT ![t] = o]
    /\ requested' = [requested EXCEPT ![t] = @ \/ o = "Cancelled"]
    /\ UNCHANGED <<target, called>>

AskToStop(t) ==
    /\ ~Settled(t) /\ ~requested[t]
    /\ requested' = [requested EXCEPT ![t] = TRUE]
    /\ UNCHANGED <<outcome, target, called>>

Register(c, t) ==
    /\ target[c] = NoTask
    /\ target' = [target EXCEPT ![c] = t]
    /\ UNCHANGED <<outcome, requested, called>>

Call(c) ==
    /\ target[c] # NoTask /\ called[c] = 0
    /\ IF c \in Cont THEN Settled(target[c]) ELSE requested[target[c]]
    /\ called' = [called EXCEPT ![c] = 1]
    /\ UNCHANGED <<outcome, requested, target>>

Next == \/ \E t \in Task : \/ \E o \in {"Succeeded", "Failed", "Cancelled"} : Settle(t, o)
                           \/ AskToStop(t)
                           \/ \E c \in Cont \cup Observer : Register(c, t)
        \/ \E c \in Cont \cup Observer : Call(c)

PromiseSpec == Init /\ [][Next]_vars
=============================================================================
