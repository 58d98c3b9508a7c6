---------------------------- MODULE ManagedHeap ----------------------------
(***************************************************************************)
(* What the zl runtime promises its programs about memory: a box that a    *)
(* thread can reach is never taken away, a new box is empty, and nobody    *)
(* notices that unreachable boxes disappear.  There is no collector, no    *)
(* safepoint and no coordinator here; GCSafepoint implements this module.  *)
(***************************************************************************)
CONSTANTS VM, Box, NoBox

VARIABLES stack,    \* what each thread holds
          closure,  \* the closure each worker was started with
          refs,     \* what each box refers to
          entries   \* the boxes that exist

hvars == <<stack, closure, refs, entries>>

IsClosed(S) == \A b \in S : refs[b] \subseteq S

InUse == {b \in Box : \E v \in VM : b \in stack[v] \/ closure[v] = b}

Usable == {b \in Box : \A S \in SUBSET Box : InUse \subseteq S /\ IsClosed(S) => b \in S}

HeapInit ==
    /\ stack = [v \in VM |-> {}] /\ closure = [v \in VM |-> NoBox]
    /\ refs = [b \in Box |-> {}] /\ entries = {}

Grow(v, S) == stack' = [stack EXCEPT ![v] = @ \cup S]

\* A thread starts a worker with a closure it holds; the worker picks it up; both
\* forget what they like.
Start(v, w, b) ==
    /\ b \in stack[v] /\ closure[w] = NoBox
    /\ closure' = [closure EXCEPT ![w] = b]
    /\ UNCHANGED <<stack, refs, entries>>

PickUp(w) ==
    /\ closure[w] # NoBox /\ Grow(w, {closure[w]})
    /\ UNCHANGED <<closure, refs, entries>>

Release(w) ==
    /\ closure' = [closure EXCEPT ![w] = NoBox]
    /\ UNCHANGED <<stack, refs, entries>>

Forget(v, S) ==
    /\ stack' = [stack EXCEPT ![v] = @ \ S]
    /\ UNCHANGED <<closure, refs, entries>>

NewBox(v, b) ==
    /\ b \notin entries /\ refs[b] = {}
    /\ entries' = entries \cup {b}
    /\ Grow(v, {b})
    /\ UNCHANGED <<closure, refs>>

Get(v, b, c) ==
    /\ b \in stack[v] /\ c \in refs[b] /\ c \in entries
    /\ Grow(v, {c})
    /\ UNCHANGED <<closure, refs, entries>>

Put(v, b, S) ==
    /\ b \in stack[v] /\ b \in entries /\ S \subseteq refs[b] \cup stack[v]
    /\ refs' = [refs EXCEPT ![b] = S]
    /\ UNCHANGED <<stack, closure, entries>>

\* Boxes nobody can reach vanish together with what they held.
Vanish(S) ==
    /\ S \subseteq entries /\ S \cap Usable = {}
    /\ entries' = entries \ S
    /\ refs' = [b \in Box |-> IF b \in S THEN {} ELSE refs[b]]
    /\ UNCHANGED <<stack, closure>>

HeapNext ==
    \/ \E v \in VM : \/ PickUp(v) \/ Release(v)
                     \/ \E S \in SUBSET Box : Forget(v, S)
                     \/ \E b \in Box : \/ NewBox(v, b)
                                       \/ \E w \in VM : Start(v, w, b)
                                       \/ \E c \in Box : Get(v, b, c)
                                       \/ \E S \in SUBSET Box : Put(v, b, S)
    \/ \E S \in SUBSET Box : Vanish(S)

HeapSpec == HeapInit /\ [][HeapNext]_hvars
=============================================================================
