------------------------- MODULE TaskState_proofs -------------------------
(***************************************************************************)
(* Theorems about TaskState, for any sets of tasks, threads, continuations *)
(* and cancellation observers.                                             *)
(***************************************************************************)
EXTENDS TaskState, FiniteSetTheorems, TLAPS

(***************************************************************************)
(* What a call still has to do, item by item.                              *)
(***************************************************************************)
Item == {Run(c) : c \in Callback} \cup {Request(t) : t \in Task} \cup {Propagate(t) : t \in Task}

Has(s, e)    == \E i \in 1 .. Len(s) : s[i] = e
OnceIn(s, e) == \A i, j \in 1 .. Len(s) : s[i] = e /\ s[j] = e => i = j

LEMMA ItemsApart ==
  /\ \A c, d : Run(c) = Run(d) => c = d
  /\ \A t, u : Request(t) = Request(u) => t = u
  /\ \A t, u : Propagate(t) = Propagate(u) => t = u
  /\ \A c, t : Run(c) # Request(t) /\ Run(c) # Propagate(t) /\ Request(c) # Propagate(t)
<1>1. "run" # "request" /\ "run" # "propagate" /\ "request" # "propagate"
  OBVIOUS
<1> QED BY <1>1 DEF Run, Request, Propagate

LEMMA HasEmpty == \A e : ~Has(<<>>, e) /\ OnceIn(<<>>, e)
  BY DEF Has, OnceIn

LEMMA HasOne == \A x, e : (Has(<<x>>, e) <=> e = x) /\ OnceIn(<<x>>, e)
<1> SUFFICES ASSUME NEW x, NEW e PROVE (Has(<<x>>, e) <=> e = x) /\ OnceIn(<<x>>, e)
  OBVIOUS
<1>1. Len(<<x>>) = 1 /\ <<x>>[1] = x /\ \A i \in 1 .. 1 : i = 1
  OBVIOUS
<1> QED BY <1>1 DEF Has, OnceIn

LEMMA HasConcat ==
  ASSUME NEW S, NEW s \in Seq(S), NEW r \in Seq(S), NEW e
  PROVE  /\ s \o r \in Seq(S)
         /\ Has(s \o r, e) <=> Has(s, e) \/ Has(r, e)
         /\ OnceIn(s, e) /\ OnceIn(r, e) /\ ~(Has(s, e) /\ Has(r, e)) => OnceIn(s \o r, e)
<1> DEFINE q == s \o r
<1>1. /\ q \in Seq(S) /\ Len(q) = Len(s) + Len(r) /\ Len(s) \in Nat /\ Len(r) \in Nat
      /\ \A i \in 1 .. Len(s) : q[i] = s[i]
      /\ \A i \in 1 .. Len(r) : q[Len(s) + i] = r[i]
  OBVIOUS
<1> HIDE DEF q
<1>2. \A i \in 1 .. Len(q) :
         \/ i \in 1 .. Len(s) /\ q[i] = s[i]
         \/ i - Len(s) \in 1 .. Len(r) /\ q[i] = r[i - Len(s)]
  <2> TAKE i \in 1 .. Len(q)
  <2>1. CASE i <= Len(s)
    <3>1. i \in 1 .. Len(s)
      BY <1>1, <2>1
    <3> QED BY <1>1, <3>1
  <2>2. CASE i > Len(s)
    <3>1. i - Len(s) \in 1 .. Len(r) /\ Len(s) + (i - Len(s)) = i
      BY <1>1, <2>2
    <3>2. q[Len(s) + (i - Len(s))] = r[i - Len(s)]
      BY <1>1, <3>1
    <3> QED BY <3>1, <3>2
  <2> QED BY <1>1, <2>1, <2>2
<1>3. ASSUME Has(s, e) PROVE Has(q, e)
  BY <1>1, <1>3 DEF Has
<1>4. ASSUME Has(r, e) PROVE Has(q, e)
  <2>1. PICK i \in 1 .. Len(r) : r[i] = e
    BY <1>4 DEF Has
  <2>2. Len(s) + i \in 1 .. Len(q) /\ q[Len(s) + i] = e
    BY <1>1, <2>1
  <2> QED BY <2>2 DEF Has
<1>5. ASSUME Has(q, e) PROVE Has(s, e) \/ Has(r, e)
  BY <1>2, <1>5 DEF Has
<1>6. ASSUME OnceIn(s, e), OnceIn(r, e), ~(Has(s, e) /\ Has(r, e)) PROVE OnceIn(q, e)
  <2> SUFFICES ASSUME NEW i \in 1 .. Len(q), NEW j \in 1 .. Len(q), q[i] = e, q[j] = e PROVE i = j
    BY DEF OnceIn
  <2>1. CASE Has(s, e)
    <3>1. i \in 1 .. Len(s) /\ s[i] = e /\ j \in 1 .. Len(s) /\ s[j] = e
      BY <1>2, <1>6, <2>1 DEF Has
    <3> QED BY <3>1, <1>6 DEF OnceIn
  <2>2. CASE ~Has(s, e)
    <3>1. /\ i - Len(s) \in 1 .. Len(r) /\ r[i - Len(s)] = e
          /\ j - Len(s) \in 1 .. Len(r) /\ r[j - Len(s)] = e
      BY <1>2, <2>2 DEF Has
    <3>2. i - Len(s) = j - Len(s)
      BY <3>1, <1>6 DEF OnceIn
    <3> QED BY <3>2, <1>1
  <2> QED BY <2>1, <2>2
<1> QED BY <1>1, <1>3, <1>4, <1>5, <1>6 DEF q

LEMMA HasTail ==
  ASSUME NEW S, NEW s \in Seq(S), s # <<>>, NEW e
  PROVE  /\ Tail(s) \in Seq(S) /\ Head(s) \in S /\ Has(s, Head(s))
         /\ Has(s, e) <=> e = Head(s) \/ Has(Tail(s), e)
         /\ OnceIn(s, e) => OnceIn(Tail(s), e) /\ (Head(s) = e => ~Has(Tail(s), e))
<1> DEFINE t == Tail(s)
<1>1. /\ t \in Seq(S) /\ Head(s) = s[1] /\ Head(s) \in S /\ 1 \in 1 .. Len(s) /\ Len(t) = Len(s) - 1
      /\ \A i \in 1 .. Len(t) : i + 1 \in 1 .. Len(s) /\ t[i] = s[i + 1]
  OBVIOUS
<1> HIDE DEF t
<1>2. \A i \in 1 .. Len(s) : i # 1 => i - 1 \in 1 .. Len(t) /\ s[i] = t[i - 1]
  <2> TAKE i \in 1 .. Len(s)
  <2> HAVE i # 1
  <2>1. i - 1 \in 1 .. Len(t) /\ (i - 1) + 1 = i
    BY <1>1
  <2> QED BY <2>1, <1>1
<1>3. Has(s, Head(s))
  BY <1>1 DEF Has
<1>4. Has(s, e) <=> e = Head(s) \/ Has(t, e)
  BY <1>1, <1>2 DEF Has
<1>5. ASSUME OnceIn(s, e) PROVE OnceIn(t, e)
  <2> SUFFICES ASSUME NEW i \in 1 .. Len(t), NEW j \in 1 .. Len(t), t[i] = e, t[j] = e PROVE i = j
    BY DEF OnceIn
  <2>1. i + 1 = j + 1
    BY <1>1, <1>5 DEF OnceIn
  <2> QED BY <2>1, <1>1
<1>6. ASSUME OnceIn(s, e), Head(s) = e, Has(t, e) PROVE FALSE
  <2>1. PICK i \in 1 .. Len(t) : t[i] = e
    BY <1>6 DEF Has
  <2>2. i + 1 = 1
    BY <1>1, <1>6, <2>1 DEF OnceIn
  <2> QED BY <2>2, <1>1
<1> QED BY <1>1, <1>3, <1>4, <1>5, <1>6 DEF t

\* An injective sequence as long as a finite set is large has every element once.
LEMMA Enumerates ==
  ASSUME NEW S, IsFiniteSet(S), NEW T, NEW b \in Bijection(S, T),
         NEW s \in [1 .. Cardinality(S) -> T],
         \A i, j \in DOMAIN s : s[i] = s[j] => i = j
  PROVE  s \in Seq(T) /\ \A e : (Has(s, e) <=> e \in T) /\ OnceIn(s, e)
<1> DEFINE n == Cardinality(S)
<1>1. n \in Nat
  BY FS_CardinalityType
<1>2. IsFiniteSet(T) /\ Cardinality(T) = n
  BY FS_Bijection DEF ExistsBijection
<1>3. s \in Injection(1 .. n, T)
  BY DEF Injection, IsInjective
<1>4. Cardinality(1 .. n) = n
  BY <1>1, FS_Interval
<1>5. s \in Surjection(1 .. n, T)
  BY <1>2, <1>3, <1>4, FS_Injection
<1>6. s \in Seq(T) /\ Len(s) = n
  BY <1>1
<1>7. \A e \in T : \E i \in 1 .. n : s[i] = e
  BY <1>5 DEF Surjection
<1> QED BY <1>6, <1>7 DEF Has, OnceIn

LEMMA CallsRun ==
  ASSUME NEW S \in SUBSET Callback, IsFiniteSet(S), NEW s \in Calls(S, Run)
  PROVE  /\ s \in Seq(Item)
         /\ \A e : (Has(s, e) <=> \E x \in S : e = Run(x)) /\ OnceIn(s, e)
<1> DEFINE T == {Run(x) : x \in S}
           b == [x \in S |-> Run(x)]
<1>1. s \in [1 .. Cardinality(S) -> T] /\ \A i, j \in DOMAIN s : s[i] = s[j] => i = j
  BY DEF Calls
<1>2. b \in Bijection(S, T)
  BY ItemsApart DEF Bijection, Injection, Surjection, IsInjective
<1>3. s \in Seq(T) /\ \A e : (Has(s, e) <=> e \in T) /\ OnceIn(s, e)
  <2> HIDE DEF T, b
  <2> QED BY <1>1, <1>2, Enumerates
<1>4. T \subseteq Item
  BY DEF Item
<1>5. s \in Seq(Item)
  BY <1>3, <1>4
<1> QED BY <1>3, <1>5

LEMMA CallsRequest ==
  ASSUME NEW S \in SUBSET Task, IsFiniteSet(S), NEW s \in Calls(S, Request)
  PROVE  /\ s \in Seq(Item)
         /\ \A e : (Has(s, e) <=> \E x \in S : e = Request(x)) /\ OnceIn(s, e)
<1> DEFINE T == {Request(x) : x \in S}
           b == [x \in S |-> Request(x)]
<1>1. s \in [1 .. Cardinality(S) -> T] /\ \A i, j \in DOMAIN s : s[i] = s[j] => i = j
  BY DEF Calls
<1>2. b \in Bijection(S, T)
  BY ItemsApart DEF Bijection, Injection, Surjection, IsInjective
<1>3. s \in Seq(T) /\ \A e : (Has(s, e) <=> e \in T) /\ OnceIn(s, e)
  <2> HIDE DEF T, b
  <2> QED BY <1>1, <1>2, Enumerates
<1>4. T \subseteq Item
  BY DEF Item
<1>5. s \in Seq(Item)
  BY <1>3, <1>4
<1> QED BY <1>3, <1>5

(***************************************************************************)
(* The inductive invariant.                                                *)
(***************************************************************************)
\* The types of the state, and that only finitely many callbacks and children are ever
\* registered.  That a callback has run at most once needs the parts below.
Types ==
    /\ status \in [Task -> Statuses] /\ requested \in [Task -> BOOLEAN]
    /\ failureObserved \in [Task -> BOOLEAN]
    /\ continuations \in [Task -> SUBSET Cont]
    /\ cancellationContinuations \in [Task -> SUBSET Observer]
    /\ spawnedChildren \in [Task -> SUBSET Task]
    /\ \A t \in Task : /\ IsFiniteSet(continuations[t]) /\ IsFiniteSet(cancellationContinuations[t])
                       /\ IsFiniteSet(spawnedChildren[t])
    /\ alive \subseteq Task /\ reported \subseteq Task
    /\ todo \in [Thread -> Seq(Item)]
    /\ ran \in [Callback -> 0..1] /\ target \in [Callback -> Task \cup {NoTask}]

\* Some call is about to do e.
Due(e) == \E th \in Thread : Has(todo[th], e)

\* c is about to be called at most once, by one thread.
DueOnce(c) ==
    /\ \A th \in Thread : OnceIn(todo[th], Run(c))
    /\ \A th, tj \in Thread : Has(todo[th], Run(c)) /\ Has(todo[tj], Run(c)) => th = tj

\* Waiting, about to run and having run exclude each other, and a callback is only where
\* it was registered.
Exclusive(c) ==
    /\ target[c] = NoTask => ~Due(Run(c)) /\ ran[c] = 0
    /\ \A t \in Task : c \in continuations[t] \cup cancellationContinuations[t] =>
          target[c] = t /\ ~Due(Run(c)) /\ ran[c] = 0
    /\ Due(Run(c)) => ran[c] = 0

\* What waits, waits on a task that can still settle, or still be cancelled.
WaitsLive == \A t \in Task :
    /\ continuations[t] # {} => ~isTerminal(t)
    /\ cancellationContinuations[t] # {} => ~isTerminal(t) /\ ~requested[t]

NotLost(c) == target[c] # NoTask => c \in continuations[target[c]] \/ Due(Run(c)) \/ ran[c] = 1

OnRequest(c) == Due(Run(c)) \/ ran[c] = 1 => requested[target[c]]

CallbackInv ==
    /\ \A c \in Callback : DueOnce(c) /\ Exclusive(c)
    /\ \A c \in Cont : NotLost(c)
    /\ \A c \in Observer : OnRequest(c)

Inv == Types /\ WaitsLive /\ CallbackInv

LEMMA InvInit == Init => Inv
<1> SUFFICES ASSUME Init PROVE Inv
  OBVIOUS
<1>1. \A th \in Thread : \A e : ~Has(todo[th], e) /\ OnceIn(todo[th], e)
  BY HasEmpty DEF Init
<1>2. Types
  BY FS_EmptySet DEF Init, Types, Statuses
<1>3. WaitsLive
  BY DEF Init, WaitsLive
<1>4. CallbackInv
  BY <1>1 DEF Init, CallbackInv, DueOnce, Exclusive, NotLost, OnRequest, Due, Callback
<1> QED BY <1>2, <1>3, <1>4 DEF Inv

(***************************************************************************)
(* Two facts all the actions share.                                        *)
(***************************************************************************)
\* A call takes on the callbacks R, which no call was about to run, besides what it had.
LEMMA RunsAdded ==
  ASSUME Inv, NEW th \in Thread, NEW R, NEW q, todo' = [todo EXCEPT ![th] = q],
         \A c \in Callback : /\ Has(q, Run(c)) <=> Has(todo[th], Run(c)) \/ c \in R
                             /\ OnceIn(q, Run(c)),
         \A c \in R : ~Due(Run(c))
  PROVE  \A c \in Callback : DueOnce(c)' /\ (Due(Run(c))' <=> Due(Run(c)) \/ c \in R)
<1> TAKE c \in Callback
<1>1. todo'[th] = q /\ \A x \in Thread : x # th => todo'[x] = todo[x]
  BY DEF Inv, Types
<1>2. DueOnce(c)
  BY DEF Inv, CallbackInv
<1>3. Due(Run(c))' <=> Due(Run(c)) \/ c \in R
  BY <1>1 DEF Due
<1>4. \A x \in Thread : OnceIn(todo'[x], Run(c))
  BY <1>1, <1>2 DEF DueOnce
<1>5. ASSUME NEW x \in Thread, NEW y \in Thread, Has(todo'[x], Run(c)), Has(todo'[y], Run(c))
      PROVE  x = y
  <2>1. CASE Due(Run(c))
    <3>1. c \notin R
      BY <2>1
    <3>2. Has(todo[x], Run(c)) /\ Has(todo[y], Run(c))
      BY <3>1, <1>1, <1>5
    <3> QED BY <3>2, <1>2 DEF DueOnce
  <2>2. CASE ~Due(Run(c))
    <3>1. x = th /\ y = th
      BY <2>2, <1>1, <1>5 DEF Due
    <3> QED BY <3>1
  <2> QED BY <2>1, <2>2
<1>6. DueOnce(c)'
  BY <1>4, <1>5 DEF DueOnce
<1> QED BY <1>3, <1>6

\* A step releases the callbacks R: they leave the task t they waited on and are due.
LEMMA Released ==
  ASSUME Inv, NEW t \in Task, NEW R \in SUBSET Callback,
         \A c \in Callback : DueOnce(c)' /\ (Due(Run(c))' <=> Due(Run(c)) \/ c \in R),
         \A c \in R : /\ c \in continuations[t] \cup cancellationContinuations[t]
                      /\ c \notin continuations'[t] \cup cancellationContinuations'[t]
                      /\ c \in Observer => requested'[t],
         \A u \in Task : /\ continuations'[u] \subseteq continuations[u]
                         /\ cancellationContinuations'[u] \subseteq cancellationContinuations[u]
                         /\ \A c \in continuations[u] : c \in continuations'[u] \/ c \in R
                         /\ requested[u] => requested'[u],
         UNCHANGED <<ran, target>>
  PROVE  CallbackInv'
<1> USE DEF Inv
<1>1. \A c \in R : target[c] = t /\ ran[c] = 0 /\ ~Due(Run(c))
  BY DEF CallbackInv, Exclusive
<1>2. NoTask \notin Task
  BY ConstAssumption DEF NoTask
<1>3. ASSUME NEW c \in Callback PROVE Exclusive(c)'
  <2>0. Exclusive(c)
    BY DEF CallbackInv
  <2>1. CASE c \in R
    <3>1. \A u \in Task : c \notin continuations'[u] \cup cancellationContinuations'[u]
      <4> SUFFICES ASSUME NEW u \in Task, c \in continuations'[u] \cup cancellationContinuations'[u]
                   PROVE  FALSE
        OBVIOUS
      <4>1. c \in continuations[u] \cup cancellationContinuations[u]
        OBVIOUS
      <4>2. u = t
        BY <4>1, <2>0, <2>1, <1>1 DEF Exclusive
      <4> QED BY <4>2, <2>1
    <3> QED BY <3>1, <2>1, <1>1, <1>2 DEF Exclusive
  <2>2. CASE c \notin R
    BY <2>0, <2>2 DEF Exclusive
  <2> QED BY <2>1, <2>2
<1>4. ASSUME NEW c \in Cont PROVE NotLost(c)'
  <2>1. NotLost(c) /\ c \in Callback /\ (target[c] \in Task \/ target[c] = NoTask)
    BY DEF CallbackInv, Callback, Types
  <2> QED BY <2>1 DEF NotLost
<1>5. ASSUME NEW c \in Observer PROVE OnRequest(c)'
  <2>1. OnRequest(c) /\ Exclusive(c) /\ c \in Callback /\ (target[c] \in Task \/ target[c] = NoTask)
    BY DEF CallbackInv, Callback, Types
  <2>2. CASE c \in R
    BY <2>2, <1>1 DEF OnRequest
  <2>3. CASE c \notin R
    <3>1. ran[c] = 1 => ran[c] # 0
      OBVIOUS
    <3> QED BY <2>1, <2>3, <3>1 DEF OnRequest, Exclusive
  <2> QED BY <2>2, <2>3
<1> QED BY <1>3, <1>4, <1>5 DEF CallbackInv

\* An idle thread has nothing to do.
LEMMA IdleHasNothing == ASSUME NEW th, Idle(th) PROVE \A e : ~Has(todo[th], e)
  BY HasEmpty DEF Idle

\* A step that takes nothing away from the callbacks that wait and gives none to run.
LEMMA NoneReleased ==
  ASSUME Inv, UNCHANGED <<continuations, cancellationContinuations, ran, target>>,
         \A c \in Callback : DueOnce(c)' /\ (Due(Run(c))' <=> Due(Run(c))),
         \A u \in Task : requested[u] => requested'[u]
  PROVE  CallbackInv'
<1>1. CASE Task = {}
  <2>1. \A c \in Callback : target[c] = NoTask /\ Exclusive(c)
    BY <1>1 DEF Inv, Types, CallbackInv
  <2>2. \A c \in Callback : Exclusive(c)'
    BY <2>1 DEF Exclusive
  <2>3. \A c \in Cont : NotLost(c)'
    BY <2>1 DEF NotLost, Callback
  <2>4. \A c \in Observer : OnRequest(c)'
    BY <2>1 DEF OnRequest, Exclusive, Callback
  <2> QED BY <2>2, <2>3, <2>4 DEF CallbackInv
<1>2. CASE Task # {}
  <2>1. PICK t \in Task : TRUE
    BY <1>2
  <2> DEFINE R == {}
  <2>2. R \in SUBSET Callback
    OBVIOUS
  <2>3. \A c \in Callback : DueOnce(c)' /\ (Due(Run(c))' <=> Due(Run(c)) \/ c \in R)
    OBVIOUS
  <2>4. \A c \in R : /\ c \in continuations[t] \cup cancellationContinuations[t]
                     /\ c \notin continuations'[t] \cup cancellationContinuations'[t]
                     /\ c \in Observer => requested'[t]
    OBVIOUS
  <2>5. \A u \in Task : /\ continuations'[u] \subseteq continuations[u]
                        /\ cancellationContinuations'[u] \subseteq cancellationContinuations[u]
                        /\ \A c \in continuations[u] : c \in continuations'[u] \/ c \in R
                        /\ requested[u] => requested'[u]
    OBVIOUS
  <2> HIDE DEF R
  <2> QED BY <2>1, <2>2, <2>3, <2>4, <2>5, Released
<1> QED BY <1>1, <1>2

(***************************************************************************)
(* The invariant, one lemma per action.                                    *)
(***************************************************************************)
LEMMA CompleteStep ==
  ASSUME Inv, NEW th \in Thread, NEW t \in Task, NEW s \in {"Succeeded", "Failed"}, complete(th, t, s)
  PROVE  Inv'
<1> DEFINE R == continuations[t]
<1>1. /\ status' = [status EXCEPT ![t] = s]
      /\ continuations' = [continuations EXCEPT ![t] = {}]
      /\ cancellationContinuations' = [cancellationContinuations EXCEPT ![t] = {}]
      /\ UNCHANGED <<requested, failureObserved, spawnedChildren, alive, reported, ran, target>>
      /\ Idle(th)
  BY DEF complete
<1>2. PICK calls \in Calls(R, Run) : todo' = [todo EXCEPT ![th] = calls \o <<>>]
  BY DEF complete, Continue
<1>3. R \in SUBSET Callback /\ IsFiniteSet(R)
  BY DEF Inv, Types, Callback
<1>4. calls \in Seq(Item) /\ \A e : (Has(calls, e) <=> \E x \in R : e = Run(x)) /\ OnceIn(calls, e)
  BY <1>3, CallsRun
<1>5. todo' = [todo EXCEPT ![th] = calls]
  BY <1>2, <1>4
<1>6. \A c \in Callback : DueOnce(c)' /\ (Due(Run(c))' <=> Due(Run(c)) \/ c \in R)
  <2>1. \A c \in Callback : /\ Has(calls, Run(c)) <=> Has(todo[th], Run(c)) \/ c \in R
                            /\ OnceIn(calls, Run(c))
    BY <1>1, <1>4, IdleHasNothing, ItemsApart
  <2>2. \A c \in R : ~Due(Run(c))
    BY <1>3 DEF Inv, CallbackInv, Exclusive
  <2> HIDE DEF R
  <2> QED BY <1>5, <2>1, <2>2, RunsAdded
<1>7. Types'
  BY <1>1, <1>4, <1>5, FS_EmptySet DEF Inv, Types, Statuses
<1>8. WaitsLive'
  BY <1>1 DEF Inv, Types, WaitsLive, isTerminal
<1>9. CallbackInv'
  <2>1. \A c \in R : /\ c \in continuations[t] \cup cancellationContinuations[t]
                     /\ c \notin continuations'[t] \cup cancellationContinuations'[t]
                     /\ c \notin Observer
    BY <1>1, ConstAssumption DEF Inv, Types
  <2>2. \A u \in Task : /\ continuations'[u] \subseteq continuations[u]
                        /\ cancellationContinuations'[u] \subseteq cancellationContinuations[u]
                        /\ \A c \in continuations[u] : c \in continuations'[u] \/ c \in R
                        /\ requested[u] => requested'[u]
    BY <1>1 DEF Inv, Types
  <2> HIDE DEF R
  <2> QED BY <1>1, <1>3, <1>6, <2>1, <2>2, Released
<1> QED BY <1>7, <1>8, <1>9 DEF Inv

LEMMA CancelStep ==
  ASSUME Inv, NEW th \in Thread, NEW t \in Task, cancel(th, t)
  PROVE  Inv'
<1> DEFINE K == continuations[t]
           O == cancellationContinuations[t]
           R == K \cup O
<1>1. /\ status' = [status EXCEPT ![t] = "Cancelled"]
      /\ requested' = [requested EXCEPT ![t] = TRUE]
      /\ continuations' = [continuations EXCEPT ![t] = {}]
      /\ cancellationContinuations' = [cancellationContinuations EXCEPT ![t] = {}]
      /\ UNCHANGED <<failureObserved, spawnedChildren, alive, reported, ran, target>>
      /\ Idle(th)
  BY DEF cancel
<1>2. PICK c1 \in Calls(K, Run), c2 \in Calls(O, Run) :
         todo' = [todo EXCEPT ![th] = (c1 \o c2 \o <<Propagate(t)>>) \o <<>>]
  BY DEF cancel, Continue
<1>3. /\ R \in SUBSET Callback /\ K \in SUBSET Callback /\ O \in SUBSET Callback
      /\ IsFiniteSet(K) /\ IsFiniteSet(O) /\ K \cap O = {}
  BY ConstAssumption DEF Inv, Types, Callback
<1>4. /\ c1 \in Seq(Item) /\ \A e : (Has(c1, e) <=> \E x \in K : e = Run(x)) /\ OnceIn(c1, e)
      /\ c2 \in Seq(Item) /\ \A e : (Has(c2, e) <=> \E x \in O : e = Run(x)) /\ OnceIn(c2, e)
  BY <1>3, CallsRun
<1> DEFINE q == c1 \o c2 \o <<Propagate(t)>>
<1>a. <<Propagate(t)>> \in Seq(Item) /\ c1 \o c2 \in Seq(Item)
  BY <1>4 DEF Item
<1>b. \A c \in Callback : /\ Has(c1 \o c2, Run(c)) <=> c \in R
                          /\ OnceIn(c1 \o c2, Run(c))
  BY <1>3, <1>4, HasConcat, ItemsApart
<1>c. /\ q \in Seq(Item)
      /\ \A c \in Callback : /\ Has(q, Run(c)) <=> c \in R
                             /\ OnceIn(q, Run(c))
  <2> DEFINE p == c1 \o c2
             r == <<Propagate(t)>>
  <2>1. \A e : (Has(r, e) <=> e = Propagate(t)) /\ OnceIn(r, e)
    BY HasOne
  <2>2. p \in Seq(Item) /\ r \in Seq(Item)
    BY <1>a
  <2>3. \A c \in Callback : (Has(p, Run(c)) <=> c \in R) /\ OnceIn(p, Run(c))
    BY <1>b
  <2>4. q = p \o r
    OBVIOUS
  <2> HIDE DEF p, r, q, R
  <2> QED BY <2>1, <2>2, <2>3, <2>4, HasConcat, ItemsApart
<1>5. todo' = [todo EXCEPT ![th] = q]
  BY <1>2, <1>c
<1>6. \A c \in Callback : DueOnce(c)' /\ (Due(Run(c))' <=> Due(Run(c)) \/ c \in R)
  <2>1. \A c \in Callback : /\ Has(q, Run(c)) <=> Has(todo[th], Run(c)) \/ c \in R
                            /\ OnceIn(q, Run(c))
    BY <1>1, <1>c, IdleHasNothing
  <2>2. \A c \in R : ~Due(Run(c))
    BY <1>3 DEF Inv, CallbackInv, Exclusive
  <2> HIDE DEF R, q
  <2> QED BY <1>5, <2>1, <2>2, RunsAdded
<1>7. Types'
  <2> HIDE DEF q
  <2> QED BY <1>1, <1>c, <1>5, FS_EmptySet DEF Inv, Types, Statuses
<1>8. WaitsLive'
  BY <1>1 DEF Inv, Types, WaitsLive, isTerminal
<1>9. CallbackInv'
  <2>1. \A c \in R : /\ c \in continuations[t] \cup cancellationContinuations[t]
                     /\ c \notin continuations'[t] \cup cancellationContinuations'[t]
                     /\ requested'[t]
    BY <1>1 DEF Inv, Types
  <2>2. \A u \in Task : /\ continuations'[u] \subseteq continuations[u]
                        /\ cancellationContinuations'[u] \subseteq cancellationContinuations[u]
                        /\ \A c \in continuations[u] : c \in continuations'[u] \/ c \in R
                        /\ requested[u] => requested'[u]
    BY <1>1 DEF Inv, Types
  <2> HIDE DEF R
  <2> QED BY <1>1, <1>3, <1>6, <2>1, <2>2, Released
<1> QED BY <1>7, <1>8, <1>9 DEF Inv

\* rest is what the call has to do after the request.
LEMMA RequestStep ==
  ASSUME Inv, NEW th \in Thread, NEW t \in Task, NEW rest \in Seq(Item),
         \A c \in Callback : (Has(rest, Run(c)) <=> Has(todo[th], Run(c))) /\ OnceIn(rest, Run(c)),
         requestCancellation(th, t, rest)
  PROVE  Inv'
<1>1. UNCHANGED <<status, failureObserved, continuations, spawnedChildren, alive, reported, ran, target>>
  BY DEF requestCancellation
<1>2. CASE isTerminal(t) \/ requested[t]
  <2>1. todo' = [todo EXCEPT ![th] = rest] /\ UNCHANGED <<requested, cancellationContinuations>>
    BY <1>2 DEF requestCancellation, Continue
  <2>2. Types'
    BY <1>1, <2>1 DEF Inv, Types
  <2>3. WaitsLive'
    BY <1>1, <2>1 DEF Inv, WaitsLive, isTerminal
  <2>4. \A c \in Callback : DueOnce(c)' /\ (Due(Run(c))' <=> Due(Run(c)))
    <3> DEFINE R == {}
    <3>1. \A c \in Callback : /\ Has(rest, Run(c)) <=> Has(todo[th], Run(c)) \/ c \in R
                              /\ OnceIn(rest, Run(c))
      OBVIOUS
    <3>2. \A c \in R : ~Due(Run(c))
      OBVIOUS
    <3>3. \A c \in Callback : DueOnce(c)' /\ (Due(Run(c))' <=> Due(Run(c)) \/ c \in R)
      <4> HIDE DEF R
      <4> QED BY <2>1, <3>1, <3>2, RunsAdded
    <3> QED BY <3>3
  <2>5. CallbackInv'
    BY <1>1, <2>1, <2>4, NoneReleased
  <2> QED BY <2>2, <2>3, <2>5 DEF Inv
<1>3. CASE ~(isTerminal(t) \/ requested[t])
  <2> DEFINE R == cancellationContinuations[t]
  <2>1. /\ requested' = [requested EXCEPT ![t] = TRUE]
        /\ cancellationContinuations' = [cancellationContinuations EXCEPT ![t] = {}]
    BY <1>3 DEF requestCancellation
  <2>2. PICK calls \in Calls(R, Run) :
           todo' = [todo EXCEPT ![th] = (calls \o <<Propagate(t)>>) \o rest]
    BY <1>3 DEF requestCancellation, Continue
  <2>3. R \in SUBSET Callback /\ IsFiniteSet(R)
    BY DEF Inv, Types, Callback
  <2>4. calls \in Seq(Item) /\ \A e : (Has(calls, e) <=> \E x \in R : e = Run(x)) /\ OnceIn(calls, e)
    BY <2>3, CallsRun
  <2>5. \A c \in R : ~Due(Run(c))
    BY <2>3 DEF Inv, CallbackInv, Exclusive
  <2> DEFINE p == calls \o <<Propagate(t)>>
             q == p \o rest
  <2>6. p \in Seq(Item) /\ \A c \in Callback : (Has(p, Run(c)) <=> c \in R) /\ OnceIn(p, Run(c))
    <3> DEFINE r == <<Propagate(t)>>
    <3>1. r \in Seq(Item) /\ \A e : (Has(r, e) <=> e = Propagate(t)) /\ OnceIn(r, e)
      BY HasOne DEF Item
    <3>2. p = calls \o r
      OBVIOUS
    <3> HIDE DEF p, r, R
    <3>3. \A c \in Callback : /\ (Has(calls, Run(c)) <=> c \in R) /\ OnceIn(calls, Run(c))
                              /\ ~Has(r, Run(c)) /\ OnceIn(r, Run(c))
      <4> SUFFICES ASSUME NEW c \in Callback
                   PROVE  /\ (Has(calls, Run(c)) <=> c \in R) /\ OnceIn(calls, Run(c))
                          /\ ~Has(r, Run(c)) /\ OnceIn(r, Run(c))
        OBVIOUS
      <4>1. Run(c) # Propagate(t) /\ \A x : Run(c) = Run(x) => c = x
        BY ItemsApart
      <4>2. Has(calls, Run(c)) <=> \E x \in R : Run(c) = Run(x)
        BY <2>4
      <4>3. OnceIn(calls, Run(c)) /\ ~Has(r, Run(c)) /\ OnceIn(r, Run(c))
        BY <2>4, <3>1, <4>1
      <4> QED BY <4>1, <4>2, <4>3
    <3> QED BY <2>4, <3>1, <3>2, <3>3, HasConcat
  <2>7. /\ q \in Seq(Item)
        /\ \A c \in Callback : /\ Has(q, Run(c)) <=> Has(todo[th], Run(c)) \/ c \in R
                               /\ OnceIn(q, Run(c))
    <3>1. \A c \in Callback : ~(Has(p, Run(c)) /\ Has(rest, Run(c)))
      BY <2>5, <2>6 DEF Due
    <3> HIDE DEF p, R
    <3> QED BY <2>6, <3>1, HasConcat
  <2>8. todo' = [todo EXCEPT ![th] = q]
    BY <2>2
  <2>9. \A c \in Callback : DueOnce(c)' /\ (Due(Run(c))' <=> Due(Run(c)) \/ c \in R)
    <3> HIDE DEF R, q
    <3> QED BY <2>5, <2>7, <2>8, RunsAdded
  <2>10. Types'
    <3> HIDE DEF q
    <3> QED BY <1>1, <2>1, <2>7, <2>8, FS_EmptySet DEF Inv, Types
  <2>11. WaitsLive'
    BY <1>1, <2>1 DEF Inv, Types, WaitsLive, isTerminal
  <2>12. CallbackInv'
    <3>1. \A c \in R : /\ c \in continuations[t] \cup cancellationContinuations[t]
                       /\ c \notin continuations'[t] \cup cancellationContinuations'[t]
                       /\ requested'[t]
      BY <1>1, <2>1, ConstAssumption DEF Inv, Types
    <3>2. \A u \in Task : /\ continuations'[u] \subseteq continuations[u]
                          /\ cancellationContinuations'[u] \subseteq cancellationContinuations[u]
                          /\ \A c \in continuations[u] : c \in continuations'[u] \/ c \in R
                          /\ requested[u] => requested'[u]
      BY <1>1, <2>1 DEF Inv, Types
    <3> HIDE DEF R
    <3> QED BY <1>1, <2>3, <2>9, <3>1, <3>2, Released
  <2> QED BY <2>10, <2>11, <2>12 DEF Inv
<1> QED BY <1>2, <1>3

LEMMA RunStep ==
  ASSUME Inv, NEW th \in Thread, RunContinuation(th)
  PROVE  Inv'
<1> DEFINE s == todo[th]
           e == Head(s)
<1>1. s \in Seq(Item) /\ s # <<>> /\ e \in Item /\ e.op = "run"
  <2>1. s \in Seq(Item) /\ s # <<>> /\ e.op = "run"
    BY DEF Inv, Types, RunContinuation, Idle
  <2> QED BY <2>1
<1>2. PICK d \in Callback : e = Run(d)
  BY <1>1 DEF Item, Run, Request, Propagate
<1>3. e.arg = d
  BY <1>2 DEF Run
<1>4. ran' = [ran EXCEPT ![d] = @ + 1]
  BY <1>3 DEF RunContinuation
<1>5. todo' = [todo EXCEPT ![th] = Tail(s)] /\ Tail(s) \in Seq(Item)
  <2>1. Tail(s) \in Seq(Item)
    BY <1>1, HasTail
  <2> QED BY <2>1 DEF RunContinuation, Continue
<1>6. UNCHANGED <<status, requested, failureObserved, continuations, cancellationContinuations,
                  spawnedChildren, alive, reported, target>>
  BY DEF RunContinuation
<1>7. Due(Run(d)) /\ ran[d] = 0 /\ DueOnce(d)
  BY <1>1, <1>2, HasTail DEF Inv, CallbackInv, Exclusive, Due
<1>8. Types'
  BY <1>4, <1>5, <1>6, <1>7 DEF Inv, Types
<1>9. WaitsLive'
  BY <1>6 DEF Inv, WaitsLive, isTerminal
<1>10. ASSUME NEW c \in Callback
       PROVE  DueOnce(c)' /\ (Due(Run(c))' <=> Due(Run(c)) /\ c # d)
  <2>1. DueOnce(c)
    BY DEF Inv, CallbackInv
  <2>2. /\ Has(s, Run(c)) <=> c = d \/ Has(Tail(s), Run(c))
        /\ OnceIn(Tail(s), Run(c)) /\ (c = d => ~Has(Tail(s), Run(c)))
    BY <1>1, <1>2, <2>1, HasTail, ItemsApart DEF DueOnce
  <2>3. todo'[th] = Tail(s) /\ \A x \in Thread : x # th => todo'[x] = todo[x]
    BY <1>5 DEF Inv, Types
  <2>4. DueOnce(c)'
    BY <2>1, <2>2, <2>3 DEF DueOnce
  <2>5. CASE c # d
    BY <2>2, <2>3, <2>4, <2>5 DEF Due
  <2>6. CASE c = d
    <3>1. \A x \in Thread : x # th => ~Has(todo[x], Run(c))
      BY <2>1, <2>2, <2>6 DEF DueOnce
    <3> QED BY <2>2, <2>3, <2>4, <2>6, <3>1 DEF Due
  <2> QED BY <2>5, <2>6
<1>11. ASSUME NEW c \in Callback PROVE Exclusive(c)'
  <2>1. Exclusive(c)
    BY DEF Inv, CallbackInv
  <2>2. CASE c # d
    BY <2>1, <2>2, <1>4, <1>6, <1>10 DEF Exclusive, Inv, Types
  <2>3. CASE c = d
    BY <2>1, <2>3, <1>6, <1>7, <1>10 DEF Exclusive
  <2> QED BY <2>2, <2>3
<1>12. ASSUME NEW c \in Cont PROVE NotLost(c)'
  <2>1. NotLost(c) /\ c \in Callback
    BY DEF Inv, CallbackInv, Callback
  <2> QED BY <2>1, <1>4, <1>6, <1>7, <1>10 DEF NotLost, Inv, Types
<1>13. ASSUME NEW c \in Observer PROVE OnRequest(c)'
  <2>1. OnRequest(c) /\ c \in Callback
    BY DEF Inv, CallbackInv, Callback
  <2> QED BY <2>1, <1>4, <1>6, <1>7, <1>10 DEF OnRequest, Inv, Types
<1>14. CallbackInv'
  BY <1>10, <1>11, <1>12, <1>13 DEF CallbackInv
<1> QED BY <1>8, <1>9, <1>14 DEF Inv

\* A callback that nobody registered is nowhere.
LEMMA Unregistered ==
  ASSUME Inv, NEW c \in Callback, target[c] = NoTask
  PROVE  /\ ~Due(Run(c)) /\ ran[c] = 0
         /\ \A u \in Task : c \notin continuations[u] /\ c \notin cancellationContinuations[u]
<1>1. NoTask \notin Task
  BY ConstAssumption DEF NoTask
<1> QED BY <1>1 DEF Inv, CallbackInv, Exclusive

\* An idle thread that registers c on a task runs it at once.
LEMMA RunsNow ==
  ASSUME Inv, NEW th \in Thread, Idle(th), NEW c \in Callback, target[c] = NoTask,
         Continue(th, <<Run(c)>>, <<>>)
  PROVE  /\ todo' \in [Thread -> Seq(Item)]
         /\ \A d \in Callback : DueOnce(d)' /\ (Due(Run(d))' <=> Due(Run(d)) \/ d = c)
<1> DEFINE q == <<Run(c)>>
           R == {c}
<1>1. q \in Seq(Item)
  BY DEF Item
<1>2. todo' = [todo EXCEPT ![th] = q]
  BY DEF Continue
<1>3. \A d \in Callback : (Has(q, Run(d)) <=> Has(todo[th], Run(d)) \/ d \in R) /\ OnceIn(q, Run(d))
  BY IdleHasNothing, HasOne, ItemsApart
<1>4. \A d \in R : ~Due(Run(d))
  BY Unregistered
<1>5. \A d \in Callback : DueOnce(d)' /\ (Due(Run(d))' <=> Due(Run(d)) \/ d \in R)
  <2> HIDE DEF q, R
  <2> QED BY <1>2, <1>3, <1>4, RunsAdded
<1>6. todo' \in [Thread -> Seq(Item)]
  BY <1>1, <1>2 DEF Inv, Types
<1> QED BY <1>5, <1>6

\* Nothing changes for a callback whose own state does not.
LEMMA SameDue == UNCHANGED todo => \A c \in Callback : (DueOnce(c)' <=> DueOnce(c)) /\ (Due(Run(c))' <=> Due(Run(c)))
  BY DEF DueOnce, Due

LEMMA ThenStep ==
  ASSUME Inv, NEW th \in Thread, NEW t \in Task, NEW c \in Cont, then(th, t, c)
  PROVE  Inv'
<1>1. /\ Idle(th) /\ target[c] = NoTask /\ c \in Callback /\ c \notin Observer
      /\ target' = [target EXCEPT ![c] = t]
      /\ UNCHANGED <<status, requested, failureObserved, cancellationContinuations,
                     spawnedChildren, alive, reported, ran>>
  BY ConstAssumption DEF then, Callback
<1>2. /\ ~Due(Run(c)) /\ ran[c] = 0
      /\ \A u \in Task : c \notin continuations[u] /\ c \notin cancellationContinuations[u]
  BY <1>1, Unregistered
<1>3. target' \in [Callback -> Task \cup {NoTask}] /\ target'[c] = t
      /\ \A d \in Callback : d # c => target'[d] = target[d]
  BY <1>1 DEF Inv, Types
<1>n. NoTask \notin Task
  BY ConstAssumption DEF NoTask
<1>4. CASE isTerminal(t)
  <2>1. Continue(th, <<Run(c)>>, <<>>) /\ continuations' = continuations
    BY <1>4 DEF then
  <2>2. /\ todo' \in [Thread -> Seq(Item)]
        /\ \A d \in Callback : DueOnce(d)' /\ (Due(Run(d))' <=> Due(Run(d)) \/ d = c)
    BY <1>1, <2>1, RunsNow
  <2>3. Types'
    BY <1>1, <1>3, <2>1, <2>2 DEF Inv, Types
  <2>4. WaitsLive'
    BY <1>1, <2>1 DEF Inv, WaitsLive, isTerminal
  <2>5. ASSUME NEW d \in Callback PROVE Exclusive(d)'
    <3>1. CASE d = c
      BY <3>1, <1>1, <1>2, <1>3, <1>n, <2>1 DEF Exclusive
    <3>2. CASE d # c
      BY <3>2, <1>1, <1>3, <2>1, <2>2 DEF Exclusive, Inv, CallbackInv
    <3> QED BY <3>1, <3>2
  <2>6. ASSUME NEW d \in Cont PROVE NotLost(d)'
    <3>1. d \in Callback /\ NotLost(d)
      BY DEF Callback, Inv, CallbackInv
    <3> QED BY <3>1, <1>1, <1>3, <2>1, <2>2 DEF NotLost
  <2>7. ASSUME NEW d \in Observer PROVE OnRequest(d)'
    <3>1. d \in Callback /\ OnRequest(d) /\ d # c
      BY <1>1 DEF Callback, Inv, CallbackInv
    <3> QED BY <3>1, <1>1, <1>3, <2>2 DEF OnRequest
  <2> QED BY <2>2, <2>3, <2>4, <2>5, <2>6, <2>7 DEF Inv, CallbackInv
<1>5. CASE ~isTerminal(t)
  <2>1. continuations' = [continuations EXCEPT ![t] = @ \cup {c}] /\ todo' = todo
    BY <1>5 DEF then
  <2>2. continuations'[t] = continuations[t] \cup {c}
        /\ \A u \in Task : u # t => continuations'[u] = continuations[u]
    BY <2>1 DEF Inv, Types
  <2>3. Types'
    <3>0. IsFiniteSet(continuations[t])
      BY DEF Inv, Types
    <3>1. IsFiniteSet(continuations'[t])
      BY <2>2, <3>0, FS_AddElement
    <3>2. continuations' \in [Task -> SUBSET Cont] /\ \A u \in Task : IsFiniteSet(continuations'[u])
      BY <2>1, <2>2, <3>1 DEF Inv, Types
    <3> QED BY <3>2, <1>1, <1>3, <2>1 DEF Inv, Types
  <2>4. WaitsLive'
    BY <1>1, <1>5, <2>2 DEF Inv, WaitsLive, isTerminal
  <2>5. ASSUME NEW d \in Callback PROVE Exclusive(d)' /\ DueOnce(d)'
    <3>0. (DueOnce(d)' <=> DueOnce(d)) /\ (Due(Run(d))' <=> Due(Run(d))) /\ DueOnce(d) /\ Exclusive(d)
      BY <2>1, SameDue DEF Inv, CallbackInv
    <3>1. CASE d = c
      BY <3>0, <3>1, <1>1, <1>2, <1>3, <1>n, <2>2 DEF Exclusive
    <3>2. CASE d # c
      <4>1. \A u \in Task : d \in continuations'[u] => d \in continuations[u]
        BY <3>2, <2>2
      <4> QED BY <3>0, <3>2, <4>1, <1>1, <1>3 DEF Exclusive
    <3> QED BY <3>1, <3>2
  <2>6. ASSUME NEW d \in Cont PROVE NotLost(d)'
    <3>1. d \in Callback /\ NotLost(d) /\ (Due(Run(d))' <=> Due(Run(d))) /\ target[d] \in Task \cup {NoTask}
      BY <2>1, SameDue DEF Callback, Inv, CallbackInv, Types
    <3>2. CASE d = c
      BY <3>2, <1>3, <2>2 DEF NotLost
    <3>3. CASE d # c
      <4>1. \A u \in Task : d \in continuations[u] => d \in continuations'[u]
        BY <2>2
      <4> QED BY <3>1, <3>3, <4>1, <1>1, <1>3 DEF NotLost
    <3> QED BY <3>2, <3>3
  <2>7. ASSUME NEW d \in Observer PROVE OnRequest(d)'
    <3>1. d \in Callback /\ OnRequest(d) /\ d # c /\ (Due(Run(d))' <=> Due(Run(d)))
      BY <1>1, <2>1, SameDue DEF Callback, Inv, CallbackInv
    <3> QED BY <3>1, <1>1, <1>3 DEF OnRequest
  <2> QED BY <2>3, <2>4, <2>5, <2>6, <2>7 DEF Inv, CallbackInv
<1> QED BY <1>4, <1>5

LEMMA OnCancellationStep ==
  ASSUME Inv, NEW th \in Thread, NEW t \in Task, NEW c \in Observer, onCancellation(th, t, c)
  PROVE  Inv'
<1> DEFINE waits == ~(requested[t] \/ isTerminal(t))
<1>1. /\ Idle(th) /\ target[c] = NoTask /\ c \in Callback /\ c \notin Cont
      /\ target' = [target EXCEPT ![c] = t]
      /\ UNCHANGED <<status, requested, failureObserved, continuations, spawnedChildren,
                     alive, reported, ran>>
  BY ConstAssumption DEF onCancellation, Callback
<1>2. /\ ~Due(Run(c)) /\ ran[c] = 0
      /\ \A u \in Task : c \notin continuations[u] /\ c \notin cancellationContinuations[u]
  BY <1>1, Unregistered
<1>3. target' \in [Callback -> Task \cup {NoTask}] /\ target'[c] = t
      /\ \A d \in Callback : d # c => target'[d] = target[d]
  BY <1>1 DEF Inv, Types
<1>n. NoTask \notin Task
  BY ConstAssumption DEF NoTask
<1>4. /\ todo' \in [Thread -> Seq(Item)]
      /\ \A d \in Callback : DueOnce(d)' /\ (Due(Run(d))' <=> Due(Run(d)) \/ (d = c /\ requested[t]))
  <2>1. CASE requested[t]
    BY <1>1, <2>1, RunsNow DEF onCancellation
  <2>2. CASE ~requested[t]
    <3>1. todo' = todo
      BY <2>2 DEF onCancellation
    <3> QED BY <2>2, <3>1, SameDue DEF Inv, Types, CallbackInv
  <2> QED BY <2>1, <2>2
<1>5. /\ cancellationContinuations' \in [Task -> SUBSET Observer]
      /\ \A u \in Task : IsFiniteSet(cancellationContinuations'[u])
      /\ \A u \in Task : cancellationContinuations'[u] =
            cancellationContinuations[u] \cup (IF u = t /\ waits THEN {c} ELSE {})
  <2>1. CASE waits
    <3>1. cancellationContinuations' = [cancellationContinuations EXCEPT ![t] = @ \cup {c}]
      BY <2>1 DEF onCancellation
    <3>2. IsFiniteSet(cancellationContinuations[t] \cup {c})
      BY FS_AddElement DEF Inv, Types
    <3> QED BY <2>1, <3>1, <3>2 DEF Inv, Types
  <2>2. CASE ~waits
    <3>1. cancellationContinuations' = cancellationContinuations
      BY <2>2 DEF onCancellation
    <3> QED BY <2>2, <3>1 DEF Inv, Types
  <2> QED BY <2>1, <2>2
<1>6. Types'
  BY <1>1, <1>3, <1>4, <1>5 DEF Inv, Types
<1>7. WaitsLive'
  BY <1>1, <1>5 DEF Inv, WaitsLive, isTerminal
<1>8. ASSUME NEW d \in Callback PROVE Exclusive(d)'
  <2>0. Exclusive(d)
    BY DEF Inv, CallbackInv
  <2>1. CASE d = c
    <3>1. \A u \in Task : c \in cancellationContinuations'[u] => u = t /\ ~requested[t]
      BY <1>2, <1>5
    <3> QED BY <2>1, <3>1, <1>1, <1>2, <1>3, <1>4, <1>n DEF Exclusive
  <2>2. CASE d # c
    <3>1. \A u \in Task : d \in cancellationContinuations'[u] => d \in cancellationContinuations[u]
      BY <2>2, <1>5
    <3> QED BY <2>0, <2>2, <3>1, <1>1, <1>3, <1>4 DEF Exclusive
  <2> QED BY <2>1, <2>2
<1>9. ASSUME NEW d \in Cont PROVE NotLost(d)'
  <2>1. d \in Callback /\ NotLost(d) /\ d # c
    BY <1>1 DEF Callback, Inv, CallbackInv
  <2> QED BY <2>1, <1>1, <1>3, <1>4 DEF NotLost
<1>10. ASSUME NEW d \in Observer PROVE OnRequest(d)'
  <2>1. d \in Callback /\ OnRequest(d)
    BY DEF Callback, Inv, CallbackInv
  <2>2. CASE d = c
    BY <2>2, <1>1, <1>2, <1>3, <1>4 DEF OnRequest
  <2>3. CASE d # c
    BY <2>1, <2>3, <1>1, <1>3, <1>4 DEF OnRequest
  <2> QED BY <2>2, <2>3
<1> QED BY <1>4, <1>6, <1>7, <1>8, <1>9, <1>10 DEF Inv, CallbackInv

\* A call whose items change only in requests and cascades.
LEMMA NoRunsAdded ==
  ASSUME Inv, NEW th \in Thread, NEW q \in Seq(Item), todo' = [todo EXCEPT ![th] = q],
         \A c \in Callback : (Has(q, Run(c)) <=> Has(todo[th], Run(c))) /\ OnceIn(q, Run(c)),
         UNCHANGED <<status, requested, failureObserved, continuations, cancellationContinuations,
                     alive, reported, ran, target>>,
         spawnedChildren' \in [Task -> SUBSET Task],
         \A t \in Task : IsFiniteSet(spawnedChildren'[t])
  PROVE  Inv'
<1>1. \A c \in Callback : DueOnce(c)' /\ (Due(Run(c))' <=> Due(Run(c)))
  <2> DEFINE R == {}
  <2>1. \A c \in Callback : /\ Has(q, Run(c)) <=> Has(todo[th], Run(c)) \/ c \in R
                            /\ OnceIn(q, Run(c))
    OBVIOUS
  <2>2. \A c \in R : ~Due(Run(c))
    OBVIOUS
  <2>3. \A c \in Callback : DueOnce(c)' /\ (Due(Run(c))' <=> Due(Run(c)) \/ c \in R)
    <3> HIDE DEF R
    <3> QED BY <2>1, <2>2, RunsAdded
  <2> QED BY <2>3
<1>2. Types'
  BY DEF Inv, Types
<1>3. WaitsLive'
  BY DEF Inv, WaitsLive, isTerminal
<1>4. CallbackInv'
  BY <1>1, NoneReleased
<1> QED BY <1>2, <1>3, <1>4 DEF Inv

LEMMA AddChildStep ==
  ASSUME Inv, NEW th \in Thread, NEW p \in Task, NEW t \in Task, addSpawnedChild(th, p, t)
  PROVE  Inv'
<1>1. /\ Idle(th)
      /\ spawnedChildren' = [spawnedChildren EXCEPT ![p] = @ \cup {t}]
      /\ UNCHANGED <<status, requested, failureObserved, continuations, cancellationContinuations,
                     alive, reported, ran, target>>
  BY DEF addSpawnedChild
<1>2. IsFiniteSet(spawnedChildren[p] \cup {t})
  BY FS_AddElement DEF Inv, Types
<1>3. spawnedChildren' \in [Task -> SUBSET Task] /\ \A u \in Task : IsFiniteSet(spawnedChildren'[u])
  BY <1>1, <1>2 DEF Inv, Types
<1>4. CASE requested[p]
  <2> DEFINE q == <<Request(t)>>
  <2>1. q \in Seq(Item)
    BY DEF Item
  <2>2. todo' = [todo EXCEPT ![th] = q]
    BY <1>4 DEF addSpawnedChild, Continue
  <2>3. \A c \in Callback : (Has(q, Run(c)) <=> Has(todo[th], Run(c))) /\ OnceIn(q, Run(c))
    BY <1>1, IdleHasNothing, HasOne, ItemsApart
  <2> HIDE DEF q
  <2> QED BY <1>1, <1>3, <2>1, <2>2, <2>3, NoRunsAdded
<1>5. CASE ~requested[p]
  <2>1. todo' = [todo EXCEPT ![th] = todo[th]] /\ todo[th] \in Seq(Item)
    BY <1>5 DEF addSpawnedChild, Inv, Types
  <2>2. \A c \in Callback : OnceIn(todo[th], Run(c))
    BY DEF Inv, CallbackInv, DueOnce
  <2> QED BY <1>1, <1>3, <2>1, <2>2, NoRunsAdded
<1> QED BY <1>4, <1>5

\* Taking the first item of a call, which is no callback, leaves its callbacks.
LEMMA TailKeepsRuns ==
  ASSUME Inv, NEW th \in Thread, todo[th] # <<>>, Head(todo[th]).op # "run"
  PROVE  /\ Tail(todo[th]) \in Seq(Item)
         /\ \A c \in Callback : /\ Has(Tail(todo[th]), Run(c)) <=> Has(todo[th], Run(c))
                                /\ OnceIn(Tail(todo[th]), Run(c))
         /\ \E t \in Task : \/ Head(todo[th]) = Request(t)
                            \/ Head(todo[th]) = Propagate(t)
<1>1. todo[th] \in Seq(Item)
  BY DEF Inv, Types
<1>2. \A c \in Callback : OnceIn(todo[th], Run(c))
  BY DEF Inv, CallbackInv, DueOnce
<1>3. Head(todo[th]) \in Item
  BY <1>1
<1>4. \A c : Head(todo[th]) # Run(c)
  BY DEF Run
<1>5. \E t \in Task : Head(todo[th]) = Request(t) \/ Head(todo[th]) = Propagate(t)
  BY <1>3, <1>4 DEF Item
<1>6. Tail(todo[th]) \in Seq(Item)
  BY <1>1
<1>7. \A c \in Callback : /\ Has(Tail(todo[th]), Run(c)) <=> Has(todo[th], Run(c))
                          /\ OnceIn(Tail(todo[th]), Run(c))
  BY <1>1, <1>2, <1>4, HasTail
<1> QED BY <1>5, <1>6, <1>7

LEMMA ReceivedRequest ==
  ASSUME Inv, NEW th \in Thread, ReceiveRequest(th)
  PROVE  \E t \in Task : requestCancellation(th, t, Tail(todo[th]))
<1>1. todo[th] # <<>> /\ Head(todo[th]).op = "request"
  BY DEF ReceiveRequest, Idle
<1>2. PICK t \in Task : Head(todo[th]) = Request(t) \/ Head(todo[th]) = Propagate(t)
  BY <1>1, TailKeepsRuns
<1>3. Head(todo[th]) = Request(t) /\ Head(todo[th]).arg = t
  BY <1>1, <1>2 DEF Request, Propagate
<1> QED BY <1>3 DEF ReceiveRequest

LEMMA ReceiveStep ==
  ASSUME Inv, NEW th \in Thread, ReceiveRequest(th)
  PROVE  Inv'
<1>1. todo[th] # <<>> /\ Head(todo[th]).op = "request"
  BY DEF ReceiveRequest, Idle
<1>2. PICK t \in Task : requestCancellation(th, t, Tail(todo[th]))
  BY ReceivedRequest
<1> QED BY <1>1, <1>2, TailKeepsRuns, RequestStep

LEMMA UserCancelStep ==
  ASSUME Inv, NEW th \in Thread, NEW t \in Task, UserCancel(th, t)
  PROVE  Inv'
<1>1. Idle(th) /\ requestCancellation(th, t, <<>>) /\ <<>> \in Seq(Item)
  BY DEF UserCancel
<1>2. \A c \in Callback : (Has(<<>>, Run(c)) <=> Has(todo[th], Run(c))) /\ OnceIn(<<>>, Run(c))
  BY <1>1, IdleHasNothing, HasEmpty
<1> QED BY <1>1, <1>2, RequestStep

\* The requests a cascade sends to the children it finds.
LEMMA PropagateItems ==
  ASSUME Inv, NEW th \in Thread, propagateCancellationToChildren(th)
  PROVE  \E t \in Task, calls \in Seq(Item) :
            LET live == {c \in spawnedChildren[t] : c \in alive /\ ~isTerminal(c)}
            IN  /\ todo[th] # <<>> /\ Head(todo[th]) = Propagate(t)
                /\ todo' = [todo EXCEPT ![th] = calls \o Tail(todo[th])]
                /\ \A e : (Has(calls, e) <=> \E c \in live : e = Request(c)) /\ OnceIn(calls, e)
<1>1. todo[th] # <<>> /\ Head(todo[th]).op = "propagate"
  BY DEF propagateCancellationToChildren, Idle
<1>2. PICK t \in Task : Head(todo[th]) = Request(t) \/ Head(todo[th]) = Propagate(t)
  BY <1>1, TailKeepsRuns
<1>3. Head(todo[th]) = Propagate(t) /\ Head(todo[th]).arg = t
  BY <1>1, <1>2 DEF Request, Propagate
<1> DEFINE live == {c \in spawnedChildren[t] : c \in alive /\ ~isTerminal(c)}
<1>4. PICK calls \in Calls(live, Request) : Continue(th, calls, Tail(todo[th]))
  BY <1>3 DEF propagateCancellationToChildren
<1>5. live \in SUBSET Task /\ IsFiniteSet(live)
  <2>1. live \in SUBSET spawnedChildren[t] /\ spawnedChildren[t] \in SUBSET Task
        /\ IsFiniteSet(spawnedChildren[t])
    BY DEF Inv, Types
  <2> HIDE DEF live
  <2> QED BY <2>1, FS_Subset
<1>6. calls \in Seq(Item) /\ \A e : (Has(calls, e) <=> \E c \in live : e = Request(c)) /\ OnceIn(calls, e)
  <2> HIDE DEF live
  <2> QED BY <1>5, CallsRequest
<1> QED BY <1>1, <1>3, <1>4, <1>6 DEF Continue

LEMMA PropagateStep ==
  ASSUME Inv, NEW th \in Thread, propagateCancellationToChildren(th)
  PROVE  Inv'
<1>1. PICK t \in Task, calls \in Seq(Item) :
         LET live == {c \in spawnedChildren[t] : c \in alive /\ ~isTerminal(c)}
         IN  /\ todo[th] # <<>> /\ Head(todo[th]) = Propagate(t)
             /\ todo' = [todo EXCEPT ![th] = calls \o Tail(todo[th])]
             /\ \A e : (Has(calls, e) <=> \E c \in live : e = Request(c)) /\ OnceIn(calls, e)
  BY PropagateItems
<1>2. Head(todo[th]).op # "run"
  BY <1>1 DEF Propagate
<1> DEFINE r == Tail(todo[th])
           q == calls \o r
<1>3. /\ r \in Seq(Item)
      /\ \A c \in Callback : (Has(r, Run(c)) <=> Has(todo[th], Run(c))) /\ OnceIn(r, Run(c))
  BY <1>1, <1>2, TailKeepsRuns
<1>4. \A c \in Callback : ~Has(calls, Run(c)) /\ OnceIn(calls, Run(c))
  BY <1>1, ItemsApart
<1>5. todo' = [todo EXCEPT ![th] = q]
  BY <1>1
<1> HIDE DEF r
<1>6. /\ q \in Seq(Item)
      /\ \A c \in Callback : (Has(q, Run(c)) <=> Has(todo[th], Run(c))) /\ OnceIn(q, Run(c))
  BY <1>3, <1>4, HasConcat
<1>7. UNCHANGED <<status, requested, failureObserved, continuations, cancellationContinuations,
                  spawnedChildren, alive, reported, ran, target>>
  BY DEF propagateCancellationToChildren
<1>8. spawnedChildren' \in [Task -> SUBSET Task] /\ \A u \in Task : IsFiniteSet(spawnedChildren'[u])
  BY <1>7 DEF Inv, Types
<1> HIDE DEF q
<1> QED BY <1>5, <1>6, <1>7, <1>8, NoRunsAdded

LEMMA InvStep == Inv /\ [Next]_vars => Inv'
<1> SUFFICES ASSUME Inv, [Next]_vars PROVE Inv'
  OBVIOUS
<1>1. ASSUME UNCHANGED <<requested, continuations, cancellationContinuations, todo, ran, target>>,
             Types', \A t \in Task : isTerminal(t)' => isTerminal(t)
      PROVE  Inv'
  <2>1. WaitsLive'
    BY <1>1 DEF Inv, WaitsLive
  <2>2. CallbackInv'
    BY <1>1, SameDue, NoneReleased DEF Inv, CallbackInv
  <2> QED BY <1>1, <2>1, <2>2 DEF Inv
<1>2. CASE UNCHANGED vars
  <2>1. Types' /\ \A t \in Task : isTerminal(t)' => isTerminal(t)
    BY <1>2 DEF vars, Inv, Types, isTerminal
  <2> QED BY <1>1, <1>2, <2>1 DEF vars
<1>3. ASSUME NEW th \in Thread, NEW t \in Task, start(th, t) \/ observe(th, t) \/ ignore(th, t)
      PROVE  Inv'
  <2>1. Types' /\ \A u \in Task : isTerminal(u)' => isTerminal(u)
    BY <1>3 DEF start, observe, ignore, Inv, Types, isTerminal, Statuses
  <2> QED BY <1>1, <1>3, <2>1 DEF start, observe, ignore
<1>4. ASSUME NEW t \in Task, drop(t) PROVE Inv'
  <2>1. Types' /\ \A u \in Task : isTerminal(u)' => isTerminal(u)
    BY <1>4 DEF drop, Inv, Types, isTerminal
  <2> QED BY <1>1, <1>4, <2>1 DEF drop
<1>5. ASSUME NEW th \in Thread, CallStep(th) PROVE Inv'
  BY <1>5, RunStep, ReceiveStep, PropagateStep DEF CallStep
<1>6. ASSUME NEW th \in Thread, NEW t \in Task, succeed(th, t) \/ fail(th, t) PROVE Inv'
  BY <1>6, CompleteStep DEF succeed, fail
<1> QED BY <1>2, <1>3, <1>4, <1>5, <1>6, CancelStep, UserCancelStep, ThenStep, OnCancellationStep,
           AddChildStep DEF Next

LEMMA InvHolds == Spec => []Inv
  BY InvInit, InvStep, PTL DEF Spec

(***************************************************************************)
(* Theorems.                                                               *)
(***************************************************************************)
\* Every reachable state is well typed; no continuation is ever called twice.
THEOREM TypeCorrect == Spec => []TypeOK
<1>1. Inv => TypeOK
  BY DEF Inv, Types, TypeOK
<1> QED BY <1>1, InvHolds, PTL

LEMMA PendingIsDue == Inv => \A c : Pending(c) <=> Due(Run(c))
<1> SUFFICES ASSUME Inv, NEW c PROVE Pending(c) <=> Due(Run(c))
  OBVIOUS
<1>1. \A th \in Thread : DOMAIN todo[th] = 1 .. Len(todo[th])
  BY DEF Inv, Types
<1> QED BY <1>1 DEF Pending, Due, Has

\* A registered continuation is waiting, about to run or has run, and only one of these;
\* a cancellation observer runs only for a requested cancellation, whatever order then,
\* onCancellation, completion, cancellation and the cascades take.
THEOREM CallbacksRunOnce == Spec => []CallbacksOnce
<1>1. ASSUME Inv PROVE CallbacksOnce
  <2>0. \A c : Pending(c) <=> Due(Run(c))
    BY <1>1, PendingIsDue
  <2>1. ASSUME NEW c \in Cont, target[c] # NoTask
        PROVE  LET waiting == c \in continuations[target[c]]
               IN  /\ (IF waiting THEN 1 ELSE 0) + (IF Pending(c) THEN 1 ELSE 0) + ran[c] = 1
                   /\ waiting => ~isTerminal(target[c])
    <3>1. /\ c \in Callback /\ NotLost(c) /\ Exclusive(c) /\ target[c] \in Task /\ ran[c] \in 0..1
          /\ (Pending(c) <=> Due(Run(c)))
      BY <1>1, <2>0, <2>1 DEF Inv, Types, CallbackInv, Callback
    <3> DEFINE waiting == c \in continuations[target[c]]
    <3>2. waiting => ~isTerminal(target[c])
      BY <1>1, <3>1 DEF Inv, WaitsLive
    <3>3. CASE waiting
      BY <3>1, <3>2, <3>3 DEF Exclusive
    <3>4. CASE ~waiting /\ Pending(c)
      BY <3>1, <3>4 DEF Exclusive
    <3>5. CASE ~waiting /\ ~Pending(c)
      BY <2>1, <3>1, <3>5 DEF NotLost
    <3> QED BY <3>3, <3>4, <3>5
  <2>2. ASSUME NEW c \in Observer, target[c] # NoTask
        PROVE  LET t == target[c]
               IN  /\ ran[c] = 1 \/ Pending(c) => requested[t]
                   /\ c \in cancellationContinuations[t] => ~requested[t] /\ ~isTerminal(t) /\ ran[c] = 0
    <3>1. /\ c \in Callback /\ OnRequest(c) /\ Exclusive(c) /\ target[c] \in Task
          /\ (Pending(c) <=> Due(Run(c)))
      BY <1>1, <2>0, <2>2 DEF Inv, Types, CallbackInv, Callback
    <3>2. ran[c] = 1 \/ Pending(c) => requested[target[c]]
      BY <3>1 DEF OnRequest
    <3>3. c \in cancellationContinuations[target[c]] =>
             ~requested[target[c]] /\ ~isTerminal(target[c]) /\ ran[c] = 0
      BY <1>1, <3>1 DEF Inv, WaitsLive, Exclusive
    <3> QED BY <3>2, <3>3
  <2> QED BY <2>1, <2>2 DEF CallbacksOnce
<1>2. Inv => CallbacksOnce
  BY <1>1
<1> QED BY <1>2, InvHolds, PTL

(***************************************************************************)
(* The tasks are promises.                                                 *)
(***************************************************************************)
\* A continuation of an unsettled task is still in its list, so nobody has called it or
\* is about to.
WaitsUnsettled == \A c \in Cont : target[c] # NoTask /\ ~isTerminal(target[c]) => c \in continuations[target[c]]

\* Nobody unsettles a task, takes back a request or moves a callback.
LEMMA StatusStep ==
  ASSUME Inv, NEW t \in Task, NEW s \in {"Succeeded", "Failed", "Cancelled"},
         status' = [status EXCEPT ![t] = s], ~isTerminal(t)
  PROVE  Outcome' = [Outcome EXCEPT ![t] = s] /\ Outcome[t] = "Unsettled"
<1>1. status'[t] = s /\ \A u \in Task : u # t => status'[u] = status[u]
  BY DEF Inv, Types
<1>2. isTerminal(t)' /\ \A u \in Task : u # t => (isTerminal(u)' <=> isTerminal(u))
  BY <1>1 DEF isTerminal
<1> QED BY <1>1, <1>2 DEF Outcome

LEMMA SameOutcome ==
  ASSUME \A t \in Task : status'[t] = status[t] \/ ~(isTerminal(t) \/ isTerminal(t)')
  PROVE  Outcome' = Outcome /\ \A t \in Task : isTerminal(t)' <=> isTerminal(t)
<1>1. \A t \in Task : isTerminal(t)' <=> isTerminal(t)
  BY DEF isTerminal
<1> QED BY <1>1 DEF Outcome

\* A step of the other callbacks and tasks.
LEMMA StillWaits ==
  ASSUME Inv, WaitsUnsettled, target' = target,
         \A t \in Task : isTerminal(t)' \/ (~isTerminal(t) /\ continuations[t] \subseteq continuations'[t])
  PROVE  WaitsUnsettled'
<1> SUFFICES ASSUME NEW c \in Cont, target[c] # NoTask, ~isTerminal(target[c])'
             PROVE  c \in continuations'[target[c]]
  BY DEF WaitsUnsettled
<1>1. target[c] \in Task
  BY DEF Inv, Types, Callback
<1> QED BY <1>1 DEF WaitsUnsettled

LEMMA SettlesOne ==
  ASSUME Inv, WaitsUnsettled, NEW t \in Task, NEW s \in {"Succeeded", "Failed", "Cancelled"}, ~isTerminal(t),
         status' = [status EXCEPT ![t] = s], continuations' = [continuations EXCEPT ![t] = {}],
         requested' = [requested EXCEPT ![t] = @ \/ s = "Cancelled"], UNCHANGED <<ran, target>>
  PROVE  WaitsUnsettled' /\ Promise!Next
<1>1. Outcome' = [Outcome EXCEPT ![t] = s] /\ Outcome[t] = "Unsettled"
  BY StatusStep
<1>2. Promise!Settle(t, s)
  BY <1>1 DEF Promise!Settle, Promise!Settled
<1>3. isTerminal(t)' /\ \A u \in Task : u # t => status'[u] = status[u] /\ continuations'[u] = continuations[u]
  BY DEF Inv, Types, isTerminal
<1>4. WaitsUnsettled'
  <2>1. \A u \in Task : isTerminal(u)' \/ (~isTerminal(u) /\ continuations[u] \subseteq continuations'[u])
    <3> TAKE u \in Task
    <3>1. CASE u = t
      BY <1>3, <3>1 DEF isTerminal
    <3>2. CASE u # t
      BY <1>3, <3>2 DEF isTerminal
    <3> QED BY <3>1, <3>2
  <2> QED BY <2>1, StillWaits
<1> QED BY <1>2, <1>4 DEF Promise!Next

LEMMA PromiseRequest ==
  ASSUME Inv, WaitsUnsettled, NEW th \in Thread, NEW t \in Task, NEW rest, requestCancellation(th, t, rest)
  PROVE  WaitsUnsettled' /\ [Promise!Next]_(Promise!vars)
<1>1. UNCHANGED <<status, continuations, ran, target>>
  BY DEF requestCancellation
<1>2. Outcome' = Outcome /\ \A u \in Task : isTerminal(u)' <=> isTerminal(u)
  BY <1>1, SameOutcome
<1>3. WaitsUnsettled'
  BY <1>1, <1>2, StillWaits
<1>4. CASE isTerminal(t) \/ requested[t]
  BY <1>1, <1>2, <1>3, <1>4 DEF requestCancellation, Promise!vars
<1>5. CASE ~(isTerminal(t) \/ requested[t])
  <2>1. Promise!AskToStop(t)
    BY <1>1, <1>2, <1>5 DEF requestCancellation, Promise!AskToStop, Promise!Settled, Outcome
  <2> QED BY <1>3, <2>1 DEF Promise!Next
<1> QED BY <1>4, <1>5

LEMMA PromiseCall ==
  ASSUME Inv, WaitsUnsettled, NEW th \in Thread, RunContinuation(th)
  PROVE  WaitsUnsettled' /\ Promise!Next
<1> DEFINE c == Head(todo[th]).arg
<1>1. /\ todo[th] # <<>> /\ Head(todo[th]).op = "run" /\ ran' = [ran EXCEPT ![c] = @ + 1]
      /\ UNCHANGED <<status, requested, continuations, target>>
  BY DEF RunContinuation, Idle
<1>2. todo[th] \in Seq(Item)
  BY DEF Inv, Types
<1>3. Head(todo[th]) \in Item /\ Has(todo[th], Head(todo[th]))
  BY <1>1, <1>2, HasTail
<1>4. c \in Callback /\ Head(todo[th]) = Run(c)
  <2>1. \A t : Request(t).op # "run" /\ Propagate(t).op # "run"
    BY DEF Request, Propagate
  <2>2. PICK d \in Callback : Head(todo[th]) = Run(d)
    BY <1>1, <1>3, <2>1 DEF Item
  <2>3. c = d
    BY <2>2 DEF Run
  <2> QED BY <2>2, <2>3
<1> HIDE DEF c
<1>5. Due(Run(c)) /\ Exclusive(c) /\ ran[c] = 0 /\ target[c] \in Task /\ target[c] # NoTask
  <2>1. Due(Run(c)) /\ Exclusive(c)
    BY <1>3, <1>4 DEF Due, Inv, CallbackInv
  <2> QED BY <1>4, <2>1 DEF Exclusive, Inv, Types
<1>6. Outcome' = Outcome /\ \A u \in Task : isTerminal(u)' <=> isTerminal(u)
  BY <1>1, SameOutcome
<1>7. IF c \in Cont THEN Promise!Settled(target[c]) ELSE requested[target[c]]
  <2>1. CASE c \in Cont
    <3>1. isTerminal(target[c])
      BY <1>5, <2>1 DEF WaitsUnsettled, Exclusive
    <3> QED BY <3>1, <1>5, <2>1 DEF Promise!Settled, Outcome, isTerminal
  <2>2. CASE c \notin Cont
    <3>1. OnRequest(c)
      BY <1>4, <2>2 DEF Callback, Inv, CallbackInv
    <3> QED BY <3>1, <1>5, <2>2 DEF OnRequest
  <2> QED BY <2>1, <2>2
<1>8. Promise!Call(c)
  <2>1. ran' = [ran EXCEPT ![c] = 1]
    BY <1>1, <1>5
  <2> QED BY <1>1, <1>5, <1>6, <1>7, <2>1 DEF Promise!Call
<1> QED BY <1>1, <1>4, <1>6, <1>8, StillWaits DEF Promise!Next, Callback

LEMMA PromiseThen ==
  ASSUME Inv, WaitsUnsettled, NEW th \in Thread, NEW t \in Task, NEW c \in Cont, then(th, t, c)
  PROVE  WaitsUnsettled' /\ Promise!Next
<1>1. /\ target[c] = NoTask /\ target' = [target EXCEPT ![c] = t]
      /\ UNCHANGED <<status, requested, ran>>
  BY DEF then
<1>2. Outcome' = Outcome /\ \A u \in Task : isTerminal(u)' <=> isTerminal(u)
  BY <1>1, SameOutcome
<1>3. Promise!Register(c, t)
  BY <1>1, <1>2 DEF Promise!Register
<1>4. WaitsUnsettled'
  <2>1. /\ \A u \in Task : continuations[u] \subseteq continuations'[u]
        /\ ~isTerminal(t) => c \in continuations'[t]
    BY DEF then, Inv, Types
  <2>2. target'[c] = t /\ \A d \in Cont : d # c => target'[d] = target[d]
    BY <1>1 DEF Inv, Types, Callback
  <2>3. \A d \in Cont : target[d] \in Task \cup {NoTask}
    BY DEF Inv, Types, Callback
  <2> QED BY <1>2, <2>1, <2>2, <2>3 DEF WaitsUnsettled
<1> QED BY <1>3, <1>4 DEF Promise!Next

LEMMA PromiseObserver ==
  ASSUME Inv, WaitsUnsettled, NEW th \in Thread, NEW t \in Task, NEW c \in Observer, onCancellation(th, t, c)
  PROVE  WaitsUnsettled' /\ Promise!Next
<1>1. /\ target[c] = NoTask /\ target' = [target EXCEPT ![c] = t]
      /\ UNCHANGED <<status, requested, continuations, ran>>
  BY DEF onCancellation
<1>2. Outcome' = Outcome /\ \A u \in Task : isTerminal(u)' <=> isTerminal(u)
  BY <1>1, SameOutcome
<1>3. Promise!Register(c, t)
  BY <1>1, <1>2 DEF Promise!Register
<1>4. \A d \in Cont : target'[d] = target[d] /\ target[d] \in Task \cup {NoTask}
  BY <1>1, ConstAssumption DEF Inv, Types, Callback
<1> QED BY <1>1, <1>2, <1>3, <1>4 DEF WaitsUnsettled, Promise!Next

LEMMA PromiseStep ==
  ASSUME Inv, WaitsUnsettled, [Next]_vars
  PROVE  WaitsUnsettled' /\ [Promise!Next]_(Promise!vars)
<1>1. ASSUME UNCHANGED <<requested, continuations, ran, target>>,
             \A t \in Task : status'[t] = status[t] \/ ~(isTerminal(t) \/ isTerminal(t)')
      PROVE  WaitsUnsettled' /\ UNCHANGED Promise!vars
  <2>1. Outcome' = Outcome /\ \A u \in Task : isTerminal(u)' <=> isTerminal(u)
    BY <1>1, SameOutcome
  <2> QED BY <1>1, <2>1, StillWaits DEF Promise!vars
<1>2. CASE UNCHANGED vars
  BY <1>1, <1>2 DEF vars
<1>3. ASSUME NEW th \in Thread, CallStep(th) PROVE WaitsUnsettled' /\ [Promise!Next]_(Promise!vars)
  <2>1. CASE RunContinuation(th)
    BY <2>1, PromiseCall
  <2>2. CASE ReceiveRequest(th)
    <3>1. PICK t \in Task : requestCancellation(th, t, Tail(todo[th]))
      BY <2>2, ReceivedRequest
    <3> QED BY <3>1, PromiseRequest
  <2>3. CASE propagateCancellationToChildren(th)
    BY <1>1, <2>3 DEF propagateCancellationToChildren
  <2> QED BY <1>3, <2>1, <2>2, <2>3 DEF CallStep
<1>4. ASSUME NEW th \in Thread, NEW t \in Task, start(th, t) \/ observe(th, t) \/ ignore(th, t) \/ drop(t)
      PROVE  WaitsUnsettled' /\ UNCHANGED Promise!vars
  BY <1>1, <1>4 DEF start, observe, ignore, drop, Inv, Types, isTerminal
<1>5. ASSUME NEW t \in Task, drop(t) PROVE WaitsUnsettled' /\ UNCHANGED Promise!vars
  BY <1>1, <1>5 DEF drop
<1>6. ASSUME NEW th \in Thread, NEW t \in Task, NEW s \in {"Succeeded", "Failed"}, complete(th, t, s)
      PROVE  WaitsUnsettled' /\ Promise!Next
  <2>1. requested' = [requested EXCEPT ![t] = @ \/ s = "Cancelled"]
    BY <1>6 DEF complete, Inv, Types
  <2> QED BY <1>6, <2>1, SettlesOne DEF complete
<1>7. ASSUME NEW th \in Thread, NEW t \in Task, cancel(th, t) PROVE WaitsUnsettled' /\ Promise!Next
  <2>1. requested' = [requested EXCEPT ![t] = @ \/ "Cancelled" = "Cancelled"]
    BY <1>7 DEF cancel, Inv, Types
  <2> QED BY <1>7, <2>1, SettlesOne DEF cancel
<1>8. ASSUME NEW th \in Thread, NEW t \in Task, UserCancel(th, t)
      PROVE  WaitsUnsettled' /\ [Promise!Next]_(Promise!vars)
  BY <1>8, PromiseRequest DEF UserCancel
<1>9. ASSUME NEW th \in Thread, NEW p \in Task, NEW t \in Task, addSpawnedChild(th, p, t)
      PROVE  WaitsUnsettled' /\ UNCHANGED Promise!vars
  BY <1>1, <1>9 DEF addSpawnedChild
<1> QED BY <1>2, <1>3, <1>4, <1>5, <1>6, <1>7, <1>8, <1>9, PromiseThen, PromiseObserver
        DEF Next, succeed, fail

\* Every interleaving of completions, cancellations, registrations, cascades and the calls
\* they leave to run, by any number of threads, is a behaviour of a set of promises.
THEOREM TasksArePromises == Spec => ImplementsPromise
<1>1. Init => WaitsUnsettled /\ Promise!Init
  BY DEF Init, WaitsUnsettled, Promise!Init, Outcome, isTerminal, Callback
<1>2. Inv /\ WaitsUnsettled /\ [Next]_vars => WaitsUnsettled' /\ [Promise!Next]_(Promise!vars)
  BY PromiseStep
<1> QED BY <1>1, <1>2, InvHolds, PTL DEF Spec, ImplementsPromise, Promise!PromiseSpec

(***************************************************************************)
(* The cascade of a cancellation.                                          *)
(***************************************************************************)
\* t needs no request from its parent p any more, or one is under way.
Covered(p, t) == t \notin alive \/ isTerminal(t) \/ requested[t] \/ Due(Request(t)) \/ Due(Propagate(p))

Cascade == \A p \in Task : requested[p] => \A t \in spawnedChildren[p] : Covered(p, t)

\* An idle thread that begins a call gives up nothing.
LEMMA BeginsCall ==
  ASSUME Inv, NEW th \in Thread, Idle(th), NEW q, todo' = [todo EXCEPT ![th] = q], NEW e
  PROVE  (Due(e) => Due(e)') /\ (Has(q, e) => Due(e)')
<1>1. todo'[th] = q /\ \A x \in Thread : x # th => todo'[x] = todo[x]
  BY DEF Inv, Types
<1> QED BY <1>1, IdleHasNothing DEF Due

\* A call that goes on gives up its first item only.
LEMMA GoesOn ==
  ASSUME Inv, NEW th \in Thread, todo[th] # <<>>, NEW q \in Seq(Item),
         todo' = [todo EXCEPT ![th] = q \o Tail(todo[th])], NEW e
  PROVE  (Due(e) => Due(e)' \/ e = Head(todo[th])) /\ (Has(q, e) => Due(e)')
<1>0. todo[th] \in Seq(Item)
  BY DEF Inv, Types
<1>1. /\ todo'[th] = q \o Tail(todo[th])
      /\ \A x \in Thread : x # th => todo'[x] = todo[x]
  BY DEF Inv, Types
<1>2. /\ Tail(todo[th]) \in Seq(Item)
      /\ Has(todo[th], e) <=> e = Head(todo[th]) \/ Has(Tail(todo[th]), e)
  BY <1>0, HasTail
<1>3. Has(q \o Tail(todo[th]), e) <=> Has(q, e) \/ Has(Tail(todo[th]), e)
  BY <1>2, HasConcat
<1> QED BY <1>1, <1>2, <1>3 DEF Due

\* Steps that request nothing new and add no child.
LEMMA SameCascade ==
  ASSUME Inv, Cascade, UNCHANGED <<requested, spawnedChildren>>, alive' \subseteq alive,
         \A t \in Task : isTerminal(t) => isTerminal(t)',
         \A t \in Task : (Due(Request(t)) => Due(Request(t))') /\ (Due(Propagate(t)) => Due(Propagate(t))')
  PROVE  Cascade'
<1> SUFFICES ASSUME NEW p \in Task, requested[p], NEW t \in spawnedChildren[p] PROVE Covered(p, t)'
  BY DEF Cascade
<1>1. t \in Task /\ Covered(p, t)
  BY DEF Cascade, Inv, Types
<1> QED BY <1>1 DEF Covered

\* The task t is now requested, or is settled; its own request is spent, its cascade due.
LEMMA RequestCascade ==
  ASSUME Inv, Cascade, NEW t \in Task, UNCHANGED <<spawnedChildren, alive>>,
         requested' = [requested EXCEPT ![t] = TRUE], Due(Propagate(t))',
         \A u \in Task : isTerminal(u) => isTerminal(u)',
         \A u \in Task : /\ Due(Request(u)) => Due(Request(u))' \/ u = t
                         /\ Due(Propagate(u)) => Due(Propagate(u))'
  PROVE  Cascade'
<1> SUFFICES ASSUME NEW p \in Task, requested'[p], NEW u \in spawnedChildren[p] PROVE Covered(p, u)'
  BY DEF Cascade
<1>0. u \in Task
  BY DEF Inv, Types
<1>1. requested'[t] /\ \A x \in Task : x # t => requested'[x] = requested[x]
  BY DEF Inv, Types
<1>2. CASE p = t
  BY <1>2 DEF Covered
<1>3. CASE p # t
  <2>1. Covered(p, u)
    BY <1>1, <1>3 DEF Cascade
  <2> QED BY <2>1, <1>0, <1>1 DEF Covered
<1> QED BY <1>2, <1>3

LEMMA CascadeRequest ==
  ASSUME Inv, Cascade, NEW th \in Thread, NEW t \in Task, NEW rest \in Seq(Item),
         \A e : Has(todo[th], e) => Has(rest, e) \/ e = Request(t),
         requestCancellation(th, t, rest)
  PROVE  Cascade'
<1>1. UNCHANGED <<status, spawnedChildren, alive>> /\ \A u \in Task : isTerminal(u) => isTerminal(u)'
  BY DEF requestCancellation, isTerminal
<1>2. ASSUME NEW q, todo' = [todo EXCEPT ![th] = q], \A e : Has(rest, e) => Has(q, e)
      PROVE  \A e : (Due(e) => Due(e)' \/ e = Request(t)) /\ (Has(q, e) => Due(e)')
  <2>1. todo'[th] = q /\ \A x \in Thread : x # th => todo'[x] = todo[x]
    BY <1>2 DEF Inv, Types
  <2> QED BY <1>2, <2>1 DEF Due
<1>3. CASE isTerminal(t) \/ requested[t]
  <2>1. todo' = [todo EXCEPT ![th] = rest] /\ requested' = requested
    BY <1>3 DEF requestCancellation, Continue
  <2>2. \A e : Due(e) => Due(e)' \/ e = Request(t)
    BY <1>2, <2>1
  <2> SUFFICES ASSUME NEW p \in Task, requested[p], NEW u \in spawnedChildren[p] PROVE Covered(p, u)'
    BY <1>1, <2>1 DEF Cascade
  <2>3. u \in Task /\ Covered(p, u)
    BY DEF Cascade, Inv, Types
  <2>4. CASE u = t
    BY <1>1, <1>3, <2>1, <2>3, <2>4 DEF Covered
  <2>5. CASE u # t
    BY <1>1, <2>1, <2>2, <2>3, <2>5, ItemsApart DEF Covered
  <2> QED BY <2>4, <2>5
<1>4. CASE ~(isTerminal(t) \/ requested[t])
  <2> DEFINE R == cancellationContinuations[t]
  <2>1. PICK calls \in Calls(R, Run) :
           todo' = [todo EXCEPT ![th] = (calls \o <<Propagate(t)>>) \o rest]
    BY <1>4 DEF requestCancellation, Continue
  <2>2. R \in SUBSET Callback /\ IsFiniteSet(R) /\ requested' = [requested EXCEPT ![t] = TRUE]
    BY <1>4 DEF requestCancellation, Inv, Types, Callback
  <2>3. calls \in Seq(Item)
    BY <2>2, CallsRun
  <2> DEFINE r == <<Propagate(t)>>
             p == calls \o r
             q == p \o rest
  <2>4. r \in Seq(Item) /\ Has(r, Propagate(t))
    BY HasOne DEF Item
  <2>5. p \in Seq(Item) /\ Has(p, Propagate(t))
    <3> HIDE DEF r
    <3> QED BY <2>3, <2>4, HasConcat
  <2>6. Has(q, Propagate(t)) /\ \A e : Has(rest, e) => Has(q, e)
    <3> HIDE DEF p
    <3> QED BY <2>5, HasConcat
  <2>7. \A e : (Due(e) => Due(e)' \/ e = Request(t)) /\ (Has(q, e) => Due(e)')
    BY <1>2, <2>1, <2>6
  <2>8. Due(Propagate(t))'
    BY <2>6, <2>7
  <2>9. \A u \in Task : /\ Due(Request(u)) => Due(Request(u))' \/ u = t
                        /\ Due(Propagate(u)) => Due(Propagate(u))'
    BY <2>7, ItemsApart
  <2> QED BY <1>1, <2>2, <2>8, <2>9, RequestCascade
<1> QED BY <1>3, <1>4

LEMMA CascadeCancel ==
  ASSUME Inv, Cascade, NEW th \in Thread, NEW t \in Task, cancel(th, t)
  PROVE  Cascade'
<1>1. PICK c1 \in Calls(continuations[t], Run), c2 \in Calls(cancellationContinuations[t], Run) :
         todo' = [todo EXCEPT ![th] = (c1 \o c2 \o <<Propagate(t)>>) \o <<>>]
  BY DEF cancel, Continue
<1>2. c1 \in Seq(Item) /\ c2 \in Seq(Item)
  BY CallsRun DEF Inv, Types, Callback
<1> DEFINE p == c1 \o c2
           r == <<Propagate(t)>>
           q == p \o r
<1>3. p \in Seq(Item) /\ r \in Seq(Item) /\ Has(r, Propagate(t))
  BY <1>2, HasOne DEF Item
<1>4. q \in Seq(Item) /\ Has(q, Propagate(t))
  <2> HIDE DEF p, r
  <2> QED BY <1>3, HasConcat
<1>5. todo' = [todo EXCEPT ![th] = q]
  BY <1>1, <1>4
<1>6. \A e : (Due(e) => Due(e)') /\ (Has(q, e) => Due(e)')
  <2> HIDE DEF q
  <2> QED BY <1>5, BeginsCall DEF cancel
<1>7. Due(Propagate(t))'
  BY <1>4, <1>6
<1>8. \A u \in Task : isTerminal(u) => isTerminal(u)'
  BY DEF cancel, isTerminal, Inv, Types
<1> QED BY <1>6, <1>7, <1>8, RequestCascade DEF cancel

LEMMA CascadePropagate ==
  ASSUME Inv, Cascade, NEW th \in Thread, propagateCancellationToChildren(th)
  PROVE  Cascade'
<1>1. PICK t \in Task, calls \in Seq(Item) :
         LET live == {c \in spawnedChildren[t] : c \in alive /\ ~isTerminal(c)}
         IN  /\ todo[th] # <<>> /\ Head(todo[th]) = Propagate(t)
             /\ todo' = [todo EXCEPT ![th] = calls \o Tail(todo[th])]
             /\ \A e : (Has(calls, e) <=> \E c \in live : e = Request(c)) /\ OnceIn(calls, e)
  BY PropagateItems
<1>2. \A e : (Due(e) => Due(e)' \/ e = Propagate(t)) /\ (Has(calls, e) => Due(e)')
  BY <1>1, GoesOn
<1>3. UNCHANGED <<status, requested, spawnedChildren, alive>>
  BY DEF propagateCancellationToChildren
<1> SUFFICES ASSUME NEW p \in Task, requested[p], NEW u \in spawnedChildren[p] PROVE Covered(p, u)'
  BY <1>3 DEF Cascade
<1>4. Covered(p, u)
  BY DEF Cascade
<1>5. CASE p = t
  BY <1>1, <1>2, <1>3, <1>5 DEF Covered, isTerminal
<1>6. CASE p # t
  <2>1. Propagate(p) # Propagate(t) /\ Request(u) # Propagate(t)
    BY <1>6, ItemsApart
  <2> QED BY <1>2, <1>3, <1>4, <2>1 DEF Covered, isTerminal
<1> QED BY <1>5, <1>6

LEMMA CascadeAdd ==
  ASSUME Inv, Cascade, NEW th \in Thread, NEW p \in Task, NEW t \in Task, addSpawnedChild(th, p, t)
  PROVE  Cascade'
<1>1. /\ Idle(th) /\ UNCHANGED <<status, requested, alive>>
      /\ spawnedChildren' = [spawnedChildren EXCEPT ![p] = @ \cup {t}]
  BY DEF addSpawnedChild
<1>2. (\A e : Due(e) => Due(e)') /\ (requested[p] => Due(Request(t))')
  <2>1. CASE requested[p]
    <3>1. todo' = [todo EXCEPT ![th] = <<Request(t)>>]
      BY <2>1 DEF addSpawnedChild, Continue
    <3> QED BY <1>1, <3>1, BeginsCall, HasOne
  <2>2. CASE ~requested[p]
    BY <2>2 DEF addSpawnedChild, Due
  <2> QED BY <2>1, <2>2
<1> SUFFICES ASSUME NEW x \in Task, requested[x], NEW u \in spawnedChildren'[x] PROVE Covered(x, u)'
  BY <1>1 DEF Cascade
<1>3. CASE u \in spawnedChildren[x]
  BY <1>1, <1>2, <1>3 DEF Cascade, Covered, isTerminal
<1>4. CASE u \notin spawnedChildren[x]
  <2>1. x = p /\ u = t
    BY <1>1, <1>4 DEF Inv, Types
  <2> QED BY <1>2, <2>1 DEF Covered
<1> QED BY <1>3, <1>4

LEMMA CascadeStep == Inv /\ Cascade /\ [Next]_vars => Cascade'
<1> SUFFICES ASSUME Inv, Cascade, [Next]_vars PROVE Cascade'
  OBVIOUS
<1>1. ASSUME UNCHANGED <<requested, spawnedChildren, todo>>, alive' \subseteq alive,
             \A u \in Task : isTerminal(u) => isTerminal(u)'
      PROVE  Cascade'
  BY <1>1, SameCascade DEF Due
<1>2. ASSUME NEW th \in Thread, Idle(th), NEW q, todo' = [todo EXCEPT ![th] = q],
             UNCHANGED <<requested, spawnedChildren, alive>>,
             \A u \in Task : isTerminal(u) => isTerminal(u)'
      PROVE  Cascade'
  <2>1. \A e : Due(e) => Due(e)'
    BY <1>2, BeginsCall
  <2> QED BY <1>2, <2>1, SameCascade
<1>3. CASE UNCHANGED vars
  BY <1>1, <1>3 DEF vars, isTerminal
<1>4. ASSUME NEW th \in Thread, RunContinuation(th) PROVE Cascade'
  <2>1. /\ todo[th] # <<>> /\ Head(todo[th]).op = "run" /\ <<>> \in Seq(Item)
        /\ todo' = [todo EXCEPT ![th] = <<>> \o Tail(todo[th])]
        /\ UNCHANGED <<status, requested, spawnedChildren, alive>>
    BY <1>4 DEF RunContinuation, Continue, Idle
  <2>2. \A t : Head(todo[th]) # Request(t) /\ Head(todo[th]) # Propagate(t)
    BY <2>1 DEF Request, Propagate
  <2>3. \A t \in Task : (Due(Request(t)) => Due(Request(t))') /\ (Due(Propagate(t)) => Due(Propagate(t))')
    BY <2>1, <2>2, GoesOn
  <2>4. \A u \in Task : isTerminal(u) => isTerminal(u)'
    BY <2>1 DEF isTerminal
  <2> QED BY <2>1, <2>3, <2>4, SameCascade
<1>5. ASSUME NEW th \in Thread, ReceiveRequest(th) PROVE Cascade'
  <2>1. todo[th] # <<>> /\ Head(todo[th]).op = "request" /\ todo[th] \in Seq(Item)
    BY <1>5 DEF ReceiveRequest, Idle, Inv, Types
  <2>2. PICK t \in Task : Head(todo[th]) = Request(t) \/ Head(todo[th]) = Propagate(t)
    BY <2>1, TailKeepsRuns
  <2>3. Head(todo[th]) = Request(t) /\ Head(todo[th]).arg = t
    BY <2>1, <2>2 DEF Request, Propagate
  <2>4. requestCancellation(th, t, Tail(todo[th]))
    BY <1>5, <2>3 DEF ReceiveRequest
  <2>5. Tail(todo[th]) \in Seq(Item) /\ \A e : Has(todo[th], e) => Has(Tail(todo[th]), e) \/ e = Request(t)
    BY <2>1, <2>3, HasTail
  <2> QED BY <2>4, <2>5, CascadeRequest
<1>6. ASSUME NEW th \in Thread, NEW t \in Task, UserCancel(th, t) PROVE Cascade'
  <2>1. Idle(th) /\ requestCancellation(th, t, <<>>) /\ <<>> \in Seq(Item)
    BY <1>6 DEF UserCancel
  <2>2. \A e : ~Has(todo[th], e)
    BY <2>1, IdleHasNothing
  <2> QED BY <2>1, <2>2, CascadeRequest
<1>7. ASSUME NEW th \in Thread, NEW t \in Task, NEW s \in {"Succeeded", "Failed"}, complete(th, t, s)
      PROVE  Cascade'
  <2>1. \E q : todo' = [todo EXCEPT ![th] = q]
    BY <1>7 DEF complete, Continue
  <2>2. \A u \in Task : isTerminal(u) => isTerminal(u)'
    BY <1>7 DEF complete, isTerminal, Inv, Types
  <2> QED BY <1>2, <1>7, <2>1, <2>2 DEF complete
<1>8. ASSUME NEW th \in Thread, NEW t \in Task, start(th, t) \/ observe(th, t) \/ ignore(th, t)
      PROVE  Cascade'
  <2>1. \A u \in Task : isTerminal(u) => isTerminal(u)'
    BY <1>8 DEF start, observe, ignore, isTerminal, Inv, Types
  <2> QED BY <1>1, <1>8, <2>1 DEF start, observe, ignore
<1>9. ASSUME NEW th \in Thread, NEW t \in Task, NEW c, then(th, t, c) \/ onCancellation(th, t, c)
      PROVE  Cascade'
  <2>1. \A u \in Task : isTerminal(u) => isTerminal(u)'
    BY <1>9 DEF then, onCancellation, isTerminal
  <2>2. Idle(th) /\ UNCHANGED <<requested, spawnedChildren, alive>>
    BY <1>9 DEF then, onCancellation
  <2>3. todo' = todo \/ \E q : todo' = [todo EXCEPT ![th] = q]
    BY <1>9 DEF then, onCancellation, Continue
  <2> QED BY <1>1, <1>2, <2>1, <2>2, <2>3
<1>10. ASSUME NEW t \in Task, drop(t) PROVE Cascade'
  BY <1>1, <1>10 DEF drop, isTerminal
<1>11. ASSUME NEW th \in Thread, CallStep(th) PROVE Cascade'
  BY <1>4, <1>5, <1>11, CascadePropagate DEF CallStep
<1> QED BY <1>3, <1>6, <1>7, <1>8, <1>9, <1>10, <1>11, CascadeCancel, CascadeAdd DEF Next, succeed, fail

\* No spawn escapes its parent's cancellation: a live child of a cancelled parent has the
\* request, or a call is bringing it, even if it was added while the cascade was under way.
THEOREM CascadeReachesAll == Spec => []CascadeComplete
<1>1. Init => Cascade
  BY DEF Init, Cascade
<1>2. ASSUME Inv, Cascade PROVE CascadeComplete
  <2>1. \A th \in Thread : DOMAIN todo[th] = 1 .. Len(todo[th])
    BY <1>2 DEF Inv, Types
  <2>2. ASSUME NEW p \in Task, requested[p], NEW t \in spawnedChildren[p], Covered(p, t)
        PROVE  \/ t \notin alive \/ isTerminal(t) \/ requested[t]
               \/ \E th \in Thread : \E i \in DOMAIN todo[th] :
                      todo[th][i] \in {Request(t), Propagate(p)}
    BY <2>1, <2>2 DEF Covered, Due, Has
  <2> QED BY <1>2, <2>2 DEF Cascade, CascadeComplete
<1>3. Inv /\ Cascade => CascadeComplete
  BY <1>2
<1> QED BY <1>1, <1>3, CascadeStep, InvHolds, PTL DEF Spec
=============================================================================
