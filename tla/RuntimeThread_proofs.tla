----------------------- MODULE RuntimeThread_proofs -----------------------
(***************************************************************************)
(* Theorems about RuntimeThread, for every finite set of Thread values and *)
(* any set of VMs.                                                         *)
(***************************************************************************)
EXTENDS RuntimeThread, FiniteSetTheorems, TLAPS

(***************************************************************************)
(* The two operations on a VM's queue, element by element.                 *)
(***************************************************************************)
LEMMA Pushed ==
  ASSUME NEW S, NEW s \in Seq(S), NEW e \in S
  PROVE  /\ <<e>> \o s \in Seq(S) /\ Len(<<e>> \o s) = Len(s) + 1
         /\ (<<e>> \o s)[1] = e
         /\ \A i \in 1 .. Len(s) + 1 : i # 1 => i - 1 \in 1 .. Len(s) /\ (<<e>> \o s)[i] = s[i - 1]
  OBVIOUS

LEMMA Popped ==
  ASSUME NEW S, NEW s \in Seq(S), s # <<>>
  PROVE  /\ Head(s) = s[1] /\ Head(s) \in S /\ 1 \in 1 .. Len(s)
         /\ Tail(s) \in Seq(S) /\ Len(Tail(s)) = Len(s) - 1
         /\ \A i \in 1 .. Len(s) - 1 : i + 1 \in 1 .. Len(s) /\ Tail(s)[i] = s[i + 1]
  OBVIOUS

(***************************************************************************)
(* The inductive invariant.                                                *)
(***************************************************************************)
Types ==
    /\ os \in [Handle -> {"none", "running", "done", "exited"}]
    /\ where \in [Handle -> {None, "state", "pending", "joined", "detached"} \cup Vm]
    /\ pending \in [Vm -> Seq(Handle)]
    /\ pc \in [Vm -> {"run", "join", "drain"}] /\ target \in [Vm -> Handle \cup {None}]

\* What a VM is at agrees with where the std::thread object of its target is.
CallsHold == \A v \in Vm :
    /\ pc[v] = "run" <=> target[v] = None
    /\ pc[v] = "join" => where[target[v]] = v
    /\ pc[v] = "drain" => where[target[v]] = "pending"

\* A handle is in at most one place of one queue, and then in no VM's hands.
QueuesHold == \A v \in Vm, w \in Vm : \A i \in 1 .. Len(pending[v]) :
    /\ where[pending[v][i]] = "pending"
    /\ target[w] # pending[v][i]
    /\ \A j \in 1 .. Len(pending[w]) : pending[v][i] = pending[w][j] => v = w /\ i = j

\* No two VMs work on the same handle.
CallsApart == \A v \in Vm, w \in Vm : target[v] = target[w] /\ v # w => target[v] = None

\* h is in a VM's hands or in a queue.
Somewhere(h) ==
    \/ \E v \in Vm : target[v] = h
    \/ \E v \in Vm : \E i \in 1 .. Len(pending[v]) : pending[v][i] = h

\* Where a handle is says who refers to it, and who must.
PlaceHolds(h) ==
    /\ where[h] = None <=> os[h] = "none"
    /\ where[h] = None => h \notin owned
    /\ where[h] = "state" => h \in owned
    /\ where[h] \in Vm => target[where[h]] = h
    /\ where[h] = "pending" => h \notin owned /\ Somewhere(h)
    /\ where[h] = "joined" => os[h] = "exited"
    /\ where[h] = "detached" => h \notin owned

PlacesHold == \A h \in Handle : PlaceHolds(h)

Inv == Types /\ CallsHold /\ QueuesHold /\ CallsApart /\ PlacesHold /\ JoinRethrows /\ AliveIsExact

LEMMA InvInit == Init => Inv
<1> SUFFICES ASSUME Init PROVE Inv
  OBVIOUS
<1>1. Types /\ CallsHold /\ QueuesHold /\ CallsApart /\ PlacesHold /\ JoinRethrows
  BY ConstAssumption DEF Init, Types, CallsHold, QueuesHold, CallsApart, PlacesHold, PlaceHolds, Somewhere, JoinRethrows, None
<1>2. {h \in Handle : os[h] \in {"running", "done"}} = {}
  BY DEF Init
<1> QED BY <1>1, <1>2, FS_EmptySet DEF Inv, AliveIsExact, Init

\* The workers gAliveWorkerThreads counts.
Alive == {h \in Handle : os[h] \in {"running", "done"}}

LEMMA AliveFinite == IsFiniteSet(Alive) /\ Cardinality(Alive) \in Nat
  BY ConstAssumption, FS_Subset, FS_CardinalityType DEF Alive

\* The parts of the invariant that only speak of one handle, or of none.
LEMMA StartStep ==
  ASSUME Inv, NEW v \in Vm, NEW h \in Handle, startWith(v, h)
  PROVE  Inv'
<1> USE DEF Inv, startWith, AtInstruction, Idle, None
<1>1. Types' /\ CallsHold' /\ QueuesHold' /\ CallsApart'
  BY ConstAssumption DEF Types, CallsHold, QueuesHold, CallsApart, PlacesHold, PlaceHolds, Somewhere
<1>2. PlacesHold'
  <2> SUFFICES ASSUME NEW g \in Handle PROVE PlaceHolds(g)'
    BY DEF PlacesHold
  <2> QED BY ConstAssumption DEF Types, PlacesHold, PlaceHolds, Somewhere
<1>6. JoinRethrows'
  BY DEF Types, JoinRethrows
<1>3. Alive' = Alive \cup {h} /\ h \notin Alive
  BY DEF Types, Alive
<1>4. Cardinality(Alive') = Cardinality(Alive) + 1
  BY <1>3, AliveFinite, FS_AddElement
<1>5. AliveIsExact'
  BY <1>4 DEF AliveIsExact, Alive
<1> QED BY <1>1, <1>2, <1>5, <1>6

LEMMA EndStep ==
  ASSUME Inv, NEW h \in Handle, NEW fails \in BOOLEAN, WorkerEnds(h, fails)
  PROVE  Inv'
<1> USE DEF Inv, WorkerEnds, None
<1>1. Types' /\ CallsHold' /\ QueuesHold' /\ CallsApart'
  BY DEF Types, CallsHold, QueuesHold, CallsApart
<1>2. PlacesHold'
  BY DEF Types, PlacesHold, PlaceHolds, Somewhere
<1>3. JoinRethrows'
  BY DEF Types, PlacesHold, PlaceHolds, Somewhere, JoinRethrows
<1>4. AliveIsExact'
  <2>1. Alive' = Alive
    BY DEF Types, Alive
  <2> QED BY <2>1 DEF AliveIsExact, Alive
<1> QED BY <1>1, <1>2, <1>3, <1>4

LEMMA ExitStep ==
  ASSUME Inv, NEW h \in Handle, WorkerExits(h)
  PROVE  Inv'
<1> USE DEF Inv, WorkerExits, None
<1>1. Types' /\ CallsHold' /\ QueuesHold' /\ CallsApart'
  BY DEF Types, CallsHold, QueuesHold, CallsApart
<1>2. PlacesHold'
  <2> SUFFICES ASSUME NEW g \in Handle PROVE PlaceHolds(g)'
    BY DEF PlacesHold
  <2> QED BY DEF Types, PlacesHold, PlaceHolds, Somewhere
<1>6. JoinRethrows'
  BY DEF Types, JoinRethrows
<1>3. Alive' = Alive \ {h} /\ h \in Alive
  BY DEF Types, Alive
<1>4. Cardinality(Alive') = Cardinality(Alive) - 1
  BY <1>3, AliveFinite, FS_RemoveElement
<1>5. AliveIsExact'
  BY <1>4 DEF AliveIsExact, Alive
<1> QED BY <1>1, <1>2, <1>5, <1>6

\* The object of a handle that is in its state is in no VM's hands.
LEMMA UntakenState ==
  ASSUME Inv, NEW h \in Handle, where[h] = "state", NEW w \in Vm
  PROVE  target[w] # h
<1>1. w # "state" /\ h # None
  BY ConstAssumption DEF None
<1>2. ASSUME target[w] = h PROVE pc[w] \in {"join", "drain"}
  BY <1>1, <1>2 DEF Inv, Types, CallsHold
<1> QED BY <1>1, <1>2 DEF Inv, CallsHold

\* The other actions leave the workers alone.
LEMMA SameAlive == AliveIsExact /\ UNCHANGED <<os, aliveWorkers>> => AliveIsExact'
  BY DEF AliveIsExact

LEMMA JoinStep ==
  ASSUME Inv, NEW v \in Vm, NEW h \in Handle, join(v, h)
  PROVE  Inv'
<1> USE DEF Inv, join, AtInstruction, Idle, None
<1>1. Types'
  BY DEF Types
<1>2. CallsHold'
  BY ConstAssumption DEF Types, CallsHold, PlacesHold, PlaceHolds, Somewhere
<1>6. CallsApart'
  <2>1. CASE where[h] = "state"
    <3>1. target' = [target EXCEPT ![v] = h] /\ h # None
      BY <2>1, ConstAssumption
    <3>2. \A w \in Vm : target[w] # h
      BY <2>1, UntakenState
    <3> QED BY <3>1, <3>2 DEF Types, CallsApart
  <2>2. CASE where[h] # "state"
    BY <2>2 DEF CallsApart
  <2> QED BY <2>1, <2>2
<1>3. QueuesHold'
  BY DEF Types, QueuesHold
<1>4. PlacesHold'
  BY ConstAssumption DEF Types, PlacesHold, PlaceHolds, Somewhere, CallsHold
<1>5. JoinRethrows'
  BY ConstAssumption DEF Types, JoinRethrows
<1> QED BY <1>1, <1>2, <1>3, <1>4, <1>5, <1>6, SameAlive

LEMMA JoinReturnsStep ==
  ASSUME Inv, NEW v \in Vm, joinReturns(v)
  PROVE  Inv'
<1> USE DEF Inv, joinReturns, None
<1>0. target[v] \in Handle /\ where[target[v]] = v
  BY DEF Types, CallsHold
<1>1. Types'
  BY <1>0 DEF Types
<1>2. CallsHold' /\ CallsApart'
  BY <1>0, ConstAssumption DEF Types, CallsHold, CallsApart
<1>3. QueuesHold'
  BY <1>0, ConstAssumption DEF Types, QueuesHold
<1>4. PlacesHold'
  BY <1>0, ConstAssumption DEF Types, PlacesHold, PlaceHolds, Somewhere
<1>5. JoinRethrows'
  BY <1>0 DEF Types, JoinRethrows
<1> QED BY <1>1, <1>2, <1>3, <1>4, <1>5, SameAlive

LEMMA DropStep ==
  ASSUME Inv, NEW v \in Vm, NEW h \in Handle, drop(v, h)
  PROVE  Inv'
<1> USE DEF Inv, Idle, None
<1>0. \A x \in Vm : target[x] # h
  BY DEF drop
<1>1. CASE where[h] # "state"
  <2>1. where' = where /\ pending' = pending /\ owned' = owned \ {h}
    BY <1>1 DEF drop
  <2>2. PlacesHold'
    <3> SUFFICES ASSUME NEW g \in Handle PROVE PlaceHolds(g)'
      BY DEF PlacesHold
    <3> QED BY <1>1, <2>1 DEF drop, PlacesHold, PlaceHolds, Somewhere
  <2>3. Types' /\ CallsHold' /\ QueuesHold' /\ CallsApart' /\ JoinRethrows'
    BY <2>1 DEF drop, Types, CallsHold, QueuesHold, CallsApart, JoinRethrows
  <2> QED BY <2>2, <2>3, SameAlive DEF drop
<1>2. CASE where[h] = "state"
  <2> DEFINE s == <<h>> \o pending[v]
  <2>1. where' = [where EXCEPT ![h] = "pending"] /\ pending' = [pending EXCEPT ![v] = s]
    BY <1>2 DEF drop
  <2>2. /\ s \in Seq(Handle) /\ Len(s) = Len(pending[v]) + 1 /\ s[1] = h
        /\ \A i \in 1 .. Len(s) : i # 1 => i - 1 \in 1 .. Len(pending[v]) /\ s[i] = pending[v][i - 1]
    BY Pushed DEF Types
  <2>3. \A x \in Vm : \A i \in 1 .. Len(pending[x]) : pending[x][i] # h
    BY <1>2 DEF QueuesHold
  <2> HIDE DEF s
  <2>4. Types'
    BY <2>1, <2>2 DEF drop, Types
  <2>5. CallsHold' /\ CallsApart'
    BY <1>0, <2>1, ConstAssumption DEF drop, Types, CallsHold, CallsApart
  <2>6. ASSUME NEW x \in Vm, NEW i \in 1 .. Len(pending'[x])
        PROVE  \/ x = v /\ i = 1 /\ pending'[x][i] = h
               \/ /\ x = v /\ i # 1 /\ i - 1 \in 1 .. Len(pending[x])
                  /\ pending'[x][i] = pending[x][i - 1] /\ pending'[x][i] # h
               \/ /\ x # v /\ i \in 1 .. Len(pending[x])
                  /\ pending'[x][i] = pending[x][i] /\ pending'[x][i] # h
    BY <2>1, <2>2, <2>3 DEF Types
  <2>7. QueuesHold'
    <3> SUFFICES ASSUME NEW x \in Vm, NEW w \in Vm, NEW i \in 1 .. Len(pending'[x])
                 PROVE  /\ where'[pending'[x][i]] = "pending"
                        /\ target'[w] # pending'[x][i]
                        /\ \A j \in 1 .. Len(pending'[w]) :
                              pending'[x][i] = pending'[w][j] => x = w /\ i = j
      BY DEF QueuesHold
    <3>0. target' = target
      BY DEF drop
    <3>1. where'[pending'[x][i]] = "pending" /\ target'[w] # pending'[x][i]
      <4>1. CASE pending'[x][i] = h
        BY <4>1, <3>0, <1>0, <2>1 DEF Types
      <4>2. CASE pending'[x][i] # h
        <5>1. PICK k \in 1 .. Len(pending[x]) : pending'[x][i] = pending[x][k]
          BY <4>2, <2>6
        <5>2. where[pending[x][k]] = "pending" /\ target[w] # pending[x][k] /\ pending[x][k] \in Handle
          BY DEF QueuesHold, Types
        <5> QED BY <4>2, <5>1, <5>2, <3>0, <2>1 DEF Types
      <4> QED BY <4>1, <4>2
    <3>2. ASSUME NEW j \in 1 .. Len(pending'[w]), pending'[x][i] = pending'[w][j]
          PROVE  x = w /\ i = j
      <4>1. CASE pending'[x][i] = h
        BY <4>1, <3>2, <2>6
      <4>2. CASE pending'[x][i] # h
        <5>1. PICK k \in 1 .. Len(pending[x]) : /\ pending'[x][i] = pending[x][k]
                                                /\ k = IF x = v THEN i - 1 ELSE i
          BY <4>2, <2>6
        <5>2. PICK l \in 1 .. Len(pending[w]) : /\ pending'[w][j] = pending[w][l]
                                                /\ l = IF w = v THEN j - 1 ELSE j
          BY <4>2, <3>2, <2>6
        <5>3. x = w /\ k = l
          <6>1. pending[x][k] = pending[w][l] => x = w /\ k = l
            BY DEF QueuesHold
          <6> QED BY <3>2, <5>1, <5>2, <6>1
        <5> QED BY <5>1, <5>2, <5>3
      <4> QED BY <4>1, <4>2
    <3> QED BY <3>1, <3>2
  <2>8. PlacesHold'
    <3> SUFFICES ASSUME NEW g \in Handle PROVE PlaceHolds(g)'
      BY DEF PlacesHold
    <3>1. CASE g = h
      <4>1. 1 \in 1 .. Len(pending'[v]) /\ pending'[v][1] = h
        BY <2>1, <2>2 DEF Types
      <4>2. where'[h] = "pending" /\ h \notin owned' /\ os' = os /\ os[h] # "none"
        BY <1>2, <2>1 DEF drop, Types, PlacesHold, PlaceHolds, Somewhere
      <4> QED BY <3>1, <4>1, <4>2, ConstAssumption DEF PlaceHolds, Somewhere
    <3>2. CASE g # h
      <4>1. where'[g] = where[g] /\ os' = os /\ target' = target /\ (g \in owned' <=> g \in owned)
        BY <3>2, <2>1 DEF drop, Types
      <4>2. ASSUME NEW x \in Vm, NEW i \in 1 .. Len(pending[x]), pending[x][i] = g
            PROVE  \E j \in 1 .. Len(pending'[x]) : pending'[x][j] = g
        <5>1. CASE x = v
          <6>1. i + 1 \in 1 .. Len(pending'[x]) /\ pending'[x][i + 1] = g
            BY <5>1, <4>2, <2>1, <2>2 DEF Types
          <6> QED BY <6>1
        <5>2. CASE x # v
          BY <5>2, <4>2, <2>1 DEF Types
        <5> QED BY <5>1, <5>2
      <4> QED BY <4>1, <4>2 DEF PlacesHold, PlaceHolds, Somewhere
    <3> QED BY <3>1, <3>2
  <2>9. JoinRethrows'
    BY <2>1 DEF drop, Types, JoinRethrows
  <2> QED BY <2>4, <2>5, <2>7, <2>8, <2>9, SameAlive DEF drop
<1> QED BY <1>1, <1>2

LEMMA DropSelfStep ==
  ASSUME Inv, NEW h \in Handle, dropSelf(h)
  PROVE  Inv'
<1> USE DEF Inv, None
<1>0. where[h] = "state"
  BY ConstAssumption DEF dropSelf, Types, PlacesHold, PlaceHolds, Somewhere
<1>1. where' = [where EXCEPT ![h] = "detached"]
  BY <1>0 DEF dropSelf
<1>2. Types' /\ CallsHold' /\ QueuesHold' /\ CallsApart'
  BY <1>0, <1>1 DEF dropSelf, Types, CallsHold, QueuesHold, CallsApart
<1>3. PlacesHold'
  <2> SUFFICES ASSUME NEW g \in Handle PROVE PlaceHolds(g)'
    BY DEF PlacesHold
  <2> QED BY <1>1, ConstAssumption DEF dropSelf, Types, PlacesHold, PlaceHolds, Somewhere
<1>4. JoinRethrows'
  BY <1>1 DEF dropSelf, Types, JoinRethrows
<1> QED BY <1>2, <1>3, <1>4, SameAlive DEF dropSelf

\* Taking the first node of a queue, while nothing changes for the handles still queued
\* and only the VM's former target may have found its place.
LEMMA TakeNode ==
  ASSUME Inv, NEW v \in Vm, pending[v] # <<>>,
         target' = [target EXCEPT ![v] = Head(pending[v])],
         pending' = [pending EXCEPT ![v] = Tail(@)],
         \A h \in Handle : h # target[v] => where'[h] = where[h]
  PROVE  /\ Head(pending[v]) \in Handle /\ where'[Head(pending[v])] = "pending"
         /\ pending' \in [Vm -> Seq(Handle)] /\ target' \in [Vm -> Handle \cup {None}]
         /\ QueuesHold' /\ CallsApart'
         /\ \A h \in Handle : h # target[v] /\ Somewhere(h) => Somewhere(h)'
<1> USE DEF Inv
<1> DEFINE s == pending[v]
           t == Tail(s)
<1>1. /\ Head(s) = s[1] /\ Head(s) \in Handle /\ 1 \in 1 .. Len(s)
      /\ t \in Seq(Handle) /\ Len(t) = Len(s) - 1
      /\ \A i \in 1 .. Len(t) : i + 1 \in 1 .. Len(s) /\ t[i] = s[i + 1]
  BY Popped DEF Types
<1>2. pending' = [pending EXCEPT ![v] = t] /\ target' = [target EXCEPT ![v] = s[1]]
  BY <1>1
<1> HIDE DEF t
\* Every element of a queue was one of the same queue, one place further in v's.
<1>3. ASSUME NEW x \in Vm, NEW i \in 1 .. Len(pending'[x])
      PROVE  \E k \in 1 .. Len(pending[x]) :
                pending'[x][i] = pending[x][k] /\ k = IF x = v THEN i + 1 ELSE i
  BY <1>1, <1>2 DEF Types
<1>4. \A x \in Vm : \A k \in 1 .. Len(pending[x]) : pending[x][k] # target[v] /\ pending[x][k] \in Handle
  BY DEF QueuesHold, Types
<1>5. pending' \in [Vm -> Seq(Handle)] /\ target' \in [Vm -> Handle \cup {None}]
  BY <1>1, <1>2 DEF Types
<1>6. where'[Head(s)] = "pending"
  BY <1>1, <1>4 DEF QueuesHold
<1>7. QueuesHold'
  <2> SUFFICES ASSUME NEW x \in Vm, NEW w \in Vm, NEW i \in 1 .. Len(pending'[x])
               PROVE  /\ where'[pending'[x][i]] = "pending"
                      /\ target'[w] # pending'[x][i]
                      /\ \A j \in 1 .. Len(pending'[w]) :
                            pending'[x][i] = pending'[w][j] => x = w /\ i = j
    BY DEF QueuesHold
  <2>1. PICK k \in 1 .. Len(pending[x]) :
            pending'[x][i] = pending[x][k] /\ k = IF x = v THEN i + 1 ELSE i
    BY <1>3
  <2>2. where'[pending'[x][i]] = "pending"
    BY <1>4, <2>1 DEF QueuesHold
  <2>3. target'[w] # pending'[x][i]
    <3>1. CASE w = v
      <4>1. pending[x][k] = pending[v][1] => x = v /\ k = 1
        BY <1>1 DEF QueuesHold
      <4> QED BY <3>1, <4>1, <2>1, <1>2, <1>5 DEF Types
    <3>2. CASE w # v
      BY <3>2, <2>1, <1>2 DEF Types, QueuesHold
    <3> QED BY <3>1, <3>2
  <2>4. ASSUME NEW j \in 1 .. Len(pending'[w]), pending'[x][i] = pending'[w][j]
        PROVE  x = w /\ i = j
    <3>1. PICK l \in 1 .. Len(pending[w]) :
              pending'[w][j] = pending[w][l] /\ l = IF w = v THEN j + 1 ELSE j
      BY <1>3
    <3>2. pending[x][k] = pending[w][l] => x = w /\ k = l
      BY DEF QueuesHold
    <3> QED BY <2>1, <2>4, <3>1, <3>2, <1>5
  <2> QED BY <2>2, <2>3, <2>4
<1>8. CallsApart'
  <2>1. \A w \in Vm : target[w] # s[1]
    BY <1>1 DEF QueuesHold
  <2> QED BY <1>2, <2>1 DEF Types, CallsApart
<1>9. ASSUME NEW h \in Handle, h # target[v], Somewhere(h)
      PROVE  Somewhere(h)'
  <2>1. ASSUME NEW w \in Vm, target[w] = h PROVE target'[w] = h
    BY <1>2, <1>9, <2>1 DEF Types
  <2>2. ASSUME NEW w \in Vm, NEW i \in 1 .. Len(pending[w]), pending[w][i] = h
        PROVE  \/ target'[v] = h
               \/ \E j \in 1 .. Len(pending'[w]) : pending'[w][j] = h
    <3>1. CASE w # v
      BY <3>1, <2>2, <1>2 DEF Types
    <3>2. CASE w = v /\ i = 1
      BY <3>2, <2>2, <1>2 DEF Types
    <3>3. CASE w = v /\ i # 1
      <4>1. i - 1 \in 1 .. Len(pending'[w]) /\ pending'[w][i - 1] = h
        BY <3>3, <2>2, <1>1, <1>2 DEF Types
      <4> QED BY <4>1
    <3> QED BY <3>1, <3>2, <3>3
  <2> QED BY <1>9, <2>1, <2>2 DEF Somewhere
<1> QED BY <1>1, <1>5, <1>6, <1>7, <1>8, <1>9

LEMMA DrainStep ==
  ASSUME Inv, NEW v \in Vm, drain(v)
  PROVE  Inv'
<1> USE DEF Inv, None
<1>1. target[v] = None /\ pending[v] # <<>>
  BY DEF drain, Idle, CallsHold
<1>2. /\ target' = [target EXCEPT ![v] = Head(pending[v])]
      /\ pending' = [pending EXCEPT ![v] = Tail(@)]
      /\ where' = where /\ owned' = owned /\ os' = os
  BY DEF drain
<1>3. /\ Head(pending[v]) \in Handle /\ where'[Head(pending[v])] = "pending"
      /\ pending' \in [Vm -> Seq(Handle)] /\ target' \in [Vm -> Handle \cup {None}]
      /\ QueuesHold' /\ CallsApart'
      /\ \A h \in Handle : h # target[v] /\ Somewhere(h) => Somewhere(h)'
  BY <1>1, <1>2, TakeNode
<1>4. Types'
  BY <1>3 DEF drain, Types
<1>5. CallsHold'
  BY <1>2, <1>3, ConstAssumption DEF drain, Types, CallsHold
<1>6. PlacesHold'
  <2> SUFFICES ASSUME NEW h \in Handle PROVE PlaceHolds(h)'
    BY DEF PlacesHold
  <2>1. h # target[v]
    BY <1>1, ConstAssumption
  <2>2. where[h] = "pending" => Somewhere(h)'
    BY <1>3, <2>1 DEF PlacesHold, PlaceHolds
  <2>3. where[h] \in Vm => target'[where[h]] = h
    <3>1. where[h] \in Vm => target[where[h]] = h
      BY DEF PlacesHold, PlaceHolds, Somewhere
    <3> QED BY <3>1, <2>1, <1>2 DEF Types
  <2> QED BY <1>2, <2>2, <2>3 DEF PlacesHold, PlaceHolds
<1>7. JoinRethrows'
  BY DEF drain, JoinRethrows
<1> QED BY <1>3, <1>4, <1>5, <1>6, <1>7, SameAlive DEF drain

\* The loop of drain goes on to the next node or ends; either way v's old target h is in
\* nobody's hands, and the std::thread object of no other handle moves.
LEMMA DrainNextStep ==
  ASSUME Inv, NEW v \in Vm, pc[v] = "drain", DrainNext(v),
         NEW p \in {"joined", "detached"}, where' = [where EXCEPT ![target[v]] = p],
         p = "joined" => os[target[v]] = "exited",
         UNCHANGED <<os, failure, owned, rethrown>>
  PROVE  Types' /\ CallsHold' /\ QueuesHold' /\ CallsApart' /\ PlacesHold' /\ JoinRethrows'
<1> USE DEF Inv, None
<1> DEFINE h == target[v]
<1>1. h \in Handle /\ h # None /\ where[h] = "pending" /\ h \notin owned /\ os[h] # "none"
  BY ConstAssumption DEF Types, CallsHold, PlacesHold, PlaceHolds, Somewhere
<1>2. \A g \in Handle : g # h => where'[g] = where[g]
  BY DEF Types
<1>3. where'[h] = p /\ where' \in [Handle -> {None, "state", "pending", "joined", "detached"} \cup Vm]
  BY <1>1 DEF Types
<1>4. JoinRethrows'
  BY <1>1, <1>2 DEF JoinRethrows
<1>5. CASE pending[v] = <<>>
  <2>1. /\ pc' = [pc EXCEPT ![v] = "run"] /\ target' = [target EXCEPT ![v] = None]
        /\ pending' = pending
    BY <1>5 DEF DrainNext
  <2>2. Types'
    BY <2>1, <1>3 DEF Types
  <2>3. \A w \in Vm : w # v => target[w] # h
    BY <1>1 DEF CallsApart
  <2>4. CallsHold' /\ CallsApart'
    BY <2>1, <2>3, <1>1, <1>2 DEF Types, CallsHold, CallsApart
  <2>5. QueuesHold'
    <3>1. \A w \in Vm : \A i \in 1 .. Len(pending[w]) : pending[w][i] # h /\ pending[w][i] \in Handle
      BY DEF QueuesHold, Types
    <3>2. \A w \in Vm : target'[w] = target[w] \/ target'[w] = None
      BY <2>1 DEF Types
    <3> QED BY <3>1, <3>2, <2>1, <1>2, ConstAssumption DEF QueuesHold
  <2>6. PlacesHold'
    <3> SUFFICES ASSUME NEW g \in Handle PROVE PlaceHolds(g)'
      BY DEF PlacesHold
    <3>1. CASE g = h
      BY <3>1, <1>1, <1>3, ConstAssumption DEF PlaceHolds, Somewhere
    <3>2. CASE g # h
      <4>1. \A w \in Vm : target[w] = g => target'[w] = g
        BY <3>2, <2>1 DEF Types
      <4> QED BY <3>2, <4>1, <2>1, <1>2 DEF PlacesHold, PlaceHolds, Somewhere
    <3> QED BY <3>1, <3>2
  <2> QED BY <1>4, <2>2, <2>4, <2>5, <2>6
<1>6. CASE pending[v] # <<>>
  <2>1. /\ target' = [target EXCEPT ![v] = Head(pending[v])]
        /\ pending' = [pending EXCEPT ![v] = Tail(@)] /\ pc' = pc
    BY <1>6 DEF DrainNext
  <2>2. /\ Head(pending[v]) \in Handle /\ where'[Head(pending[v])] = "pending"
        /\ pending' \in [Vm -> Seq(Handle)] /\ target' \in [Vm -> Handle \cup {None}]
        /\ QueuesHold' /\ CallsApart'
        /\ \A g \in Handle : g # target[v] /\ Somewhere(g) => Somewhere(g)'
    BY <1>2, <1>6, <2>1, TakeNode
  <2>3. Types'
    BY <2>1, <2>2, <1>3 DEF Types
  <2>4. \A w \in Vm : w # v => target[w] # h
    BY <1>1 DEF CallsApart
  <2>5. CallsHold'
    <3> SUFFICES ASSUME NEW w \in Vm
                 PROVE  /\ pc'[w] = "run" <=> target'[w] = None
                        /\ pc'[w] = "join" => where'[target'[w]] = w
                        /\ pc'[w] = "drain" => where'[target'[w]] = "pending"
      BY DEF CallsHold
    <3>1. CASE w = v
      BY <3>1, <2>1, <2>2, ConstAssumption DEF Types
    <3>2. CASE w # v
      BY <3>2, <2>1, <2>4, <1>2 DEF Types, CallsHold
    <3> QED BY <3>1, <3>2
  <2>6. PlacesHold'
    <3> SUFFICES ASSUME NEW g \in Handle PROVE PlaceHolds(g)'
      BY DEF PlacesHold
    <3>1. CASE g = h
      BY <3>1, <1>1, <1>3, ConstAssumption DEF PlaceHolds, Somewhere
    <3>2. CASE g # h
      <4>1. where[g] = "pending" => Somewhere(g)'
        BY <3>2, <2>2 DEF PlacesHold, PlaceHolds
      <4>2. where[g] \in Vm => target[where[g]] = g
        BY DEF PlacesHold, PlaceHolds, Somewhere
      <4>3. where[g] \in Vm => target'[where[g]] = g
        BY <3>2, <4>2, <2>1 DEF Types
      <4> QED BY <3>2, <4>1, <4>3, <1>2 DEF PlacesHold, PlaceHolds
    <3> QED BY <3>1, <3>2
  <2> QED BY <1>4, <2>2, <2>3, <2>5, <2>6
<1> QED BY <1>5, <1>6

LEMMA JoinOrAbandonStep ==
  ASSUME Inv, NEW v \in Vm, joinOrAbandon(v)
  PROVE  Inv'
<1>1. pc[v] = "drain" /\ DrainNext(v) /\ UNCHANGED <<os, failure, owned, rethrown, aliveWorkers>>
  BY DEF joinOrAbandon
<1>2. PICK p \in {"joined", "detached"} :
         where' = [where EXCEPT ![target[v]] = p] /\ (p = "joined" => os[target[v]] = "exited")
  BY DEF joinOrAbandon
<1>3. Types' /\ CallsHold' /\ QueuesHold' /\ CallsApart' /\ PlacesHold' /\ JoinRethrows'
  BY <1>1, <1>2, DrainNextStep
<1> QED BY <1>1, <1>3, SameAlive DEF Inv

LEMMA InvStep == Inv /\ [Next]_vars => Inv'
<1> SUFFICES ASSUME Inv, [Next]_vars PROVE Inv'
  OBVIOUS
<1>1. CASE UNCHANGED vars
  BY <1>1 DEF vars, Inv, Types, CallsHold, QueuesHold, CallsApart, PlacesHold, PlaceHolds, Somewhere,
              JoinRethrows, AliveIsExact, None
<1>2. ASSUME NEW v \in Vm, FinishVm(v) PROVE Inv'
  BY <1>2 DEF FinishVm, Inv, Types, CallsHold, QueuesHold, CallsApart, PlacesHold, PlaceHolds, Somewhere,
              JoinRethrows, AliveIsExact, None
<1> QED BY <1>1, <1>2, StartStep, JoinStep, DropStep, EndStep, ExitStep, DropSelfStep, JoinReturnsStep,
           DrainStep, JoinOrAbandonStep DEF Next

\* What the invariant says of the queues and the VMs' hands, counted.
LEMMA InvCounts ==
  ASSUME Inv
  PROVE  NeverDestroyedJoinable
<1> USE DEF Inv, None
<1> SUFFICES ASSUME NEW h \in Handle, os[h] # "none"
             PROVE  LET queues == {v \in Vm : \E i \in DOMAIN pending[v] : pending[v][i] = h}
                        calls  == {v \in Vm : target[v] = h}
                    IN  CASE where[h] = "state"    -> h \in owned /\ queues = {} /\ calls = {}
                          [] where[h] = "pending"  -> h \notin owned /\ Cardinality(queues) + Cardinality(calls) = 1
                          [] where[h] \in Vm       -> queues = {} /\ calls = {where[h]}
                          [] where[h] = "joined"   -> os[h] = "exited"
                          [] where[h] = "detached" -> h \notin owned
                          [] OTHER                 -> FALSE
  BY DEF NeverDestroyedJoinable
<1> DEFINE queues == {v \in Vm : \E i \in DOMAIN pending[v] : pending[v][i] = h}
           calls  == {v \in Vm : target[v] = h}
<1>0. \A v \in Vm : DOMAIN pending[v] = 1 .. Len(pending[v])
  BY DEF Types
<1>1. where[h] # "pending" => queues = {}
  BY <1>0 DEF QueuesHold
<1>2. \A v \in calls : where[h] = v \/ where[h] = "pending"
  BY ConstAssumption DEF Types, CallsHold
<1>3. CASE where[h] = "state"
  <2>1. calls = {}
    BY <1>2, <1>3, ConstAssumption
  <2> QED BY <1>1, <1>3, <2>1, ConstAssumption DEF PlacesHold, PlaceHolds, Somewhere
<1>4. CASE where[h] \in Vm
  <2>1. calls = {where[h]}
    BY <1>2, <1>4, ConstAssumption DEF PlacesHold, PlaceHolds, Somewhere
  <2> QED BY <1>1, <1>4, <2>1, ConstAssumption
<1>5. CASE where[h] = "pending"
  <2>0. h \notin owned
    BY <1>5 DEF PlacesHold, PlaceHolds, Somewhere
  <2>1. CASE \E v \in Vm : target[v] = h
    <3>1. PICK v \in Vm : target[v] = h
      BY <2>1
    <3>2. calls = {v}
      BY <3>1, ConstAssumption DEF CallsApart
    <3>3. queues = {}
      BY <1>0, <3>1 DEF QueuesHold
    <3>4. Cardinality({}) = 0 /\ Cardinality({v}) = 1
      BY FS_EmptySet, FS_Singleton
    <3>5. Cardinality(queues) + Cardinality(calls) = 1
      BY <3>2, <3>3, <3>4
    <3> QED BY <2>0, <3>5, <1>5, ConstAssumption
  <2>2. CASE \A v \in Vm : target[v] # h
    <3>1. PICK v \in Vm : \E i \in 1 .. Len(pending[v]) : pending[v][i] = h
      BY <1>5, <2>2 DEF PlacesHold, PlaceHolds, Somewhere
    <3>2. queues = {v}
      BY <1>0, <3>1 DEF QueuesHold
    <3>3. calls = {}
      BY <2>2
    <3>4. Cardinality({}) = 0 /\ Cardinality({v}) = 1
      BY FS_EmptySet, FS_Singleton
    <3>5. Cardinality(queues) + Cardinality(calls) = 1
      BY <3>2, <3>3, <3>4
    <3> QED BY <2>0, <3>5, <1>5, ConstAssumption
  <2> QED BY <2>1, <2>2
<1>6. CASE where[h] \in {"joined", "detached"}
  BY <1>6, ConstAssumption DEF PlacesHold, PlaceHolds, Somewhere
<1> QED BY <1>3, <1>4, <1>5, <1>6 DEF Types, PlacesHold, PlaceHolds, Somewhere

LEMMA InvHolds == Spec => []Inv
  BY InvInit, InvStep, PTL DEF Spec

\* A std::thread is never destroyed joinable: on every path of start, join, drop, drain and
\* teardown, by however many VMs, the object is in exactly one place or was disposed of.
THEOREM ThreadsDisposedOnce == Spec => []NeverDestroyedJoinable
  BY InvHolds, InvCounts, PTL

\* gAliveWorkerThreads is exactly the number of workers that can still act.
THEOREM WorkersCounted == Spec => []AliveIsExact
<1>1. Inv => AliveIsExact
  BY DEF Inv
<1> QED BY <1>1, InvHolds, PTL

\* A handle joined by a call that waited has rethrown its worker's failure.
THEOREM FailuresRethrown == Spec => []JoinRethrows
<1>1. Inv => JoinRethrows
  BY DEF Inv
<1> QED BY <1>1, InvHolds, PTL
=============================================================================
