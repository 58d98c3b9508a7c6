--------------------------- MODULE Channel_proofs ---------------------------
(***************************************************************************)
(* Theorems about Channel, for any finite set of workers, any sets of      *)
(* values and receive tasks, and any capacity.                             *)
(***************************************************************************)
EXTENDS Channel, FiniteSetTheorems, SequenceTheorems, WellFoundedInduction, TLAPS

Has(q, x)   == \E i \in 1 .. Len(q) : q[i] = x
Distinct(q) == \A i, j \in 1 .. Len(q) : q[i] = q[j] => i = j

(***************************************************************************)
(* The inductive invariant.                                                *)
(***************************************************************************)
Carrying == {"send", "hand", "handAsync", "took", "tookAsync", "checkSend"}

\* What a thread has in its hands at each place of its operation.
Hands ==
  \A th \in Thread :
     /\ pc[th] \in Carrying <=> val[th] # None
     /\ pc[th] \in {"hand", "handAsync"} => task[th] \in Recv
     /\ pc[th] \in {"took", "tookAsync"} => task[th] \in {None, val[th]}

Queues ==
  /\ Distinct(items) /\ Distinct(pendingSends) /\ Distinct(pendingReceives)
  /\ \A v \in Val : Has(pendingSends, v) => status[v] \in {"Pending", "Cancelled"}
  /\ \A r \in Recv : Has(pendingReceives, r) => status[r] # "absent"

Types == TypeOK /\ Hands /\ Queues

Acting == {w \in Worker : worker[w] \in {"run", "woke"}}
Counts == alive = Cardinality(Acting) /\ (~Unlocked => Acting = {}) /\ ~falseAlarm

InHand(v) == \E th \in Thread : val[th] = v
HeldOnce  == \A t1, t2 \in Thread : val[t1] = val[t2] /\ val[t1] # None => t1 = t2

\* The places a value can be in exclude each other.
Apart(v) ==
  /\ Has(items, v) => ~Has(pendingSends, v) /\ ~InHand(v) /\ v \notin delivered /\ v \notin swallowed
  /\ Has(pendingSends, v) => ~InHand(v) /\ v \notin delivered /\ v \notin swallowed
  /\ InHand(v) => v \notin delivered /\ v \notin swallowed
  /\ v \notin delivered \/ v \notin swallowed

Somewhere(v) == Has(items, v) \/ Has(pendingSends, v) \/ InHand(v) \/ v \in delivered \/ v \in swallowed
Placed(v) ==
  /\ v \in used => Somewhere(v) \/ status[v] = "Cancelled"
  /\ v \notin used => ~Somewhere(v) /\ status[v] = "absent"
Places == HeldOnce /\ \A v \in Val : Apart(v) /\ Placed(v)

\* A blocking send's value has no task; a hook still to run is that of a cancelled task.
Marks ==
  /\ \A th \in Thread : pc[th] \in {"send", "checkSend"} => status[val[th]] = "absent"
  /\ \A t \in removing : status[t] = "Cancelled"

Inv == Types /\ Counts /\ NoStuckPair /\ Places /\ Marks
(***************************************************************************)
(* What the operations on a queue keep.                                    *)
(***************************************************************************)
LEMMA HasEmpty == Distinct(<<>>) /\ \A x : ~Has(<<>>, x)
  BY DEF Has, Distinct

LEMMA HasType ==
  ASSUME NEW S, NEW q \in Seq(S), NEW x, Has(q, x)
  PROVE  x \in S
  BY DEF Has

LEMMA HasAppend ==
  ASSUME NEW S, NEW q \in Seq(S), NEW e \in S
  PROVE  /\ Append(q, e) \in Seq(S) /\ Len(Append(q, e)) = Len(q) + 1
         /\ \A x : Has(Append(q, e), x) <=> x = e \/ Has(q, x)
         /\ Distinct(q) /\ ~Has(q, e) => Distinct(Append(q, e))
<1> DEFINE a == Append(q, e)
<1>1. /\ a \in Seq(S) /\ Len(a) = Len(q) + 1 /\ Len(q) \in Nat /\ a[Len(q) + 1] = e
      /\ \A i \in 1 .. Len(q) : a[i] = q[i]
  BY AppendProperties
<1>2. \A i \in 1 .. Len(a) : i \in 1 .. Len(q) \/ i = Len(q) + 1
  BY <1>1
<1> HIDE DEF a
<1>3. \A x : Has(a, x) <=> x = e \/ Has(q, x)
  <2> TAKE x
  <2>1. Has(q, x) => Has(a, x)
    BY <1>1 DEF Has
  <2>2. Has(a, e)
    BY <1>1 DEF Has
  <2>3. Has(a, x) => x = e \/ Has(q, x)
    BY <1>1, <1>2 DEF Has
  <2> QED BY <2>1, <2>2, <2>3
<1>4. Distinct(q) /\ ~Has(q, e) => Distinct(a)
  BY <1>1, <1>2 DEF Has, Distinct
<1> QED BY <1>1, <1>3, <1>4 DEF a

LEMMA HasTail ==
  ASSUME NEW S, NEW q \in Seq(S), q # <<>>
  PROVE  /\ Tail(q) \in Seq(S) /\ Head(q) \in S /\ Len(Tail(q)) = Len(q) - 1
         /\ \A x : Has(q, x) <=> x = Head(q) \/ Has(Tail(q), x)
         /\ Distinct(q) => Distinct(Tail(q)) /\ ~Has(Tail(q), Head(q))
<1> DEFINE t == Tail(q)
<1>1. /\ t \in Seq(S) /\ Head(q) = q[1] /\ Head(q) \in S /\ 1 \in 1 .. Len(q) /\ Len(t) = Len(q) - 1
      /\ Len(q) \in Nat /\ \A i \in 1 .. Len(t) : i + 1 \in 1 .. Len(q) /\ t[i] = q[i + 1]
  OBVIOUS
<1> HIDE DEF t
<1>2. \A i \in 1 .. Len(q) : i # 1 => i - 1 \in 1 .. Len(t) /\ q[i] = t[i - 1]
  <2> TAKE i \in 1 .. Len(q)
  <2> HAVE i # 1
  <2>1. i - 1 \in 1 .. Len(t) /\ (i - 1) + 1 = i
    BY <1>1
  <2> QED BY <2>1, <1>1
<1>3. \A x : Has(q, x) <=> x = Head(q) \/ Has(t, x)
  BY <1>1, <1>2 DEF Has
<1>4. ASSUME Distinct(q) PROVE Distinct(t)
  <2> SUFFICES ASSUME NEW i \in 1 .. Len(t), NEW j \in 1 .. Len(t), t[i] = t[j] PROVE i = j
    BY DEF Distinct
  <2>1. i + 1 = j + 1
    BY <1>1, <1>4 DEF Distinct
  <2> QED BY <2>1, <1>1
<1>5. ASSUME Distinct(q), Has(t, Head(q)) PROVE FALSE
  <2>1. PICK i \in 1 .. Len(t) : t[i] = q[1]
    BY <1>1, <1>5 DEF Has
  <2>2. i + 1 = 1
    BY <1>1, <1>5, <2>1 DEF Distinct
  <2> QED BY <2>2, <1>1
<1> QED BY <1>1, <1>3, <1>4, <1>5 DEF t

\* A queue from some place on.
LEMMA HasSuffix ==
  ASSUME NEW S, NEW q \in Seq(S), NEW k \in 1 .. Len(q)
  PROVE  LET s == SubSeq(q, k + 1, Len(q)) IN
         /\ s \in Seq(S) /\ Len(s) = Len(q) - k
         /\ \A i \in 1 .. Len(s) : s[i] = q[k + i]
         /\ \A x : Has(s, x) => Has(q, x)
         /\ \A i \in 1 .. Len(q) : i > k => Has(s, q[i])
         /\ Distinct(q) => Distinct(s) /\ ~Has(s, q[k])
<1> DEFINE s == SubSeq(q, k + 1, Len(q))
<1>1. /\ s \in Seq(S) /\ Len(s) = Len(q) - k /\ Len(q) \in Nat /\ k \in Nat
      /\ \A i \in 1 .. Len(s) : k + i \in 1 .. Len(q) /\ s[i] = q[k + i]
  OBVIOUS
<1> HIDE DEF s
<1>2. \A x : Has(s, x) => Has(q, x)
  BY <1>1 DEF Has
<1>3. ASSUME NEW i \in 1 .. Len(q), i > k PROVE Has(s, q[i])
  <2>1. i - k \in 1 .. Len(s) /\ k + (i - k) = i
    BY <1>1, <1>3
  <2> QED BY <2>1, <1>1 DEF Has
<1>4. ASSUME Distinct(q) PROVE Distinct(s)
  <2> SUFFICES ASSUME NEW i \in 1 .. Len(s), NEW j \in 1 .. Len(s), s[i] = s[j] PROVE i = j
    BY DEF Distinct
  <2>1. k + i = k + j
    BY <1>1, <1>4 DEF Distinct
  <2> QED BY <2>1, <1>1
<1>5. ASSUME Distinct(q), Has(s, q[k]) PROVE FALSE
  <2>1. PICK i \in 1 .. Len(s) : s[i] = q[k]
    BY <1>5 DEF Has
  <2>2. k + i = k
    BY <1>1, <1>5, <2>1 DEF Distinct
  <2> QED BY <2>2, <1>1
<1> QED BY <1>1, <1>2, <1>3, <1>4, <1>5 DEF s

\* The first live task of a queue, and what is left behind it: no live task is lost.
LEMMA SmallestExists ==
  ASSUME NEW T, T \subseteq Nat, T # {}
  PROVE  \E i \in T : \A j \in T : i <= j
<1> DEFINE R == OpToRel(<, Nat)
<1>1. \A i, j \in Nat : i < j => <<i, j>> \in R
  BY DEF OpToRel
<1>2. IsWellFoundedOn(R, Nat)
  BY NatLessThanWellFounded
<1> HIDE DEF R
<1>3. PICK i \in T : \A j \in T : ~(<<j, i>> \in R)
  BY <1>2, WFMin
<1>4. \A j \in T : ~(j < i)
  BY <1>1, <1>3
<1> QED BY <1>4

LEMMA ReadyHas ==
  ASSUME NEW S, NEW q \in Seq(S)
  PROVE  Ready(q) <=> \E x \in S : Has(q, x) /\ Live(x)
<1>1. DOMAIN q = 1 .. Len(q) /\ \A i \in 1 .. Len(q) : q[i] \in S
  OBVIOUS
<1> QED BY <1>1 DEF Ready, LiveAt, Has

LEMMA RestKeeps ==
  ASSUME NEW S, NEW q \in Seq(S), Ready(q)
  PROVE  LET x == q[First(q)] IN
         /\ x \in S /\ Has(q, x) /\ Live(x)
         /\ Rest(q) \in Seq(S)
         /\ \A y : Has(Rest(q), y) => Has(q, y)
         /\ \A y : Has(q, y) /\ Live(y) /\ y # x => Has(Rest(q), y)
         /\ Distinct(q) => Distinct(Rest(q)) /\ ~Has(Rest(q), x)
<1> DEFINE k == First(q)
<1>1. DOMAIN q = 1 .. Len(q) /\ LiveAt(q) \subseteq Nat /\ LiveAt(q) # {}
  BY DEF Ready, LiveAt
<1>2. k \in LiveAt(q) /\ \A j \in LiveAt(q) : k <= j
  BY <1>1, SmallestExists DEF First
<1> HIDE DEF k
<1>3. k \in 1 .. Len(q) /\ Live(q[k]) /\ q[k] \in S
  BY <1>1, <1>2 DEF LiveAt
<1>4. Rest(q) = SubSeq(q, k + 1, Len(q))
  BY DEF Rest, k
<1>5. Has(q, q[k])
  BY <1>3 DEF Has
<1>6. ASSUME NEW y, Has(q, y), Live(y), y # q[k] PROVE Has(Rest(q), y)
  <2>1. PICK i \in 1 .. Len(q) : q[i] = y
    BY <1>6 DEF Has
  <2>2. i \in LiveAt(q)
    BY <1>1, <1>6, <2>1 DEF LiveAt
  <2>3. i > k
    BY <1>2, <1>3, <1>6, <2>1, <2>2
  <2> QED BY <1>3, <1>4, <2>1, <2>3, HasSuffix
<1> QED BY <1>3, <1>4, <1>5, <1>6, HasSuffix DEF k

LEMMA RestEmpty ==
  ASSUME NEW q, ~Ready(q) PROVE Rest(q) = <<>>
  BY DEF Rest

LEMMA RestType ==
  ASSUME NEW S, NEW q \in Seq(S)
  PROVE  /\ Rest(q) \in Seq(S)
         /\ \A y : Has(Rest(q), y) => Has(q, y)
         /\ Distinct(q) => Distinct(Rest(q))
<1>1. CASE Ready(q) BY <1>1, RestKeeps
<1>2. CASE ~Ready(q)
  <2>1. Rest(q) = <<>> /\ <<>> \in Seq(S)
    BY <1>2, RestEmpty
  <2> QED BY <2>1, HasEmpty
<1> QED BY <1>1, <1>2

\* Taking a task's entry out of a queue that holds it once leaves exactly the others.
LEMMA WithoutKeeps ==
  ASSUME NEW S, NEW q \in Seq(S), NEW t, Distinct(q)
  PROVE  /\ Without(q, t) \in Seq(S) /\ Distinct(Without(q, t))
         /\ \A x : Has(Without(q, t), x) <=> Has(q, x) /\ x # t
<1>1. DOMAIN q = 1 .. Len(q) /\ Len(q) \in Nat
  OBVIOUS
<1>2. CASE \A i \in DOMAIN q : q[i] # t
  BY <1>1, <1>2 DEF Without, Has
<1>3. CASE ~\A i \in DOMAIN q : q[i] # t
  <2> DEFINE k == CHOOSE i \in DOMAIN q : q[i] = t
             a == SubSeq(q, 1, k - 1)
             b == SubSeq(q, k + 1, Len(q))
             w == a \o b
  <2>1. k \in 1 .. Len(q) /\ q[k] = t
    BY <1>1, <1>3
  <2>2. Without(q, t) = w
    BY <1>3 DEF Without
  <2> HIDE DEF k
  <2>3. a \in Seq(S) /\ Len(a) = k - 1 /\ \A i \in 1 .. k - 1 : a[i] = q[i]
    BY <2>1
  <2>4. b \in Seq(S) /\ Len(b) = Len(q) - k /\ \A i \in 1 .. Len(q) - k : b[i] = q[k + i]
    BY <2>1, HasSuffix
  <2> HIDE DEF a, b
  <2>5. /\ w \in Seq(S) /\ Len(w) = Len(q) - 1
        /\ \A i \in 1 .. Len(q) - 1 : w[i] = IF i <= k - 1 THEN a[i] ELSE b[i - (k - 1)]
    <3>1. /\ w \in Seq(S) /\ Len(w) = Len(a) + Len(b)
          /\ \A i \in 1 .. Len(a) + Len(b) : w[i] = IF i <= Len(a) THEN a[i] ELSE b[i - Len(a)]
      BY <2>3, <2>4, ConcatProperties
    <3>2. Len(a) + Len(b) = Len(q) - 1
      BY <1>1, <2>1, <2>3, <2>4
    <3> QED BY <2>3, <3>1, <3>2
  <2>6. \A i \in 1 .. Len(q) - 1 : w[i] = IF i < k THEN q[i] ELSE q[i + 1]
    <3> TAKE i \in 1 .. Len(q) - 1
    <3>1. CASE i < k
      <4>1. i \in 1 .. k - 1 /\ i <= k - 1
        BY <2>1, <3>1
      <4> QED BY <2>3, <2>5, <3>1, <4>1
    <3>2. CASE ~(i < k)
      <4>1. i - (k - 1) \in 1 .. Len(q) - k /\ k + (i - (k - 1)) = i + 1 /\ ~(i <= k - 1)
        BY <1>1, <2>1, <3>2
      <4> QED BY <2>4, <2>5, <3>2, <4>1
    <3> QED BY <3>1, <3>2
  <2> HIDE DEF w
  <2> DEFINE at(i) == IF i < k THEN i ELSE i + 1
  <2>7. \A i \in 1 .. Len(w) : at(i) \in 1 .. Len(q) /\ at(i) # k /\ w[i] = q[at(i)]
    BY <1>1, <2>1, <2>5, <2>6
  <2>8. \A i \in 1 .. Len(q) : i # k => \E j \in 1 .. Len(w) : at(j) = i
    <3> SUFFICES ASSUME NEW i \in 1 .. Len(q), i # k PROVE \E j \in 1 .. Len(w) : at(j) = i
      OBVIOUS
    <3>1. CASE i < k
      <4>1. i \in 1 .. Len(w) /\ at(i) = i
        BY <1>1, <2>1, <2>5, <3>1
      <4> QED BY <4>1
    <3>2. CASE i > k
      <4>1. i - 1 \in 1 .. Len(w) /\ at(i - 1) = i
        BY <1>1, <2>1, <2>5, <3>2
      <4> QED BY <4>1
    <3> QED BY <2>1, <3>1, <3>2
  <2>9. \A i, j \in 1 .. Len(w) : at(i) = at(j) => i = j
    BY <1>1, <2>1, <2>5
  <2> HIDE DEF at
  <2>10. Distinct(w)
    BY <2>7, <2>9 DEF Distinct
  <2>11. \A i \in 1 .. Len(q) : q[i] = t <=> i = k
    BY <2>1 DEF Distinct
  <2>12. ASSUME NEW x PROVE Has(w, x) <=> Has(q, x) /\ x # t
    <3>1. Has(w, x) => Has(q, x) /\ x # t
      BY <2>7, <2>11 DEF Has
    <3>2. ASSUME Has(q, x), x # t PROVE Has(w, x)
      <4>1. PICK i \in 1 .. Len(q) : q[i] = x
        BY <3>2 DEF Has
      <4>2. i # k
        BY <2>1, <3>2, <4>1
      <4>3. PICK j \in 1 .. Len(w) : at(j) = i
        BY <2>8, <4>2
      <4> QED BY <2>7, <4>1, <4>3 DEF Has
    <3> QED BY <3>1, <3>2
  <2> QED BY <2>2, <2>5, <2>10, <2>12
<1> QED BY <1>2, <1>3
LEMMA ReadyIff ==
  ASSUME NEW S, NEW q \in Seq(S), NEW st
  PROVE  (\E i \in DOMAIN q : st[q[i]] = "Pending") <=> \E x \in S : Has(q, x) /\ st[x] = "Pending"
<1>1. DOMAIN q = 1 .. Len(q) /\ \A i \in 1 .. Len(q) : q[i] \in S
  OBVIOUS
<1> QED BY <1>1 DEF Has

(***************************************************************************)
(* Init, and what a thread's move in its operation keeps.                  *)
(***************************************************************************)
LEMMA Apartness == None \notin Val /\ None \notin Recv /\ Val \cap Recv = {} /\ Capacity \in Nat
  BY ConstAssumption DEF None

LEMMA ActingFinite == IsFiniteSet(Acting) /\ Cardinality(Acting) \in Nat
  BY ConstAssumption, FS_Subset, FS_CardinalityType DEF Acting

LEMMA InvInit == Init => Inv
<1> SUFFICES ASSUME Init PROVE Inv
  OBVIOUS
<1> USE DEF Init
<1>1. TypeOK
  <2>1. <<>> \in Seq(Val) /\ <<>> \in Seq(Recv) /\ Len(<<>>) = 0
    OBVIOUS
  <2> QED BY <2>1, Apartness DEF TypeOK, PCs, None
<1>2. Hands
  BY DEF Hands, Carrying
<1>3. Queues
  BY HasEmpty DEF Queues
<1>4. Counts
  <2>1. Acting = {}
    BY DEF Acting
  <2> QED BY <2>1, FS_EmptySet DEF Counts, Unlocked, Thread
<1>5. NoStuckPair
  BY DEF NoStuckPair, Ready, LiveAt
<1>6. Places
  BY HasEmpty, Apartness DEF Places, HeldOnce, Apart, Placed, Somewhere, InHand
<1>7. Marks
  BY DEF Marks
<1> QED BY <1>1, <1>2, <1>3, <1>4, <1>5, <1>6, <1>7 DEF Inv, Types

LEMMA SetHands ==
  ASSUME Types, NEW th \in Thread, NEW p \in PCs, NEW v \in Val \cup {None}, NEW t \in Val \cup Recv \cup {None},
         Set(th, p, v, t), p \in Carrying <=> v # None,
         p \in {"hand", "handAsync"} => t \in Recv,
         p \in {"took", "tookAsync"} => t \in {None, v}
  PROVE  /\ Hands' /\ pc' \in [Thread -> PCs] /\ val' \in [Thread -> Val \cup {None}]
         /\ task' \in [Thread -> Val \cup Recv \cup {None}]
<1>1. pc' = [pc EXCEPT ![th] = p] /\ val' = [val EXCEPT ![th] = v] /\ task' = [task EXCEPT ![th] = t]
  BY DEF Set
<1>2. /\ pc \in [Thread -> PCs] /\ val \in [Thread -> Val \cup {None}]
      /\ task \in [Thread -> Val \cup Recv \cup {None}]
  BY DEF Types, TypeOK
<1>3. /\ pc' \in [Thread -> PCs] /\ val' \in [Thread -> Val \cup {None}]
      /\ task' \in [Thread -> Val \cup Recv \cup {None}]
  BY <1>1, <1>2
<1>4. Hands'
  <2> SUFFICES ASSUME NEW x \in Thread
               PROVE  /\ pc'[x] \in Carrying <=> val'[x] # None
                      /\ pc'[x] \in {"hand", "handAsync"} => task'[x] \in Recv
                      /\ pc'[x] \in {"took", "tookAsync"} => task'[x] \in {None, val'[x]}
    BY DEF Hands
  <2>1. CASE x = th
    <3>1. pc'[x] = p /\ val'[x] = v /\ task'[x] = t
      BY <1>1, <1>2, <2>1
    <3> QED BY <3>1
  <2>2. CASE x # th
    <3>1. pc'[x] = pc[x] /\ val'[x] = val[x] /\ task'[x] = task[x]
      BY <1>1, <1>2, <2>2
    <3> QED BY <3>1 DEF Types, Hands
  <2> QED BY <2>1, <2>2
<1> QED BY <1>3, <1>4

LEMMA FinishHands ==
  ASSUME Types, NEW th \in Thread, Finish(th)
  PROVE  /\ Hands' /\ pc' \in [Thread -> PCs] /\ val' \in [Thread -> Val \cup {None}]
         /\ task' \in [Thread -> Val \cup Recv \cup {None}]
<1>1. Home(th) \in {"run", "idle"}
  BY DEF Home
<1>2. Home(th) \in PCs /\ Home(th) \notin Carrying /\ Home(th) \notin {"hand", "handAsync", "took", "tookAsync"}
  BY <1>1 DEF PCs, Carrying
<1> QED BY <1>2, SetHands DEF Finish

\* Who holds a value after a thread put down what it held and took v.
LEMMA SetHolds ==
  ASSUME Types, HeldOnce, NEW th \in Thread, NEW p, NEW v, NEW t, Set(th, p, v, t),
         v = None \/ v = val[th] \/ ~InHand(v)
  PROVE  /\ HeldOnce'
         /\ \A x : x # None => (InHand(x)' <=> x = v \/ (InHand(x) /\ x # val[th]))
<1>1. \A x \in Thread : val'[x] = IF x = th THEN v ELSE val[x]
  BY DEF Set, Types, TypeOK
<1>2. HeldOnce'
  BY <1>1 DEF HeldOnce, InHand
<1>3. ASSUME NEW x, x # None PROVE InHand(x)' <=> x = v \/ (InHand(x) /\ x # val[th])
  <2>1. InHand(x)' <=> \E y \in Thread : val'[y] = x
    BY DEF InHand
  <2>2. ASSUME InHand(x), x # val[th] PROVE \E y \in Thread : val'[y] = x
    BY <1>1, <2>2 DEF InHand
  <2>3. ASSUME NEW y \in Thread, val'[y] = x, x # v PROVE InHand(x) /\ x # val[th]
    BY <1>1, <1>3, <2>3 DEF InHand, HeldOnce
  <2>4. val'[th] = v
    BY <1>1
  <2> QED BY <2>1, <2>2, <2>3, <2>4
<1> QED BY <1>2, <1>3

LEMMA CarriesVal ==
  ASSUME Types, NEW th \in Thread
  PROVE  /\ pc[th] \in Carrying => val[th] \in Val /\ InHand(val[th])
         /\ pc[th] \notin Carrying => val[th] = None
  BY DEF Types, Hands, TypeOK, InHand

\* The deadlock check's facts survive every step that leaves the workers alone and does
\* not begin a check.
LEMMA SameCounts ==
  ASSUME Counts, UNCHANGED <<alive, worker, falseAlarm>>, Unlocked => Unlocked'
  PROVE  Counts'
  BY DEF Counts, Acting

LEMMA SetUnlocked ==
  ASSUME Types, NEW th \in Thread, NEW p, NEW v, NEW t, Set(th, p, v, t), p \notin {"checkSend", "checkReceive"}
  PROVE  Unlocked => Unlocked'
<1>1. Main \in Thread /\ pc'[Main] \in {p, pc[Main]}
  BY DEF Set, Types, TypeOK, Thread
<1> QED BY <1>1 DEF Unlocked

\* A pair of waiters appears only when a queue gains a live one.
LEMMA PairKept ==
  ASSUME TypeOK, TypeOK', NoStuckPair,
         \A r \in Recv : Has(pendingReceives', r) /\ Live(r)' => Has(pendingReceives, r) /\ Live(r),
         \A v \in Val : Has(pendingSends', v) /\ Live(v)' => Has(pendingSends, v) /\ Live(v),
         items = <<>> => items' = <<>>
  PROVE  NoStuckPair'
<1>1. /\ pendingReceives \in Seq(Recv) /\ pendingReceives' \in Seq(Recv)
      /\ pendingSends \in Seq(Val) /\ pendingSends' \in Seq(Val)
  BY DEF TypeOK
<1>2. /\ Ready(pendingReceives) <=> \E r \in Recv : Has(pendingReceives, r) /\ Live(r)
      /\ Ready(pendingSends) <=> \E v \in Val : Has(pendingSends, v) /\ Live(v)
  BY <1>1, ReadyHas
<1>3. /\ Ready(pendingReceives)' <=> \E i \in DOMAIN pendingReceives' : status'[pendingReceives'[i]] = "Pending"
      /\ Ready(pendingSends)' <=> \E i \in DOMAIN pendingSends' : status'[pendingSends'[i]] = "Pending"
  BY DEF Ready, LiveAt, Live
<1>4. /\ Ready(pendingReceives)' <=> \E r \in Recv : Has(pendingReceives', r) /\ status'[r] = "Pending"
      /\ Ready(pendingSends)' <=> \E v \in Val : Has(pendingSends', v) /\ status'[v] = "Pending"
  <2>1. (\E i \in DOMAIN pendingReceives' : status'[pendingReceives'[i]] = "Pending")
          <=> \E r \in Recv : Has(pendingReceives', r) /\ status'[r] = "Pending"
    <3>1. PICK q, st : q = pendingReceives' /\ st = status'
      OBVIOUS
    <3>2. (\E i \in DOMAIN q : st[q[i]] = "Pending") <=> \E r \in Recv : Has(q, r) /\ st[r] = "Pending"
      <4>1. q \in Seq(Recv)
        BY ONLY <1>1, <3>1
      <4> QED BY ONLY <4>1, ReadyIff, Zenon
    <3> QED BY ONLY <3>1, <3>2
  <2>2. (\E i \in DOMAIN pendingSends' : status'[pendingSends'[i]] = "Pending")
          <=> \E v \in Val : Has(pendingSends', v) /\ status'[v] = "Pending"
    <3>1. PICK q, st : q = pendingSends' /\ st = status'
      OBVIOUS
    <3>2. (\E i \in DOMAIN q : st[q[i]] = "Pending") <=> \E v \in Val : Has(q, v) /\ st[v] = "Pending"
      <4>1. q \in Seq(Val)
        BY ONLY <1>1, <3>1
      <4> QED BY ONLY <4>1, ReadyIff, Zenon
    <3> QED BY ONLY <3>1, <3>2
  <2> QED BY <1>3, <2>1, <2>2
<1>5. \A x : Live(x)' <=> status'[x] = "Pending"
  BY DEF Live
<1> QED BY <1>2, <1>4, <1>5 DEF NoStuckPair

LEMMA PairAbsent == pendingReceives' = <<>> => NoStuckPair'
  BY DEF NoStuckPair, Ready, LiveAt
LEMMA MarksMove ==
  ASSUME Types, Marks, NEW th \in Thread, NEW p, NEW v, NEW t, Set(th, p, v, t),
         p \in {"send", "checkSend"} => status'[v] = "absent",
         \A x \in Val : status[x] = "absent" /\ InHand(x) => status'[x] = "absent",
         \A x \in Val \cup Recv : status[x] = "Cancelled" => status'[x] = "Cancelled",
         UNCHANGED removing
  PROVE  Marks'
<1>1. removing \subseteq Val \cup Recv
  BY DEF Types, TypeOK
<1>2. ASSUME NEW x \in Thread, pc'[x] \in {"send", "checkSend"} PROVE status'[val'[x]] = "absent"
  <2>1. CASE x = th
    <3>1. pc'[x] = p /\ val'[x] = v
      BY <2>1 DEF Set, Types, TypeOK
    <3> QED BY <1>2, <3>1
  <2>2. CASE x # th
    <3>1. pc'[x] = pc[x] /\ val'[x] = val[x]
      BY <2>2 DEF Set, Types, TypeOK
    <3>2. val[x] \in Val /\ InHand(val[x])
      BY <1>2, <3>1, CarriesVal DEF Carrying
    <3> QED BY <1>2, <3>1, <3>2 DEF Marks
  <2> QED BY <2>1, <2>2
<1> QED BY <1>1, <1>2 DEF Marks

LEMMA MarksStay ==
  ASSUME Types, Marks, UNCHANGED <<pc, val, removing>>,
         \A x \in Val : status[x] = "absent" /\ InHand(x) => status'[x] = "absent",
         \A x \in Val \cup Recv : status[x] = "Cancelled" => status'[x] = "Cancelled"
  PROVE  Marks'
<1>1. removing \subseteq Val \cup Recv
  BY DEF Types, TypeOK
<1>2. ASSUME NEW x \in Thread, pc[x] \in {"send", "checkSend"} PROVE status'[val[x]] = "absent"
  <2>1. val[x] \in Val /\ InHand(val[x])
    BY <1>2, CarriesVal DEF Carrying
  <2> QED BY <1>2, <2>1 DEF Marks
<1> QED BY <1>1, <1>2 DEF Marks

(***************************************************************************)
(* One lemma per operation.                                                *)
(***************************************************************************)
LEMMA SendStep ==
  ASSUME Inv, NEW th \in Thread, NEW v \in Val, Send(th, v)
  PROVE  Inv'
<1>1. /\ v \notin used /\ used' = used \cup {v} /\ Set(th, "send", v, None) /\ Types /\ Places
      /\ UNCHANGED <<items, pendingSends, pendingReceives, status, removing, delivered, swallowed,
                     alive, frames, worker, falseAlarm, swept>>
      /\ pc[th] \in {"idle", "run"}
  BY DEF Send, Inv, chanVars, envVars, MayCall
<1>2. Types'
  <2>1. Hands' /\ pc' \in [Thread -> PCs] /\ val' \in [Thread -> Val \cup {None}]
        /\ task' \in [Thread -> Val \cup Recv \cup {None}]
    BY <1>1, SetHands, Apartness DEF PCs, Carrying
  <2> QED BY <1>1, <2>1 DEF Types, TypeOK, Queues
<1>3. Counts'
  <2>1. Unlocked => Unlocked'
    BY <1>1, SetUnlocked
  <2> QED BY <1>1, <2>1, SameCounts DEF Inv
<1>4. NoStuckPair'
  BY <1>1 DEF Inv, NoStuckPair, Ready, LiveAt, Live
<1>5. Places'
  <2>1. val[th] = None /\ ~InHand(v) /\ HeldOnce
    BY <1>1, CarriesVal DEF Places, Placed, Somewhere, Carrying
  <2>2. HeldOnce' /\ \A x : x # None => (InHand(x)' <=> x = v \/ (InHand(x) /\ x # val[th]))
    BY <1>1, <2>1, SetHolds
  <2>3. ASSUME NEW x \in Val PROVE Apart(x)' /\ Placed(x)'
    <3>1. InHand(x)' <=> x = v \/ InHand(x)
      BY <2>1, <2>2, Apartness
    <3>2. Apart(x) /\ Placed(x) /\ Placed(v)
      BY <1>1 DEF Places
    <3> QED BY <1>1, <3>1, <3>2 DEF Apart, Placed, Somewhere
  <2> QED BY <2>2, <2>3 DEF Places
<1>6. Marks'
  <2>1. status[v] = "absent"
    BY <1>1 DEF Places, Placed
  <2> QED BY <1>1, <2>1, MarksMove DEF Inv
<1> QED BY <1>2, <1>3, <1>4, <1>5, <1>6 DEF Inv

LEMMA ReceiveStep ==
  ASSUME Inv, NEW th \in Thread, Receive(th)
  PROVE  Inv'
<1>1. /\ Set(th, "receive", None, None) /\ Types /\ Places
      /\ UNCHANGED <<items, pendingSends, pendingReceives, status, removing, used, delivered, swallowed,
                     alive, frames, worker, falseAlarm, swept>>
      /\ pc[th] \in {"idle", "run"}
  BY DEF Receive, Inv, chanVars, envVars, dataVars, MayCall
<1>2. Types'
  <2>1. Hands' /\ pc' \in [Thread -> PCs] /\ val' \in [Thread -> Val \cup {None}]
        /\ task' \in [Thread -> Val \cup Recv \cup {None}]
    BY <1>1, SetHands, Apartness DEF PCs, Carrying
  <2> QED BY <1>1, <2>1 DEF Types, TypeOK, Queues
<1>3. Counts'
  <2>1. Unlocked => Unlocked'
    BY <1>1, SetUnlocked
  <2> QED BY <1>1, <2>1, SameCounts DEF Inv
<1>4. NoStuckPair'
  BY <1>1 DEF Inv, NoStuckPair, Ready, LiveAt, Live
<1>5. Places'
  <2>1. val[th] = None /\ HeldOnce
    BY <1>1, CarriesVal DEF Places, Carrying
  <2>2. HeldOnce' /\ \A x : x # None => (InHand(x)' <=> x = None \/ (InHand(x) /\ x # val[th]))
    BY <1>1, <2>1, SetHolds
  <2>3. ASSUME NEW x \in Val PROVE Apart(x)' /\ Placed(x)'
    <3>1. InHand(x)' <=> InHand(x)
      BY <2>1, <2>2, Apartness
    <3>2. Apart(x) /\ Placed(x)
      BY <1>1 DEF Places
    <3> QED BY <1>1, <3>1, <3>2 DEF Apart, Placed, Somewhere
  <2> QED BY <2>2, <2>3 DEF Places
<1>6. Marks'
  BY <1>1, MarksMove DEF Inv
<1> QED BY <1>2, <1>3, <1>4, <1>5, <1>6 DEF Inv

LEMMA SendTryStep ==
  ASSUME Inv, NEW th \in Thread, SendTry(th)
  PROVE  Inv'
<1> DEFINE v == val[th]
           r == pendingReceives[First(pendingReceives)]
           w == Ready(pendingReceives)
<1>1. /\ pc[th] = "send" /\ (w \/ ~Full) /\ pendingReceives' = Rest(pendingReceives) /\ Types /\ Places
      /\ IF w THEN Set(th, "hand", v, r) /\ UNCHANGED items
              ELSE items' = Append(items, v) /\ Finish(th)
      /\ UNCHANGED <<pendingSends, status, removing, used, delivered, swallowed,
                     alive, frames, worker, falseAlarm, swept>>
  BY DEF SendTry, Inv, dataVars, envVars
<1>2. v \in Val /\ InHand(v) /\ v # None
  BY <1>1, CarriesVal, Apartness DEF Carrying
<1>3. /\ pendingReceives \in Seq(Recv) /\ items \in Seq(Val) /\ Len(items) \in Nat /\ Len(items) <= Capacity
      /\ pendingReceives' \in Seq(Recv) /\ Distinct(pendingReceives')
      /\ \A x : Has(pendingReceives', x) => Has(pendingReceives, x)
  BY <1>1, RestType DEF Types, TypeOK, Queues
<1>4. w => r \in Recv
  BY <1>3, RestKeeps
<1>5. Apart(v) /\ Placed(v) /\ ~Has(items, v) /\ HeldOnce
  BY <1>1, <1>2 DEF Places, Apart
<1>6. CASE w
  <2>1. Set(th, "hand", v, r) /\ UNCHANGED items
    BY <1>1, <1>6
  <2>2. Types'
    <3>1. Hands' /\ pc' \in [Thread -> PCs] /\ val' \in [Thread -> Val \cup {None}]
          /\ task' \in [Thread -> Val \cup Recv \cup {None}]
      BY <1>1, <1>2, <1>4, <1>6, <2>1, SetHands, Apartness DEF PCs, Carrying
    <3> QED BY <1>1, <1>3, <2>1, <3>1 DEF Types, TypeOK, Queues
  <2>3. Unlocked => Unlocked'
    BY <1>1, <2>1, SetUnlocked
  <2>4. NoStuckPair'
    BY <1>1, <1>3, <2>1, <2>2, PairKept DEF Inv, Types, Live
  <2>5. HeldOnce' /\ \A x : x # None => (InHand(x)' <=> x = v \/ (InHand(x) /\ x # val[th]))
    BY <1>1, <1>5, <2>1, SetHolds
  <2>6. ASSUME NEW x \in Val PROVE Apart(x)' /\ Placed(x)'
    <3>1. InHand(x)' <=> InHand(x)
      BY <1>2, <2>5, Apartness
    <3>2. Apart(x) /\ Placed(x)
      BY <1>1 DEF Places
    <3> QED BY <1>1, <2>1, <3>1, <3>2 DEF Apart, Placed, Somewhere
  <2>7. Marks'
    BY <1>1, <2>1, MarksMove DEF Inv
  <2> QED BY <1>1, <2>2, <2>3, <2>4, <2>5, <2>6, <2>7, SameCounts DEF Inv, Places
<1>7. CASE ~w
  <2>1. items' = Append(items, v) /\ Finish(th) /\ ~Full /\ pendingReceives' = <<>>
    BY <1>1, <1>7, RestEmpty
  <2>2. /\ items' \in Seq(Val) /\ Len(items') <= Capacity /\ Distinct(items')
        /\ \A x : Has(items', x) <=> x = v \/ Has(items, x)
    BY <1>1, <1>2, <1>3, <1>5, <2>1, HasAppend, Apartness DEF Full, Types, Queues
  <2>3. Types'
    <3>1. Hands' /\ pc' \in [Thread -> PCs] /\ val' \in [Thread -> Val \cup {None}]
          /\ task' \in [Thread -> Val \cup Recv \cup {None}]
      BY <1>1, <2>1, FinishHands
    <3> QED BY <1>1, <1>3, <2>2, <3>1 DEF Types, TypeOK, Queues
  <2>4. Set(th, Home(th), None, None) /\ Home(th) \notin {"checkSend", "checkReceive"}
    BY <2>1 DEF Finish, Home
  <2>5. Unlocked => Unlocked'
    BY <1>1, <2>4, SetUnlocked
  <2>6. NoStuckPair'
    BY <2>1, PairAbsent
  <2>7. HeldOnce' /\ \A x : x # None => (InHand(x)' <=> x = None \/ (InHand(x) /\ x # v))
    BY <1>1, <1>5, <2>4, SetHolds
  <2>8. ASSUME NEW x \in Val PROVE Apart(x)' /\ Placed(x)'
    <3>1. InHand(x)' <=> InHand(x) /\ x # v
      BY <2>7, Apartness
    <3>2. Apart(x) /\ Placed(x)
      BY <1>1 DEF Places
    <3> QED BY <1>1, <1>2, <1>5, <2>2, <3>1, <3>2 DEF Apart, Placed, Somewhere
  <2>9. Marks'
    BY <1>1, <2>4, MarksMove DEF Inv, Home
  <2> QED BY <1>1, <2>3, <2>5, <2>6, <2>7, <2>8, <2>9, SameCounts DEF Inv, Places
<1> QED BY <1>6, <1>7
LEMMA HandOverStep ==
  ASSUME Inv, NEW th \in Thread, HandOver(th)
  PROVE  Inv'
<1> DEFINE v == val[th]
           r == task[th]
<1>1. /\ pc[th] \in {"hand", "handAsync"} /\ Finish(th) /\ Types /\ Places
      /\ \/ Live(r) /\ status' = [status EXCEPT ![r] = "Succeeded"] /\ delivered' = delivered \cup {v} /\ swallowed' = swallowed
         \/ swallowed' = swallowed \cup {v} /\ status' = status /\ delivered' = delivered
      /\ UNCHANGED <<items, pendingSends, pendingReceives, removing, used,
                     alive, frames, worker, falseAlarm, swept>>
  BY DEF HandOver, Inv, envVars
<1>2. v \in Val /\ InHand(v) /\ v # None /\ r \in Recv
  BY <1>1, CarriesVal, Apartness DEF Carrying, Types, Hands
<1>3. /\ \A x \in Val : status'[x] = status[x]
      /\ \A x \in Recv : status'[x] = status[x] \/ (x = r /\ status'[x] = "Succeeded")
      /\ status' \in [Val \cup Recv -> {"absent", "Pending", "Succeeded", "Cancelled"}]
  BY <1>1, <1>2, Apartness DEF Types, TypeOK
<1>4. Set(th, Home(th), None, None) /\ Home(th) \notin {"checkSend", "checkReceive"} /\ HeldOnce
  BY <1>1 DEF Finish, Home, Places
<1>5. Types'
  <2>1. Hands' /\ pc' \in [Thread -> PCs] /\ val' \in [Thread -> Val \cup {None}]
        /\ task' \in [Thread -> Val \cup Recv \cup {None}]
    BY <1>1, FinishHands
  <2>2. Queues'
    BY <1>1, <1>3 DEF Types, Queues
  <2>3. TypeOK'
    BY <1>1, <1>2, <1>3, <2>1 DEF Types, TypeOK
  <2> QED BY <2>1, <2>2, <2>3 DEF Types
<1>6. Unlocked => Unlocked'
  BY <1>1, <1>4, SetUnlocked
<1>7. NoStuckPair'
  BY <1>1, <1>3, <1>5, PairKept DEF Inv, Types, Live
<1>8. HeldOnce' /\ \A x : x # None => (InHand(x)' <=> x = None \/ (InHand(x) /\ x # v))
  BY <1>1, <1>4, SetHolds
<1>9. ASSUME NEW x \in Val PROVE Apart(x)' /\ Placed(x)'
  <2>1. InHand(x)' <=> InHand(x) /\ x # v
    BY <1>8, Apartness
  <2>2. Apart(x) /\ Placed(x) /\ status'[x] = status[x]
    BY <1>1, <1>3 DEF Places
  <2>3. Apart(x)'
    BY <1>1, <1>2, <2>1, <2>2 DEF Apart
  <2>4. Placed(x)'
    BY <1>1, <1>2, <2>1, <2>2 DEF Placed, Somewhere
  <2> QED BY <2>3, <2>4
<1>10. Marks'
  <2>1. \A x \in Recv : status[x] = "Cancelled" => status'[x] = "Cancelled"
    BY <1>1, <1>2 DEF Types, TypeOK, Live
  <2> QED BY <1>1, <1>3, <1>4, <2>1, MarksMove DEF Inv, Home
<1> QED BY <1>1, <1>5, <1>6, <1>7, <1>8, <1>9, <1>10, SameCounts DEF Inv, Places

LEMMA ReturnStep ==
  ASSUME Inv, NEW th \in Thread, Return(th)
  PROVE  Inv'
<1> DEFINE v == val[th]
           s == task[th]
<1>1. /\ pc[th] \in {"took", "tookAsync"} /\ Finish(th) /\ Types /\ Places
      /\ status' = IF s # None /\ Live(s) THEN [status EXCEPT ![s] = "Succeeded"] ELSE status
      /\ delivered' = delivered \cup {v}
      /\ UNCHANGED <<items, pendingSends, pendingReceives, removing, used, swallowed,
                     alive, frames, worker, falseAlarm, swept>>
  BY DEF Return, Inv, envVars
<1>2. v \in Val /\ InHand(v) /\ v # None /\ s \in {None, v}
  BY <1>1, CarriesVal, Apartness DEF Carrying, Types, Hands
<1>3. /\ \A x \in Val : status'[x] = status[x] \/ (x = v /\ status'[x] = "Succeeded" /\ status[x] = "Pending")
      /\ \A x \in Recv : status'[x] = status[x]
      /\ status' \in [Val \cup Recv -> {"absent", "Pending", "Succeeded", "Cancelled"}]
  BY <1>1, <1>2, Apartness DEF Types, TypeOK, Live
<1>4. Set(th, Home(th), None, None) /\ Home(th) \notin {"checkSend", "checkReceive"} /\ HeldOnce
  BY <1>1 DEF Finish, Home, Places
<1>5. Apart(v) /\ Placed(v)
  BY <1>1, <1>2 DEF Places
<1>6. Types'
  <2>1. Hands' /\ pc' \in [Thread -> PCs] /\ val' \in [Thread -> Val \cup {None}]
        /\ task' \in [Thread -> Val \cup Recv \cup {None}]
    BY <1>1, FinishHands
  <2>2. ~Has(pendingSends, v)
    BY <1>2, <1>5 DEF Apart
  <2>3. Queues'
    BY <1>1, <1>3, <2>2 DEF Types, Queues
  <2>4. TypeOK'
    BY <1>1, <1>2, <1>3, <2>1 DEF Types, TypeOK
  <2> QED BY <2>1, <2>3, <2>4 DEF Types
<1>7. Unlocked => Unlocked'
  BY <1>1, <1>4, SetUnlocked
<1>8. NoStuckPair'
  BY <1>1, <1>3, <1>6, PairKept DEF Inv, Types, Live
<1>9. HeldOnce' /\ \A x : x # None => (InHand(x)' <=> x = None \/ (InHand(x) /\ x # v))
  BY <1>1, <1>4, SetHolds
<1>10. ASSUME NEW x \in Val PROVE Apart(x)' /\ Placed(x)'
  <2>1. InHand(x)' <=> InHand(x) /\ x # v
    BY <1>9, Apartness
  <2>2. Apart(x) /\ Placed(x)
    BY <1>1 DEF Places
  <2>3. Apart(x)'
    BY <1>1, <1>2, <2>1, <2>2 DEF Apart
  <2>4. Placed(x)'
    BY <1>1, <1>2, <1>3, <1>5, <2>1, <2>2 DEF Placed, Somewhere
  <2> QED BY <2>3, <2>4
<1>11. Marks'
  BY <1>1, <1>3, <1>4, MarksMove DEF Inv, Home
<1> QED BY <1>1, <1>6, <1>7, <1>8, <1>9, <1>10, <1>11, SameCounts DEF Inv, Places

LEMMA ReceiveTryStep ==
  ASSUME Inv, NEW th \in Thread, ReceiveTry(th)
  PROVE  Inv'
<1> DEFINE h == Head(items)
           s == pendingSends[First(pendingSends)]
<1>1. /\ pc[th] = "receive" /\ (items # <<>> \/ Ready(pendingSends)) /\ Types /\ Places
      /\ IF items # <<>> THEN Set(th, "took", h, None) /\ items' = Tail(items) /\ UNCHANGED pendingSends
                         ELSE Set(th, "took", s, s) /\ pendingSends' = Rest(pendingSends) /\ UNCHANGED items
      /\ UNCHANGED <<pendingReceives, status, removing, used, delivered, swallowed,
                     alive, frames, worker, falseAlarm, swept>>
  BY DEF ReceiveTry, Inv, dataVars, envVars
<1>2. val[th] = None /\ HeldOnce /\ items \in Seq(Val) /\ pendingSends \in Seq(Val)
      /\ Distinct(items) /\ Distinct(pendingSends) /\ Len(items) \in Nat
  BY <1>1, CarriesVal DEF Carrying, Places, Types, TypeOK, Queues
<1>3. CASE items # <<>>
  <2>1. Set(th, "took", h, None) /\ items' = Tail(items) /\ UNCHANGED pendingSends
    BY <1>1, <1>3
  <2>2. /\ h \in Val /\ items' \in Seq(Val) /\ Len(items') = Len(items) - 1 /\ Distinct(items')
        /\ \A x : Has(items, x) <=> x = h \/ Has(items', x)
        /\ ~Has(items', h)
    BY <1>2, <1>3, <2>1, HasTail
  <2>3. Apart(h) /\ Placed(h) /\ ~InHand(h) /\ Has(items, h)
    BY <1>1, <2>2 DEF Places, Apart
  <2>4. Types'
    <3>1. Hands' /\ pc' \in [Thread -> PCs] /\ val' \in [Thread -> Val \cup {None}]
          /\ task' \in [Thread -> Val \cup Recv \cup {None}]
      BY <1>1, <2>1, <2>2, SetHands, Apartness DEF PCs, Carrying
    <3>2. Len(items') <= Capacity
      BY <1>1, <1>2, <2>2, Apartness DEF Types, TypeOK
    <3> QED BY <1>1, <2>1, <2>2, <3>1, <3>2 DEF Types, TypeOK, Queues
  <2>5. Unlocked => Unlocked'
    BY <1>1, <2>1, SetUnlocked
  <2>6. NoStuckPair'
    BY <1>1, <1>3, <2>1, <2>4, PairKept DEF Inv, Types, Live
  <2>7. HeldOnce' /\ \A x : x # None => (InHand(x)' <=> x = h \/ (InHand(x) /\ x # None))
    BY <1>1, <1>2, <2>1, <2>3, SetHolds
  <2>8. ASSUME NEW x \in Val PROVE Apart(x)' /\ Placed(x)'
    <3>1. InHand(x)' <=> x = h \/ InHand(x)
      BY <2>7, Apartness
    <3>2. Apart(x) /\ Placed(x)
      BY <1>1 DEF Places
    <3>3. Apart(x)'
      BY <1>1, <2>1, <2>2, <2>3, <3>1, <3>2 DEF Apart
    <3>4. Placed(x)'
      BY <1>1, <2>1, <2>2, <2>3, <3>1, <3>2 DEF Placed, Somewhere
    <3> QED BY <3>3, <3>4
  <2>9. Marks'
    BY <1>1, <2>1, MarksMove DEF Inv
  <2> QED BY <1>1, <2>4, <2>5, <2>6, <2>7, <2>8, <2>9, SameCounts DEF Inv, Places
<1>4. CASE items = <<>>
  <2>1. Set(th, "took", s, s) /\ pendingSends' = Rest(pendingSends) /\ UNCHANGED items /\ Ready(pendingSends)
    BY <1>1, <1>4
  <2>2. /\ s \in Val /\ Has(pendingSends, s) /\ pendingSends' \in Seq(Val) /\ Distinct(pendingSends')
        /\ \A x : Has(pendingSends', x) => Has(pendingSends, x)
        /\ \A x : Has(pendingSends, x) /\ Live(x) /\ x # s => Has(pendingSends', x)
        /\ ~Has(pendingSends', s)
    BY <1>2, <2>1, RestKeeps
  <2>3. Apart(s) /\ Placed(s) /\ ~InHand(s)
    BY <1>1, <2>2 DEF Places, Apart
  <2>4. Types'
    <3>1. Hands' /\ pc' \in [Thread -> PCs] /\ val' \in [Thread -> Val \cup {None}]
          /\ task' \in [Thread -> Val \cup Recv \cup {None}]
      BY <1>1, <2>1, <2>2, SetHands, Apartness DEF PCs, Carrying
    <3> QED BY <1>1, <2>1, <2>2, <3>1 DEF Types, TypeOK, Queues
  <2>5. Unlocked => Unlocked'
    BY <1>1, <2>1, SetUnlocked
  <2>6. NoStuckPair'
    BY <1>1, <2>1, <2>2, <2>4, PairKept DEF Inv, Types, Live
  <2>7. HeldOnce' /\ \A x : x # None => (InHand(x)' <=> x = s \/ (InHand(x) /\ x # None))
    BY <1>1, <1>2, <2>1, <2>3, SetHolds
  <2>8. ASSUME NEW x \in Val PROVE Apart(x)' /\ Placed(x)'
    <3>1. InHand(x)' <=> x = s \/ InHand(x)
      BY <2>7, Apartness
    <3>2. Apart(x) /\ Placed(x) /\ (Has(pendingSends, x) => status[x] \in {"Pending", "Cancelled"})
      BY <1>1 DEF Places, Types, Queues
    <3>3. Apart(x)'
      BY <1>1, <2>1, <2>2, <2>3, <3>1, <3>2 DEF Apart
    <3>4. Placed(x)'
      BY <1>1, <2>1, <2>2, <2>3, <3>1, <3>2 DEF Placed, Somewhere, Live
    <3> QED BY <3>3, <3>4
  <2>9. Marks'
    BY <1>1, <2>1, MarksMove DEF Inv
  <2> QED BY <1>1, <2>4, <2>5, <2>6, <2>7, <2>8, <2>9, SameCounts DEF Inv, Places
<1> QED BY <1>3, <1>4
LEMMA SendAsyncStep ==
  ASSUME Inv, NEW th \in Thread, NEW v \in Val, sendAsync(th, v)
  PROVE  Inv'
<1> DEFINE r == pendingReceives[First(pendingReceives)]
           w == Ready(pendingReceives)
           Handed   == w /\ status' = [status EXCEPT ![v] = "Succeeded"] /\ Set(th, "handAsync", v, r)
                         /\ UNCHANGED <<items, pendingSends>>
           Buffered == ~w /\ ~Full /\ status' = [status EXCEPT ![v] = "Succeeded"]
                         /\ items' = Append(items, v) /\ UNCHANGED <<pendingSends, pc, val, task>>
           Queued   == ~w /\ status' = [status EXCEPT ![v] = "Pending"]
                         /\ pendingSends' = Append(pendingSends, v) /\ UNCHANGED <<items, pc, val, task>>
<1>1. /\ pc[th] \in {"idle", "run"} /\ v \notin used /\ used' = used \cup {v} /\ Types /\ Places
      /\ pendingReceives' = Rest(pendingReceives)
      /\ UNCHANGED <<removing, delivered, swallowed, alive, frames, worker, falseAlarm, swept>>
  BY DEF sendAsync, Inv, envVars, MayCall
<1>2. Handed \/ Buffered \/ Queued
  BY DEF sendAsync, opVars
<1>3. val[th] = None /\ HeldOnce /\ items \in Seq(Val) /\ pendingSends \in Seq(Val)
      /\ Distinct(items) /\ Distinct(pendingSends) /\ Len(items) \in Nat /\ Len(items) <= Capacity
  BY <1>1, CarriesVal DEF Carrying, Places, Types, TypeOK, Queues
<1>4. ~Has(items, v) /\ ~Has(pendingSends, v) /\ ~InHand(v) /\ v \notin delivered /\ v \notin swallowed
  BY <1>1 DEF Places, Placed, Somewhere
<1>5. /\ pendingReceives \in Seq(Recv) /\ pendingReceives' \in Seq(Recv) /\ Distinct(pendingReceives')
      /\ \A x : Has(pendingReceives', x) => Has(pendingReceives, x)
  BY <1>1, RestType DEF Types, TypeOK, Queues
<1>6. w => r \in Recv
  BY <1>5, RestKeeps
<1>7. /\ \A x \in Val \cup Recv : x # v => status'[x] = status[x]
      /\ status' \in [Val \cup Recv -> {"absent", "Pending", "Succeeded", "Cancelled"}]
      /\ \A x \in Recv : status'[x] = status[x]
      /\ status'[v] \in {"Succeeded", "Pending"}
  BY <1>1, <1>2, Apartness DEF Types, TypeOK
<1>8. \A x \in Val : Apart(x) /\ Placed(x)
  BY <1>1 DEF Places
<1>9. /\ \A x \in Val : status[x] = "absent" /\ InHand(x) => status'[x] = "absent"
      /\ \A x \in Val \cup Recv : status[x] = "Cancelled" => status'[x] = "Cancelled"
  BY <1>1, <1>4, <1>7, <1>8 DEF Placed
<1>10. CASE Handed
  <2>1. Types'
    <3>1. Hands' /\ pc' \in [Thread -> PCs] /\ val' \in [Thread -> Val \cup {None}]
          /\ task' \in [Thread -> Val \cup Recv \cup {None}]
      BY <1>1, <1>6, <1>10, SetHands, Apartness DEF PCs, Carrying
    <3>2. Queues'
      BY <1>1, <1>4, <1>5, <1>7, <1>10 DEF Types, Queues
    <3>3. TypeOK'
      BY <1>1, <1>5, <1>7, <1>10, <3>1 DEF Types, TypeOK
    <3> QED BY <3>1, <3>2, <3>3 DEF Types
  <2>2. Unlocked => Unlocked'
    BY <1>1, <1>10, SetUnlocked
  <2>3. NoStuckPair'
    BY <1>1, <1>4, <1>5, <1>7, <1>10, <2>1, PairKept DEF Inv, Types, Live
  <2>4. HeldOnce' /\ \A x : x # None => (InHand(x)' <=> x = v \/ (InHand(x) /\ x # None))
    BY <1>1, <1>3, <1>4, <1>10, SetHolds
  <2>5. ASSUME NEW x \in Val PROVE Apart(x)' /\ Placed(x)'
    <3>1. InHand(x)' <=> x = v \/ InHand(x)
      BY <2>4, Apartness
    <3>2. Apart(x)'
      BY <1>1, <1>4, <1>8, <1>10, <3>1 DEF Apart
    <3>3. Placed(x)'
      BY <1>1, <1>4, <1>7, <1>8, <1>10, <3>1 DEF Placed, Somewhere
    <3> QED BY <3>2, <3>3
  <2>6. Marks'
    <3>1. Types /\ Marks /\ Set(th, "handAsync", v, r) /\ UNCHANGED removing
      BY <1>1, <1>10 DEF Inv
    <3> QED BY ONLY <1>9, <3>1, MarksMove, th \in Thread
  <2> QED BY <1>1, <2>1, <2>2, <2>3, <2>4, <2>5, <2>6, SameCounts DEF Inv, Places
<1>11. CASE Buffered
  <2>1. /\ items' \in Seq(Val) /\ Len(items') <= Capacity /\ Distinct(items')
        /\ \A x : Has(items', x) <=> x = v \/ Has(items, x)
    BY <1>3, <1>4, <1>11, HasAppend, Apartness DEF Full
  <2>2. pendingReceives' = <<>>
    BY <1>1, <1>11, RestEmpty
  <2>3. Types'
    <3>1. Queues'
      BY <1>1, <1>4, <1>5, <1>7, <1>11, <2>1 DEF Types, Queues
    <3>2. TypeOK' /\ Hands'
      BY <1>1, <1>5, <1>7, <1>11, <2>1 DEF Types, TypeOK, Hands
    <3> QED BY <3>1, <3>2 DEF Types
  <2>4. (Unlocked => Unlocked') /\ HeldOnce' /\ \A x : InHand(x)' <=> InHand(x)
    BY <1>3, <1>11 DEF Unlocked, HeldOnce, InHand
  <2>5. ASSUME NEW x \in Val PROVE Apart(x)' /\ Placed(x)'
    <3>1. Apart(x)'
      BY <1>1, <1>4, <1>8, <1>11, <2>1, <2>4 DEF Apart
    <3>2. Placed(x)'
      BY <1>1, <1>4, <1>7, <1>8, <1>11, <2>1, <2>4 DEF Placed, Somewhere
    <3> QED BY <3>1, <3>2
  <2>6. Marks'
    <3>1. Types /\ Marks /\ UNCHANGED <<pc, val, removing>>
      BY <1>1, <1>11 DEF Inv
    <3> QED BY ONLY <1>9, <3>1, MarksStay
  <2> QED BY <1>1, <2>2, <2>3, <2>4, <2>5, <2>6, SameCounts, PairAbsent DEF Inv, Places
<1>12. CASE Queued
  <2>1. /\ pendingSends' \in Seq(Val) /\ Distinct(pendingSends')
        /\ \A x : Has(pendingSends', x) <=> x = v \/ Has(pendingSends, x)
    BY <1>3, <1>4, <1>12, HasAppend
  <2>2. pendingReceives' = <<>>
    BY <1>1, <1>12, RestEmpty
  <2>3. Types'
    <3>1. status'[v] = "Pending"
      BY <1>1, <1>12 DEF Types, TypeOK
    <3>2. Queues'
      BY <1>1, <1>5, <1>7, <1>12, <2>1, <3>1 DEF Types, Queues
    <3>3. TypeOK' /\ Hands'
      BY <1>1, <1>5, <1>7, <1>12, <2>1 DEF Types, TypeOK, Hands
    <3> QED BY <3>2, <3>3 DEF Types
  <2>4. (Unlocked => Unlocked') /\ HeldOnce' /\ \A x : InHand(x)' <=> InHand(x)
    BY <1>3, <1>12 DEF Unlocked, HeldOnce, InHand
  <2>5. ASSUME NEW x \in Val PROVE Apart(x)' /\ Placed(x)'
    <3>1. Apart(x)'
      BY <1>1, <1>4, <1>8, <1>12, <2>1, <2>4 DEF Apart
    <3>2. Placed(x)'
      BY <1>1, <1>4, <1>7, <1>8, <1>12, <2>1, <2>4 DEF Placed, Somewhere
    <3> QED BY <3>1, <3>2
  <2>6. Marks'
    <3>1. Types /\ Marks /\ UNCHANGED <<pc, val, removing>>
      BY <1>1, <1>12 DEF Inv
    <3> QED BY ONLY <1>9, <3>1, MarksStay
  <2> QED BY <1>1, <2>2, <2>3, <2>4, <2>5, <2>6, SameCounts, PairAbsent DEF Inv, Places
<1> QED BY <1>2, <1>10, <1>11, <1>12

LEMMA ReceiveAsyncStep ==
  ASSUME Inv, NEW th \in Thread, NEW r \in Recv, receiveAsync(th, r)
  PROVE  Inv'
<1> DEFINE s == pendingSends[First(pendingSends)]
           Buffered == items # <<>> /\ items' = Tail(items) /\ delivered' = delivered \cup {Head(items)}
                         /\ status' = [status EXCEPT ![r] = "Succeeded"]
                         /\ UNCHANGED <<pendingSends, pendingReceives, pc, val, task>>
           Taken    == items = <<>> /\ Ready(pendingSends) /\ Set(th, "tookAsync", s, s)
                         /\ pendingSends' = Rest(pendingSends) /\ status' = [status EXCEPT ![r] = "Succeeded"]
                         /\ UNCHANGED <<items, pendingReceives, delivered>>
           Queued   == items = <<>> /\ ~Ready(pendingSends) /\ status' = [status EXCEPT ![r] = "Pending"]
                         /\ pendingReceives' = Append(pendingReceives, r) /\ pendingSends' = <<>>
                         /\ UNCHANGED <<items, delivered, pc, val, task>>
<1>1. /\ pc[th] \in {"idle", "run"} /\ status[r] = "absent" /\ Types /\ Places
      /\ UNCHANGED <<removing, used, swallowed, alive, frames, worker, falseAlarm, swept>>
  BY DEF receiveAsync, Inv, envVars, MayCall
<1>2. Buffered \/ Taken \/ Queued
  BY DEF receiveAsync, opVars
<1>3. val[th] = None /\ HeldOnce /\ items \in Seq(Val) /\ pendingSends \in Seq(Val)
      /\ Distinct(items) /\ Distinct(pendingSends) /\ Len(items) \in Nat /\ Len(items) <= Capacity
      /\ pendingReceives \in Seq(Recv) /\ Distinct(pendingReceives)
  BY <1>1, CarriesVal DEF Carrying, Places, Types, TypeOK, Queues
<1>4. ~Has(pendingReceives, r)
  BY <1>1 DEF Types, Queues
<1>5. /\ \A x \in Val \cup Recv : x # r => status'[x] = status[x]
      /\ status' \in [Val \cup Recv -> {"absent", "Pending", "Succeeded", "Cancelled"}]
      /\ \A x \in Val : status'[x] = status[x]
      /\ status'[r] \in {"Succeeded", "Pending"}
  BY <1>1, <1>2, Apartness DEF Types, TypeOK
<1>6. \A x \in Val : Apart(x) /\ Placed(x)
  BY <1>1 DEF Places
<1>7. /\ \A x \in Val : status[x] = "absent" /\ InHand(x) => status'[x] = "absent"
      /\ \A x \in Val \cup Recv : status[x] = "Cancelled" => status'[x] = "Cancelled"
  BY <1>1, <1>5
<1>8. CASE Buffered
  <2> DEFINE h == Head(items)
  <2>1. /\ h \in Val /\ items' \in Seq(Val) /\ Len(items') = Len(items) - 1 /\ Distinct(items')
        /\ \A x : Has(items, x) <=> x = h \/ Has(items', x)
        /\ ~Has(items', h)
    BY <1>3, <1>8, HasTail
  <2>2. Apart(h) /\ Has(items, h)
    BY <1>6, <2>1
  <2>3. Types'
    <3>1. Len(items') <= Capacity
      BY <1>3, <2>1, Apartness
    <3>2. Queues'
      BY <1>1, <1>3, <1>5, <1>8, <2>1 DEF Types, Queues
    <3>3. TypeOK' /\ Hands'
      BY <1>1, <1>5, <1>8, <2>1, <3>1 DEF Types, TypeOK, Hands
    <3> QED BY <3>2, <3>3 DEF Types
  <2>4. (Unlocked => Unlocked') /\ HeldOnce' /\ \A x : InHand(x)' <=> InHand(x)
    BY <1>3, <1>8 DEF Unlocked, HeldOnce, InHand
  <2>5. NoStuckPair'
    BY <1>1, <1>4, <1>5, <1>8, <2>3, PairKept DEF Inv, Types, Live
  <2>6. ASSUME NEW x \in Val PROVE Apart(x)' /\ Placed(x)'
    <3>1. Apart(x)'
      BY <1>1, <1>6, <1>8, <2>1, <2>2, <2>4 DEF Apart
    <3>2. Placed(x)'
      BY <1>1, <1>5, <1>6, <1>8, <2>1, <2>2, <2>4 DEF Placed, Somewhere
    <3> QED BY <3>1, <3>2
  <2>7. Marks'
    BY <1>1, <1>7, <1>8, MarksStay DEF Inv
  <2> QED BY <1>1, <2>3, <2>4, <2>5, <2>6, <2>7, SameCounts DEF Inv, Places
<1>9. CASE Taken
  <2>1. /\ s \in Val /\ Has(pendingSends, s) /\ pendingSends' \in Seq(Val) /\ Distinct(pendingSends')
        /\ \A x : Has(pendingSends', x) => Has(pendingSends, x)
        /\ \A x : Has(pendingSends, x) /\ Live(x) /\ x # s => Has(pendingSends', x)
        /\ ~Has(pendingSends', s)
    BY <1>3, <1>9, RestKeeps
  <2>2. Apart(s) /\ Placed(s) /\ ~InHand(s)
    BY <1>6, <2>1 DEF Apart
  <2>3. Types'
    <3>1. Hands' /\ pc' \in [Thread -> PCs] /\ val' \in [Thread -> Val \cup {None}]
          /\ task' \in [Thread -> Val \cup Recv \cup {None}]
      BY <1>1, <1>9, <2>1, SetHands, Apartness DEF PCs, Carrying
    <3>2. Queues'
      BY <1>1, <1>3, <1>5, <1>9, <2>1 DEF Types, Queues
    <3>3. TypeOK'
      BY <1>1, <1>5, <1>9, <2>1, <3>1 DEF Types, TypeOK
    <3> QED BY <3>1, <3>2, <3>3 DEF Types
  <2>4. Unlocked => Unlocked'
    BY <1>1, <1>9, SetUnlocked
  <2>5. NoStuckPair'
    BY <1>1, <1>4, <1>5, <1>9, <2>1, <2>3, PairKept DEF Inv, Types, Live
  <2>6. HeldOnce' /\ \A x : x # None => (InHand(x)' <=> x = s \/ (InHand(x) /\ x # None))
    BY <1>1, <1>3, <1>9, <2>2, SetHolds
  <2>7. ASSUME NEW x \in Val PROVE Apart(x)' /\ Placed(x)'
    <3>1. InHand(x)' <=> x = s \/ InHand(x)
      BY <2>6, Apartness
    <3>2. Has(pendingSends, x) => status[x] \in {"Pending", "Cancelled"}
      BY <1>1 DEF Types, Queues
    <3>3. Apart(x)'
      BY <1>1, <1>6, <1>9, <2>1, <2>2, <3>1 DEF Apart
    <3>4. Placed(x)'
      BY <1>1, <1>5, <1>6, <1>9, <2>1, <2>2, <3>1, <3>2 DEF Placed, Somewhere, Live
    <3> QED BY <3>3, <3>4
  <2>8. Marks'
    BY <1>1, <1>7, <1>9, MarksMove DEF Inv
  <2> QED BY <1>1, <2>3, <2>4, <2>5, <2>6, <2>7, <2>8, SameCounts DEF Inv, Places
<1>10. CASE Queued
  <2>1. /\ pendingReceives' \in Seq(Recv) /\ Distinct(pendingReceives')
        /\ \A x : Has(pendingReceives', x) <=> x = r \/ Has(pendingReceives, x)
    BY <1>3, <1>4, <1>10, HasAppend
  <2>2. \A x : ~Has(pendingSends', x)
    BY <1>10, HasEmpty
  <2>3. \A x \in Val : Has(pendingSends, x) => status[x] = "Cancelled"
    BY <1>1, <1>3, <1>10, ReadyHas DEF Types, Queues, Live
  <2>4. Types'
    <3>1. Distinct(pendingSends') /\ pendingSends' \in Seq(Val)
      BY <1>10, HasEmpty
    <3>2. Queues'
      BY <1>1, <1>3, <1>5, <1>10, <2>1, <2>2, <3>1 DEF Types, Queues
    <3>3. TypeOK' /\ Hands'
      BY <1>1, <1>5, <1>10, <2>1, <3>1 DEF Types, TypeOK, Hands
    <3> QED BY <3>2, <3>3 DEF Types
  <2>5. (Unlocked => Unlocked') /\ HeldOnce' /\ \A x : InHand(x)' <=> InHand(x)
    BY <1>3, <1>10 DEF Unlocked, HeldOnce, InHand
  <2>6. NoStuckPair'
    BY <1>10 DEF NoStuckPair, Ready, LiveAt
  <2>7. ASSUME NEW x \in Val PROVE Apart(x)' /\ Placed(x)'
    <3>1. Apart(x)'
      BY <1>1, <1>6, <1>10, <2>2, <2>5 DEF Apart
    <3>2. Placed(x)'
      BY <1>1, <1>5, <1>6, <1>10, <2>2, <2>3, <2>5 DEF Placed, Somewhere
    <3> QED BY <3>1, <3>2
  <2>8. Marks'
    BY <1>1, <1>7, <1>10, MarksStay DEF Inv
  <2> QED BY <1>1, <2>4, <2>5, <2>6, <2>7, <2>8, SameCounts DEF Inv, Places
<1> QED BY <1>2, <1>8, <1>9, <1>10
LEMMA CancelStep ==
  ASSUME Inv, NEW th \in Thread, NEW t \in Val \cup Recv, Cancel(th, t)
  PROVE  Inv'
<1>1. /\ Live(t) /\ status' = [status EXCEPT ![t] = "Cancelled"] /\ removing' = removing \cup {t} /\ Types /\ Places
      /\ UNCHANGED <<items, pendingSends, pendingReceives, pc, val, task, used, delivered, swallowed,
                     alive, frames, worker, falseAlarm, swept>>
  BY DEF Cancel, Inv, opVars, dataVars, envVars
<1>2. /\ status' \in [Val \cup Recv -> {"absent", "Pending", "Succeeded", "Cancelled"}]
      /\ \A x \in Val \cup Recv : status'[x] = status[x] \/ (status[x] = "Pending" /\ status'[x] = "Cancelled")
  BY <1>1 DEF Types, TypeOK, Live
<1>3. Types'
  <2>1. Queues'
    BY <1>1, <1>2 DEF Types, Queues
  <2>2. TypeOK' /\ Hands'
    BY <1>1, <1>2 DEF Types, TypeOK, Hands
  <2> QED BY <2>1, <2>2 DEF Types
<1>4. (Unlocked => Unlocked') /\ HeldOnce' /\ \A x : InHand(x)' <=> InHand(x)
  BY <1>1 DEF Unlocked, HeldOnce, InHand, Places
<1>5. NoStuckPair'
  BY <1>1, <1>2, <1>3, PairKept DEF Inv, Types, Live
<1>6. ASSUME NEW x \in Val PROVE Apart(x)' /\ Placed(x)'
  <2>1. Apart(x) /\ Placed(x)
    BY <1>1 DEF Places
  <2>2. Apart(x)'
    BY <1>1, <1>4, <2>1 DEF Apart
  <2>3. Placed(x)'
    BY <1>1, <1>2, <1>4, <2>1 DEF Placed, Somewhere
  <2> QED BY <2>2, <2>3
<1>7. Marks'
  <2>1. \A x \in Thread : pc[x] \in {"send", "checkSend"} => val[x] \in Val
    BY <1>1, CarriesVal DEF Carrying
  <2>2. status'[t] = "Cancelled" /\ removing \subseteq Val \cup Recv
    BY <1>1 DEF Types, TypeOK
  <2> QED BY <1>1, <1>2, <2>1, <2>2 DEF Inv, Marks
<1> QED BY <1>1, <1>3, <1>4, <1>5, <1>6, <1>7, SameCounts DEF Inv, Places

\* The hook's task was cancelled, so taking it out loses nothing that still counts.
LEMMA RemoveWaiterStep ==
  ASSUME Inv, NEW t \in Val \cup Recv, RemoveWaiter(t)
  PROVE  Inv'
<1>1. /\ t \in removing /\ removing' = removing \ {t} /\ Types /\ Places /\ Marks
      /\ pendingSends' = Without(pendingSends, t) /\ pendingReceives' = Without(pendingReceives, t)
      /\ UNCHANGED <<items, status, pc, val, task, used, delivered, swallowed,
                     alive, frames, worker, falseAlarm, swept>>
  BY DEF RemoveWaiter, Inv, opVars, dataVars, envVars
<1>2. status[t] = "Cancelled"
  BY <1>1 DEF Marks
<1>3. /\ pendingSends' \in Seq(Val) /\ Distinct(pendingSends')
      /\ \A x : Has(pendingSends', x) <=> Has(pendingSends, x) /\ x # t
  BY <1>1, WithoutKeeps DEF Types, TypeOK, Queues
<1>4. /\ pendingReceives' \in Seq(Recv) /\ Distinct(pendingReceives')
      /\ \A x : Has(pendingReceives', x) <=> Has(pendingReceives, x) /\ x # t
  BY <1>1, WithoutKeeps DEF Types, TypeOK, Queues
<1>5. Types'
  <2>1. Queues'
    BY <1>1, <1>3, <1>4 DEF Types, Queues
  <2>2. TypeOK' /\ Hands'
    BY <1>1, <1>3, <1>4 DEF Types, TypeOK, Hands
  <2> QED BY <2>1, <2>2 DEF Types
<1>6. (Unlocked => Unlocked') /\ HeldOnce' /\ \A x : InHand(x)' <=> InHand(x)
  BY <1>1 DEF Unlocked, HeldOnce, InHand, Places
<1>7. NoStuckPair'
  BY <1>1, <1>3, <1>4, <1>5, PairKept DEF Inv, Types, Live
<1>8. ASSUME NEW x \in Val PROVE Apart(x)' /\ Placed(x)'
  <2>1. Apart(x) /\ Placed(x)
    BY <1>1 DEF Places
  <2>2. Apart(x)'
    BY <1>1, <1>3, <1>6, <2>1 DEF Apart
  <2>3. Placed(x)'
    BY <1>1, <1>2, <1>3, <1>6, <2>1 DEF Placed, Somewhere
  <2> QED BY <2>2, <2>3
<1>9. Marks'
  BY <1>1 DEF Marks
<1> QED BY <1>1, <1>5, <1>6, <1>7, <1>8, <1>9, SameCounts DEF Inv, Places

LEMMA CollectStep ==
  ASSUME Inv, NEW th \in Thread, Collect(th)
  PROVE  Inv'
<1>1. UNCHANGED <<items, pendingSends, pendingReceives, status, removing, pc, val, task,
                  used, delivered, swallowed, alive, frames, worker, falseAlarm>>
  BY DEF Collect, chanVars, opVars, dataVars, envVars
<1>2. swept' \subseteq Val
  <2>1. \A x \in Thread : pc[x] = "took" => val[x] \in Val
    BY CarriesVal DEF Inv, Carrying
  <2> QED BY <2>1 DEF Collect, Inv, Types, TypeOK
<1>3. Types'
  BY <1>1, <1>2 DEF Inv, Types, TypeOK, Hands, Queues
<1>4. Counts'
  BY <1>1 DEF Inv, Counts, Acting, Unlocked
<1>5. NoStuckPair'
  BY <1>1 DEF Inv, NoStuckPair, Ready, LiveAt, Live
<1>6. Places'
  BY <1>1 DEF Inv, Places, HeldOnce, Apart, Placed, Somewhere, InHand
<1>7. Marks'
  BY <1>1 DEF Inv, Marks
<1> QED BY <1>3, <1>4, <1>5, <1>6, <1>7 DEF Inv

\* What the steps of the workers and of the frames leave alone.
LEMMA SameChannel ==
  ASSUME Inv, UNCHANGED <<items, pendingSends, pendingReceives, status, removing, val, used, delivered, swallowed>>,
         \A th \in Thread : pc'[th] \in {"send", "checkSend"} => pc[th] \in {"send", "checkSend"}
  PROVE  NoStuckPair' /\ Places' /\ Marks'
<1>1. NoStuckPair'
  BY DEF Inv, NoStuckPair, Ready, LiveAt, Live
<1>2. Places'
  BY DEF Inv, Places, HeldOnce, Apart, Placed, Somewhere, InHand
<1>3. Marks'
  BY DEF Inv, Marks
<1> QED BY <1>1, <1>2, <1>3

LEMMA WorkerStep ==
  ASSUME Inv, NEW w \in Worker, StartWorker(w) \/ WakeFrame(w) \/ EndWorker(w)
  PROVE  Inv'
<1>1. UNCHANGED <<items, pendingSends, pendingReceives, status, removing, pc, val, task,
                  used, delivered, swallowed, falseAlarm, swept>>
  BY DEF StartWorker, WakeFrame, EndWorker, chanVars, opVars, dataVars
<1>2. /\ alive \in Nat /\ frames \in Nat /\ worker \in [Worker -> {"new", "run", "woke", "gone"}]
      /\ alive = Cardinality(Acting) /\ (~Unlocked => Acting = {}) /\ ~falseAlarm
  BY DEF Inv, Types, TypeOK, Counts
<1>3. CASE StartWorker(w)
  <2>1. /\ worker' = [worker EXCEPT ![w] = "run"] /\ alive' = alive + 1 /\ frames' = frames
        /\ worker[w] = "new" /\ Unlocked
    BY <1>3 DEF StartWorker, MayCall, MayStep
  <2>2. Acting' = Acting \cup {w} /\ w \notin Acting
    BY <1>2, <2>1 DEF Acting
  <2>3. Cardinality(Acting') = alive'
    BY <1>2, <2>1, <2>2, ActingFinite, FS_AddElement
  <2>4. Counts'
    BY <1>1, <1>2, <2>1, <2>3 DEF Counts, Unlocked
  <2>5. Types'
    BY <1>1, <1>2, <2>1 DEF Inv, Types, TypeOK, Hands, Queues
  <2> QED BY <1>1, <2>4, <2>5, SameChannel DEF Inv
<1>4. CASE WakeFrame(w)
  <2>1. /\ worker' = [worker EXCEPT ![w] = "woke"] /\ alive' = alive /\ frames' = frames + 1 /\ worker[w] = "run"
    BY <1>4 DEF WakeFrame
  <2>2. Acting' = Acting
    BY <1>2, <2>1 DEF Acting
  <2>3. Counts'
    BY <1>1, <1>2, <2>1, <2>2 DEF Counts, Unlocked
  <2>4. Types'
    BY <1>1, <1>2, <2>1 DEF Inv, Types, TypeOK, Hands, Queues
  <2> QED BY <1>1, <2>3, <2>4, SameChannel DEF Inv
<1>5. CASE EndWorker(w)
  <2>1. /\ worker' = [worker EXCEPT ![w] = "gone"] /\ alive' = alive - 1 /\ frames' = frames
        /\ worker[w] \in {"run", "woke"}
    BY <1>5 DEF EndWorker
  <2>2. Acting' = Acting \ {w} /\ w \in Acting
    BY <1>2, <2>1 DEF Acting
  <2>3. Cardinality(Acting') = alive' /\ Cardinality(Acting') \in Nat
    <3>1. IsFiniteSet(Acting \ {w}) /\ Cardinality(Acting \ {w}) = Cardinality(Acting) - 1
      BY <2>2, ActingFinite, FS_RemoveElement
    <3> QED BY <1>2, <2>1, <2>2, <3>1, FS_CardinalityType
  <2>4. Counts'
    BY <1>1, <1>2, <2>2, <2>3 DEF Counts, Unlocked
  <2>5. Types'
    BY <1>1, <1>2, <2>1, <2>3 DEF Inv, Types, TypeOK, Hands, Queues
  <2> QED BY <1>1, <2>4, <2>5, SameChannel DEF Inv
<1> QED BY <1>3, <1>4, <1>5

\* A frame's queue and its turn on the main thread.
LEMMA FrameStep ==
  ASSUME Inv, pumpSchedulerOne \/ FrameEnds
  PROVE  Inv'
<1>1. /\ UNCHANGED <<items, pendingSends, pendingReceives, status, removing, val, task,
                     used, delivered, swallowed, alive, worker, falseAlarm, swept>>
      /\ frames' = frames \/ (frames > 0 /\ frames' = frames - 1)
      /\ \E p \in {"idle", "run"} : pc' = [pc EXCEPT ![Frame] = p]
      /\ pc[Frame] \in {"idle", "run"}
  BY DEF pumpSchedulerOne, FrameEnds, chanVars, dataVars, envVars
<1>2. frames \in Nat /\ pc \in [Thread -> PCs] /\ Frame \in Thread /\ Main \in Thread /\ Frame # Main
  BY DEF Inv, Types, TypeOK, Thread, Frame, Main
<1>3. frames' \in Nat
  BY <1>1, <1>2
<1>4. /\ pc' \in [Thread -> PCs] /\ pc'[Frame] \in {"idle", "run"}
      /\ \A x \in Thread : x # Frame => pc'[x] = pc[x]
  BY <1>1, <1>2 DEF PCs
<1>5. Hands'
  BY <1>1, <1>4 DEF Inv, Types, Hands, Carrying
<1>6. Types'
  BY <1>1, <1>3, <1>4, <1>5 DEF Inv, Types, TypeOK, Queues
<1>7. Counts'
  BY <1>1, <1>2, <1>4 DEF Inv, Counts, Acting, Unlocked
<1> QED BY <1>1, <1>4, <1>6, <1>7, SameChannel DEF Inv

\* The check begins only with no worker counted, and then no worker starts before it ends.
LEMMA CheckWorkersStep == ASSUME Inv, CheckWorkers PROVE Inv'
<1> DEFINE p == IF pc[Main] = "send" THEN "checkSend" ELSE "checkReceive"
<1>1. /\ UNCHANGED <<items, pendingSends, pendingReceives, status, removing, val, task,
                     used, delivered, swallowed, alive, frames, worker, falseAlarm, swept>>
      /\ pc' = [pc EXCEPT ![Main] = p] /\ alive = 0 /\ pc[Main] \in {"send", "receive"}
  BY DEF CheckWorkers, Blocked, chanVars, dataVars, envVars
<1>2. pc \in [Thread -> PCs] /\ Main \in Thread
  BY DEF Inv, Types, TypeOK, Thread
<1>3. /\ pc' \in [Thread -> PCs] /\ pc'[Main] = p /\ \A x \in Thread : x # Main => pc'[x] = pc[x]
  BY <1>1, <1>2 DEF PCs
<1>4. Hands'
  BY <1>1, <1>3 DEF Inv, Types, Hands, Carrying
<1>5. Types'
  BY <1>1, <1>3, <1>4 DEF Inv, Types, TypeOK, Queues
<1>6. Acting = {}
  BY <1>1, ActingFinite, FS_EmptySet DEF Inv, Counts
<1>7. Counts'
  BY <1>1, <1>6 DEF Inv, Counts, Acting
<1> QED BY <1>1, <1>3, <1>5, <1>7, SameChannel DEF Inv

LEMMA CheckFramesStep == ASSUME Inv, CheckFrames PROVE Inv'
<1>1. /\ UNCHANGED <<items, pendingSends, pendingReceives, status, removing, delivered, swallowed,
                     alive, frames, worker, swept>>
      /\ pc[Main] \in {"checkSend", "checkReceive"} /\ ~Unlocked /\ Main \in Thread /\ Types /\ Places /\ Acting = {}
  BY DEF CheckFrames, chanVars, Unlocked, Thread, Inv, Counts
<1>2. CASE frames > 0
  <2> DEFINE p == IF pc[Main] = "checkSend" THEN "send" ELSE "receive"
  <2>1. pc' = [pc EXCEPT ![Main] = p] /\ UNCHANGED <<val, task, used, falseAlarm>>
    BY <1>2 DEF CheckFrames
  <2>2. pc' \in [Thread -> PCs] /\ pc'[Main] = p /\ \A x \in Thread : x # Main => pc'[x] = pc[x]
    BY <1>1, <2>1 DEF PCs, Types, TypeOK
  <2>3. Hands'
    BY <1>1, <2>1, <2>2 DEF Types, Hands, Carrying
  <2>4. Types'
    BY <1>1, <2>1, <2>2, <2>3 DEF Types, TypeOK, Queues
  <2>5. Counts'
    BY <1>1, <2>1 DEF Inv, Counts, Acting
  <2> QED BY <1>1, <2>1, <2>2, <2>4, <2>5, SameChannel DEF Inv
<1>3. CASE ~(frames > 0)
  <2>1. /\ Finish(Main) /\ used' = used \ {val[Main]}
        /\ falseAlarm' = (falseAlarm \/ \E w \in Worker : worker[w] \in {"run", "woke"})
    BY <1>3 DEF CheckFrames
  <2>2. falseAlarm' = FALSE
    BY <1>1, <2>1 DEF Inv, Counts, Acting
  <2>3. Types'
    <3>1. Hands' /\ pc' \in [Thread -> PCs] /\ val' \in [Thread -> Val \cup {None}]
          /\ task' \in [Thread -> Val \cup Recv \cup {None}]
      BY <1>1, <2>1, FinishHands
    <3> QED BY <1>1, <2>1, <3>1 DEF Types, TypeOK, Queues
  <2>4. Counts'
    BY <1>1, <2>2 DEF Inv, Counts, Acting
  <2>5. NoStuckPair'
    BY <1>1 DEF Inv, NoStuckPair, Ready, LiveAt, Live
  <2>6. HeldOnce' /\ \A x : x # None => (InHand(x)' <=> x = None \/ (InHand(x) /\ x # val[Main]))
    BY <1>1, <2>1, SetHolds DEF Finish, Places
  <2>7. val[Main] \in Val => status[val[Main]] = "absent"
    BY <1>1, CarriesVal, Apartness DEF Inv, Marks, Carrying
  <2>8. ASSUME NEW x \in Val PROVE Apart(x)' /\ Placed(x)'
    <3>1. InHand(x)' <=> InHand(x) /\ x # val[Main]
      BY <2>6, Apartness
    <3>2. Apart(x) /\ Placed(x) /\ (x = val[Main] => InHand(x))
      BY <1>1 DEF Places, InHand
    <3>3. Apart(x)'
      BY <1>1, <3>1, <3>2 DEF Apart
    <3>4. Placed(x)'
      BY <1>1, <2>1, <2>7, <3>1, <3>2 DEF Placed, Somewhere, Apart
    <3> QED BY <3>3, <3>4
  <2>9. Marks'
    BY <1>1, <2>1, MarksMove DEF Inv, Finish, Home
  <2> QED BY <2>3, <2>4, <2>5, <2>6, <2>8, <2>9 DEF Inv, Places
<1> QED BY <1>2, <1>3
LEMMA InvStep == Inv /\ [Next]_vars => Inv'
<1> SUFFICES ASSUME Inv, [Next]_vars PROVE Inv'
  OBVIOUS
<1>1. CASE UNCHANGED vars
  <2>1. /\ UNCHANGED <<items, pendingSends, pendingReceives, status, removing, pc, val, task,
                       used, delivered, swallowed, alive, frames, worker, falseAlarm, swept>>
    BY <1>1 DEF vars, chanVars, opVars, dataVars, envVars
  <2>2. Types'
    BY <2>1 DEF Inv, Types, TypeOK, Hands, Queues
  <2>3. Counts'
    BY <2>1 DEF Inv, Counts, Acting, Unlocked
  <2> QED BY <2>1, <2>2, <2>3, SameChannel DEF Inv
<1>2. ASSUME NEW th \in Thread,
             \/ \E v \in Val : Send(th, v) \/ sendAsync(th, v)
             \/ \E r \in Recv : receiveAsync(th, r)
             \/ SendTry(th) \/ HandOver(th) \/ Receive(th) \/ ReceiveTry(th) \/ Return(th)
             \/ \E t \in Val \cup Recv : Cancel(th, t)
             \/ Collect(th)
      PROVE  Inv'
  BY <1>2, SendStep, SendAsyncStep, ReceiveAsyncStep, SendTryStep, HandOverStep, ReceiveStep, ReceiveTryStep,
     ReturnStep, CancelStep, CollectStep
<1>3. ASSUME NEW t \in Val \cup Recv, RemoveWaiter(t) PROVE Inv'
  BY <1>3, RemoveWaiterStep
<1>4. ASSUME NEW w \in Worker, StartWorker(w) \/ WakeFrame(w) \/ EndWorker(w) PROVE Inv'
  BY <1>4, WorkerStep
<1>5. CASE CheckWorkers \/ CheckFrames \/ pumpSchedulerOne \/ FrameEnds
  BY <1>5, CheckWorkersStep, CheckFramesStep, FrameStep
<1> QED BY <1>1, <1>2, <1>3, <1>4, <1>5 DEF Next

LEMMA InvHolds == Spec => []Inv
  BY InvInit, InvStep, PTL DEF Spec

(***************************************************************************)
(* The theorems.                                                           *)
(***************************************************************************)

\* Every reachable state is well typed, and the buffer never exceeds the capacity
\* (native.cpp:1695, 1807-1814).
THEOREM TypeCorrect == Spec => []TypeOK
<1>1. Inv => TypeOK
  BY DEF Inv, Types
<1> QED BY <1>1, InvHolds, PTL

\* The rendezvous is complete: no live receiver waits while the buffer holds a value or a
\* live sender waits (native.cpp:1672-1694, 1807-1837, 1862-1890).
THEOREM NoPairWaits == Spec => []NoStuckPair
<1>1. Inv => NoStuckPair
  BY DEF Inv
<1> QED BY <1>1, InvHolds, PTL

\* channelBlockWouldDeadlock reports a deadlock only when no worker is left to serve the
\* operation: the count it reads is exact and cannot grow under the check (native.cpp:1646-1660).
THEOREM AlarmsAreTrue == Spec => []NoFalseAlarm
<1>1. Inv => NoFalseAlarm
  BY DEF Inv, Counts, NoFalseAlarm
<1> QED BY <1>1, InvHolds, PTL

LEMMA CountIn ==
  ASSUME NEW S, NEW q \in Seq(S), Distinct(q), NEW v
  PROVE  Cardinality({i \in DOMAIN q : q[i] = v}) = IF Has(q, v) THEN 1 ELSE 0
<1>1. DOMAIN q = 1 .. Len(q)
  OBVIOUS
<1>2. CASE Has(q, v)
  <2>1. PICK k \in 1 .. Len(q) : q[k] = v
    BY <1>2 DEF Has
  <2>2. {i \in DOMAIN q : q[i] = v} = {k}
    BY <1>1, <2>1 DEF Distinct
  <2> QED BY <1>2, <2>2, FS_Singleton
<1>3. CASE ~Has(q, v)
  <2>1. {i \in DOMAIN q : q[i] = v} = {}
    BY <1>1, <1>3 DEF Has
  <2> QED BY <1>3, <2>1, FS_EmptySet
<1> QED BY <1>2, <1>3

LEMMA CountHands ==
  ASSUME HeldOnce, NEW v, v # None
  PROVE  Cardinality({th \in Thread : val[th] = v}) = IF InHand(v) THEN 1 ELSE 0
<1>1. CASE InHand(v)
  <2>1. PICK k \in Thread : val[k] = v
    BY <1>1 DEF InHand
  <2>2. {th \in Thread : val[th] = v} = {k}
    BY <2>1 DEF HeldOnce
  <2> QED BY <1>1, <2>2, FS_Singleton
<1>2. CASE ~InHand(v)
  <2>1. {th \in Thread : val[th] = v} = {}
    BY <1>2 DEF InHand
  <2> QED BY <1>2, <2>1, FS_EmptySet
<1> QED BY <1>1, <1>2

\* No value is lost or doubled: each one handed to the channel is in the buffer, with a
\* live queued sender, in one operation's hands, or received once; only a cancelled
\* sendAsync withdraws its own (native.cpp:1663-1911).
THEOREM ValuesConserved == Spec => []Conserved
<1>1. ASSUME Inv PROVE Conserved
  <2> SUFFICES ASSUME NEW v \in used
               PROVE  Copies(v) = 1 \/ (status[v] = "Cancelled" /\ Copies(v) = 0)
    BY DEF Conserved
  <2>1. /\ Types /\ v \in Val /\ v # None /\ Apart(v) /\ Placed(v) /\ HeldOnce
        /\ (Has(pendingSends, v) => status[v] \in {"Pending", "Cancelled"})
    BY <1>1, Apartness DEF Inv, Types, TypeOK, Queues, Places
  <2> DEFINE c1 == Cardinality({i \in DOMAIN items : items[i] = v})
             c2 == Cardinality({i \in DOMAIN pendingSends : pendingSends[i] = v /\ Live(v)})
             c3 == Cardinality({th \in Thread : val[th] = v})
  <2>2. c1 = IF Has(items, v) THEN 1 ELSE 0
    BY <2>1, CountIn DEF Types, TypeOK, Queues
  <2>3. c2 = IF Has(pendingSends, v) /\ Live(v) THEN 1 ELSE 0
    <3>1. CASE Live(v)
      <4>1. {i \in DOMAIN pendingSends : pendingSends[i] = v /\ Live(v)} = {i \in DOMAIN pendingSends : pendingSends[i] = v}
        BY <3>1
      <4> QED BY <2>1, <3>1, <4>1, CountIn DEF Types, TypeOK, Queues
    <3>2. CASE ~Live(v)
      <4>1. {i \in DOMAIN pendingSends : pendingSends[i] = v /\ Live(v)} = {}
        BY <3>2
      <4> QED BY <3>2, <4>1, FS_EmptySet
    <3> QED BY <3>1, <3>2
  <2>4. c3 = IF InHand(v) THEN 1 ELSE 0
    BY <2>1, CountHands
  <2>5. Copies(v) = c1 + c2 + c3 + (IF v \in delivered THEN 1 ELSE 0) + (IF v \in swallowed THEN 1 ELSE 0)
    BY DEF Copies
  <2> HIDE DEF c1, c2, c3
  <2> QED BY <2>1, <2>2, <2>3, <2>4, <2>5 DEF Apart, Placed, Somewhere, Live
<1> QED BY <1>1, InvHolds, PTL
=============================================================================
