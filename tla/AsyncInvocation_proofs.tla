----------------------- MODULE AsyncInvocation_proofs -----------------------
(***************************************************************************)
(* Theorems about AsyncInvocation, for any finite set of bodies, any set   *)
(* of native tasks, any number of awaits and every kind of program.        *)
(***************************************************************************)
EXTENDS AsyncInvocation, FiniteSetTheorems, SequenceTheorems, TLAPS

Has(q, x) == \E i \in 1 .. Len(q) : q[i] = x

Call == [body : Body, ip : 0..MaxAwaits, pc : {"run", "await", "then", "block"},
         on : Task \cup {None}, raise : {None, "Failed", "Cancelled"},
         how : {"start", "value", "nothing"}]

(***************************************************************************)
(* The inductive invariant.                                                *)
(***************************************************************************)

\* f waits to be run, or is about to be enqueued.
There(f) == f \in inflight \/ Has(ready, f)
IsResume(f) == f.kind = "resume"

\* A cancellation of b has been, or will be, turned into a frame.
Prompted(b) == \/ \E n \in 0..MaxAwaits : There(Resume(b, n))
               \/ ~requested[b] /\ observers[b] # <<>>

Types == TypeOK /\ (afar = <<>> \/ afar \in Body \X {"Pending", "Running"})

\* A call is entered for a reason, and only the innermost one is not blocked.
CallOK(e) ==
  /\ e.body \in started
  /\ e.how # "nothing" \/ e.raise = "Cancelled"
  /\ e.pc # "run" => e.on \in Task
  /\ e.pc \in {"await", "then"} => e.ip > 0 /\ e.body \in invocation
  /\ e.pc = "then" => awaited[e.body] = e.on /\ Prompted(e.body)
Calls ==
  /\ \A i \in 1 .. Len(stack) : CallOK(stack[i])
  /\ \A i \in 1 .. Len(stack) : i < Len(stack) => stack[i].pc = "block"

Lifecycle ==
  \A b \in Body :
     /\ b \notin started => status[b] \in {"absent", "Pending", "Cancelled"} /\ observers[b] = <<>>
     /\ b \in started => status[b] \notin {"absent", "Pending"}
     /\ status[b] = "absent" => b \notin invocation /\ ~requested[b]
     /\ b \in invocation /\ isTerminal(b) => requested[b]
     /\ b \in invocation /\ b \notin started => \E n \in 0..MaxAwaits : Has(ready, Resume(b, n))

Waiting == \A t \in Task, b \in Body : Has(waiters[t], b) => b \in started

\* A frame that resumes a body starts it or brings a cancellation; one that wakes it
\* brings the result of a settled task.
FrameOK(f) ==
  /\ status[f.body] # "absent"
  /\ f.kind = "wake" => f.body \in started /\ isTerminal(f.what)
  /\ IsResume(f) => requested[f.body] \/ (f.body \notin started /\ f \notin inflight)
FramesOK == \A f \in FrameType : There(f) => FrameOK(f)
StartsOnce ==
  \A i, j \in 1 .. Len(ready) :
     IsResume(ready[i]) /\ IsResume(ready[j]) /\ ready[i].body = ready[j].body /\ ~requested[ready[i].body] => i = j

\* A suspended body has a frame, or the task it waits for and its own task know it.
Waits(b) ==
  /\ ~requested[b] /\ awaited[b] \in Task /\ ~isTerminal(awaited[b])
  /\ Has(waiters[awaited[b]], b) /\ observers[b] # <<>>
Reached(b)  == \E f \in FrameType : There(f) /\ f.body = b /\ (f.kind = "wake" => awaited[b] = f.what)
Woken == \A b \in Body : b \in invocation /\ b \in started /\ ~OnStack(b) => Reached(b) \/ Waits(b)

\* No body blocks and none is cancelled from another thread.
Quiet == mode.blocking = {} /\ mode.shared = {}
QuietOK ==
  Quiet => /\ afar = <<>> /\ Len(stack) <= 1
           /\ \A i \in 1 .. Len(stack) : stack[i].pc # "block" /\ stack[i].body \in invocation
           /\ \A b \in Body : b \in invocation /\ b \in started => status[b] = "Running"

Inv == Types /\ Calls /\ Lifecycle /\ Waiting /\ FramesOK /\ StartsOnce /\ Woken /\ QuietOK

(***************************************************************************)
(* Sequences of frames.                                                    *)
(***************************************************************************)
LEMMA Constants == /\ IsFiniteSet(Body) /\ Body \cap Native = {} /\ None \notin Task /\ MaxAwaits \in Nat
                   /\ Body \subseteq Task /\ Native \subseteq Task
  BY ConstAssumption DEF None, Task

LEMMA HasEmpty == \A x : ~Has(<<>>, x)
  BY DEF Has

LEMMA HasType ==
  ASSUME NEW S, NEW q \in Seq(S), NEW x, Has(q, x)
  PROVE  x \in S /\ q # <<>>
<1>1. \A i \in 1 .. Len(q) : q[i] \in S
  OBVIOUS
<1>2. q = <<>> => Len(q) = 0
  OBVIOUS
<1> QED BY <1>1, <1>2 DEF Has

LEMMA HasSome ==
  ASSUME NEW S, NEW q \in Seq(S), q # <<>>
  PROVE  \E x \in S : Has(q, x)
<1>1. 1 \in 1 .. Len(q) /\ q[1] \in S
  OBVIOUS
<1> QED BY <1>1 DEF Has

LEMMA HasConcat ==
  ASSUME NEW S, NEW s \in Seq(S), NEW r \in Seq(S)
  PROVE  /\ s \o r \in Seq(S)
         /\ \A e : Has(s \o r, e) <=> Has(s, e) \/ Has(r, e)
<1> DEFINE q == s \o r
<1>1. /\ q \in Seq(S) /\ Len(q) = Len(s) + Len(r) /\ Len(s) \in Nat /\ Len(r) \in Nat
      /\ \A i \in 1 .. Len(s) : q[i] = s[i]
      /\ \A i \in 1 .. Len(r) : q[Len(s) + i] = r[i]
  OBVIOUS
<1> HIDE DEF q
<1>2. \A i \in 1 .. Len(q) : i \in 1 .. Len(s) \/ (i - Len(s) \in 1 .. Len(r) /\ Len(s) + (i - Len(s)) = i)
  BY <1>1
<1>3. ASSUME NEW e, Has(s, e) PROVE Has(q, e)
  BY <1>1, <1>3 DEF Has
<1>4. ASSUME NEW e, Has(r, e) PROVE Has(q, e)
  <2>1. PICK i \in 1 .. Len(r) : r[i] = e
    BY <1>4 DEF Has
  <2>2. Len(s) + i \in 1 .. Len(q) /\ q[Len(s) + i] = e
    BY <1>1, <2>1
  <2> QED BY <2>2 DEF Has
<1>5. ASSUME NEW e, Has(q, e) PROVE Has(s, e) \/ Has(r, e)
  <2>1. PICK i \in 1 .. Len(q) : q[i] = e
    BY <1>5 DEF Has
  <2>2. CASE i \in 1 .. Len(s)
    BY <1>1, <2>1, <2>2 DEF Has
  <2>3. CASE i - Len(s) \in 1 .. Len(r) /\ Len(s) + (i - Len(s)) = i
    <3>1. r[i - Len(s)] = e
      BY <1>1, <2>1, <2>3
    <3> QED BY <2>3, <3>1 DEF Has
  <2> QED BY <1>2, <2>2, <2>3
<1> QED BY <1>1, <1>3, <1>4, <1>5 DEF q

LEMMA HasAppend ==
  ASSUME NEW S, NEW q \in Seq(S), NEW e \in S
  PROVE  /\ Append(q, e) \in Seq(S) /\ Append(q, e) # <<>>
         /\ \A x : Has(Append(q, e), x) <=> x = e \/ Has(q, x)
<1> DEFINE a == Append(q, e)
<1>1. /\ a \in Seq(S) /\ a # <<>> /\ Len(a) = Len(q) + 1 /\ Len(q) \in Nat /\ a[Len(q) + 1] = e
      /\ \A i \in 1 .. Len(q) : a[i] = q[i]
  BY AppendProperties
<1>2. \A i \in 1 .. Len(a) : i \in 1 .. Len(q) \/ i = Len(q) + 1
  BY <1>1
<1> HIDE DEF a
<1>3. \A x : Has(a, x) <=> x = e \/ Has(q, x)
  <2> TAKE x
  <2>1. Has(q, x) => Has(a, x)
    BY <1>1 DEF Has
  <2>2. Has(a, e)
    BY <1>1 DEF Has
  <2>3. Has(a, x) => x = e \/ Has(q, x)
    BY <1>1, <1>2 DEF Has
  <2> QED BY <2>1, <2>2, <2>3
<1> QED BY <1>1, <1>3 DEF a

LEMMA HasTail ==
  ASSUME NEW S, NEW q \in Seq(S), q # <<>>
  PROVE  /\ Tail(q) \in Seq(S) /\ Head(q) \in S /\ Has(q, Head(q))
         /\ \A x : Has(q, x) <=> x = Head(q) \/ Has(Tail(q), x)
<1> DEFINE t == Tail(q)
<1>1. /\ t \in Seq(S) /\ Head(q) = q[1] /\ Head(q) \in S /\ 1 \in 1 .. Len(q) /\ Len(t) = Len(q) - 1
      /\ Len(q) \in Nat /\ \A i \in 1 .. Len(t) : i + 1 \in 1 .. Len(q) /\ t[i] = q[i + 1]
  OBVIOUS
<1> HIDE DEF t
<1>2. \A i \in 1 .. Len(q) : i # 1 => i - 1 \in 1 .. Len(t) /\ q[i] = t[i - 1]
  <2> TAKE i \in 1 .. Len(q)
  <2> HAVE i # 1
  <2>1. i - 1 \in 1 .. Len(t) /\ (i - 1) + 1 = i
    BY <1>1
  <2> QED BY <2>1, <1>1
<1>3. \A x : Has(q, x) <=> x = Head(q) \/ Has(t, x)
  BY <1>1, <1>2 DEF Has
<1> QED BY <1>1, <1>3 DEF t

LEMMA FramesApart ==
  /\ \A b, n : Resume(b, n).kind = "resume" /\ Resume(b, n).body = b /\ Resume(b, n).what = n
  /\ \A b, t : Wake(b, t).kind = "wake" /\ Wake(b, t).body = b /\ Wake(b, t).what = t
  /\ \A b, n, c, t : Resume(b, n) # Wake(c, t)
  /\ \A b \in Body, n \in 0..MaxAwaits : Resume(b, n) \in FrameType
  /\ \A b \in Body, t \in Task : Wake(b, t) \in FrameType
  /\ \A f \in FrameType : /\ f.body \in Body
                          /\ IsResume(f) => f.what \in 0..MaxAwaits /\ f = Resume(f.body, f.what)
                          /\ ~IsResume(f) => f.kind = "wake" /\ f.what \in Task /\ f = Wake(f.body, f.what)
<1>1. /\ \A b, n : Resume(b, n).kind = "resume" /\ Resume(b, n).body = b /\ Resume(b, n).what = n
      /\ \A b, t : Wake(b, t).kind = "wake" /\ Wake(b, t).body = b /\ Wake(b, t).what = t
  BY DEF Resume, Wake
<1>2. \A b, n, c, t : Resume(b, n) # Wake(c, t)
  <2>1. "resume" # "wake"
    OBVIOUS
  <2> QED BY <1>1, <2>1
<1>3. /\ \A b \in Body, n \in 0..MaxAwaits : Resume(b, n) \in FrameType
      /\ \A b \in Body, t \in Task : Wake(b, t) \in FrameType
  BY DEF Resume, Wake, FrameType
<1>4. ASSUME NEW f \in FrameType
      PROVE  /\ f.body \in Body
             /\ IsResume(f) => f.what \in 0..MaxAwaits /\ f = Resume(f.body, f.what)
             /\ ~IsResume(f) => f.kind = "wake" /\ f.what \in Task /\ f = Wake(f.body, f.what)
  BY DEF FrameType, Resume, Wake, IsResume
<1> QED BY <1>1, <1>2, <1>3, <1>4

\* The frames a settling task and a cancelled body give.
LEMMA WakesHas ==
  ASSUME TypeOK, NEW t \in Task
  PROVE  /\ Wakes(t) \in Seq(FrameType)
         /\ \A f : Has(Wakes(t), f) <=> \E b \in Body : Has(waiters[t], b) /\ f = Wake(b, t)
         /\ \A f : f \in {Wakes(t)[i] : i \in DOMAIN waiters[t]} <=> Has(Wakes(t), f)
<1> DEFINE q == waiters[t]
           w == Wakes(t)
<1>1. q \in Seq(Body) /\ DOMAIN q = 1 .. Len(q) /\ Len(q) \in Nat /\ \A i \in 1 .. Len(q) : q[i] \in Body
  BY DEF TypeOK
<1>2. w = [i \in 1 .. Len(q) |-> Wake(q[i], t)]
  BY <1>1 DEF Wakes
<1>3. \A i \in 1 .. Len(q) : Wake(q[i], t) \in FrameType
  BY <1>1, FramesApart
<1>4. w \in Seq(FrameType) /\ Len(w) = Len(q)
  <2>1. w \in [1 .. Len(q) -> FrameType]
    BY <1>2, <1>3
  <2> QED BY <1>1, <2>1
<1>5. \A i \in 1 .. Len(q) : w[i] = Wake(q[i], t)
  BY <1>2
<1> HIDE DEF w
<1>6. \A f : Has(w, f) <=> \E b \in Body : Has(q, b) /\ f = Wake(b, t)
  BY <1>1, <1>4, <1>5 DEF Has
<1>7. \A f : f \in {w[i] : i \in DOMAIN q} <=> Has(w, f)
  BY <1>1, <1>4 DEF Has
<1> QED BY <1>4, <1>6, <1>7 DEF w

LEMMA CancelsHas ==
  ASSUME TypeOK, NEW b \in Body
  PROVE  /\ Cancels(b) \in Seq(FrameType)
         /\ \A f : Has(Cancels(b), f) <=> \E n \in 1..MaxAwaits : Has(observers[b], n) /\ f = Resume(b, n)
         /\ \A f : f \in {Cancels(b)[i] : i \in DOMAIN observers[b]} <=> Has(Cancels(b), f)
<1> DEFINE q == observers[b]
           w == Cancels(b)
<1>1. q \in Seq(1..MaxAwaits) /\ DOMAIN q = 1 .. Len(q) /\ Len(q) \in Nat /\ \A i \in 1 .. Len(q) : q[i] \in 1..MaxAwaits
  <2>1. q \in Seq(1..MaxAwaits)
    BY DEF TypeOK
  <2> QED BY <2>1, ElementOfSeq, LenProperties
<1>2. w = [i \in 1 .. Len(q) |-> Resume(b, q[i])]
  BY <1>1 DEF Cancels
<1>3. \A i \in 1 .. Len(q) : Resume(b, q[i]) \in FrameType
  BY <1>1, FramesApart
<1>4. w \in Seq(FrameType) /\ Len(w) = Len(q)
  <2>1. w \in [1 .. Len(q) -> FrameType]
    BY <1>2, <1>3
  <2> QED BY <1>1, <2>1
<1>5. \A i \in 1 .. Len(q) : w[i] = Resume(b, q[i])
  BY <1>2
<1> HIDE DEF w
<1>6. \A f : Has(w, f) <=> \E n \in 1..MaxAwaits : Has(q, n) /\ f = Resume(b, n)
  BY <1>1, <1>4, <1>5 DEF Has
<1>7. \A f : f \in {w[i] : i \in DOMAIN q} <=> Has(w, f)
  BY <1>1, <1>4 DEF Has
<1> QED BY <1>4, <1>6, <1>7 DEF w

LEMMA SlotsAre ==
  ASSUME TypeOK, NEW R, R \subseteq Body
  PROVE  /\ IsFiniteSet(Slots(R))
         /\ \A s : s \in Slots(R) <=> \E b \in R : \E i \in 1 .. Len(observers[b]) : s = <<b, i>>
<1> DEFINE At1(b) == {<<b, i>> : i \in DOMAIN observers[b]}
           SS == {At1(b) : b \in R}
<1>1. \A b \in R : observers[b] \in Seq(1..MaxAwaits)
  BY DEF TypeOK
<1>2. \A b \in R : DOMAIN observers[b] = 1 .. Len(observers[b]) /\ Len(observers[b]) \in Nat
  BY <1>1, LenProperties
<1>3. IsFiniteSet(R)
  BY Constants, FS_Subset
<1>4. IsFiniteSet(SS)
  <2>1. [b \in R |-> At1(b)] \in Surjection(R, SS)
    BY DEF Surjection
  <2> QED BY <1>3, <2>1, FS_Surjection
<1>5. \A T \in SS : IsFiniteSet(T)
  <2> SUFFICES ASSUME NEW b \in R PROVE IsFiniteSet(At1(b))
    OBVIOUS
  <2>1. IsFiniteSet(1 .. Len(observers[b]))
    BY <1>2, FS_Interval
  <2>2. [i \in 1 .. Len(observers[b]) |-> <<b, i>>] \in Surjection(1 .. Len(observers[b]), At1(b))
    BY <1>2 DEF Surjection
  <2> QED BY <2>1, <2>2, FS_Surjection
<1>6. Slots(R) = UNION SS
  BY DEF Slots
<1>7. IsFiniteSet(Slots(R))
  BY <1>4, <1>5, <1>6, FS_UNION
<1>8. \A s : s \in Slots(R) <=> \E b \in R : \E i \in 1 .. Len(observers[b]) : s = <<b, i>>
  BY <1>2 DEF Slots
<1> QED BY <1>7, <1>8

\* The cascade's frames are the cancellation frames of the bodies it visits, all of them.
LEMMA FramesHas ==
  ASSUME TypeOK, NEW R, R \subseteq Body, NEW fs \in Frames(R)
  PROVE  /\ fs \in Seq(FrameType)
         /\ \A f : Has(fs, f) <=> \E b \in R : Has(Cancels(b), f)
<1> DEFINE S == Slots(R)
           n == Cardinality(S)
<1>1. PICK o \in [1 .. n -> S] : InOrder(o) /\ fs = [k \in DOMAIN o |-> Cancels(o[k][1])[o[k][2]]]
  BY DEF Frames
<1>2. IsFiniteSet(S) /\ n \in Nat /\ \A s : s \in S <=> \E b \in R : \E i \in 1 .. Len(observers[b]) : s = <<b, i>>
  BY SlotsAre, FS_CardinalityType
<1> HIDE DEF S, n
<1>3. \A k \in 1 .. n : \E b \in R : \E i \in 1 .. Len(observers[b]) : o[k] = <<b, i>> /\ o[k][1] = b /\ o[k][2] = i
  BY <1>1, <1>2
<1>4. \A j, k \in 1 .. n : j < k => o[j] # o[k]
  <2> SUFFICES ASSUME NEW j \in 1 .. n, NEW k \in 1 .. n, j < k, o[j] = o[k] PROVE FALSE
    OBVIOUS
  <2>1. o[j][1] = o[k][1] /\ o[j][2] < o[k][2]
    BY <1>1 DEF InOrder
  <2>2. PICK b \in R : \E i \in 1 .. Len(observers[b]) : o[k][2] = i
    BY <1>3
  <2>3. Len(observers[b]) \in Nat /\ o[k][2] \in Int
    <3>1. observers[b] \in Seq(1..MaxAwaits)
      BY DEF TypeOK
    <3> QED BY <2>2, <3>1, LenProperties
  <2> QED BY <2>1, <2>3
<1>5. o \in Injection(1 .. n, S)
  <2>1. \A j, k \in 1 .. n : o[j] = o[k] => j = k
    BY <1>2, <1>4
  <2> QED BY <1>1, <2>1 DEF Injection, IsInjective
<1>6. IsFiniteSet(1 .. n) /\ Cardinality(1 .. n) = n
  BY <1>2, FS_Interval
<1>7. o \in Surjection(1 .. n, S)
  BY <1>2, <1>5, <1>6, FS_Injection DEF n
<1>8. \A s \in S : \E k \in 1 .. n : o[k] = s
  BY <1>7 DEF Surjection
<1>9. \A b \in R : /\ Cancels(b) \in Seq(FrameType) /\ Len(Cancels(b)) = Len(observers[b])
                   /\ \A i \in 1 .. Len(observers[b]) : Cancels(b)[i] \in FrameType
  <2> SUFFICES ASSUME NEW b \in R
               PROVE  /\ Cancels(b) \in Seq(FrameType) /\ Len(Cancels(b)) = Len(observers[b])
                      /\ \A i \in 1 .. Len(observers[b]) : Cancels(b)[i] \in FrameType
    OBVIOUS
  <2>1. Cancels(b) \in Seq(FrameType)
    BY CancelsHas
  <2>2. DOMAIN Cancels(b) = DOMAIN observers[b] /\ observers[b] \in Seq(1..MaxAwaits)
    BY DEF Cancels, TypeOK
  <2>3. DOMAIN observers[b] = 1 .. Len(observers[b]) /\ Len(observers[b]) \in Nat
    BY <2>2, LenProperties
  <2>4. Len(Cancels(b)) = Len(observers[b])
    BY <2>1, <2>2, <2>3, LenProperties
  <2> QED BY <2>1, <2>4, ElementOfSeq
<1>10. fs = [k \in 1 .. n |-> Cancels(o[k][1])[o[k][2]]]
  BY <1>1
<1>11. fs \in [1 .. n -> FrameType]
  BY <1>3, <1>9, <1>10
<1>12. fs \in Seq(FrameType) /\ Len(fs) = n
  BY <1>2, <1>11
<1>13. ASSUME NEW f, Has(fs, f) PROVE \E b \in R : Has(Cancels(b), f)
  <2>1. PICK k \in 1 .. n : fs[k] = f
    BY <1>12, <1>13 DEF Has
  <2>2. PICK b \in R : \E i \in 1 .. Len(observers[b]) : o[k][1] = b /\ o[k][2] = i
    BY <1>3
  <2>3. Cancels(b)[o[k][2]] = f /\ o[k][2] \in 1 .. Len(observers[b])
    BY <1>10, <2>1, <2>2
  <2> QED BY <1>9, <2>3 DEF Has
<1>14. ASSUME NEW f, NEW b \in R, Has(Cancels(b), f) PROVE Has(fs, f)
  <2>1. PICK i \in 1 .. Len(observers[b]) : Cancels(b)[i] = f
    BY <1>9, <1>14 DEF Has
  <2>2. <<b, i>> \in S
    BY <1>2
  <2>3. PICK k \in 1 .. n : o[k] = <<b, i>>
    BY <1>8, <2>2
  <2>4. fs[k] = f
    BY <1>10, <2>1, <2>3
  <2> QED BY <1>12, <2>4 DEF Has
<1> QED BY <1>12, <1>13, <1>14

LEMMA CascadeIs ==
  ASSUME NEW b \in Body
  PROVE  b \in Cascade(b) /\ Cascade(b) \subseteq Body /\ \A c \in Cascade(b) : c = b \/ Live(c)
<1> DEFINE D == {b} \cup {c \in Body : Live(c)}
<1>1. D \in SUBSET Body /\ b \in D /\ \A x \in Body : parent[x] \in D /\ Live(x) => x \in D
  OBVIOUS
<1>2. \A c \in Cascade(b) : c \in D
  BY <1>1 DEF Cascade
<1> QED BY <1>2 DEF Cascade

(***************************************************************************)
(* The stack, and the initial state.                                       *)
(***************************************************************************)
LEMMA StackIs ==
  ASSUME TypeOK, Running
  PROVE  /\ stack \in Seq(Call) /\ Len(stack) \in Nat /\ Len(stack) > 0 /\ Top \in Call /\ Top = stack[Len(stack)]
         /\ Below \in Seq(Call) /\ Len(Below) = Len(stack) - 1
         /\ \A i \in 1 .. Len(stack) - 1 : Below[i] = stack[i]
<1>1. stack \in Seq(Call) /\ stack # <<>>
  BY DEF TypeOK, Call, Running
<1>2. Len(stack) \in Nat /\ Len(stack) > 0 /\ \A i \in 1 .. Len(stack) : stack[i] \in Call
  BY <1>1
<1>3. /\ Below \in Seq(Call) /\ Len(Below) = Len(stack) - 1
      /\ \A i \in 1 .. Len(stack) - 1 : Below[i] = stack[i]
  <2> DEFINE n == Len(stack) - 1
  <2>1. n \in Int /\ 1 \in Int /\ n >= 0 /\ \A i \in 1 .. n : stack[i] \in Call
    BY <1>2
  <2> HIDE DEF n
  <2>2. /\ SubSeq(stack, 1, n) \in Seq(Call) /\ Len(SubSeq(stack, 1, n)) = IF 1 <= n THEN n - 1 + 1 ELSE 0
        /\ \A i \in 1 .. n - 1 + 1 : SubSeq(stack, 1, n)[i] = stack[1 + i - 1]
    BY ONLY <2>1, SubSeqProperties
  <2>3. n - 1 + 1 = n /\ (IF 1 <= n THEN n ELSE 0) = n /\ \A i \in 1 .. n : 1 + i - 1 = i
    BY <2>1
  <2>4. Below = SubSeq(stack, 1, n)
    BY DEF Below, n
  <2>5. Below \in Seq(Call) /\ Len(Below) = n /\ \A i \in 1 .. n : Below[i] = stack[i]
    BY <2>2, <2>3, <2>4
  <2> QED BY <2>5 DEF n
<1>4. Top \in Call
  BY <1>2 DEF Top
<1> QED BY <1>1, <1>2, <1>3, <1>4 DEF Top

LEMMA StepIs ==
  ASSUME TypeOK, Running, NEW f \in Call, Step(f)
  PROVE  /\ stack' \in Seq(Call) /\ Len(stack') = Len(stack) /\ stack'[Len(stack)] = f /\ stack' # <<>>
         /\ \A i \in 1 .. Len(stack) : i < Len(stack) => stack'[i] = stack[i]
<1>1. stack' = Append(Below, f) /\ Below \in Seq(Call) /\ Len(Below) = Len(stack) - 1 /\ Len(stack) \in Nat
      /\ Len(stack) > 0 /\ \A i \in 1 .. Len(stack) - 1 : Below[i] = stack[i]
  BY StackIs DEF Step
<1>2. /\ Append(Below, f) \in Seq(Call) /\ Append(Below, f) # <<>> /\ Len(Append(Below, f)) = Len(stack)
      /\ \A i \in 1 .. Len(stack) - 1 : Append(Below, f)[i] = Below[i]
      /\ Append(Below, f)[Len(stack)] = f
  <2>1. (Len(stack) - 1) + 1 = Len(stack)
    BY <1>1
  <2> QED BY <1>1, <2>1, AppendProperties
<1>3. \A i \in 1 .. Len(stack) : i < Len(stack) => i \in 1 .. Len(stack) - 1
  BY <1>1
<1> QED BY <1>1, <1>2, <1>3

\* What remains of the calls when the innermost one ends, or goes on.
LEMMA PopIs ==
  ASSUME TypeOK, Running, Pop
  PROVE  /\ stack' \in Seq(Call) /\ Len(stack') = Len(stack) - 1
         /\ \A i \in 1 .. Len(stack') : i \in 1 .. Len(stack) /\ i < Len(stack) /\ stack'[i] = stack[i]
         /\ \A b : b # Top.body => (OnStack(b)' <=> OnStack(b))
<1>1. stack' = Below /\ Below \in Seq(Call) /\ Len(Below) = Len(stack) - 1 /\ Len(stack) \in Nat
      /\ Len(stack) > 0 /\ (\A i \in 1 .. Len(stack) - 1 : Below[i] = stack[i]) /\ stack \in Seq(Call)
      /\ Top = stack[Len(stack)]
  BY StackIs DEF Pop
<1>2. \A i \in 1 .. Len(stack') : i \in 1 .. Len(stack) /\ i < Len(stack) /\ stack'[i] = stack[i]
  BY <1>1
<1>3. DOMAIN stack = 1 .. Len(stack) /\ DOMAIN stack' = 1 .. Len(stack')
  BY <1>1
<1>4. ASSUME NEW b, b # Top.body PROVE OnStack(b)' <=> OnStack(b)
  <2>1. OnStack(b)' => OnStack(b)
    BY <1>2, <1>3 DEF OnStack
  <2>2. ASSUME OnStack(b) PROVE OnStack(b)'
    <3>1. PICK i \in 1 .. Len(stack) : stack[i].body = b
      BY <1>3, <2>2 DEF OnStack
    <3>2. i # Len(stack)
      BY <1>1, <1>4, <3>1
    <3>3. i \in 1 .. Len(stack') /\ stack'[i].body = b
      BY <1>1, <3>1, <3>2
    <3> QED BY <1>3, <3>3 DEF OnStack
  <2> QED BY <2>1, <2>2
<1> QED BY <1>1, <1>2, <1>4

LEMMA StepOn ==
  ASSUME TypeOK, Running, NEW f \in Call, Step(f), f.body = Top.body
  PROVE  \A b : OnStack(b)' <=> OnStack(b)
<1>1. /\ stack' \in Seq(Call) /\ Len(stack') = Len(stack) /\ stack'[Len(stack)] = f /\ stack \in Seq(Call)
      /\ \A i \in 1 .. Len(stack) : i < Len(stack) => stack'[i] = stack[i]
      /\ Top = stack[Len(stack)] /\ Len(stack) \in Nat
  BY StackIs, StepIs
<1>2. DOMAIN stack = 1 .. Len(stack) /\ DOMAIN stack' = 1 .. Len(stack)
  BY <1>1
<1>3. \A i \in 1 .. Len(stack) : stack'[i].body = stack[i].body
  BY <1>1
<1> QED BY <1>2, <1>3 DEF OnStack

LEMMA InvInit == Init => Inv
<1> SUFFICES ASSUME Init PROVE Inv
  OBVIOUS
<1> USE DEF Init
<1>1. Types
  <2>1. <<>> \in Seq(Body) /\ <<>> \in Seq(1..MaxAwaits) /\ <<>> \in Seq(FrameType) /\ <<>> \in Seq(Call)
    OBVIOUS
  <2>2. 0 \in 0..MaxAwaits
    BY Constants
  <2>3. TypeOK
    BY <2>1, <2>2 DEF TypeOK, Call
  <2> QED BY <2>3 DEF Types
<1>2. Len(stack) = 0 /\ Len(ready) = 0
  OBVIOUS
<1>3. Calls /\ StartsOnce
  BY <1>2 DEF Calls, StartsOnce
<1>4. Lifecycle
  BY Constants DEF Lifecycle, isTerminal
<1>5. Waiting /\ FramesOK
  BY HasEmpty DEF Waiting, FramesOK, There
<1>6. Woken /\ QuietOK
  BY <1>2 DEF Woken, QuietOK
<1> QED BY <1>1, <1>3, <1>4, <1>5, <1>6 DEF Inv

(***************************************************************************)
(* What a settled task or a cancellation sends out.                        *)
(***************************************************************************)
Sent(f) ==
  \/ \E b \in Body, t \in Task : f = Wake(b, t) /\ Has(waiters[t], b) /\ isTerminal(t)'
  \/ \E b \in Body, n \in 1..MaxAwaits : f = Resume(b, n) /\ Has(observers[b], n) /\ requested'[b]

\* Nobody who was registered is forgotten, and nothing else is sent.
LEMMA Delivered ==
  ASSUME Inv, UNCHANGED <<started, awaited>>,
         \A t \in Task : \/ status'[t] = status[t]
                         \/ ~isTerminal(t) /\ isTerminal(t)',
         \A b \in Body : status'[b] # status[b] => (b \in started \/ status'[b] = "Cancelled")
                                                   /\ (b \in invocation' => requested'[b]),
         \A b \in Body : requested[b] => requested'[b],
         \A b \in Body : requested'[b] /\ ~requested[b] =>
             status'[b] # "absent" /\ \A n \in 1..MaxAwaits : Has(observers[b], n) => There(Resume(b, n))',
         \A b \in Body : \/ observers'[b] = observers[b]
                         \/ observers'[b] = <<>> /\ (requested'[b] \/ b \notin invocation'),
         \A t \in Task : \/ waiters'[t] = waiters[t] /\ status'[t] = status[t]
                         \/ waiters'[t] = <<>> /\ \A b \in Body : Has(waiters[t], b) => There(Wake(b, t))',
         \A f : Has(ready, f) => Has(ready', f),
         \A f : f \in inflight => There(f)',
         \A f : Has(ready', f) => Has(ready, f) \/ f \in inflight \/ Sent(f),
         \A f : f \in inflight' => f \in inflight \/ Sent(f),
         invocation' \subseteq invocation
  PROVE  /\ Lifecycle' /\ Waiting' /\ FramesOK'
         /\ \A b \in Body : Prompted(b) /\ b \in invocation' => Prompted(b)'
         /\ \A b \in Body : b \in invocation' /\ (Reached(b) \/ Waits(b)) => Reached(b)' \/ Waits(b)'
<1>1. /\ TypeOK /\ Lifecycle /\ Waiting /\ FramesOK
  BY DEF Inv, Types
<1>2. \A f : There(f) => There(f)'
  BY DEF There
<1>3. \A t : isTerminal(t)' <=> status'[t] \in {"Succeeded", "Failed", "Cancelled"}
  BY DEF isTerminal
<1>4. \A t \in Task : isTerminal(t) => isTerminal(t)'
  BY <1>3 DEF isTerminal
<1>5. Lifecycle'
  <2> SUFFICES ASSUME NEW b \in Body
               PROVE  /\ b \notin started => status'[b] \in {"absent", "Pending", "Cancelled"} /\ observers'[b] = <<>>
                      /\ b \in started => status'[b] \notin {"absent", "Pending"}
                      /\ status'[b] = "absent" => b \notin invocation' /\ ~requested'[b]
                      /\ b \in invocation' /\ isTerminal(b)' => requested'[b]
                      /\ b \in invocation' /\ b \notin started => \E n \in 0..MaxAwaits : Has(ready', Resume(b, n))
    BY DEF Lifecycle
  <2>1. /\ b \notin started => status[b] \in {"absent", "Pending", "Cancelled"} /\ observers[b] = <<>>
        /\ b \in started => status[b] \notin {"absent", "Pending"}
        /\ status[b] = "absent" => b \notin invocation /\ ~requested[b]
        /\ b \in invocation /\ isTerminal(b) => requested[b]
        /\ b \in invocation /\ b \notin started => \E n \in 0..MaxAwaits : Has(ready, Resume(b, n))
        /\ b \in Task
    BY <1>1, Constants DEF Lifecycle
  <2>2. b \notin started => status'[b] \in {"absent", "Pending", "Cancelled"} /\ observers'[b] = <<>>
    BY <2>1
  <2>3. b \in started => status'[b] \notin {"absent", "Pending"}
    BY <1>3, <2>1
  <2>4. status'[b] = "absent" => b \notin invocation' /\ ~requested'[b]
    BY <1>3, <2>1
  <2>5. b \in invocation' /\ isTerminal(b)' => requested'[b]
    BY <1>3, <2>1 DEF isTerminal
  <2>6. b \in invocation' /\ b \notin started => \E n \in 0..MaxAwaits : Has(ready', Resume(b, n))
    BY <2>1
  <2> QED BY <2>2, <2>3, <2>4, <2>5, <2>6
<1>6. Waiting'
  BY <1>1, HasEmpty DEF Waiting
<1>7. \A f : Sent(f) => f \in FrameType /\ FrameOK(f)'
  <2> SUFFICES ASSUME NEW f, Sent(f) PROVE f \in FrameType /\ FrameOK(f)'
    OBVIOUS
  <2>1. ASSUME NEW b \in Body, NEW t \in Task, f = Wake(b, t), Has(waiters[t], b), isTerminal(t)'
        PROVE  f \in FrameType /\ FrameOK(f)'
    <3>1. f.kind = "wake" /\ f.body = b /\ f.what = t /\ f \in FrameType
      BY <2>1, FramesApart
    <3>2. b \in started /\ status'[b] # "absent"
      BY <1>1, <1>5, <2>1 DEF Waiting, Lifecycle
    <3> QED BY <2>1, <3>1, <3>2 DEF FrameOK, IsResume
  <2>2. ASSUME NEW b \in Body, NEW n \in 1..MaxAwaits, f = Resume(b, n), Has(observers[b], n), requested'[b]
        PROVE  f \in FrameType /\ FrameOK(f)'
    <3>1. f.kind = "resume" /\ f.body = b /\ f \in FrameType
      BY <2>2, FramesApart, Constants
    <3>2. status'[b] # "absent"
      BY <1>5, <2>2 DEF Lifecycle
    <3> QED BY <2>2, <3>1, <3>2 DEF FrameOK, IsResume
  <2> QED BY <2>1, <2>2 DEF Sent
<1>8. FramesOK'
  <2> SUFFICES ASSUME NEW f \in FrameType, There(f)' PROVE FrameOK(f)'
    BY DEF FramesOK
  <2>1. CASE Sent(f)
    BY <1>7, <2>1
  <2>2. CASE ~Sent(f)
    <3>1. There(f) /\ (f \in inflight' => f \in inflight)
      BY <2>2 DEF There
    <3>2. FrameOK(f) /\ f.body \in Body /\ f.body \in Task /\ (f.kind = "wake" => f.what \in Task)
      BY <1>1, <3>1, FramesApart, Constants DEF FramesOK, IsResume
    <3>3. status'[f.body] # "absent"
      BY <1>3, <3>2 DEF FrameOK
    <3> QED BY <1>4, <3>1, <3>2, <3>3 DEF FrameOK
  <2> QED BY <2>1, <2>2
<1>9. ASSUME NEW b \in Body, ~requested[b], observers[b] # <<>>, b \in invocation'
      PROVE  (\E n \in 0..MaxAwaits : There(Resume(b, n))') \/ (~requested'[b] /\ observers'[b] # <<>>)
  <2>1. CASE requested'[b]
    <3>1. observers[b] \in Seq(1..MaxAwaits)
      BY <1>1 DEF TypeOK
    <3>2. PICK n \in 1..MaxAwaits : Has(observers[b], n)
      BY <1>9, <3>1, HasSome
    <3>3. There(Resume(b, n))' /\ n \in 0..MaxAwaits
      BY <1>9, <2>1, <3>2, Constants
    <3> QED BY <3>3
  <2>2. CASE ~requested'[b]
    BY <1>9, <2>2
  <2> QED BY <2>1, <2>2
<1>10. ASSUME NEW b \in Body, Prompted(b), b \in invocation' PROVE Prompted(b)'
  BY <1>2, <1>9, <1>10 DEF Prompted
<1>11. ASSUME NEW b \in Body, Reached(b) PROVE Reached(b)'
  BY <1>2, <1>11 DEF Reached
<1>12. ASSUME NEW b \in Body, b \in invocation', Waits(b) PROVE Reached(b)' \/ Waits(b)'
  <2> DEFINE t == awaited[b]
  <2>1. ~requested[b] /\ t \in Task /\ ~isTerminal(t) /\ Has(waiters[t], b) /\ observers[b] # <<>>
    BY <1>12 DEF Waits
  <2>2. ASSUME NEW n \in 0..MaxAwaits, There(Resume(b, n))' PROVE Reached(b)'
    <3>1. Resume(b, n) \in FrameType /\ Resume(b, n).body = b /\ Resume(b, n).kind # "wake"
      BY FramesApart
    <3> QED BY <2>2, <3>1 DEF Reached
  <2>3. ASSUME There(Wake(b, t))' PROVE Reached(b)'
    <3>1. Wake(b, t) \in FrameType /\ Wake(b, t).body = b /\ Wake(b, t).what = t
      BY <2>1, FramesApart
    <3> QED BY <2>3, <3>1 DEF Reached
  <2>4. CASE ~requested'[b] /\ observers'[b] # <<>> /\ waiters'[t] = waiters[t] /\ status'[t] = status[t]
    BY <2>1, <2>4 DEF Waits, isTerminal
  <2> QED BY <1>9, <1>12, <2>1, <2>2, <2>3, <2>4
<1> QED BY <1>5, <1>6, <1>8, <1>10, <1>11, <1>12
\* A body that was not asked to stop is started by one frame.
LEMMA StartsConcat ==
  ASSUME TypeOK, StartsOnce, NEW fs \in Seq(FrameType), ready' = ready \o fs,
         \A b \in Body : requested[b] => requested'[b],
         \A f \in FrameType : Has(fs, f) /\ IsResume(f) => requested'[f.body]
  PROVE  StartsOnce'
<1>1. ready \in Seq(FrameType)
  BY DEF TypeOK
<1>2. /\ Len(ready') = Len(ready) + Len(fs) /\ Len(ready) \in Nat /\ Len(fs) \in Nat
      /\ \A i \in 1 .. Len(ready) : ready'[i] = ready[i] /\ ready[i] \in FrameType
      /\ \A i \in 1 .. Len(fs) : ready'[Len(ready) + i] = fs[i] /\ fs[i] \in FrameType
  BY <1>1
<1>3. ASSUME NEW i \in 1 .. Len(ready'), IsResume(ready'[i]), ~requested'[ready'[i].body]
      PROVE  i \in 1 .. Len(ready)
  <2>1. ASSUME i \notin 1 .. Len(ready) PROVE FALSE
    <3>1. i - Len(ready) \in 1 .. Len(fs) /\ Len(ready) + (i - Len(ready)) = i
      BY <1>2, <2>1
    <3>2. ready'[i] = fs[i - Len(ready)] /\ ready'[i] \in FrameType
      BY <1>2, <3>1
    <3>3. Has(fs, ready'[i])
      BY <3>1, <3>2 DEF Has
    <3> QED BY <1>3, <3>2, <3>3
  <2> QED BY <2>1
<1> SUFFICES ASSUME NEW i \in 1 .. Len(ready'), NEW j \in 1 .. Len(ready'), IsResume(ready'[i]),
                    IsResume(ready'[j]), ready'[i].body = ready'[j].body, ~requested'[ready'[i].body]
             PROVE  i = j
  BY DEF StartsOnce, IsResume
<1>4. i \in 1 .. Len(ready) /\ j \in 1 .. Len(ready)
  BY <1>3
<1>5. ready'[i] = ready[i] /\ ready'[j] = ready[j] /\ ready[i].body \in Body
  BY <1>2, <1>4, FramesApart
<1> QED BY <1>4, <1>5 DEF StartsOnce

LEMMA StartsAppend ==
  ASSUME TypeOK, StartsOnce, NEW e \in FrameType, ready' = Append(ready, e),
         \A b \in Body : requested[b] => requested'[b],
         IsResume(e) /\ ~requested'[e.body] => \A f \in FrameType : Has(ready, f) /\ IsResume(f) => f.body # e.body
  PROVE  StartsOnce'
<1>1. ready \in Seq(FrameType)
  BY DEF TypeOK
<1>2. /\ Len(ready') = Len(ready) + 1 /\ Len(ready) \in Nat /\ ready'[Len(ready) + 1] = e
      /\ \A i \in 1 .. Len(ready) : ready'[i] = ready[i] /\ ready[i] \in FrameType
  BY <1>1
<1> SUFFICES ASSUME NEW i \in 1 .. Len(ready'), NEW j \in 1 .. Len(ready'), IsResume(ready'[i]),
                    IsResume(ready'[j]), ready'[i].body = ready'[j].body, ~requested'[ready'[i].body]
             PROVE  i = j
  BY DEF StartsOnce, IsResume
<1>3. \A k \in 1 .. Len(ready) : Has(ready, ready[k])
  BY DEF Has
<1>4. (i \in 1 .. Len(ready) \/ i = Len(ready) + 1) /\ (j \in 1 .. Len(ready) \/ j = Len(ready) + 1)
  BY <1>2
<1>5. CASE i \in 1 .. Len(ready) /\ j \in 1 .. Len(ready)
  <2>1. ready'[i] = ready[i] /\ ready'[j] = ready[j] /\ ready[i].body \in Body
    BY <1>2, <1>5, FramesApart
  <2> QED BY <1>5, <2>1 DEF StartsOnce
<1>6. CASE i \in 1 .. Len(ready) /\ j = Len(ready) + 1
  BY <1>2, <1>3, <1>6
<1>7. CASE j \in 1 .. Len(ready) /\ i = Len(ready) + 1
  BY <1>2, <1>3, <1>7
<1> QED BY <1>4, <1>5, <1>6, <1>7

(***************************************************************************)
(* Steps that change one thing.                                            *)
(***************************************************************************)

\* runImpl, and another thread that only looks.
LEMMA Aside ==
  ASSUME Inv, UNCHANGED <<taskVars, bodyVars, ready, inflight, stack, mode>>, Types', Quiet => afar' = <<>>
  PROVE  Inv'
<1> USE DEF taskVars, bodyVars
<1>1. \A t : isTerminal(t)' <=> isTerminal(t)
  BY DEF isTerminal
<1>2. \A f : There(f)' <=> There(f)
  BY DEF There
<1>3. \A b : /\ Prompted(b)' <=> Prompted(b)
             /\ OnStack(b)' <=> OnStack(b)
             /\ Reached(b)' <=> Reached(b)
             /\ Waits(b)' <=> Waits(b)
  BY <1>1, <1>2 DEF Prompted, OnStack, Reached, Waits
<1>4. Calls' /\ Lifecycle' /\ Waiting'
  BY <1>1, <1>3 DEF Inv, Calls, CallOK, Lifecycle, Waiting
<1>5. FramesOK' /\ StartsOnce'
  BY <1>1, <1>2 DEF Inv, FramesOK, FrameOK, StartsOnce
<1>6. Woken' /\ QuietOK'
  BY <1>3 DEF Inv, Woken, QuietOK, Quiet
<1> QED BY <1>4, <1>5, <1>6 DEF Inv

\* One step of the innermost call.
LEMMA Going ==
  ASSUME Inv, Running, NEW f \in Call, Step(f), f.body = Top.body, CallOK(f),
         Quiet => f.pc # "block",
         UNCHANGED <<taskVars, bodyVars, ready, inflight, main, entry, afar, mode>>
  PROVE  Inv'
<1> USE DEF taskVars, bodyVars
<1>1. \A t : isTerminal(t)' <=> isTerminal(t)
  BY DEF isTerminal
<1>2. \A g : There(g)' <=> There(g)
  BY DEF There
<1>3. \A b : /\ Prompted(b)' <=> Prompted(b)
             /\ Reached(b)' <=> Reached(b)
             /\ Waits(b)' <=> Waits(b)
  BY <1>1, <1>2 DEF Prompted, Reached, Waits
<1>4. \A b : OnStack(b)' <=> OnStack(b)
  BY StepOn DEF Inv, Types
<1>5. /\ stack' \in Seq(Call) /\ Len(stack') = Len(stack) /\ stack'[Len(stack)] = f /\ Len(stack) \in Nat
      /\ (\A i \in 1 .. Len(stack) : i < Len(stack) => stack'[i] = stack[i]) /\ Len(stack) > 0
      /\ Top = stack[Len(stack)]
  BY StackIs, StepIs DEF Inv, Types
<1>6. Types'
  <2>1. TypeOK /\ (afar = <<>> \/ afar \in Body \X {"Pending", "Running"})
    BY DEF Inv, Types
  <2>2. TypeOK'
    BY <1>5, <2>1 DEF TypeOK, Call
  <2> QED BY <2>1, <2>2 DEF Types
<1>7. \A e : CallOK(e)' <=> CallOK(e)
  BY <1>3 DEF CallOK
<1>8. Calls'
  <2>1. \A i \in 1 .. Len(stack) : stack'[i] = stack[i] \/ (i = Len(stack) /\ stack'[i] = f)
    BY <1>5
  <2> QED BY <1>5, <1>7, <2>1 DEF Inv, Calls
<1>9. Lifecycle' /\ Waiting'
  BY <1>1, <1>3 DEF Inv, Lifecycle, Waiting
<1>10. FramesOK' /\ StartsOnce'
  BY <1>1, <1>2 DEF Inv, FramesOK, FrameOK, StartsOnce
<1>11. Woken'
  BY <1>3, <1>4 DEF Inv, Woken
<1>12. QuietOK'
  <2> SUFFICES ASSUME Quiet
               PROVE  /\ afar' = <<>> /\ Len(stack') <= 1
                      /\ \A i \in 1 .. Len(stack') : stack'[i].pc # "block" /\ stack'[i].body \in invocation
                      /\ \A b \in Body : b \in invocation /\ b \in started => status[b] = "Running"
    BY DEF QuietOK, Quiet
  <2>1. /\ afar = <<>> /\ Len(stack) <= 1
        /\ \A i \in 1 .. Len(stack) : stack[i].pc # "block" /\ stack[i].body \in invocation
        /\ \A b \in Body : b \in invocation /\ b \in started => status[b] = "Running"
    BY DEF Inv, QuietOK
  <2>2. \A i \in 1 .. Len(stack) : i = Len(stack)
    BY <1>5, <2>1
  <2>3. Len(stack) \in 1 .. Len(stack)
    BY <1>5
  <2>4. f.pc # "block" /\ f.body \in invocation
    BY <1>5, <2>1, <2>3
  <2> QED BY <1>5, <2>1, <2>2, <2>4
<1> QED BY <1>6, <1>8, <1>9, <1>10, <1>11, <1>12 DEF Inv
\* What the invariant says of the innermost call.
LEMMA TopIs ==
  ASSUME Inv, Running
  PROVE  /\ Top \in Call /\ CallOK(Top) /\ Top.body \in Body /\ Top.body \in Task
         /\ Top.body \in started /\ status[Top.body] # "absent"
         /\ Quiet => Top.pc # "block" /\ Len(stack) = 1 /\ Top.body \in invocation
<1>1. stack \in Seq(Call) /\ Len(stack) \in Nat /\ Len(stack) > 0 /\ Top \in Call /\ Top = stack[Len(stack)]
  BY StackIs DEF Inv, Types
<1>2. Len(stack) \in 1 .. Len(stack)
  BY <1>1
<1>3. CallOK(Top)
  BY <1>1, <1>2 DEF Inv, Calls
<1>4. Top.body \in Body /\ Top.body \in started
  BY <1>1, <1>3 DEF Call, CallOK
<1>5. Top.body \in Task /\ status[Top.body] # "absent"
  BY <1>4, Constants DEF Inv, Lifecycle
<1>6. ASSUME Quiet PROVE Top.pc # "block" /\ Len(stack) = 1 /\ Top.body \in invocation
  <2>1. /\ Len(stack) <= 1
        /\ \A i \in 1 .. Len(stack) : stack[i].pc # "block" /\ stack[i].body \in invocation
    BY <1>6 DEF Inv, QuietOK
  <2>2. Len(stack) = 1
    <3>1. Len(stack) \in Nat /\ Len(stack) > 0 /\ Len(stack) <= 1
      BY <1>1, <2>1
    <3>2. \A n \in Nat : n > 0 /\ n <= 1 => n = 1
      OBVIOUS
    <3> QED BY ONLY <3>1, <3>2
  <2> QED BY <1>1, <1>2, <2>1, <2>2
<1> QED BY <1>1, <1>3, <1>4, <1>5, <1>6

LEMMA RaisedIs ==
  ASSUME TypeOK, NEW t \in Task, isTerminal(t)
  PROVE  Raised(t) \in {None, "Failed", "Cancelled"}
  BY DEF isTerminal, Raised

LEMMA AwaitCheckStep == ASSUME Inv, NEW t \in Task, AwaitCheck(t) PROVE Inv'
<1> DEFINE b == Top.body
           f == [Top EXCEPT !.ip = @ + 1, !.how = "value"]
           g == IF b \in invocation /\ requested[b] THEN [f EXCEPT !.raise = "Cancelled"]
                ELSE IF isTerminal(t) THEN [f EXCEPT !.raise = Raised(t)]
                ELSE IF t = b \/ b \notin invocation THEN [f EXCEPT !.raise = "Failed"]
                ELSE [f EXCEPT !.pc = "await", !.on = t]
<1>1. /\ Running /\ Top.pc = "run" /\ Top.ip < MaxAwaits /\ Step(g)
      /\ UNCHANGED <<taskVars, bodyVars, ready, inflight, main, entry, afar, mode>>
  BY DEF AwaitCheck, Calm, At
<1>2. TypeOK /\ Top \in Call /\ CallOK(Top)
  BY <1>1, TopIs DEF Inv, Types
<1>3. f \in Call /\ f.body = b /\ f.ip > 0 /\ f.how = "value" /\ f.pc = "run"
  <2>1. Top.ip \in 0..MaxAwaits
    BY <1>2 DEF Call
  <2>2. Top.ip + 1 \in 0..MaxAwaits /\ Top.ip + 1 > 0
    BY <1>1, <2>1, Constants
  <2> QED BY <1>1, <1>2, <2>2 DEF Call
<1> HIDE DEF f
<1>4. isTerminal(t) => Raised(t) \in {None, "Failed", "Cancelled"}
  BY <1>2, RaisedIs
<1>5. g \in Call /\ g.body = b /\ g.ip > 0 /\ g.how = "value"
  BY <1>3, <1>4 DEF Call
<1>6. g.pc = "run" \/ (g.pc = "await" /\ g.on = t /\ b \in invocation)
  BY <1>3 DEF Call
<1> HIDE DEF g
<1>7. CallOK(g)
  BY <1>2, <1>5, <1>6 DEF CallOK
<1>8. g.pc # "block"
  BY <1>6
<1> QED BY <1>1, <1>5, <1>7, <1>8, Going

LEMMA CatchStep == ASSUME Inv, Catch PROVE Inv'
<1> DEFINE g == [Top EXCEPT !.raise = None, !.how = "value"]
<1>1. /\ Running /\ Top.pc = "run" /\ Step(g)
      /\ UNCHANGED <<taskVars, bodyVars, ready, inflight, main, entry, afar, mode>>
  BY DEF Catch, At
<1>2. Top \in Call /\ CallOK(Top)
  BY <1>1, TopIs
<1>3. g \in Call /\ g.body = Top.body /\ g.how = "value" /\ g.pc = "run"
  BY <1>1, <1>2 DEF Call
<1> HIDE DEF g
<1>4. CallOK(g)
  BY <1>2, <1>3 DEF CallOK
<1> QED BY <1>1, <1>3, <1>4, Going

LEMMA TaskBlockStep == ASSUME Inv, NEW t \in Task, TaskBlock(t) PROVE Inv'
<1> DEFINE g == [Top EXCEPT !.pc = "block", !.on = t, !.ip = @ + 1]
<1>1. /\ Running /\ Top.pc = "run" /\ Top.ip < MaxAwaits /\ Step(g) /\ Top.body \in mode.blocking
      /\ UNCHANGED <<taskVars, bodyVars, ready, inflight, main, entry, afar, mode>>
  BY DEF TaskBlock, Calm, At
<1>2. Top \in Call /\ CallOK(Top)
  BY <1>1, TopIs
<1>3. g \in Call /\ g.body = Top.body /\ g.how = Top.how /\ g.raise = Top.raise /\ g.pc = "block" /\ g.on = t
  <2>1. Top.ip \in 0..MaxAwaits
    BY <1>2 DEF Call
  <2>2. Top.ip + 1 \in 0..MaxAwaits /\ Top.ip + 1 > 0
    BY <1>1, <2>1, Constants
  <2> QED BY <1>1, <1>2, <2>2 DEF Call
<1> HIDE DEF g
<1>4. CallOK(g)
  BY <1>2, <1>3 DEF CallOK
<1>5. ~Quiet
  BY <1>1 DEF Quiet
<1> QED BY <1>1, <1>3, <1>4, <1>5, Going

LEMMA UnblockStep == ASSUME Inv, Unblock PROVE Inv'
<1> DEFINE g == [Top EXCEPT !.pc = "run", !.on = None, !.how = "value", !.raise = Raised(Top.on)]
<1>1. /\ Running /\ Top.pc = "block" /\ isTerminal(Top.on) /\ Step(g)
      /\ UNCHANGED <<taskVars, bodyVars, ready, inflight, main, entry, afar, mode>>
  BY DEF Unblock, At
<1>2. TypeOK /\ Top \in Call /\ CallOK(Top) /\ Top.on \in Task
  BY <1>1, TopIs DEF Inv, Types, CallOK
<1>3. Raised(Top.on) \in {None, "Failed", "Cancelled"}
  BY <1>1, <1>2, RaisedIs
<1>4. g \in Call /\ g.body = Top.body /\ g.how = "value" /\ g.pc = "run"
  BY <1>2, <1>3 DEF Call
<1> HIDE DEF g
<1>5. CallOK(g)
  BY <1>2, <1>4 DEF CallOK
<1> QED BY <1>1, <1>4, <1>5, Going

LEMMA AwaitObserveStep == ASSUME Inv, AwaitObserve PROVE Inv'
<1>0. PICK b, n, t, f : b = Top.body /\ n = Top.ip /\ t = Top.on /\ f = [Top EXCEPT !.pc = "then"]
  OBVIOUS
<1>1. /\ Running /\ Top.pc = "await" /\ Step(f)
      /\ resumeIp' = [resumeIp EXCEPT ![b] = n] /\ awaited' = [awaited EXCEPT ![b] = t]
      /\ IF requested[b]
           THEN ready' = Append(ready, Resume(b, n)) /\ UNCHANGED observers
           ELSE /\ UNCHANGED ready
                /\ observers' = IF isTerminal(b) THEN observers
                                ELSE [observers EXCEPT ![b] = Append(@, n)]
      /\ UNCHANGED <<status, requested, waiters, parent, invocation, started, inflight, main,
                     entry, afar, mode>>
  BY <1>0 DEF AwaitObserve, At
<1>2. /\ TypeOK /\ Types /\ Top \in Call /\ CallOK(Top) /\ b \in Body /\ b \in Task /\ b \in started
      /\ status[b] # "absent"
  BY <1>0, <1>1, TopIs DEF Inv, Types
<1>3. n \in 0..MaxAwaits /\ n \in 1..MaxAwaits /\ t \in Task /\ b \in invocation /\ t \in Task \cup {None}
  <2>1. n \in 0..MaxAwaits /\ n > 0 /\ t \in Task /\ b \in invocation
    BY <1>0, <1>1, <1>2 DEF Call, CallOK
  <2> QED BY <2>1, Constants
<1>4. f \in Call /\ f.body = b /\ f.pc = "then" /\ f.on = t /\ f.how = Top.how /\ f.raise = Top.raise /\ f.ip = n
  BY <1>0, <1>2 DEF Call
<1>5. Resume(b, n) \in FrameType /\ Resume(b, n).kind = "resume" /\ Resume(b, n).body = b
  BY <1>2, <1>3, FramesApart
<1>6. ready \in Seq(FrameType) /\ observers \in [Body -> Seq(1..MaxAwaits)]
  BY <1>2 DEF TypeOK
<1>7. /\ ready' \in Seq(FrameType)
      /\ \A g : Has(ready', g) <=> Has(ready, g) \/ (requested[b] /\ g = Resume(b, n))
  <2>1. CASE requested[b]
    <3>1. ready' = Append(ready, Resume(b, n))
      BY <1>1, <2>1
    <3>2. /\ Append(ready, Resume(b, n)) \in Seq(FrameType)
          /\ \A g : Has(Append(ready, Resume(b, n)), g) <=> g = Resume(b, n) \/ Has(ready, g)
      BY <1>5, <1>6, HasAppend
    <3> QED BY <2>1, <3>1, <3>2
  <2>2. CASE ~requested[b]
    BY <1>1, <1>6, <2>2
  <2> QED BY <2>1, <2>2
<1>8. ~requested[b] => ~isTerminal(b)
  BY <1>2, <1>3 DEF Inv, Lifecycle
<1>9. /\ observers' \in [Body -> Seq(1..MaxAwaits)] /\ \A c \in Body : c # b => observers'[c] = observers[c]
      /\ ~requested[b] => observers'[b] # <<>>
  <2>1. CASE requested[b]
    BY <1>1, <1>6, <2>1
  <2>2. CASE ~requested[b]
    <3>1. observers' = [observers EXCEPT ![b] = Append(observers[b], n)]
      BY <1>1, <1>8, <2>2
    <3>2. Append(observers[b], n) \in Seq(1..MaxAwaits) /\ Append(observers[b], n) # <<>>
      BY <1>2, <1>3, <1>6, HasAppend
    <3> QED BY <1>2, <1>6, <3>1, <3>2
  <2> QED BY <2>1, <2>2
<1>10. \A x : isTerminal(x)' <=> isTerminal(x)
  BY <1>1 DEF isTerminal
<1>11. \A g : There(g)' <=> There(g) \/ (requested[b] /\ g = Resume(b, n))
  BY <1>1, <1>7 DEF There
<1>12. Prompted(b)'
  BY <1>1, <1>3, <1>9, <1>11 DEF Prompted
<1>13. /\ stack' \in Seq(Call) /\ Len(stack') = Len(stack) /\ stack'[Len(stack)] = f /\ Len(stack) \in Nat
       /\ (\A i \in 1 .. Len(stack) : i < Len(stack) => stack'[i] = stack[i]) /\ Len(stack) > 0
       /\ (\A c : OnStack(c)' <=> OnStack(c))
  BY <1>0, <1>1, <1>2, <1>4, StackIs, StepIs, StepOn
<1>14. Types'
  <2>1. awaited' \in [Body -> Task \cup {None}] /\ resumeIp' \in [Body -> 0..MaxAwaits]
    BY <1>1, <1>2, <1>3 DEF TypeOK
  <2>2. TypeOK'
    BY <1>1, <1>2, <1>7, <1>9, <1>13, <2>1 DEF TypeOK, Call
  <2> QED BY <1>1, <1>2, <2>2 DEF Types
<1>15. CallOK(f)'
  <2>1. awaited'[b] = t
    BY <1>1, <1>2 DEF TypeOK
  <2>2. f.ip > 0
    BY <1>3, <1>4
  <2> QED BY <1>1, <1>2, <1>3, <1>4, <1>12, <2>1, <2>2 DEF CallOK
<1>16. \A e : CallOK(e) /\ e.pc = "block" => CallOK(e)'
  BY <1>1 DEF CallOK
<1>17. Calls'
  <2>1. Calls
    BY DEF Inv
  <2>2. \A i \in 1 .. Len(stack) : (i < Len(stack) /\ stack'[i] = stack[i]) \/ (i = Len(stack) /\ stack'[i] = f)
    BY <1>13
  <2> QED BY <1>13, <1>15, <1>16, <2>1, <2>2 DEF Calls
<1>18. Lifecycle' /\ Waiting'
  <2>1. Lifecycle /\ Waiting
    BY DEF Inv
  <2>2. Lifecycle'
    BY <1>1, <1>2, <1>7, <1>9, <1>10, <2>1 DEF Lifecycle
  <2> QED BY <1>1, <2>1, <2>2 DEF Waiting
<1>19. FramesOK'
  <2>1. FramesOK
    BY DEF Inv
  <2>2. \A g : FrameOK(g)' <=> FrameOK(g)
    BY <1>1, <1>10 DEF FrameOK
  <2>3. requested[b] => FrameOK(Resume(b, n))
    BY <1>2, <1>5 DEF FrameOK, IsResume
  <2> QED BY <1>11, <2>1, <2>2, <2>3 DEF FramesOK
<1>20. StartsOnce'
  <2>1. StartsOnce
    BY DEF Inv
  <2>2. CASE requested[b]
    <3>1. ready' = Append(ready, Resume(b, n)) /\ requested' = requested
      BY <1>1, <2>2
    <3> QED BY <1>2, <1>5, <2>1, <2>2, <3>1, StartsAppend
  <2>3. CASE ~requested[b]
    BY <1>1, <2>1, <2>3 DEF StartsOnce
  <2> QED BY <2>2, <2>3
<1>21. Woken'
  <2> SUFFICES ASSUME NEW c \in Body, c \in invocation, c \in started, ~OnStack(c)
               PROVE  Reached(c)' \/ Waits(c)'
    BY <1>1, <1>13 DEF Woken
  <2>1. c # b
    <3>1. stack \in Seq(Call) /\ Top = stack[Len(stack)]
      BY <1>1, <1>2, StackIs
    <3>2. OnStack(b)
      BY <1>0, <1>13, <3>1 DEF OnStack
    <3> QED BY <3>2
  <2>2. awaited'[c] = awaited[c] /\ observers'[c] = observers[c]
    BY <1>1, <1>2, <1>9, <2>1 DEF TypeOK
  <2>3. Reached(c) \/ Waits(c)
    BY DEF Inv, Woken
  <2>4. Reached(c) => Reached(c)'
    BY <1>11, <2>2 DEF Reached
  <2>5. Waits(c) => Waits(c)'
    BY <1>1, <1>10, <2>2 DEF Waits
  <2> QED BY <2>3, <2>4, <2>5
<1>22. QuietOK'
  <2> SUFFICES ASSUME Quiet
               PROVE  /\ afar' = <<>> /\ Len(stack') <= 1
                      /\ \A i \in 1 .. Len(stack') : stack'[i].pc # "block" /\ stack'[i].body \in invocation
                      /\ \A c \in Body : c \in invocation /\ c \in started => status[c] = "Running"
    BY <1>1 DEF QuietOK, Quiet
  <2>1. /\ afar = <<>> /\ \A c \in Body : c \in invocation /\ c \in started => status[c] = "Running"
    BY DEF Inv, QuietOK
  <2>2. Len(stack) = 1
    BY <1>1, TopIs
  <2>3. Len(stack') = 1 /\ stack'[1] = f /\ Len(stack') <= 1
    BY <1>13, <2>2
  <2>4. \A i \in 1 .. Len(stack') : i = 1
    BY <2>3
  <2> QED BY <1>1, <1>3, <1>4, <2>1, <2>3, <2>4
<1> QED BY <1>14, <1>17, <1>18, <1>19, <1>20, <1>21, <1>22 DEF Inv

(***************************************************************************)
(* The innermost call ends.                                                *)
(***************************************************************************)
LEMMA Leaving ==
  ASSUME Inv, Running, Pop, Types', Lifecycle', Waiting', FramesOK', StartsOnce',
         UNCHANGED <<started, afar, mode>>, invocation' \subseteq invocation, NEW b, b = Top.body,
         b \in invocation' => Reached(b)' \/ Waits(b)',
         \A c \in Body : c # b /\ c \in invocation' /\ (Reached(c) \/ Waits(c)) => Reached(c)' \/ Waits(c)',
         \A c \in Body : c \in invocation' /\ c \in started => status'[c] = status[c]
  PROVE  Inv'
<1>1. /\ Len(stack') = Len(stack) - 1
      /\ \A i \in 1 .. Len(stack') : i \in 1 .. Len(stack) /\ i < Len(stack) /\ stack'[i] = stack[i]
      /\ \A c : c # b => (OnStack(c)' <=> OnStack(c))
  BY PopIs DEF Inv, Types
<1>2. Calls'
  <2>1. Calls
    BY DEF Inv
  <2>2. \A i \in 1 .. Len(stack') : stack'[i].pc = "block" /\ CallOK(stack'[i])
    BY <1>1, <2>1 DEF Calls
  <2>3. \A e : e.pc = "block" /\ CallOK(e) => CallOK(e)'
    BY DEF CallOK
  <2> QED BY <2>2, <2>3 DEF Calls
<1>3. Woken'
  <2> SUFFICES ASSUME NEW c \in Body, c \in invocation', c \in started, ~OnStack(c)'
               PROVE  Reached(c)' \/ Waits(c)'
    BY DEF Woken
  <2>1. c = b \/ ~OnStack(c)
    BY <1>1
  <2>2. c = b \/ Reached(c) \/ Waits(c)
    BY <2>1 DEF Inv, Woken
  <2> QED BY <2>2
<1>4. QuietOK'
  <2> SUFFICES ASSUME Quiet
               PROVE  /\ afar' = <<>> /\ Len(stack') = 0
                      /\ \A c \in Body : c \in invocation' /\ c \in started => status'[c] = "Running"
    <3>1. Len(stack') = 0 => Len(stack') <= 1 /\ \A i \in 1 .. Len(stack') : FALSE
      OBVIOUS
    <3> QED BY <3>1 DEF QuietOK, Quiet
  <2>1. Len(stack) = 1
    BY TopIs
  <2>2. /\ afar = <<>> /\ \A c \in Body : c \in invocation /\ c \in started => status[c] = "Running"
    BY DEF Inv, QuietOK
  <2> QED BY <1>1, <2>1, <2>2
<1> QED BY <1>2, <1>3, <1>4 DEF Inv

LEMMA AwaitThenStep == ASSUME Inv, AwaitThen PROVE Inv'
<1>0. PICK b, t : b = Top.body /\ t = Top.on
  OBVIOUS
<1>1. /\ Running /\ Top.pc = "then" /\ Pop
      /\ IF isTerminal(t)
           THEN ready' = Append(ready, Wake(b, t)) /\ UNCHANGED waiters
           ELSE waiters' = [waiters EXCEPT ![t] = Append(@, b)] /\ UNCHANGED ready
      /\ UNCHANGED <<status, requested, observers, parent, bodyVars, inflight, main, entry, afar, mode>>
  BY <1>0 DEF AwaitThen, At
<1> USE DEF bodyVars
<1>2. /\ TypeOK /\ Types /\ b \in Body /\ b \in Task /\ b \in started /\ status[b] # "absent"
      /\ t \in Task /\ b \in invocation /\ awaited[b] = t /\ Prompted(b)
  BY <1>0, <1>1, TopIs DEF Inv, Types, CallOK
<1>3. /\ Wake(b, t) \in FrameType /\ Wake(b, t).kind = "wake" /\ Wake(b, t).body = b /\ Wake(b, t).what = t
      /\ ~IsResume(Wake(b, t))
  BY <1>2, FramesApart DEF IsResume
<1>4. ready \in Seq(FrameType) /\ waiters \in [Task -> Seq(Body)] /\ waiters[t] \in Seq(Body)
  BY <1>2 DEF TypeOK
<1>5. /\ ready' \in Seq(FrameType)
      /\ \A g : Has(ready', g) <=> Has(ready, g) \/ (isTerminal(t) /\ g = Wake(b, t))
  <2>1. CASE isTerminal(t)
    <3>1. ready' = Append(ready, Wake(b, t))
      BY <1>1, <2>1
    <3>2. /\ Append(ready, Wake(b, t)) \in Seq(FrameType)
          /\ \A g : Has(Append(ready, Wake(b, t)), g) <=> g = Wake(b, t) \/ Has(ready, g)
      BY <1>3, <1>4, HasAppend
    <3> QED BY <2>1, <3>1, <3>2
  <2>2. CASE ~isTerminal(t)
    BY <1>1, <1>4, <2>2
  <2> QED BY <2>1, <2>2
<1>6. /\ waiters' \in [Task -> Seq(Body)]
      /\ \A x \in Task, c \in Body : Has(waiters'[x], c) <=>
            Has(waiters[x], c) \/ (~isTerminal(t) /\ x = t /\ c = b)
  <2>1. CASE isTerminal(t)
    BY <1>1, <1>4, <2>1
  <2>2. CASE ~isTerminal(t)
    <3>1. waiters' = [waiters EXCEPT ![t] = Append(waiters[t], b)]
      BY <1>1, <2>2
    <3>2. /\ Append(waiters[t], b) \in Seq(Body)
          /\ \A c : Has(Append(waiters[t], b), c) <=> c = b \/ Has(waiters[t], c)
      BY <1>2, <1>4, HasAppend
    <3>3. waiters'[t] = Append(waiters[t], b) /\ \A x \in Task : x # t => waiters'[x] = waiters[x]
      BY <1>2, <1>4, <3>1
    <3>4. waiters' \in [Task -> Seq(Body)]
      BY <1>2, <1>4, <3>1, <3>2
    <3> QED BY <2>2, <3>2, <3>3, <3>4
  <2> QED BY <2>1, <2>2
<1>7. \A x : isTerminal(x)' <=> isTerminal(x)
  BY <1>1 DEF isTerminal
<1>8. \A g : There(g)' <=> There(g) \/ (isTerminal(t) /\ g = Wake(b, t))
  BY <1>1, <1>5 DEF There
<1>9. stack' \in Seq(Call)
  BY <1>1, <1>2, PopIs
<1>10. Types'
  <2>1. TypeOK'
    BY <1>1, <1>2, <1>5, <1>6, <1>9 DEF TypeOK, Call
  <2> QED BY <1>1, <1>2, <2>1 DEF Types
<1>11. Lifecycle'
  <2>1. Lifecycle
    BY DEF Inv
  <2> QED BY <1>1, <1>5, <1>7, <2>1 DEF Lifecycle
<1>12. Waiting'
  <2>1. Waiting
    BY DEF Inv
  <2> QED BY <1>1, <1>2, <1>6, <2>1 DEF Waiting
<1>13. FramesOK'
  <2>1. FramesOK
    BY DEF Inv
  <2>2. \A g : FrameOK(g)' <=> FrameOK(g)
    BY <1>1, <1>7 DEF FrameOK
  <2>3. isTerminal(t) => FrameOK(Wake(b, t))
    BY <1>2, <1>3 DEF FrameOK
  <2> QED BY <1>8, <2>1, <2>2, <2>3 DEF FramesOK
<1>14. StartsOnce'
  <2>1. StartsOnce
    BY DEF Inv
  <2>2. CASE isTerminal(t)
    <3>1. ready' = Append(ready, Wake(b, t)) /\ requested' = requested
      BY <1>1, <2>2
    <3> QED BY <1>2, <1>3, <2>1, <3>1, StartsAppend
  <2>3. CASE ~isTerminal(t)
    BY <1>1, <2>1, <2>3 DEF StartsOnce
  <2> QED BY <2>2, <2>3
<1>15. Reached(b)' \/ Waits(b)'
  <2>1. CASE isTerminal(t)
    <3>1. There(Wake(b, t))' /\ awaited'[b] = t
      BY <1>1, <1>2, <1>8, <2>1
    <3> QED BY <1>3, <3>1 DEF Reached
  <2>2. ASSUME NEW n \in 0..MaxAwaits, There(Resume(b, n)) PROVE Reached(b)'
    <3>1. Resume(b, n) \in FrameType /\ Resume(b, n).body = b /\ Resume(b, n).kind # "wake"
      BY <1>2, FramesApart
    <3> QED BY <1>8, <2>2, <3>1 DEF Reached
  <2>3. CASE ~isTerminal(t) /\ ~requested[b] /\ observers[b] # <<>>
    BY <1>1, <1>2, <1>6, <1>7, <2>3 DEF Waits
  <2> QED BY <1>2, <2>1, <2>2, <2>3 DEF Prompted
<1>16. ASSUME NEW c \in Body, Reached(c) \/ Waits(c) PROVE Reached(c)' \/ Waits(c)'
  <2>1. Reached(c) => Reached(c)'
    BY <1>1, <1>8 DEF Reached
  <2>2. Waits(c) => Waits(c)'
    BY <1>1, <1>6, <1>7 DEF Waits
  <2> QED BY <1>16, <2>1, <2>2
<1> QED BY <1>0, <1>1, <1>10, <1>11, <1>12, <1>13, <1>14, <1>15, <1>16, Leaving

(***************************************************************************)
(* Settling and cancelling.                                                *)
(***************************************************************************)

\* What a delivery keeps.
Kept ==
  /\ Lifecycle' /\ Waiting' /\ FramesOK'
  /\ \A c \in Body : Prompted(c) /\ c \in invocation' => Prompted(c)'
  /\ \A c \in Body : c \in invocation' /\ (Reached(c) \/ Waits(c)) => Reached(c)' \/ Waits(c)'

Statuses == {"absent", "Pending", "Running", "Succeeded", "Failed", "Cancelled"}

\* The frames a cancellation of b sends, with the wake-ups when its task settles too.
Cut(b, w, f) == (w /\ Has(Wakes(b), f)) \/ \E c \in Cascade(b) : Has(Cancels(c), f)

LEMMA AskIs ==
  ASSUME TypeOK, NEW R, R \subseteq Body, Ask(R)
  PROVE  /\ requested' \in [Body -> BOOLEAN] /\ observers' \in [Body -> Seq(1..MaxAwaits)]
         /\ \A c \in Body : requested'[c] <=> requested[c] \/ c \in R
         /\ \A c \in Body : observers'[c] = IF c \in R THEN <<>> ELSE observers[c]
<1>1. requested \in [Body -> BOOLEAN] /\ observers \in [Body -> Seq(1..MaxAwaits)] /\ <<>> \in Seq(1..MaxAwaits)
  BY DEF TypeOK
<1>2. requested' \in [Body -> BOOLEAN] /\ \A c \in Body : requested'[c] <=> requested[c] \/ c \in R
  BY <1>1 DEF Ask
<1>3. observers' \in [Body -> Seq(1..MaxAwaits)] /\ \A c \in Body : observers'[c] = IF c \in R THEN <<>> ELSE observers[c]
  BY <1>1 DEF Ask
<1> QED BY <1>2, <1>3

LEMMA Cancelling ==
  ASSUME Inv, NEW b \in Body, NEW w \in BOOLEAN, Ask(Cascade(b)), UNCHANGED <<started, awaited>>,
         invocation' \subseteq invocation,
         w => /\ status' = [status EXCEPT ![b] = "Cancelled"] /\ ~isTerminal(b)
              /\ waiters' = [waiters EXCEPT ![b] = <<>>],
         ~w => UNCHANGED <<status, waiters>> /\ Live(b),
         \A f : Has(ready, f) => Has(ready', f),
         \A f : f \in inflight => f \in inflight',
         \A f : Has(ready', f) => Has(ready, f) \/ Cut(b, w, f),
         \A f : f \in inflight' => f \in inflight \/ Cut(b, w, f),
         \A f : Cut(b, w, f) => There(f)'
  PROVE  /\ Kept /\ requested' \in [Body -> BOOLEAN] /\ observers' \in [Body -> Seq(1..MaxAwaits)]
         /\ status' \in [Task -> Statuses] /\ waiters' \in [Task -> Seq(Body)]
         /\ \A c \in Body : c # b => status'[c] = status[c]
         /\ \A c \in Body : requested[c] => requested'[c]
         /\ \A f \in FrameType : Cut(b, w, f) /\ IsResume(f) => requested'[f.body]
<1>1. TypeOK /\ b \in Task /\ status \in [Task -> Statuses] /\ waiters \in [Task -> Seq(Body)]
  BY Constants DEF Inv, Types, TypeOK, Statuses
<1>2. b \in Cascade(b) /\ Cascade(b) \subseteq Body /\ \A c \in Cascade(b) : c = b \/ Live(c)
  BY CascadeIs
<1>3. /\ requested' \in [Body -> BOOLEAN] /\ observers' \in [Body -> Seq(1..MaxAwaits)]
      /\ \A c \in Body : requested'[c] <=> requested[c] \/ c \in Cascade(b)
      /\ \A c \in Body : observers'[c] = IF c \in Cascade(b) THEN <<>> ELSE observers[c]
  BY <1>1, <1>2, AskIs
<1>4. /\ status' \in [Task -> Statuses] /\ \A t \in Task : status'[t] = IF w /\ t = b THEN "Cancelled" ELSE status[t]
  BY <1>1 DEF Statuses
<1>5. /\ waiters' \in [Task -> Seq(Body)]
      /\ \A t \in Task : waiters'[t] = IF w /\ t = b THEN <<>> ELSE waiters[t]
  <2>1. <<>> \in Seq(Body)
    OBVIOUS
  <2>2. CASE w
    BY <1>1, <2>1, <2>2
  <2>3. CASE ~w
    BY <1>1, <2>3
  <2> QED BY <2>2, <2>3
<1>6. \A c \in Cascade(b) : \A f : Has(Cancels(c), f) <=> \E n \in 1..MaxAwaits : Has(observers[c], n) /\ f = Resume(c, n)
  BY <1>1, <1>2, CancelsHas
<1>7. \A f : Has(Wakes(b), f) <=> \E c \in Body : Has(waiters[b], c) /\ f = Wake(c, b)
  BY <1>1, WakesHas
<1>8. w => isTerminal(b)'
  BY <1>1, <1>4 DEF isTerminal
<1>9. ASSUME NEW f, Cut(b, w, f) PROVE Sent(f)
  <2>1. CASE w /\ Has(Wakes(b), f)
    BY <1>1, <1>7, <1>8, <2>1 DEF Sent
  <2>2. CASE \E c \in Cascade(b) : Has(Cancels(c), f)
    <3>1. PICK c \in Cascade(b) : Has(Cancels(c), f)
      BY <2>2
    <3>2. c \in Body /\ requested'[c]
      BY <1>2, <1>3
    <3> QED BY <1>6, <3>1, <3>2 DEF Sent
  <2> QED BY <1>9, <2>1, <2>2 DEF Cut
<1>10. \A t \in Task : \/ status'[t] = status[t]
                       \/ ~isTerminal(t) /\ isTerminal(t)'
  BY <1>4, <1>8
<1>11. \A c \in Body : status'[c] # status[c] => (c \in started \/ status'[c] = "Cancelled")
                                                  /\ (c \in invocation' => requested'[c])
  BY <1>2, <1>3, <1>4, Constants
<1>12. ASSUME NEW c \in Body, requested'[c], ~requested[c]
       PROVE  status'[c] # "absent" /\ \A n \in 1..MaxAwaits : Has(observers[c], n) => There(Resume(c, n))'
  <2>1. c \in Cascade(b) /\ c \in Task
    BY <1>3, <1>12, Constants
  <2>2. status'[c] # "absent"
    <3>1. Live(c) => status[c] # "absent"
      BY DEF Live
    <3> QED BY <1>2, <1>4, <2>1, <3>1
  <2>3. ASSUME NEW n \in 1..MaxAwaits, Has(observers[c], n) PROVE There(Resume(c, n))'
    <3>1. Has(Cancels(c), Resume(c, n))
      BY <1>6, <2>1, <2>3
    <3>2. Cut(b, w, Resume(c, n))
      BY <2>1, <3>1 DEF Cut
    <3> QED BY <3>2
  <2> QED BY <2>2, <2>3
<1>13. \A c \in Body : \/ observers'[c] = observers[c]
                       \/ observers'[c] = <<>> /\ (requested'[c] \/ c \notin invocation')
  BY <1>3
<1>14. ASSUME NEW t \in Task
       PROVE  \/ waiters'[t] = waiters[t] /\ status'[t] = status[t]
              \/ waiters'[t] = <<>> /\ \A c \in Body : Has(waiters[t], c) => There(Wake(c, t))'
  <2>1. CASE w /\ t = b
    <3>1. ASSUME NEW c \in Body, Has(waiters[t], c) PROVE There(Wake(c, t))'
      <4>1. Cut(b, w, Wake(c, t))
        BY <1>7, <2>1, <3>1 DEF Cut
      <4> QED BY <4>1
    <3> QED BY <1>5, <2>1, <3>1
  <2>2. CASE ~(w /\ t = b)
    BY <1>4, <1>5, <2>2
  <2> QED BY <2>1, <2>2
<1>15. \A c \in Body : requested[c] => requested'[c]
  BY <1>3
<1>16. \A f : f \in inflight => There(f)'
  BY DEF There
<1>17. \A f : Has(ready', f) => Has(ready, f) \/ f \in inflight \/ Sent(f)
  BY <1>9
<1>18. \A f : f \in inflight' => f \in inflight \/ Sent(f)
  BY <1>9
<1>19. Kept
  BY <1>10, <1>11, <1>12, <1>13, <1>14, <1>15, <1>16, <1>17, <1>18, Delivered DEF Kept
<1>20. \A c \in Body : c # b => status'[c] = status[c]
  BY <1>4, Constants
<1>21. ASSUME NEW f \in FrameType, Cut(b, w, f), IsResume(f) PROVE requested'[f.body]
  <2>1. ~Has(Wakes(b), f)
    BY <1>7, <1>21, FramesApart DEF IsResume
  <2>2. PICK c \in Cascade(b) : Has(Cancels(c), f)
    BY <1>21, <2>1 DEF Cut
  <2>3. f.body = c
    BY <1>6, <2>2, FramesApart
  <2> QED BY <1>2, <1>3, <2>3
<1> QED BY <1>3, <1>4, <1>5, <1>15, <1>19, <1>20, <1>21
\* The frames the scheduler's thread queues when it cancels.
LEMMA CutIs ==
  ASSUME TypeOK, NEW b \in Body, NEW fs \in Frames(Cascade(b) \ {b})
  PROVE  /\ Cancels(b) \o fs \in Seq(FrameType)
         /\ \A f : Has(Cancels(b) \o fs, f) <=> Cut(b, FALSE, f)
         /\ Wakes(b) \o (Cancels(b) \o fs) \in Seq(FrameType)
         /\ \A f : Has(Wakes(b) \o (Cancels(b) \o fs), f) <=> Cut(b, TRUE, f)
         /\ ready \o Wakes(b) \o Cancels(b) \o fs = ready \o (Wakes(b) \o (Cancels(b) \o fs))
         /\ ready \o Cancels(b) \o fs = ready \o (Cancels(b) \o fs)
<1>1. b \in Cascade(b) /\ Cascade(b) \subseteq Body /\ b \in Task /\ Cascade(b) \ {b} \subseteq Body
  BY CascadeIs, Constants
<1>2. /\ ready \in Seq(FrameType) /\ Wakes(b) \in Seq(FrameType) /\ Cancels(b) \in Seq(FrameType)
      /\ fs \in Seq(FrameType) /\ \A f : Has(fs, f) <=> \E c \in Cascade(b) \ {b} : Has(Cancels(c), f)
  <2>1. ready \in Seq(FrameType)
    BY DEF TypeOK
  <2>2. fs \in Seq(FrameType) /\ \A f : Has(fs, f) <=> \E c \in Cascade(b) \ {b} : Has(Cancels(c), f)
    BY <1>1, FramesHas
  <2> QED BY <1>1, <2>1, <2>2, WakesHas, CancelsHas
<1>3. /\ Cancels(b) \o fs \in Seq(FrameType)
      /\ \A f : Has(Cancels(b) \o fs, f) <=> Has(Cancels(b), f) \/ Has(fs, f)
  BY <1>2, HasConcat
<1>4. /\ Wakes(b) \o (Cancels(b) \o fs) \in Seq(FrameType)
      /\ \A f : Has(Wakes(b) \o (Cancels(b) \o fs), f) <=> Has(Wakes(b), f) \/ Has(Cancels(b) \o fs, f)
  BY <1>2, <1>3, HasConcat
<1>5. \A f : Has(Cancels(b) \o fs, f) <=> \E c \in Cascade(b) : Has(Cancels(c), f)
  BY <1>1, <1>2, <1>3
<1>6. (ready \o Wakes(b)) \o Cancels(b) = ready \o (Wakes(b) \o Cancels(b)) /\ Wakes(b) \o Cancels(b) \in Seq(FrameType)
  BY <1>2, ConcatAssociative
<1>7. (ready \o (Wakes(b) \o Cancels(b))) \o fs = ready \o ((Wakes(b) \o Cancels(b)) \o fs)
  <2> DEFINE m == Wakes(b) \o Cancels(b)
  <2>1. m \in Seq(FrameType)
    BY <1>6
  <2> HIDE DEF m
  <2>2. (ready \o m) \o fs = ready \o (m \o fs)
    BY <1>2, <2>1, ConcatAssociative
  <2> QED BY <2>2 DEF m
<1>8. (Wakes(b) \o Cancels(b)) \o fs = Wakes(b) \o (Cancels(b) \o fs)
  BY <1>2, ConcatAssociative
<1>9. (ready \o Cancels(b)) \o fs = ready \o (Cancels(b) \o fs)
  BY <1>2, ConcatAssociative
<1>10. ready \o Wakes(b) \o Cancels(b) \o fs = ready \o (Wakes(b) \o (Cancels(b) \o fs))
  BY <1>6, <1>7, <1>8
<1>11. \A f : Has(Cancels(b) \o fs, f) <=> Cut(b, FALSE, f)
  BY <1>5 DEF Cut
<1>12. \A f : Has(Wakes(b) \o (Cancels(b) \o fs), f) <=> Cut(b, TRUE, f)
  BY <1>4, <1>5 DEF Cut
<1> QED BY <1>3, <1>4, <1>9, <1>10, <1>11, <1>12

\* The effect on the tasks and the queue of cancelling b on the scheduler's thread, whether
\* its task settles (w) or not.
LEMMA Cancelled ==
  ASSUME Inv, NEW b \in Body, NEW w \in BOOLEAN, Ask(Cascade(b)),
         w => /\ status' = [status EXCEPT ![b] = "Cancelled"] /\ ~isTerminal(b)
              /\ waiters' = [waiters EXCEPT ![b] = <<>>],
         ~w => UNCHANGED <<status, waiters>> /\ Live(b),
         \E fs \in Frames(Cascade(b) \ {b}) :
            ready' = IF w THEN ready \o Wakes(b) \o Cancels(b) \o fs ELSE ready \o Cancels(b) \o fs,
         UNCHANGED <<started, awaited, inflight>>, invocation' \subseteq invocation
  PROVE  /\ Kept /\ StartsOnce'
         /\ requested' \in [Body -> BOOLEAN] /\ observers' \in [Body -> Seq(1..MaxAwaits)]
         /\ status' \in [Task -> Statuses] /\ waiters' \in [Task -> Seq(Body)] /\ ready' \in Seq(FrameType)
         /\ \A c \in Body : c # b => status'[c] = status[c]
<1>1. TypeOK /\ ready \in Seq(FrameType) /\ StartsOnce
  BY DEF Inv, Types, TypeOK
<1>2. PICK fs \in Frames(Cascade(b) \ {b}) :
            ready' = IF w THEN ready \o Wakes(b) \o Cancels(b) \o fs ELSE ready \o Cancels(b) \o fs
  OBVIOUS
<1>3. PICK q \in Seq(FrameType) : ready' = ready \o q /\ \A f : Has(q, f) <=> Cut(b, w, f)
  <2>1. CASE w = TRUE
    BY <1>1, <1>2, <2>1, CutIs
  <2>2. CASE w = FALSE
    BY <1>1, <1>2, <2>2, CutIs
  <2> QED BY <2>1, <2>2
<1>4. ready' \in Seq(FrameType) /\ \A f : Has(ready', f) <=> Has(ready, f) \/ Cut(b, w, f)
  BY <1>1, <1>3, HasConcat
<1>5. \A f : Cut(b, w, f) => There(f)'
  BY <1>4 DEF There
<1>6. /\ Kept /\ requested' \in [Body -> BOOLEAN] /\ observers' \in [Body -> Seq(1..MaxAwaits)]
      /\ status' \in [Task -> Statuses] /\ waiters' \in [Task -> Seq(Body)]
      /\ \A c \in Body : c # b => status'[c] = status[c]
      /\ \A c \in Body : requested[c] => requested'[c]
      /\ \A f \in FrameType : Cut(b, w, f) /\ IsResume(f) => requested'[f.body]
  BY <1>4, <1>5, Cancelling
<1>7. StartsOnce'
  BY <1>1, <1>3, <1>6, StartsConcat
<1> QED BY <1>4, <1>6, <1>7

LEMMA Settled ==
  ASSUME Inv, NEW b \in Body, b \in started, NEW s \in {"Succeeded", "Failed"}, ~isTerminal(b), Settle(b, s),
         UNCHANGED <<started, awaited, inflight>>, invocation' \subseteq invocation, b \notin invocation'
  PROVE  /\ Kept /\ StartsOnce'
         /\ requested' \in [Body -> BOOLEAN] /\ observers' \in [Body -> Seq(1..MaxAwaits)]
         /\ status' \in [Task -> Statuses] /\ waiters' \in [Task -> Seq(Body)] /\ ready' \in Seq(FrameType)
         /\ \A c \in Body : c # b => status'[c] = status[c]
<1>1. /\ TypeOK /\ b \in Task /\ status \in [Task -> Statuses] /\ waiters \in [Task -> Seq(Body)]
      /\ observers \in [Body -> Seq(1..MaxAwaits)] /\ requested \in [Body -> BOOLEAN]
      /\ ready \in Seq(FrameType) /\ StartsOnce
  BY Constants DEF Inv, Types, TypeOK, Statuses
<1>2. /\ status' = [status EXCEPT ![b] = s] /\ requested' = requested
      /\ waiters' = [waiters EXCEPT ![b] = <<>>] /\ observers' = [observers EXCEPT ![b] = <<>>]
      /\ ready' = ready \o Wakes(b)
  BY DEF Settle
<1>3. /\ status' \in [Task -> Statuses] /\ \A t \in Task : status'[t] = IF t = b THEN s ELSE status[t]
  BY <1>1, <1>2 DEF Statuses
<1>4. /\ waiters' \in [Task -> Seq(Body)] /\ \A t \in Task : waiters'[t] = IF t = b THEN <<>> ELSE waiters[t]
  <2>1. <<>> \in Seq(Body)
    OBVIOUS
  <2> QED BY <1>1, <1>2, <2>1
<1>5. /\ observers' \in [Body -> Seq(1..MaxAwaits)]
      /\ \A c \in Body : observers'[c] = IF c = b THEN <<>> ELSE observers[c]
  <2>1. <<>> \in Seq(1..MaxAwaits)
    OBVIOUS
  <2> QED BY <1>1, <1>2, <2>1
<1>6. Wakes(b) \in Seq(FrameType) /\ \A f : Has(Wakes(b), f) <=> \E c \in Body : Has(waiters[b], c) /\ f = Wake(c, b)
  BY <1>1, WakesHas
<1>7. ready' \in Seq(FrameType) /\ \A f : Has(ready', f) <=> Has(ready, f) \/ Has(Wakes(b), f)
  BY <1>1, <1>2, <1>6, HasConcat
<1>8. isTerminal(b)'
  BY <1>1, <1>3 DEF isTerminal
<1>9. \A f : Has(Wakes(b), f) => Sent(f)
  BY <1>1, <1>6, <1>8 DEF Sent
<1>10. \A t \in Task : \/ status'[t] = status[t]
                       \/ ~isTerminal(t) /\ isTerminal(t)'
  BY <1>3, <1>8
<1>11. \A c \in Body : status'[c] # status[c] => (c \in started \/ status'[c] = "Cancelled")
                                                  /\ (c \in invocation' => requested'[c])
  BY <1>3, Constants
<1>12. \A c \in Body : /\ requested[c] => requested'[c]
                       /\ ~(requested'[c] /\ ~requested[c])
                       /\ \/ observers'[c] = observers[c]
                          \/ observers'[c] = <<>> /\ (requested'[c] \/ c \notin invocation')
  <2> TAKE c \in Body
  <2>1. (requested[c] => requested'[c]) /\ ~(requested'[c] /\ ~requested[c])
    BY <1>2, Zenon
  <2>2. c # b => observers'[c] = observers[c]
    BY <1>5
  <2>3. c = b => observers'[c] = <<>> /\ c \notin invocation'
    BY <1>5
  <2> QED BY <2>1, <2>2, <2>3
<1>13. ASSUME NEW t \in Task
       PROVE  \/ waiters'[t] = waiters[t] /\ status'[t] = status[t]
              \/ waiters'[t] = <<>> /\ \A c \in Body : Has(waiters[t], c) => There(Wake(c, t))'
  <2>1. CASE t = b
    <3>1. ASSUME NEW c \in Body, Has(waiters[t], c) PROVE There(Wake(c, t))'
      <4>1. Has(ready', Wake(c, t))
        BY <1>6, <1>7, <2>1, <3>1
      <4> QED BY <4>1 DEF There
    <3> QED BY <1>4, <2>1, <3>1
  <2>2. CASE t # b
    BY <1>3, <1>4, <2>2
  <2> QED BY <2>1, <2>2
<1>14. /\ \A f : Has(ready, f) => Has(ready', f)
       /\ \A f : f \in inflight => There(f)'
       /\ \A f : Has(ready', f) => Has(ready, f) \/ f \in inflight \/ Sent(f)
       /\ \A f : f \in inflight' => f \in inflight \/ Sent(f)
  BY <1>7, <1>9 DEF There
<1>15. Kept
  BY <1>10, <1>11, <1>12, <1>13, <1>14, Delivered DEF Kept
<1>16. \A f \in FrameType : Has(Wakes(b), f) /\ IsResume(f) => requested'[f.body]
  BY <1>6, FramesApart DEF IsResume
<1>17. StartsOnce'
  BY <1>1, <1>2, <1>6, <1>12, <1>16, StartsConcat
<1>18. \A c \in Body : c # b => status'[c] = status[c]
  BY <1>3, Constants
<1> QED BY <1>1, <1>2, <1>3, <1>4, <1>5, <1>7, <1>15, <1>17, <1>18

LEMMA LeaveStep ==
  ASSUME Inv, Running, NEW b, b = Top.body, NEW s \in {"Succeeded", "Failed", "Cancelled"}, Leave(b, s), Pop,
         UNCHANGED <<started, awaited, resumeIp, inflight, main, entry, afar, mode>>
  PROVE  Inv'
<1>1. /\ TypeOK /\ Types /\ b \in Body /\ b \in Task /\ b \in started /\ StartsOnce
      /\ status \in [Task -> Statuses]
  BY TopIs DEF Inv, Types, TypeOK, Statuses
<1>2. invocation' \subseteq invocation /\ b \notin invocation'
  BY DEF Leave
<1>3. /\ Kept /\ StartsOnce' /\ parent' = parent
      /\ requested' \in [Body -> BOOLEAN] /\ observers' \in [Body -> Seq(1..MaxAwaits)]
      /\ status' \in [Task -> Statuses] /\ waiters' \in [Task -> Seq(Body)] /\ ready' \in Seq(FrameType)
      /\ \A c \in Body : c # b => status'[c] = status[c]
  <2>1. CASE UNCHANGED <<taskVars, ready>>
    <3> USE DEF taskVars
    <3>1. \A f : (Has(ready, f) <=> Has(ready', f)) /\ (f \in inflight => There(f)')
      BY <2>1 DEF There
    <3>2. Kept
      BY <1>2, <2>1, <3>1, Delivered DEF Kept
    <3>3. StartsOnce'
      BY <1>1, <2>1 DEF StartsOnce
    <3>4. /\ requested' \in [Body -> BOOLEAN] /\ observers' \in [Body -> Seq(1..MaxAwaits)]
          /\ status' \in [Task -> Statuses] /\ waiters' \in [Task -> Seq(Body)] /\ ready' \in Seq(FrameType)
          /\ \A c \in Body : c # b => status'[c] = status[c]
      BY <1>1, <2>1 DEF TypeOK
    <3>5. parent' = parent
      BY <2>1
    <3> QED BY <3>2, <3>3, <3>4, <3>5
  <2>2. CASE s # "Cancelled" /\ ~isTerminal(b) /\ Settle(b, s)
    <3>1. s \in {"Succeeded", "Failed"} /\ parent' = parent
      BY <2>2 DEF Settle
    <3> QED BY <1>1, <1>2, <2>2, <3>1, Settled
  <2>3. CASE s = "Cancelled" /\ ~isTerminal(b) /\ SettleCancelled(b)
    <3>1. /\ Ask(Cascade(b)) /\ status' = [status EXCEPT ![b] = "Cancelled"]
          /\ waiters' = [waiters EXCEPT ![b] = <<>>] /\ parent' = parent
          /\ \E fs \in Frames(Cascade(b) \ {b}) : ready' = ready \o Wakes(b) \o Cancels(b) \o fs
      BY <2>3 DEF SettleCancelled
    <3> QED BY <1>1, <1>2, <2>3, <3>1, Cancelled
  <2>4. \/ UNCHANGED <<taskVars, ready>>
        \/ s # "Cancelled" /\ ~isTerminal(b) /\ Settle(b, s)
        \/ s = "Cancelled" /\ ~isTerminal(b) /\ SettleCancelled(b)
    BY DEF Leave
  <2> QED BY <2>1, <2>2, <2>3, <2>4
<1>4. Types'
  <2>1. stack' \in Seq(Call)
    BY <1>1, PopIs
  <2>2. TypeOK'
    BY <1>1, <1>2, <1>3, <2>1 DEF TypeOK, Call, Statuses
  <2> QED BY <1>1, <2>2 DEF Types
<1> QED BY <1>2, <1>3, <1>4, Leaving DEF Kept

LEMMA UncaughtStep == ASSUME Inv, Uncaught PROVE Inv'
<1>0. PICK b, s : b = Top.body /\ s = Top.raise
  OBVIOUS
<1>1. /\ Running /\ Top.raise # None /\ Leave(b, s) /\ Pop
      /\ UNCHANGED <<started, awaited, resumeIp, inflight, main, entry, afar, mode>>
  BY <1>0 DEF Uncaught, At
<1>2. s \in {"Succeeded", "Failed", "Cancelled"}
  BY <1>0, <1>1, TopIs DEF Call
<1> QED BY <1>0, <1>1, <1>2, LeaveStep

LEMMA ReturnStep == ASSUME Inv, Return PROVE Inv'
<1>0. PICK b : b = Top.body
  OBVIOUS
<1>1. /\ Running /\ Pop /\ UNCHANGED <<started, awaited, resumeIp, inflight, main, entry, afar, mode>>
  BY DEF Return, Calm, At
<1>2. PICK s \in {"Succeeded", "Failed"} : Leave(b, s)
  BY <1>0 DEF Return
<1> QED BY <1>0, <1>1, <1>2, LeaveStep

(***************************************************************************)
(* Steps beside the stack.                                                 *)
(***************************************************************************)
LEMMA Staying ==
  ASSUME Inv, Kept, StartsOnce', Types', UNCHANGED <<started, awaited, invocation, stack, mode>>,
         Quiet => /\ afar' = <<>>
                  /\ \A c \in Body : c \in invocation /\ c \in started => status'[c] = status[c]
  PROVE  Inv'
<1>1. stack \in Seq(Call) /\ Calls
  BY DEF Inv, Types, TypeOK, Call
<1>2. \A i \in 1 .. Len(stack) : stack[i] \in Call /\ stack[i].body \in Body
  <2>1. \A e \in Call : e.body \in Body
    BY DEF Call
  <2> QED BY <1>1, <2>1, ElementOfSeq
<1>3. \A e : e.body \in Body /\ CallOK(e) => CallOK(e)'
  BY DEF CallOK, Kept
<1>4. Calls'
  BY <1>1, <1>2, <1>3 DEF Calls
<1>5. \A b : OnStack(b)' <=> OnStack(b)
  BY DEF OnStack
<1>6. Woken'
  BY <1>5 DEF Inv, Woken, Kept
<1>7. QuietOK'
  BY DEF Inv, QuietOK, Quiet
<1> QED BY <1>4, <1>6, <1>7 DEF Inv, Kept

LEMMA TaskCancelStep == ASSUME Inv, NEW b \in Body, TaskCancel(b) PROVE Inv'
<1>1. /\ UNCHANGED <<bodyVars, inflight, stack, main, entry, afar, mode>>
      /\ (status[b] = "Pending" /\ SettleCancelled(b)) \/ (status[b] = "Running" /\ requestCancellation(b))
  BY DEF TaskCancel
<1> USE DEF bodyVars
<1>2. /\ TypeOK /\ Types /\ StartsOnce /\ (status[b] = "Pending" => b \notin started)
      /\ (Quiet => afar = <<>>)
  BY DEF Inv, Types, Lifecycle, QuietOK
<1>3. CASE UNCHANGED <<taskVars, ready>>
  <2>1. TypeOK'
    BY <1>1, <1>2, <1>3 DEF TypeOK, taskVars
  <2>2. Types' /\ (Quiet => afar' = <<>>)
    BY <1>1, <1>2, <2>1 DEF Types
  <2> QED BY <1>1, <1>3, <2>2, Aside
<1>4. ASSUME NEW w \in BOOLEAN, Ask(Cascade(b)), parent' = parent,
             w => /\ status' = [status EXCEPT ![b] = "Cancelled"] /\ ~isTerminal(b)
                  /\ waiters' = [waiters EXCEPT ![b] = <<>>] /\ b \notin started,
             ~w => UNCHANGED <<status, waiters>> /\ Live(b),
             \E fs \in Frames(Cascade(b) \ {b}) :
                ready' = IF w THEN ready \o Wakes(b) \o Cancels(b) \o fs ELSE ready \o Cancels(b) \o fs
      PROVE  Inv'
  <2>1. /\ Kept /\ StartsOnce'
        /\ requested' \in [Body -> BOOLEAN] /\ observers' \in [Body -> Seq(1..MaxAwaits)]
        /\ status' \in [Task -> Statuses] /\ waiters' \in [Task -> Seq(Body)] /\ ready' \in Seq(FrameType)
        /\ \A c \in Body : c # b => status'[c] = status[c]
    BY <1>1, <1>4, Cancelled
  <2>2. TypeOK'
    BY <1>1, <1>2, <1>4, <2>1 DEF TypeOK, Statuses
  <2>3. Types'
    BY <1>1, <1>2, <2>2 DEF Types
  <2>4. \A c \in Body : c \in started => status'[c] = status[c]
    BY <1>4, <2>1
  <2> QED BY <1>1, <1>2, <2>1, <2>3, <2>4, Staying
<1>5. CASE status[b] = "Pending" /\ SettleCancelled(b)
  <2>1. /\ Ask(Cascade(b)) /\ status' = [status EXCEPT ![b] = "Cancelled"] /\ parent' = parent
        /\ waiters' = [waiters EXCEPT ![b] = <<>>] /\ ~isTerminal(b) /\ b \notin started
        /\ \E fs \in Frames(Cascade(b) \ {b}) : ready' = ready \o Wakes(b) \o Cancels(b) \o fs
    BY <1>2, <1>5 DEF SettleCancelled, isTerminal
  <2> QED BY <2>1, <1>4
<1>6. CASE status[b] = "Running" /\ requestCancellation(b)
  <2>1. CASE Live(b)
    <3>1. /\ Ask(Cascade(b)) /\ UNCHANGED <<status, waiters>> /\ parent' = parent
          /\ \E fs \in Frames(Cascade(b) \ {b}) : ready' = ready \o Cancels(b) \o fs
      BY <1>6, <2>1 DEF requestCancellation
    <3> QED BY <2>1, <3>1, <1>4
  <2>2. CASE ~Live(b)
    BY <1>3, <1>6, <2>2 DEF requestCancellation, taskVars
  <2> QED BY <2>1, <2>2
<1> QED BY <1>1, <1>5, <1>6

LEMMA NativeSettlesStep == ASSUME Inv, NEW t \in Native, NEW s \in {"Succeeded", "Failed"}, NativeSettles(t, s) PROVE Inv'
<1>1. /\ ~isTerminal(t) /\ status' = [status EXCEPT ![t] = s]
      /\ inflight' = inflight \cup {Wakes(t)[i] : i \in DOMAIN waiters[t]}
      /\ waiters' = [waiters EXCEPT ![t] = <<>>]
      /\ UNCHANGED <<requested, observers, parent, bodyVars, ready, stack, main, entry, afar, mode>>
  BY DEF NativeSettles
<1> USE DEF bodyVars
<1>2. /\ TypeOK /\ Types /\ t \in Task /\ StartsOnce /\ status \in [Task -> Statuses] /\ waiters \in [Task -> Seq(Body)]
      /\ (\A c \in Body : c \in Task /\ c # t) /\ (Quiet => afar = <<>>)
  BY Constants DEF Inv, Types, TypeOK, Statuses, QuietOK
<1>3. /\ status' \in [Task -> Statuses] /\ \A x \in Task : status'[x] = IF x = t THEN s ELSE status[x]
  BY <1>1, <1>2 DEF Statuses
<1>4. /\ waiters' \in [Task -> Seq(Body)] /\ \A x \in Task : waiters'[x] = IF x = t THEN <<>> ELSE waiters[x]
  <2>1. <<>> \in Seq(Body)
    OBVIOUS
  <2> QED BY <1>1, <1>2, <2>1
<1>5. /\ Wakes(t) \in Seq(FrameType)
      /\ \A f : Has(Wakes(t), f) <=> \E c \in Body : Has(waiters[t], c) /\ f = Wake(c, t)
      /\ \A f : f \in {Wakes(t)[i] : i \in DOMAIN waiters[t]} <=> Has(Wakes(t), f)
  BY <1>2, WakesHas
<1>6. \A f : f \in inflight' <=> f \in inflight \/ Has(Wakes(t), f)
  BY <1>1, <1>5
<1>7. isTerminal(t)'
  BY <1>2, <1>3 DEF isTerminal
<1>8. \A f : Has(Wakes(t), f) => Sent(f)
  BY <1>2, <1>5, <1>7 DEF Sent
<1>9. \A x \in Task : \/ status'[x] = status[x]
                      \/ ~isTerminal(x) /\ isTerminal(x)'
  BY <1>1, <1>3, <1>7
<1>10. \A c \in Body : status'[c] = status[c]
  BY <1>2, <1>3
<1>11. ASSUME NEW x \in Task
       PROVE  \/ waiters'[x] = waiters[x] /\ status'[x] = status[x]
              \/ waiters'[x] = <<>> /\ \A c \in Body : Has(waiters[x], c) => There(Wake(c, x))'
  <2>1. CASE x = t
    <3>1. ASSUME NEW c \in Body, Has(waiters[x], c) PROVE There(Wake(c, x))'
      <4>1. Wake(c, x) \in inflight'
        BY <1>5, <1>6, <2>1, <3>1
      <4> QED BY <4>1 DEF There
    <3> QED BY <1>4, <2>1, <3>1
  <2>2. CASE x # t
    BY <1>3, <1>4, <2>2
  <2> QED BY <2>1, <2>2
<1>12. /\ \A f : Has(ready, f) => Has(ready', f)
       /\ \A f : f \in inflight => There(f)'
       /\ \A f : Has(ready', f) => Has(ready, f) \/ f \in inflight \/ Sent(f)
       /\ \A f : f \in inflight' => f \in inflight \/ Sent(f)
  BY <1>1, <1>6, <1>8 DEF There
<1>13. Kept
  BY <1>1, <1>9, <1>10, <1>11, <1>12, Delivered DEF Kept
<1>14. StartsOnce'
  BY <1>1, <1>2 DEF StartsOnce
<1>15. Types'
  <2>1. inflight' \subseteq FrameType
    <3>1. inflight \subseteq FrameType
      BY <1>2 DEF TypeOK
    <3>2. \A f : Has(Wakes(t), f) => f \in FrameType
      BY <1>5, HasType
    <3> QED BY <1>6, <3>1, <3>2
  <2>2. TypeOK'
    BY <1>1, <1>2, <1>3, <1>4, <2>1 DEF TypeOK, Statuses
  <2> QED BY <1>1, <1>2, <2>2 DEF Types
<1> QED BY <1>1, <1>2, <1>10, <1>13, <1>14, <1>15, Staying

LEMMA EnqueueStep == ASSUME Inv, NEW f, enqueue(f) PROVE Inv'
<1>1. /\ f \in inflight /\ ready' = Append(ready, f) /\ inflight' = inflight \ {f}
      /\ UNCHANGED <<taskVars, bodyVars, stack, main, entry, afar, mode>>
  BY DEF enqueue
<1> USE DEF bodyVars, taskVars
<1>2. /\ TypeOK /\ Types /\ StartsOnce /\ f \in FrameType /\ ready \in Seq(FrameType) /\ FramesOK
      /\ inflight \subseteq FrameType /\ (Quiet => afar = <<>>)
  BY <1>1 DEF Inv, Types, TypeOK, QuietOK
<1>3. ready' \in Seq(FrameType) /\ \A g : Has(ready', g) <=> g = f \/ Has(ready, g)
  <2>1. Append(ready, f) \in Seq(FrameType) /\ \A g : Has(Append(ready, f), g) <=> g = f \/ Has(ready, g)
    BY <1>2, HasAppend
  <2> QED BY <1>1, <2>1
<1>4. /\ \A g : Has(ready, g) => Has(ready', g)
      /\ \A g : g \in inflight => There(g)'
      /\ \A g : Has(ready', g) => Has(ready, g) \/ g \in inflight \/ Sent(g)
      /\ \A g : g \in inflight' => g \in inflight \/ Sent(g)
  BY <1>1, <1>3 DEF There
<1>5. Kept
  BY <1>1, <1>4, Delivered DEF Kept
<1>6. IsResume(f) => requested[f.body]
  BY <1>1, <1>2 DEF FramesOK, FrameOK, There
<1>7. StartsOnce'
  <2>1. requested' = requested
    BY <1>1
  <2> QED BY <1>1, <1>2, <1>6, <2>1, StartsAppend
<1>8. Types'
  <2>1. TypeOK'
    BY <1>1, <1>2, <1>3 DEF TypeOK
  <2> QED BY <1>1, <1>2, <2>1 DEF Types
<1> QED BY <1>1, <1>2, <1>5, <1>7, <1>8, Staying

LEMMA AfarReadsStep == ASSUME Inv, NEW b \in Body, AfarReads(b) PROVE Inv'
<1>1. /\ b \in mode.shared /\ status[b] \in {"Pending", "Running"} /\ afar' = <<b, status[b]>>
      /\ UNCHANGED <<taskVars, bodyVars, ready, inflight, stack, main, entry, mode>>
  BY DEF AfarReads
<1>2. ~Quiet
  BY <1>1 DEF Quiet
<1>3. TypeOK'
  BY <1>1 DEF Inv, Types, TypeOK, taskVars, bodyVars
<1>4. Types'
  BY <1>1, <1>3 DEF Types
<1> QED BY <1>1, <1>2, <1>4, Aside

LEMMA MainStep ==
  ASSUME Inv, MainReturns \/ MainSettled \/ MainIdle \/ \E t \in Task : MainBlocks(t)
  PROVE  Inv'
<1>1. /\ UNCHANGED <<taskVars, bodyVars, ready, inflight, stack, afar, mode>>
      /\ main' \in {"run", "block", "pump", "drain", "done"}
  BY DEF MainReturns, MainSettled, MainIdle, MainBlocks
<1>2. TypeOK /\ Types /\ (Quiet => afar = <<>>)
  BY DEF Inv, Types, QuietOK
<1>3. entry' \in Task \cup {None}
  <2>1. entry \in Task \cup {None} /\ Body \subseteq Task
    BY <1>2, Constants DEF TypeOK
  <2> QED BY <2>1 DEF MainReturns, MainSettled, MainIdle, MainBlocks
<1>4. TypeOK'
  BY <1>1, <1>2, <1>3 DEF TypeOK, taskVars, bodyVars
<1>5. Types'
  BY <1>1, <1>2, <1>4 DEF Types
<1> QED BY <1>1, <1>2, <1>5, Aside

LEMMA AfarActsStep == ASSUME Inv, AfarActs PROVE Inv'
<1>0. PICK b : b = afar[1]
  OBVIOUS
<1>1. /\ afar # <<>> /\ afar' = <<>> /\ UNCHANGED <<parent, bodyVars, ready, stack, main, entry, mode>>
  BY DEF AfarActs
<1> USE DEF bodyVars
<1>2. /\ TypeOK /\ Types /\ StartsOnce /\ b \in Body /\ b \in Task /\ ready \in Seq(FrameType)
      /\ inflight \subseteq FrameType /\ ~Quiet
  <2>1. TypeOK /\ afar \in Body \X {"Pending", "Running"} /\ StartsOnce /\ ~Quiet
    BY <1>1 DEF Inv, Types, QuietOK
  <2> QED BY <1>0, <2>1, Constants DEF Inv, TypeOK
<1>3. CASE UNCHANGED <<status, waiters, requested, observers, inflight>>
  <2>1. TypeOK'
    BY <1>1, <1>2, <1>3 DEF TypeOK
  <2>2. Types' /\ UNCHANGED <<taskVars, bodyVars, ready, inflight, stack, mode>>
    BY <1>1, <1>3, <2>1 DEF Types, taskVars
  <2> QED BY <1>1, <2>2, Aside
<1>4. ASSUME NEW w \in BOOLEAN, Ask(Cascade(b)),
             w => /\ status' = [status EXCEPT ![b] = "Cancelled"] /\ ~isTerminal(b)
                  /\ waiters' = [waiters EXCEPT ![b] = <<>>],
             ~w => UNCHANGED <<status, waiters>> /\ Live(b),
             \A f : f \in inflight' <=> f \in inflight \/ Cut(b, w, f)
      PROVE  Inv'
  <2>1. /\ \A f : Has(ready, f) => Has(ready', f)
        /\ \A f : f \in inflight => f \in inflight'
        /\ \A f : Has(ready', f) => Has(ready, f) \/ Cut(b, w, f)
        /\ \A f : f \in inflight' => f \in inflight \/ Cut(b, w, f)
        /\ \A f : Cut(b, w, f) => There(f)'
    BY <1>1, <1>4 DEF There
  <2>2. /\ Kept /\ requested' \in [Body -> BOOLEAN] /\ observers' \in [Body -> Seq(1..MaxAwaits)]
        /\ status' \in [Task -> Statuses] /\ waiters' \in [Task -> Seq(Body)]
        /\ \A c \in Body : requested[c] => requested'[c]
    BY <1>1, <1>2, <1>4, <2>1, Cancelling
  <2>3. \A f : Cut(b, w, f) => f \in FrameType
    <3>1. Wakes(b) \in Seq(FrameType)
      BY <1>2, WakesHas
    <3>2. \A c \in Cascade(b) : Cancels(c) \in Seq(FrameType)
      BY <1>2, CascadeIs, CancelsHas
    <3> QED BY <3>1, <3>2, HasType DEF Cut
  <2>4. TypeOK'
    BY <1>1, <1>2, <1>4, <2>2, <2>3 DEF TypeOK, Statuses
  <2>5. Types'
    BY <1>1, <2>4 DEF Types
  <2>6. StartsOnce'
    <3>1. \A i \in 1 .. Len(ready) : ready[i] \in FrameType /\ ready[i].body \in Body
      BY <1>2, FramesApart, ElementOfSeq
    <3> QED BY <1>1, <1>2, <2>2, <3>1 DEF StartsOnce, IsResume
  <2> QED BY <1>1, <1>2, <2>2, <2>5, <2>6, Staying
<1>5. /\ \A f : f \in {Wakes(b)[i] : i \in DOMAIN waiters[b]} <=> Has(Wakes(b), f)
      /\ \A f : f \in UNION {{Cancels(c)[i] : i \in DOMAIN observers[c]} : c \in Cascade(b)}
                <=> \E c \in Cascade(b) : Has(Cancels(c), f)
  <2>1. \A c \in Cascade(b) : \A f : f \in {Cancels(c)[i] : i \in DOMAIN observers[c]} <=> Has(Cancels(c), f)
    BY <1>2, CascadeIs, CancelsHas
  <2> QED BY <1>2, <2>1, WakesHas
<1>6. CASE afar[2] = "Pending" /\ ~isTerminal(b)
  <2>1. /\ status' = [status EXCEPT ![b] = "Cancelled"]
        /\ waiters' = [waiters EXCEPT ![b] = <<>>] /\ Ask(Cascade(b))
        /\ inflight' = inflight \cup {Wakes(b)[i] : i \in DOMAIN waiters[b]}
                         \cup UNION {{Cancels(c)[i] : i \in DOMAIN observers[c]} : c \in Cascade(b)}
    BY <1>0, <1>6 DEF AfarActs
  <2>2. \A f : f \in inflight' <=> f \in inflight \/ Cut(b, TRUE, f)
    BY <1>5, <2>1 DEF Cut
  <2> QED BY <1>4, <1>6, <2>1, <2>2
<1>7. CASE ~(afar[2] = "Pending" /\ ~isTerminal(b)) /\ afar[2] = "Running" /\ Live(b)
  <2>1. /\ Ask(Cascade(b)) /\ UNCHANGED <<status, waiters>>
        /\ inflight' = inflight \cup UNION {{Cancels(c)[i] : i \in DOMAIN observers[c]} : c \in Cascade(b)}
    BY <1>0, <1>7 DEF AfarActs
  <2>2. \A f : f \in inflight' <=> f \in inflight \/ Cut(b, FALSE, f)
    BY <1>5, <2>1 DEF Cut
  <2> QED BY <1>4, <1>7, <2>1, <2>2
<1>8. CASE ~(afar[2] = "Pending" /\ ~isTerminal(b)) /\ ~(afar[2] = "Running" /\ Live(b))
  <2>1. UNCHANGED <<status, waiters, requested, observers, inflight>>
    BY <1>0, <1>8 DEF AfarActs
  <2> QED BY <1>3, <2>1
<1> QED BY <1>6, <1>7, <1>8

LEMMA ScheduleStep == ASSUME Inv, NEW b \in Body, scheduleAsyncInvocation(b) PROVE Inv'
<1>1. /\ status[b] = "absent" /\ status' = [status EXCEPT ![b] = "Pending"]
      /\ parent' = [parent EXCEPT ![b] = Spawner]
      /\ requested' = [requested EXCEPT ![b] = Running /\ requested[Top.body]]
      /\ invocation' = invocation \cup {b} /\ ready' = Append(ready, Resume(b, 0))
      /\ UNCHANGED <<waiters, observers, started, awaited, resumeIp, inflight, stack, main, entry, afar, mode>>
  BY DEF scheduleAsyncInvocation
<1>2. /\ TypeOK /\ Types /\ b \in Task /\ ready \in Seq(FrameType) /\ status \in [Task -> Statuses]
      /\ requested \in [Body -> BOOLEAN] /\ Lifecycle /\ FramesOK /\ StartsOnce /\ Calls /\ Waiting /\ Woken /\ QuietOK
  BY Constants DEF Inv, Types, TypeOK, Statuses
<1>3. b \notin started /\ b \notin invocation /\ ~requested[b] /\ observers[b] = <<>>
  BY <1>1, <1>2 DEF Lifecycle
<1>4. status' \in [Task -> Statuses] /\ status'[b] = "Pending" /\ \A t \in Task : t # b => status'[t] = status[t]
  BY <1>1, <1>2 DEF Statuses
<1>5. requested' \in [Body -> BOOLEAN] /\ \A c \in Body : (c # b => requested'[c] = requested[c]) /\ (requested[c] => requested'[c])
  <2>1. (Running /\ requested[Top.body]) \in BOOLEAN
    OBVIOUS
  <2>2. requested' \in [Body -> BOOLEAN] /\ \A c \in Body : c # b => requested'[c] = requested[c]
    BY <1>1, <1>2, <2>1
  <2> QED BY <1>3, <2>2
<1>6. Spawner \in Body \cup {None}
  <2>1. Running => Top.body \in Body
    BY TopIs
  <2> QED BY <2>1 DEF Spawner
<1>7. 0 \in 0..MaxAwaits /\ Resume(b, 0) \in FrameType /\ Resume(b, 0).kind = "resume" /\ Resume(b, 0).body = b
  <2>1. 0 \in 0..MaxAwaits
    BY Constants
  <2> QED BY <2>1, FramesApart
<1>8. ready' \in Seq(FrameType) /\ \A g : Has(ready', g) <=> g = Resume(b, 0) \/ Has(ready, g)
  <2>1. /\ Append(ready, Resume(b, 0)) \in Seq(FrameType)
        /\ \A g : Has(Append(ready, Resume(b, 0)), g) <=> g = Resume(b, 0) \/ Has(ready, g)
    BY <1>2, <1>7, HasAppend
  <2> QED BY <1>1, <2>1
<1>9. \A g : There(g)' <=> There(g) \/ g = Resume(b, 0)
  BY <1>1, <1>8 DEF There
<1>10. \A t \in Task : isTerminal(t)' <=> isTerminal(t)
  <2>1. ~isTerminal(b) /\ ~isTerminal(b)'
    BY <1>1, <1>4 DEF isTerminal
  <2>2. \A t \in Task : t # b => (isTerminal(t)' <=> isTerminal(t))
    BY <1>4 DEF isTerminal
  <2> QED BY <2>1, <2>2
<1>11. \A g \in FrameType : There(g) => g.body # b
  BY <1>1, <1>2 DEF FramesOK, FrameOK
<1>12. Types'
  <2>1. parent' \in [Body -> Body \cup {None}]
    BY <1>1, <1>2, <1>6 DEF TypeOK
  <2>2. TypeOK'
    BY <1>1, <1>2, <1>4, <1>5, <1>8, <2>1 DEF TypeOK, Statuses
  <2> QED BY <1>1, <1>2, <2>2 DEF Types
<1>13. \A c \in Body : c # b /\ Prompted(c) => Prompted(c)'
  BY <1>1, <1>5, <1>9 DEF Prompted
<1>14. Calls'
  <2>1. stack \in Seq(Call)
    BY <1>2 DEF TypeOK, Call
  <2>2. \A e \in Call : e.body \in Body
    BY DEF Call
  <2>3. \A i \in 1 .. Len(stack) : stack[i].body \in Body
    BY <2>1, <2>2, ElementOfSeq
  <2>4. \A e : e.body \in Body /\ CallOK(e) => CallOK(e)'
    BY <1>1, <1>3, <1>13 DEF CallOK
  <2> QED BY <1>1, <1>2, <2>3, <2>4 DEF Calls
<1>15. Lifecycle'
  <2> SUFFICES ASSUME NEW c \in Body
               PROVE  /\ c \notin started => status'[c] \in {"absent", "Pending", "Cancelled"} /\ observers[c] = <<>>
                      /\ c \in started => status'[c] \notin {"absent", "Pending"}
                      /\ status'[c] = "absent" => c \notin invocation' /\ ~requested'[c]
                      /\ c \in invocation' /\ isTerminal(c)' => requested'[c]
                      /\ c \in invocation' /\ c \notin started => \E n \in 0..MaxAwaits : Has(ready', Resume(c, n))
    BY <1>1 DEF Lifecycle
  <2>1. CASE c = b
    <3>1. ~isTerminal(b)'
      BY <1>4 DEF isTerminal
    <3> QED BY <1>3, <1>4, <1>7, <1>8, <2>1, <3>1
  <2>2. CASE c # b
    <3>1. c \in Task /\ status'[c] = status[c] /\ requested'[c] = requested[c] /\ (c \in invocation' <=> c \in invocation)
      BY <1>1, <1>4, <1>5, <2>2, Constants
    <3> QED BY <1>2, <1>8, <1>10, <3>1 DEF Lifecycle
  <2> QED BY <2>1, <2>2
<1>16. Waiting'
  BY <1>1, <1>2 DEF Waiting
<1>17. FramesOK'
  <2> SUFFICES ASSUME NEW g \in FrameType, There(g)' PROVE FrameOK(g)'
    BY DEF FramesOK
  <2>1. CASE g = Resume(b, 0)
    <3>1. g \notin inflight
      BY <1>7, <1>11, <2>1 DEF There
    <3> QED BY <1>1, <1>3, <1>4, <1>7, <2>1, <3>1 DEF FrameOK, IsResume
  <2>2. CASE g # Resume(b, 0)
    <3>1. There(g) /\ g.body # b /\ FrameOK(g) /\ g.body \in Body /\ g.body \in Task /\ (g.kind = "wake" => g.what \in Task)
      BY <1>2, <1>9, <1>11, <2>2, FramesApart, Constants DEF FramesOK, IsResume
    <3>2. status'[g.body] = status[g.body] /\ requested'[g.body] = requested[g.body]
      BY <1>4, <1>5, <3>1
    <3> QED BY <1>1, <1>10, <3>1, <3>2 DEF FrameOK
  <2> QED BY <2>1, <2>2
<1>18. StartsOnce'
  <2>1. \A f \in FrameType : Has(ready, f) /\ IsResume(f) => f.body # Resume(b, 0).body
    BY <1>7, <1>11 DEF There
  <2>2. \A c \in Body : requested[c] => requested'[c]
    BY <1>5
  <2> QED BY <1>1, <1>2, <1>7, <2>1, <2>2, StartsAppend
<1>19. Woken'
  <2> SUFFICES ASSUME NEW c \in Body, c \in invocation', c \in started, ~OnStack(c)'
               PROVE  Reached(c)' \/ Waits(c)'
    BY <1>1 DEF Woken
  <2>1. c # b /\ c \in invocation /\ ~OnStack(c)
    BY <1>1, <1>3 DEF OnStack
  <2>2. Reached(c) \/ Waits(c)
    BY <1>2, <2>1 DEF Woken
  <2>3. Reached(c) => Reached(c)'
    BY <1>1, <1>9 DEF Reached
  <2>4. Waits(c) => Waits(c)'
    BY <1>1, <1>5, <1>10, <2>1 DEF Waits
  <2> QED BY <2>2, <2>3, <2>4
<1>20. QuietOK'
  <2>1. \A c \in Body : c \in invocation' /\ c \in started => c \in invocation /\ status'[c] = status[c]
    BY <1>1, <1>3, <1>4, Constants
  <2> QED BY <1>1, <1>2, <2>1 DEF QuietOK, Quiet
<1> QED BY <1>12, <1>14, <1>15, <1>16, <1>17, <1>18, <1>19, <1>20 DEF Inv

(***************************************************************************)
(* The scheduler runs a frame.                                             *)
(***************************************************************************)
LEMMA StartsTail ==
  ASSUME TypeOK, StartsOnce, ready # <<>>
  PROVE  /\ (ready' = Tail(ready) /\ requested' = requested => StartsOnce')
         /\ IsResume(Head(ready)) /\ ~requested[Head(ready).body] =>
               \A g \in FrameType : Has(Tail(ready), g) /\ IsResume(g) => g.body # Head(ready).body
<1> DEFINE r == Tail(ready)
<1>1. ready \in Seq(FrameType)
  BY DEF TypeOK
<1>2. /\ Len(r) = Len(ready) - 1 /\ Len(ready) \in Nat /\ Len(ready) > 0 /\ Head(ready) = ready[1]
      /\ \A i \in 1 .. Len(r) : r[i] = ready[i + 1]
  BY <1>1, HeadTailProperties
<1>3. 1 \in 1 .. Len(ready) /\ \A i \in 1 .. Len(r) : i + 1 \in 1 .. Len(ready) /\ i + 1 # 1
  BY <1>2
<1> HIDE DEF r
<1>4. ASSUME NEW i \in 1 .. Len(r), NEW j \in 1 .. Len(r), IsResume(r[i]), IsResume(r[j]), r[i].body = r[j].body,
             ~requested[r[i].body]
      PROVE  i = j
  <2>1. i + 1 = j + 1
    BY <1>2, <1>3, <1>4 DEF StartsOnce
  <2> QED BY <2>1
<1>5. ready' = r /\ requested' = requested => StartsOnce'
  BY <1>4 DEF StartsOnce, IsResume
<1>6. ASSUME IsResume(Head(ready)), ~requested[Head(ready).body], NEW g \in FrameType, Has(r, g), IsResume(g)
      PROVE  g.body # Head(ready).body
  <2>1. PICK i \in 1 .. Len(r) : r[i] = g
    BY <1>6 DEF Has
  <2>2. i + 1 \in 1 .. Len(ready) /\ i + 1 # 1 /\ ready[i + 1] = g
    BY <1>2, <1>3, <2>1
  <2> QED BY <1>2, <1>3, <1>6, <2>2 DEF StartsOnce
<1> QED BY <1>5, <1>6 DEF r

\* While the thread pumps, every call blocks.
LEMMA AllBlock ==
  ASSUME Inv, Pumping
  PROVE  /\ \A i \in 1 .. Len(stack) : stack[i].pc = "block"
         /\ Quiet => Len(stack) = 0
<1>1. stack \in Seq(Call) /\ Len(stack) \in Nat /\ (stack = <<>> => Len(stack) = 0)
  BY DEF Inv, Types, TypeOK, Call
<1>2. CASE Running
  <2>1. Top.pc = "block" /\ ~Quiet
    BY <1>2, TopIs DEF Pumping
  <2>2. Top = stack[Len(stack)]
    BY DEF Top
  <2>3. \A i \in 1 .. Len(stack) : i = Len(stack) \/ i < Len(stack)
    BY <1>1
  <2> QED BY <2>1, <2>2, <2>3 DEF Inv, Calls
<1>3. CASE ~Running
  BY <1>1, <1>3 DEF Running
<1> QED BY <1>2, <1>3

LEMMA runOneStep == ASSUME Inv, runOne PROVE Inv'
<1>0. PICK f, b : f = Head(ready) /\ b = f.body
  OBVIOUS
<1>1. /\ Pumping /\ ready # <<>> /\ ready' = Tail(ready) /\ UNCHANGED <<inflight, main, entry, afar, mode>>
      /\ IF Applies(f) THEN Enter(b) ELSE UNCHANGED <<taskVars, bodyVars, stack>>
  BY <1>0 DEF runOne
<1>2. /\ TypeOK /\ Types /\ Lifecycle /\ FramesOK /\ StartsOnce /\ Calls /\ Waiting /\ Woken /\ QuietOK
      /\ ready \in Seq(FrameType) /\ status \in [Task -> Statuses]
  BY DEF Inv, Types, TypeOK, Statuses
<1>3. /\ f \in FrameType /\ ready' \in Seq(FrameType) /\ Has(ready, f)
      /\ \A g : Has(ready, g) <=> g = f \/ Has(ready', g)
  BY <1>0, <1>1, <1>2, HasTail
<1>4. b \in Body /\ b \in Task /\ FrameOK(f) /\ There(f)
  BY <1>0, <1>2, <1>3, FramesApart, Constants DEF FramesOK, There
<1>5. \A g : (There(g)' => There(g)) /\ (There(g) /\ g # f => There(g)')
  BY <1>1, <1>3 DEF There
<1>6. requested' = requested /\ waiters' = waiters /\ observers' = observers /\ parent' = parent /\ resumeIp' = resumeIp
  BY <1>1 DEF Enter, taskVars, bodyVars
<1>7. /\ StartsOnce'
      /\ IsResume(f) /\ ~requested[b] => \A g \in FrameType : Has(ready', g) /\ IsResume(g) => g.body # b
  BY <1>0, <1>1, <1>2, <1>6, StartsTail
<1>8. /\ \A i \in 1 .. Len(stack) : stack[i].pc = "block" /\ CallOK(stack[i])
      /\ Quiet => Len(stack) = 0
      /\ stack \in Seq(Call) /\ Len(stack) \in Nat
  BY <1>1, <1>2, AllBlock DEF Calls, TypeOK, Call
\* Bodies other than b are where they were.
<1>9. ASSUME NEW c \in Body, c # b, awaited'[c] = awaited[c], \A t \in Task : isTerminal(t)' <=> isTerminal(t),
             Reached(c) \/ Waits(c)
      PROVE  Reached(c)' \/ Waits(c)'
  <2>1. ASSUME Reached(c) PROVE Reached(c)'
    <3>1. PICK g \in FrameType : There(g) /\ g.body = c /\ (g.kind = "wake" => awaited[c] = g.what)
      BY <2>1 DEF Reached
    <3>2. There(g)'
      BY <1>0, <1>5, <1>9, <3>1
    <3> QED BY <1>9, <3>1, <3>2 DEF Reached
  <2>2. ASSUME Waits(c) PROVE Waits(c)'
    BY <1>6, <1>9, <2>2 DEF Waits
  <2> QED BY <1>9, <2>1, <2>2
<1>10. ASSUME NEW c \in Body, c # b, NEW n, Has(ready, Resume(c, n)) PROVE Has(ready', Resume(c, n))
  BY <1>0, <1>3, <1>10, FramesApart
<1>11. CASE ~Applies(f)
  <2>1. UNCHANGED <<taskVars, bodyVars, stack, mode, afar, inflight>>
    BY <1>1, <1>11
  <2> USE DEF taskVars, bodyVars
  <2>2. TypeOK'
    BY <1>1, <1>2, <1>3, <2>1 DEF TypeOK
  <2>3. Types'
    BY <1>2, <2>1, <2>2 DEF Types
  <2>4. \A t : isTerminal(t)' <=> isTerminal(t)
    BY <2>1 DEF isTerminal
  <2>5. \A e : e.pc = "block" /\ CallOK(e) => CallOK(e)'
    BY <2>1 DEF CallOK
  <2>6. Calls'
    BY <1>8, <2>1, <2>5 DEF Calls
  <2>7. Lifecycle'
    <3>1. b \notin invocation \/ b \in started
      BY <1>0, <1>4, <1>11 DEF Applies, FrameOK
    <3>2. \A c \in Body : c \in invocation /\ c \notin started => \E n \in 0..MaxAwaits : Has(ready', Resume(c, n))
      BY <1>2, <1>10, <3>1 DEF Lifecycle
    <3> QED BY <1>2, <2>1, <2>4, <3>2 DEF Lifecycle
  <2>8. Waiting'
    BY <1>2, <2>1 DEF Waiting
  <2>9. FramesOK'
    <3>1. \A g : FrameOK(g)' <=> FrameOK(g)
      BY <2>1, <2>4 DEF FrameOK
    <3> QED BY <1>2, <1>5, <3>1 DEF FramesOK
  <2>10. Woken'
    <3> SUFFICES ASSUME NEW c \in Body, c \in invocation, c \in started, ~OnStack(c)
                 PROVE  Reached(c)' \/ Waits(c)'
      BY <2>1 DEF Woken, OnStack
    <3>1. Reached(c) \/ Waits(c)
      BY <1>2 DEF Woken
    <3>2. CASE c # b
      BY <1>9, <2>1, <2>4, <3>1, <3>2
    <3>3. CASE c = b
      <4>1. f.kind = "wake" /\ awaited[b] # f.what
        BY <1>0, <1>11, <3>3 DEF Applies
      <4>2. ASSUME Reached(b) PROVE Reached(b)'
        <5>1. PICK g \in FrameType : There(g) /\ g.body = b /\ (g.kind = "wake" => awaited[b] = g.what)
          BY <4>2 DEF Reached
        <5>2. There(g)'
          BY <1>5, <4>1, <5>1
        <5> QED BY <2>1, <5>1, <5>2 DEF Reached
      <4>3. ASSUME Waits(b) PROVE Waits(b)'
        BY <2>1, <2>4, <4>3 DEF Waits
      <4> QED BY <3>1, <3>3, <4>2, <4>3
    <3> QED BY <3>2, <3>3
  <2>11. QuietOK'
    BY <1>2, <2>1 DEF QuietOK, Quiet
  <2> QED BY <1>7, <2>3, <2>6, <2>7, <2>8, <2>9, <2>10, <2>11 DEF Inv
<1>12. PICK t, settled, raise, how :
         /\ t = awaited[b] /\ settled = (t # None /\ isTerminal(t))
         /\ raise = IF requested[b] THEN "Cancelled" ELSE IF settled THEN Raised(t) ELSE None
         /\ how = IF b \notin started THEN "start" ELSE IF settled THEN "value" ELSE "nothing"
  OBVIOUS
<1>13. t \in Task \cup {None} /\ settled \in BOOLEAN /\ (settled => t \in Task /\ isTerminal(t)) /\ (t \in Task /\ isTerminal(t) => settled)
  BY <1>2, <1>4, <1>12, Constants DEF TypeOK
<1>14. ASSUME Applies(f)
       PROVE  /\ awaited' = [awaited EXCEPT ![b] = IF settled THEN None ELSE t]
              /\ IF b \notin started /\ status[b] = "Cancelled"
                   THEN invocation' = invocation \ {b} /\ UNCHANGED <<started, status, stack>>
                   ELSE /\ started' = started \cup {b}
                        /\ status' = IF b \in started THEN status ELSE [status EXCEPT ![b] = "Running"]
                        /\ Push([body |-> b, ip |-> resumeIp[b], pc |-> "run", on |-> None,
                                 raise |-> raise, how |-> how])
                        /\ UNCHANGED invocation
              /\ b \in invocation
  BY <1>0, <1>1, <1>12, <1>14 DEF Enter, Applies
<1>15. Applies(f) => awaited' \in [Body -> Task \cup {None}] /\ \A c \in Body : c # b => awaited'[c] = awaited[c]
  BY <1>2, <1>4, <1>13, <1>14 DEF TypeOK
<1>16. CASE Applies(f) /\ b \notin started /\ status[b] = "Cancelled"
  <2>1. /\ b \in invocation /\ invocation' = invocation \ {b} /\ UNCHANGED <<started, status, stack>>
        /\ awaited' \in [Body -> Task \cup {None}] /\ \A c \in Body : c # b => awaited'[c] = awaited[c]
    BY <1>14, <1>15, <1>16
  <2>2. TypeOK'
    BY <1>1, <1>2, <1>3, <1>6, <2>1 DEF TypeOK
  <2>3. Types'
    BY <1>1, <1>2, <2>2 DEF Types
  <2>4. \A t1 : isTerminal(t1)' <=> isTerminal(t1)
    BY <2>1 DEF isTerminal
  <2>5. \A e : e.pc = "block" /\ CallOK(e) => CallOK(e)'
    BY <2>1 DEF CallOK
  <2>6. Calls'
    BY <1>8, <2>1, <2>5 DEF Calls
  <2>7. Lifecycle'
    <3>1. \A c \in Body : c \in invocation' /\ c \notin started => \E n \in 0..MaxAwaits : Has(ready', Resume(c, n))
      BY <1>2, <1>10, <2>1 DEF Lifecycle
    <3> QED BY <1>2, <1>6, <2>1, <2>4, <3>1 DEF Lifecycle
  <2>8. Waiting'
    BY <1>2, <1>6, <2>1 DEF Waiting
  <2>9. FramesOK'
    <3>1. \A g : FrameOK(g)' <=> FrameOK(g)
      BY <1>1, <1>6, <2>1, <2>4 DEF FrameOK
    <3> QED BY <1>2, <1>5, <3>1 DEF FramesOK
  <2>10. Woken'
    <3> SUFFICES ASSUME NEW c \in Body, c \in invocation', c \in started, ~OnStack(c)
                 PROVE  Reached(c)' \/ Waits(c)'
      BY <2>1 DEF Woken, OnStack
    <3>1. c # b /\ c \in invocation
      BY <2>1
    <3>2. Reached(c) \/ Waits(c)
      BY <1>2, <3>1 DEF Woken
    <3> QED BY <1>9, <2>1, <2>4, <3>1, <3>2
  <2>11. QuietOK'
    <3>1. Quiet => \A i \in 1 .. Len(stack) : FALSE
      BY <1>8
    <3> QED BY <1>1, <1>2, <2>1, <3>1 DEF QuietOK, Quiet
  <2> QED BY <1>7, <2>3, <2>6, <2>7, <2>8, <2>9, <2>10, <2>11 DEF Inv
<1>17. CASE Applies(f) /\ ~(b \notin started /\ status[b] = "Cancelled")
  <2>0. PICK e : e = [body |-> b, ip |-> resumeIp[b], pc |-> "run", on |-> None, raise |-> raise, how |-> how]
    OBVIOUS
  <2>1. /\ b \in invocation /\ started' = started \cup {b} /\ invocation' = invocation
        /\ status' = (IF b \in started THEN status ELSE [status EXCEPT ![b] = "Running"])
        /\ stack' = Append(stack, e)
        /\ awaited' \in [Body -> Task \cup {None}] /\ \A c \in Body : c # b => awaited'[c] = awaited[c]
    BY <1>14, <1>15, <1>17, <2>0 DEF Push
  <2>2. b \notin started => status[b] = "Pending"
    BY <1>2, <1>4, <1>17, <2>1 DEF Lifecycle
  <2>3. /\ status' \in [Task -> Statuses] /\ (b \notin started => status'[b] = "Running")
        /\ (b \in started => status'[b] = status[b]) /\ \A x \in Task : x # b => status'[x] = status[x]
    BY <1>2, <1>4, <2>1 DEF Statuses
  <2>4. \A x \in Task : isTerminal(x)' <=> isTerminal(x)
    <3>1. b \notin started => ~isTerminal(b) /\ ~isTerminal(b)'
      BY <2>2, <2>3 DEF isTerminal
    <3>2. b \in started => (isTerminal(b)' <=> isTerminal(b))
      BY <2>3 DEF isTerminal
    <3>3. \A x \in Task : x # b => (isTerminal(x)' <=> isTerminal(x))
      BY <2>3 DEF isTerminal
    <3> QED BY <3>1, <3>2, <3>3
  <2>5. raise \in {None, "Failed", "Cancelled"} /\ how \in {"start", "value", "nothing"}
    <3>1. settled => Raised(t) \in {None, "Failed", "Cancelled"}
      BY <1>2, <1>13, RaisedIs
    <3> QED BY <1>12, <3>1
  <2>6. e \in Call /\ e.body = b /\ e.pc = "run" /\ e.raise = raise /\ e.how = how
    <3>1. resumeIp[b] \in 0..MaxAwaits
      BY <1>2, <1>4 DEF TypeOK
    <3> QED BY <1>4, <2>0, <2>5, <3>1 DEF Call
  <2>7. how # "nothing" \/ raise = "Cancelled"
    <3>1. CASE f.kind = "wake"
      <4>1. awaited[b] = f.what /\ isTerminal(f.what) /\ f.what \in Task
        BY <1>0, <1>3, <1>4, <1>17, <3>1, FramesApart DEF Applies, FrameOK, IsResume
      <4> QED BY <1>12, <1>13, <4>1
    <3>2. CASE f.kind # "wake"
      <4>1. IsResume(f)
        BY <1>3, <3>2, FramesApart
      <4>2. requested[b] \/ b \notin started
        BY <1>0, <1>4, <4>1 DEF FrameOK
      <4> QED BY <1>12, <4>2
    <3> QED BY <3>1, <3>2
  <2>8. /\ stack' \in Seq(Call) /\ Len(stack') = Len(stack) + 1 /\ stack'[Len(stack) + 1] = e
        /\ \A i \in 1 .. Len(stack) : stack'[i] = stack[i]
    BY <1>8, <2>1, <2>6, AppendProperties
  <2>9. \A i \in 1 .. Len(stack') : i \in 1 .. Len(stack) \/ i = Len(stack) + 1
    BY <1>8, <2>8
  <2>10. Types'
    <3>1. TypeOK'
      BY <1>1, <1>2, <1>3, <1>4, <1>6, <2>1, <2>3, <2>8 DEF TypeOK, Statuses, Call
    <3> QED BY <1>1, <1>2, <3>1 DEF Types
  <2>11. Calls'
    <3>1. CallOK(e)'
      BY <2>1, <2>6, <2>7 DEF CallOK
    <3>2. \A d : d.pc = "block" /\ CallOK(d) => CallOK(d)'
      BY <2>1 DEF CallOK
    <3>3. \A i \in 1 .. Len(stack') : i < Len(stack') => i \in 1 .. Len(stack)
      BY <1>8, <2>8
    <3> QED BY <1>8, <2>8, <2>9, <3>1, <3>2, <3>3 DEF Calls
  <2>12. Lifecycle'
    <3> SUFFICES ASSUME NEW c \in Body
                 PROVE  /\ c \notin started' => status'[c] \in {"absent", "Pending", "Cancelled"} /\ observers[c] = <<>>
                        /\ c \in started' => status'[c] \notin {"absent", "Pending"}
                        /\ status'[c] = "absent" => c \notin invocation /\ ~requested[c]
                        /\ c \in invocation /\ isTerminal(c)' => requested[c]
                        /\ c \in invocation /\ c \notin started' => \E n \in 0..MaxAwaits : Has(ready', Resume(c, n))
      BY <1>6, <2>1 DEF Lifecycle
    <3>1. /\ c \notin started => status[c] \in {"absent", "Pending", "Cancelled"} /\ observers[c] = <<>>
          /\ c \in started => status[c] \notin {"absent", "Pending"}
          /\ status[c] = "absent" => c \notin invocation /\ ~requested[c]
          /\ c \in invocation /\ isTerminal(c) => requested[c]
          /\ c \in invocation /\ c \notin started => \E n \in 0..MaxAwaits : Has(ready, Resume(c, n))
          /\ c \in Task
      BY <1>2, Constants DEF Lifecycle
    <3>2. CASE c = b
      BY <2>1, <2>3, <2>4, <3>1, <3>2
    <3>3. CASE c # b
      <4>1. status'[c] = status[c] /\ (c \in started' <=> c \in started)
        BY <2>1, <2>3, <3>1, <3>3
      <4> QED BY <1>10, <2>4, <3>1, <3>3, <4>1
    <3> QED BY <3>2, <3>3
  <2>13. Waiting'
    BY <1>2, <1>6, <2>1 DEF Waiting
  <2>14. FramesOK'
    <3> SUFFICES ASSUME NEW g \in FrameType, There(g)' PROVE FrameOK(g)'
      BY DEF FramesOK
    <3>1. FrameOK(g) /\ g.body \in Body /\ g.body \in Task /\ (g.kind = "wake" => g.what \in Task)
      BY <1>2, <1>5, FramesApart, Constants DEF FramesOK, IsResume
    <3>2. status'[g.body] # "absent"
      BY <2>3, <3>1 DEF FrameOK
    <3>3. g.kind = "wake" => g.body \in started' /\ isTerminal(g.what)'
      BY <2>1, <2>4, <3>1 DEF FrameOK
    <3>4. ASSUME IsResume(g) PROVE requested[g.body] \/ (g.body \notin started' /\ g \notin inflight)
      <4>1. CASE g.body # b
        BY <2>1, <3>1, <3>4, <4>1 DEF FrameOK
      <4>2. CASE g.body = b /\ b \in started
        BY <3>1, <3>4, <4>2 DEF FrameOK
      <4>3. CASE g.body = b /\ b \notin started
        <5>1. IsResume(f)
          BY <1>0, <1>3, <1>4, <4>3, FramesApart DEF FrameOK
        <5>2. g \in inflight => requested[b]
          BY <3>1, <3>4, <4>3 DEF FrameOK
        <5>3. Has(ready', g) => requested[b]
          BY <1>7, <3>4, <4>3, <5>1
        <5> QED BY <1>1, <4>3, <5>2, <5>3 DEF There
      <4> QED BY <4>1, <4>2, <4>3
    <3> QED BY <1>1, <1>6, <3>2, <3>3, <3>4 DEF FrameOK
  <2>15. Woken'
    <3> SUFFICES ASSUME NEW c \in Body, c \in invocation, c \in started', ~OnStack(c)'
                 PROVE  Reached(c)' \/ Waits(c)'
      BY <2>1 DEF Woken
    <3>1. DOMAIN stack = 1 .. Len(stack) /\ DOMAIN stack' = 1 .. Len(stack')
      BY <1>8, <2>8
    <3>2. Len(stack) + 1 \in 1 .. Len(stack') /\ \A i \in 1 .. Len(stack) : i \in 1 .. Len(stack')
      BY <1>8, <2>8
    <3>3. OnStack(b)' /\ ~OnStack(c)
      BY <2>6, <2>8, <3>1, <3>2 DEF OnStack
    <3>4. c # b /\ c \in started
      BY <2>1, <3>3
    <3>5. Reached(c) \/ Waits(c)
      BY <1>2, <3>3, <3>4 DEF Woken
    <3> QED BY <1>9, <2>1, <2>4, <3>4, <3>5
  <2>16. QuietOK'
    <3> SUFFICES ASSUME Quiet
                 PROVE  /\ afar' = <<>> /\ Len(stack') <= 1
                        /\ \A i \in 1 .. Len(stack') : stack'[i].pc # "block" /\ stack'[i].body \in invocation
                        /\ \A c \in Body : c \in invocation /\ c \in started' => status'[c] = "Running"
      BY <1>1, <2>1 DEF QuietOK, Quiet
    <3>1. Len(stack) = 0
      BY <1>8
    <3>2. Len(stack') = 1 /\ stack'[1] = e
      BY <2>8, <3>1
    <3>3. Len(stack') <= 1 /\ \A i \in 1 .. Len(stack') : i = 1
      BY <3>2
    <3>4. afar = <<>> /\ \A c \in Body : c \in invocation /\ c \in started => status[c] = "Running"
      BY <1>2 DEF QuietOK
    <3>5. \A c \in Body : c \in invocation /\ c \in started' => status'[c] = "Running"
      BY <2>1, <2>3, <3>4, Constants
    <3> QED BY <1>1, <2>1, <2>6, <3>2, <3>3, <3>4, <3>5
  <2> QED BY <1>7, <2>10, <2>11, <2>12, <2>13, <2>14, <2>15, <2>16 DEF Inv
<1> QED BY <1>11, <1>16, <1>17

LEMMA InvStep == Inv /\ [Next]_vars => Inv'
<1> SUFFICES ASSUME Inv, [Next]_vars PROVE Inv'
  OBVIOUS
<1>1. CASE UNCHANGED vars
  <2>1. UNCHANGED <<taskVars, bodyVars, ready, inflight, stack, main, entry, afar, mode>>
    BY <1>1 DEF vars
  <2>2. TypeOK /\ Types /\ (Quiet => afar = <<>>)
    BY DEF Inv, Types, QuietOK
  <2>3. TypeOK'
    BY <2>1, <2>2 DEF TypeOK, taskVars, bodyVars
  <2>4. Types'
    BY <2>1, <2>2, <2>3 DEF Types
  <2> QED BY <2>1, <2>2, <2>4, Aside
<1>2. CASE BodyStep
  BY <1>2, AwaitCheckStep, TaskBlockStep, AwaitObserveStep, AwaitThenStep, CatchStep, UncaughtStep, ReturnStep,
     UnblockStep DEF BodyStep
<1>3. CASE SchedulerStep
  BY <1>2, <1>3, runOneStep, MainStep DEF SchedulerStep
<1>4. CASE \E b \in Body : scheduleAsyncInvocation(b) \/ TaskCancel(b) \/ AfarReads(b)
  BY <1>4, ScheduleStep, TaskCancelStep, AfarReadsStep
<1>5. CASE \E t \in Task : MainBlocks(t)
  BY <1>5, MainStep
<1>6. CASE \E t \in Native, s \in {"Succeeded", "Failed"} : NativeSettles(t, s)
  BY <1>6, NativeSettlesStep
<1>7. CASE \E f \in inflight : enqueue(f)
  BY <1>7, EnqueueStep
<1>8. CASE AfarActs
  BY <1>8, AfarActsStep
<1> QED BY <1>1, <1>3, <1>4, <1>5, <1>6, <1>7, <1>8 DEF Next

LEMMA InvHolds == Spec => []Inv
  BY InvInit, InvStep, PTL DEF Spec

(***************************************************************************)
(* The theorems.                                                           *)
(***************************************************************************)

\* vm.cpp:1537-1561, 972-987: an exception a body is resumed with comes from a task that
\* did not succeed, and every queued frame names an await the body really executed.
THEOREM TypeCorrect == Spec => []TypeOK
<1>1. Inv => TypeOK
  BY DEF Inv, Types
<1> QED BY <1>1, InvHolds, PTL

\* vm.cpp:1529-1597: in a program that neither blocks inside a body nor cancels one from
\* another thread, a body that executes owns its invocation and its task is Running.
THEOREM BodiesRunUnsettled == Spec => []RunsUnsettled
<1>1. Inv => RunsUnsettled
  <2> SUFFICES ASSUME Inv, Quiet, NEW i \in DOMAIN stack
               PROVE  stack[i].body \in invocation /\ status[stack[i].body] = "Running"
    BY DEF RunsUnsettled, Quiet
  <2>1. stack \in Seq(Call)
    BY DEF Inv, Types, TypeOK, Call
  <2>2. i \in 1 .. Len(stack) /\ \A e \in Call : e.body \in Body
    BY <2>1 DEF Call
  <2>3. stack[i].body \in Body /\ stack[i].body \in started
    BY <2>1, <2>2, ElementOfSeq DEF Inv, Calls, CallOK
  <2> QED BY <2>2, <2>3 DEF Inv, QuietOK
<1> QED BY <1>1, InvHolds, PTL

\* vm.cpp:1537-1561: a body is entered to start it, with the result of the task it waited
\* for, or with its cancellation; never with nothing.
THEOREM EnteredForAReason == Spec => []NeverEntersEmpty
<1>1. Inv => NeverEntersEmpty
  <2> SUFFICES ASSUME Inv, NEW i \in DOMAIN stack
               PROVE  stack[i].how # "nothing" \/ stack[i].raise = "Cancelled"
    BY DEF NeverEntersEmpty
  <2>1. stack \in Seq(Call)
    BY DEF Inv, Types, TypeOK, Call
  <2>2. i \in 1 .. Len(stack)
    BY <2>1
  <2> QED BY <2>2 DEF Inv, Calls, CallOK
<1> QED BY <1>1, InvHolds, PTL

\* vm.cpp:972-988: whatever settles or cancels while a body suspends, a body that does not
\* run has a frame that will enter it, or waits for an unsettled task that knows it.
THEOREM NoWakeupLost == Spec => []NoLostWakeup
<1>1. Inv => NoLostWakeup
  <2> SUFFICES ASSUME Inv, NEW b \in Body, Suspended(b)
               PROVE  \/ Queued(b)
                      \/ /\ b \in started /\ ~requested[b] /\ ~isTerminal(awaited[b])
                         /\ b \in {waiters[awaited[b]][i] : i \in DOMAIN waiters[awaited[b]]}
    BY DEF NoLostWakeup
  <2>1. b \in invocation /\ ~OnStack(b)
    BY DEF Suspended
  <2>2. ready \in Seq(FrameType) /\ waiters \in [Task -> Seq(Body)]
    BY DEF Inv, Types, TypeOK
  <2>3. DOMAIN ready = 1 .. Len(ready) /\ \A t \in Task : DOMAIN waiters[t] = 1 .. Len(waiters[t])
    BY <2>2
  <2>4. ASSUME NEW f, There(f), f.body = b, f.kind = "wake" => awaited[b] = f.what PROVE Queued(b)
    <3>1. f \in inflight \cup {ready[i] : i \in DOMAIN ready}
      BY <2>3, <2>4 DEF There, Has
    <3>2. Applies(f)
      BY <2>1, <2>4 DEF Applies
    <3> QED BY <2>4, <3>1, <3>2 DEF Queued
  <2>5. CASE b \notin started
    <3>1. PICK n \in 0..MaxAwaits : Has(ready, Resume(b, n))
      BY <2>1, <2>5 DEF Inv, Lifecycle
    <3>2. There(Resume(b, n)) /\ Resume(b, n).body = b /\ Resume(b, n).kind # "wake"
      BY <3>1, FramesApart DEF There
    <3> QED BY <2>4, <3>2
  <2>6. CASE b \in started
    <3>1. Reached(b) \/ Waits(b)
      BY <2>1, <2>6 DEF Inv, Woken
    <3>2. Reached(b) => Queued(b)
      BY <2>4 DEF Reached
    <3>3. Waits(b) => /\ ~requested[b] /\ ~isTerminal(awaited[b])
                      /\ b \in {waiters[awaited[b]][i] : i \in DOMAIN waiters[awaited[b]]}
      BY <2>3 DEF Waits, Has
    <3> QED BY <2>6, <3>1, <3>2, <3>3
  <2> QED BY <2>5, <2>6
<1> QED BY <1>1, InvHolds, PTL

=============================================================================
