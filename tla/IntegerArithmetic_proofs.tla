----------------------- MODULE IntegerArithmetic_proofs -----------------------
(***************************************************************************)
(* Theorems about IntegerArithmetic, for ints of every width and for both  *)
(* kinds of builds: the overflow tests are exact and overflow nowhere      *)
(* themselves, the interpreter computes the exact result or throws, the    *)
(* two compile-time evaluators compute what it computes and leave to run   *)
(* time what throws, and the optimizer's rules about operands it knows     *)
(* only in part change no result and lose no exception.                    *)
(***************************************************************************)
EXTENDS IntegerArithmetic, TLAPS

(* The limits of an int are integers around 0, one apart in size.          *)
LEMMA Limits ==
  /\ MinInt \in Int /\ MaxInt \in Int
  /\ MinInt = -MaxInt - 1 /\ MaxInt >= 1
BY IntegerAssumption DEF Ints, MinInt, MaxInt

(* Membership in Ints, spelled out.                                        *)
LEMMA InInts == \A i \in Int : i \in Ints <=> MinInt <= i /\ i <= MaxInt
BY Limits DEF Ints

LEMMA IntsAreInt == \A i \in Ints : i \in Int
BY Limits DEF Ints

(* --- Division ----------------------------------------------------------- *)
LEMMA DivideNat ==
  ASSUME NEW a \in Nat, NEW b \in Nat, b > 0
  PROVE  /\ a \div b \in Nat /\ a % b \in Nat
         /\ a = b * (a \div b) + (a % b) /\ a % b < b
         /\ a \div b <= a
<1>1. a \div b \in Int /\ a % b \in Int /\ a = b * (a \div b) + (a % b) /\ 0 <= a % b /\ a % b < b
  OBVIOUS
<1>2. a \div b >= 0
  OBVIOUS
<1>3. a \div b <= b * (a \div b)
  BY <1>1, <1>2
<1> QED
  BY <1>1, <1>2, <1>3

(* A factor beyond the quotient of the limit, and nothing less, takes the  *)
(* product beyond the limit.                                               *)
LEMMA BeyondQuotient ==
  ASSUME NEW M \in Nat, NEW a \in Nat, NEW b \in Nat, b > 0
  PROVE  a > M \div b <=> a * b > M
<1> DEFINE q == M \div b
           r == M % b
<1>1. q \in Nat /\ r \in Nat /\ M = b * q + r /\ r < b
  BY DivideNat
<1> HIDE DEF q, r
<1>2. ASSUME a > q PROVE a * b > M
  <2>1. a >= q + 1
    BY <1>1, <1>2
  <2>2. a * b >= (q + 1) * b
    BY <1>1, <2>1
  <2>3. (q + 1) * b = b * q + b
    BY <1>1
  <2> QED
    BY <1>1, <2>2, <2>3
<1>3. ASSUME ~(a > q) PROVE ~(a * b > M)
  <2>1. a * b <= q * b
    BY <1>1, <1>3
  <2>2. q * b = b * q
    BY <1>1
  <2> QED
    BY <1>1, <2>1, <2>2
<1> QED
  BY <1>2, <1>3 DEF q

(* Truncating division by a divisor, sign by sign.                         *)
LEMMA TruncCases ==
  ASSUME NEW x \in Int, NEW y \in Int, y # 0
  PROVE  /\ x >= 0 /\ y > 0 => TruncDiv(x, y) = x \div y
         /\ x >= 0 /\ y < 0 => TruncDiv(x, y) = -(x \div (-y))
         /\ x < 0 /\ y > 0 => TruncDiv(x, y) = -((-x) \div y)
         /\ x < 0 /\ y < 0 => TruncDiv(x, y) = (-x) \div (-y)
BY DEF TruncDiv

Abs(i) == IF i < 0 THEN -i ELSE i

(* Quotient and remainder make up the dividend, the remainder is smaller   *)
(* than the divisor and has the dividend's sign, the quotient is no larger *)
(* than the dividend.                                                      *)
LEMMA TruncFacts ==
  ASSUME NEW x \in Int, NEW y \in Int, y # 0
  PROVE  /\ TruncDiv(x, y) \in Int /\ TruncMod(x, y) \in Int
         /\ x = y * TruncDiv(x, y) + TruncMod(x, y)
         /\ Abs(TruncMod(x, y)) < Abs(y)
         /\ TruncMod(x, y) > 0 => x > 0
         /\ TruncMod(x, y) < 0 => x < 0
         /\ Abs(TruncMod(x, y)) <= Abs(x)
         /\ Abs(TruncDiv(x, y)) <= Abs(x)
<1> DEFINE a == Abs(x)
           b == Abs(y)
           q == a \div b
           r == a % b
<1>1. a \in Nat /\ b \in Nat /\ b > 0
  BY DEF Abs
<1>2. q \in Nat /\ r \in Nat /\ a = b * q + r /\ r < b /\ q <= a
  BY <1>1, DivideNat
<1>3. b * q >= 0
  BY <1>1, <1>2
<1>4. r <= a
  BY <1>1, <1>2, <1>3
<1>5. TruncDiv(x, y) = IF (x < 0) = (y < 0) THEN q ELSE -q
  BY DEF TruncDiv, Abs
<1> HIDE DEF q, r
<1>6. TruncMod(x, y) = IF x < 0 THEN -r ELSE r
  <2>1. CASE x < 0 /\ y < 0
    <3>1. TruncMod(x, y) = x - y * q
      BY <1>5, <2>1 DEF TruncMod
    <3>2. -x = (-y) * q + r
      BY <1>2, <2>1 DEF Abs
    <3>3. (-y) * q = -(y * q)
      BY <1>2
    <3> QED
      BY <1>2, <2>1, <3>1, <3>2, <3>3
  <2>2. CASE x < 0 /\ y > 0
    <3>1. TruncMod(x, y) = x - y * (-q)
      BY <1>5, <2>2 DEF TruncMod
    <3>2. -x = y * q + r
      BY <1>2, <2>2 DEF Abs
    <3>3. y * (-q) = -(y * q)
      BY <1>2
    <3> QED
      BY <1>2, <2>2, <3>1, <3>2, <3>3
  <2>3. CASE x >= 0 /\ y < 0
    <3>1. TruncMod(x, y) = x - y * (-q)
      BY <1>5, <2>3 DEF TruncMod
    <3>2. x = (-y) * q + r
      BY <1>2, <2>3 DEF Abs
    <3>3. (-y) * q = y * (-q)
      BY <1>2
    <3> QED
      BY <1>2, <2>3, <3>1, <3>2, <3>3
  <2>4. CASE x >= 0 /\ y > 0
    <3>1. TruncMod(x, y) = x - y * q
      BY <1>5, <2>4 DEF TruncMod
    <3>2. x = y * q + r
      BY <1>2, <2>4 DEF Abs
    <3> QED
      BY <1>2, <2>4, <3>1, <3>2
  <2> QED
    BY <2>1, <2>2, <2>3, <2>4
<1>7. TruncDiv(x, y) \in Int
  BY <1>2, <1>5
<1>8. TruncMod(x, y) \in Int
  BY <1>2, <1>6
<1>9. x = y * TruncDiv(x, y) + TruncMod(x, y)
  BY <1>7 DEF TruncMod
<1>10. Abs(TruncMod(x, y)) = r /\ Abs(TruncDiv(x, y)) = q
  BY <1>2, <1>5, <1>6 DEF Abs
<1>11. (TruncMod(x, y) > 0 => x > 0) /\ (TruncMod(x, y) < 0 => x < 0)
  BY <1>2, <1>4, <1>6 DEF Abs
<1> QED
  BY <1>2, <1>4, <1>7, <1>8, <1>9, <1>10, <1>11

(* --- Overflow ----------------------------------------------------------- *)
(* The limits the operands are compared with are ints themselves: building  *)
(* without the builtins brings no undefined behaviour in.                   *)
THEOREM TestsStayInRange ==
  ASSUME NEW x \in Ints, x # 0
  PROVE  /\ AddLimit(x) \in Ints
         /\ SubLimit(x) \in Ints
         /\ TruncDiv(MaxInt, x) \in Ints
         /\ x > 0 => TruncDiv(MinInt, x) \in Ints
<1>1. x \in Int /\ MinInt <= x /\ x <= MaxInt
  BY IntsAreInt, InInts
<1>2. AddLimit(x) \in Ints /\ SubLimit(x) \in Ints
  <2>1. AddLimit(x) \in Int /\ MinInt <= AddLimit(x) /\ AddLimit(x) <= MaxInt
    BY <1>1, Limits DEF AddLimit
  <2>2. SubLimit(x) \in Int /\ MinInt <= SubLimit(x) /\ SubLimit(x) <= MaxInt
    BY <1>1, Limits DEF SubLimit
  <2> QED
    BY <2>1, <2>2, InInts
<1>3. TruncDiv(MaxInt, x) \in Ints
  <2>1. TruncDiv(MaxInt, x) \in Int /\ Abs(TruncDiv(MaxInt, x)) <= Abs(MaxInt)
    BY <1>1, Limits, TruncFacts
  <2> QED
    BY <2>1, Limits DEF Abs, Ints
<1>4. ASSUME x > 0 PROVE TruncDiv(MinInt, x) \in Ints
  <2>1. TruncDiv(MinInt, x) = -((-MinInt) \div x)
    BY <1>1, <1>4, Limits, TruncCases
  <2>2. (-MinInt) \div x \in Nat /\ (-MinInt) \div x <= -MinInt
    BY <1>1, <1>4, Limits, DivideNat
  <2> QED
    BY <2>1, <2>2, Limits DEF Ints
<1> QED
  BY <1>2, <1>3, <1>4

(* Without the builtins: a product of two ints leaves the range exactly     *)
(* where the test of its signs' case says so.                               *)
LEMMA ProductCases ==
  ASSUME NEW x \in Ints, NEW y \in Ints
  PROVE  /\ x > 0 /\ y > 0 => (x * y \notin Ints <=> x > TruncDiv(MaxInt, y))
         /\ x > 0 /\ y < 0 => (x * y \notin Ints <=> y < TruncDiv(MinInt, x))
         /\ x < 0 /\ y > 0 => (x * y \notin Ints <=> x < TruncDiv(MinInt, y))
         /\ x < 0 /\ y < 0 => (x * y \notin Ints <=> x < TruncDiv(MaxInt, y))
         /\ x < 0 /\ y < 0 => (x * y \notin Ints <=> y < TruncDiv(MaxInt, x))
<1>1. x \in Int /\ y \in Int /\ x * y \in Int
  BY IntsAreInt
<1>2. x * y \notin Ints <=> x * y < MinInt \/ x * y > MaxInt
  BY <1>1, Limits, InInts
<1>3. MaxInt \in Nat /\ -MinInt \in Nat
  BY Limits
<1>4. ASSUME x > 0, y > 0 PROVE x * y \notin Ints <=> x > TruncDiv(MaxInt, y)
  <2>1. TruncDiv(MaxInt, y) = MaxInt \div y
    BY <1>1, <1>3, <1>4, TruncCases
  <2>2. x > MaxInt \div y <=> x * y > MaxInt
    BY <1>1, <1>3, <1>4, BeyondQuotient
  <2>3. x * y > 0
    BY <1>1, <1>4
  <2> QED
    BY <1>1, <1>2, <2>1, <2>2, <2>3, Limits
<1>5. ASSUME NEW a \in Int, NEW b \in Int, a > 0, b < 0
      PROVE  a * b < MinInt \/ a * b > MaxInt <=> b < TruncDiv(MinInt, a)
  <2>1. TruncDiv(MinInt, a) = -((-MinInt) \div a)
    BY <1>5, Limits, TruncCases
  <2>2. (-b) > (-MinInt) \div a <=> (-b) * a > -MinInt
    BY <1>3, <1>5, BeyondQuotient
  <2>3. (-b) * a = -(a * b) /\ a * b < 0 /\ a * b \in Int
    BY <1>5
  <2>4. (-MinInt) \div a \in Nat
    BY <1>3, <1>5, DivideNat
  <2> QED
    BY <1>5, <2>1, <2>2, <2>3, <2>4, Limits
<1>6. ASSUME NEW a \in Int, NEW b \in Int, a < 0, b < 0
      PROVE  a * b < MinInt \/ a * b > MaxInt <=> a < TruncDiv(MaxInt, b)
  <2>1. TruncDiv(MaxInt, b) = -(MaxInt \div (-b))
    BY <1>6, Limits, TruncCases
  <2>2. (-a) > MaxInt \div (-b) <=> (-a) * (-b) > MaxInt
    BY <1>3, <1>6, BeyondQuotient
  <2>3. (-a) * (-b) = a * b /\ a * b > 0 /\ a * b \in Int
    BY <1>6
  <2>4. MaxInt \div (-b) \in Nat
    BY <1>3, <1>6, DivideNat
  <2> QED
    BY <1>6, <2>1, <2>2, <2>3, <2>4, Limits
<1>7. x * y = y * x
  BY <1>1
<1> QED
  BY <1>1, <1>2, <1>4, <1>5, <1>6, <1>7

(* An operation is found to overflow exactly if its result does not fit an  *)
(* int, whatever the C++ compiler offers; binaryArith and mulChecked, which *)
(* test the operands of a multiplication differently, agree.                *)
THEOREM OverflowTestsExact ==
  ASSUME NEW x \in Ints, NEW y \in Ints
  PROVE  /\ AddOverflows(x, y) <=> x + y \notin Ints
         /\ SubOverflows(x, y) <=> x - y \notin Ints
         /\ MulOverflows(x, y) <=> x * y \notin Ints
         /\ MulChecked(x, y) <=> x * y \in Ints
<1>1. CASE OverflowBuiltins
  BY <1>1 DEF AddOverflows, SubOverflows, MulOverflows, MulChecked
<1>2. CASE ~OverflowBuiltins
  <2>1. x \in Int /\ y \in Int /\ MinInt <= x /\ x <= MaxInt /\ MinInt <= y /\ y <= MaxInt
    BY IntsAreInt, InInts
  <2>2. /\ AddOverflows(x, y) <=> (y > 0 /\ x > MaxInt - y) \/ (y < 0 /\ x < MinInt - y)
        /\ SubOverflows(x, y) <=> (y < 0 /\ x > MaxInt + y) \/ (y > 0 /\ x < MinInt + y)
    BY <1>2, <2>1, Limits DEF AddOverflows, SubOverflows, AddLimit, SubLimit
  <2>3. AddOverflows(x, y) <=> x + y \notin Ints
    BY <2>1, <2>2, Limits DEF Ints
  <2>4. SubOverflows(x, y) <=> x - y \notin Ints
    BY <2>1, <2>2, Limits DEF Ints
  <2>5. CASE x = 0 \/ y = 0
    <3>1. x * y = 0
      BY <2>1, <2>5
    <3>2. x * y \in Ints
      BY <3>1, Limits DEF Ints
    <3> QED
      BY <1>2, <2>3, <2>4, <2>5, <3>2 DEF MulOverflows, MulChecked
  <2>6. CASE x # 0 /\ y # 0
    <3>1. x = -1 => (x * y \in Ints <=> y # MinInt)
      BY <2>1, Limits DEF Ints
    <3>2. y = -1 => (x * y \in Ints <=> x # MinInt)
      BY <2>1, Limits DEF Ints
    <3>3. MulOverflows(x, y) <=> x * y \notin Ints
      BY <1>2, <2>1, <2>6, <3>1, <3>2, ProductCases DEF MulOverflows
    <3>4. MulChecked(x, y) <=> x * y \in Ints
      <4>1. CASE x = -1
        BY <1>2, <2>6, <3>1, <4>1 DEF MulChecked
      <4>2. CASE x # -1 /\ y = -1
        BY <1>2, <2>6, <3>2, <4>2 DEF MulChecked
      <4>3. CASE x # -1 /\ y # -1
        <5>1. MulChecked(x, y) <=> /\ x > 0 /\ y > 0 => ~(x > TruncDiv(MaxInt, y))
                                   /\ x > 0 /\ y < 0 => ~(y < TruncDiv(MinInt, x))
                                   /\ x < 0 /\ y > 0 => ~(x < TruncDiv(MinInt, y))
                                   /\ x < 0 /\ y < 0 => ~(y < TruncDiv(MaxInt, x))
          BY <1>2, <2>6, <4>3 DEF MulChecked
        <5>2. \/ x > 0 /\ y > 0
              \/ x > 0 /\ y < 0
              \/ x < 0 /\ y > 0
              \/ x < 0 /\ y < 0
          BY <2>1, <2>6
        <5> QED
          BY <2>1, <5>1, <5>2, ProductCases
      <4> QED
        BY <4>1, <4>2, <4>3
    <3> QED
      BY <2>3, <2>4, <3>3, <3>4
  <2> QED
    BY <2>5, <2>6
<1> QED
  BY <1>1, <1>2

(* --- The interpreter ---------------------------------------------------- *)
(* The one quotient that does not fit is MinInt over -1.                    *)
LEMMA QuotientFits ==
  ASSUME NEW x \in Ints, NEW y \in Ints, y # 0
  PROVE  TruncDiv(x, y) \in Ints <=> ~(x = MinInt /\ y = -1)
<1>1. x \in Int /\ y \in Int /\ MinInt <= x /\ x <= MaxInt
  BY IntsAreInt, InInts
<1>2. TruncDiv(x, y) \in Int /\ Abs(TruncDiv(x, y)) <= Abs(x)
  BY <1>1, TruncFacts
<1>3. CASE x # MinInt
  BY <1>1, <1>2, <1>3, Limits DEF Ints, Abs
<1>4. CASE x = MinInt /\ y = -1
  <2>1. x = y * TruncDiv(x, y) + TruncMod(x, y) /\ TruncMod(x, y) \in Int /\ Abs(TruncMod(x, y)) < Abs(y)
    BY <1>1, TruncFacts
  <2>2. TruncMod(x, y) = 0
    BY <1>4, <2>1 DEF Abs
  <2>3. TruncDiv(x, y) = -MinInt
    BY <1>2, <1>4, <2>1, <2>2, Limits
  <2> QED
    BY <1>4, <2>3, Limits DEF Ints
<1>5. CASE x = MinInt /\ y > 0
  <2>1. TruncDiv(x, y) = -((-x) \div y)
    BY <1>1, <1>5, Limits, TruncCases
  <2>2. -x \in Nat /\ y \in Nat
    BY <1>1, <1>5, Limits
  <2>3. (-x) \div y \in Nat /\ (-x) \div y <= -x
    BY <1>5, <2>2, DivideNat
  <2> QED
    BY <1>5, <2>1, <2>3, Limits DEF Ints
<1>6. CASE x = MinInt /\ y < -1
  <2>1. TruncDiv(x, y) = (-x) \div (-y)
    BY <1>1, <1>6, Limits, TruncCases
  <2>2. /\ (-x) \div (-y) \in Nat /\ (-x) % (-y) \in Nat
        /\ -x = (-y) * ((-x) \div (-y)) + ((-x) % (-y))
    <3>1. -x \in Nat /\ -y \in Nat /\ -y > 0
      BY <1>1, <1>6, Limits
    <3> QED
      BY <3>1, DivideNat
  <2>3. (-y) * TruncDiv(x, y) <= -x
    BY <1>1, <1>2, <2>1, <2>2
  <2>4. (-y) * TruncDiv(x, y) >= 2 * TruncDiv(x, y)
    BY <1>1, <1>2, <1>6, <2>1, <2>2
  <2>5. 2 * TruncDiv(x, y) <= MaxInt + 1
    BY <1>1, <1>2, <1>6, <2>3, <2>4, Limits
  <2> QED
    BY <1>2, <1>6, <2>1, <2>2, <2>5, Limits DEF Ints
<1> QED
  BY <1>1, <1>3, <1>4, <1>5, <1>6

(* A remainder always fits, and MinInt leaves none over -1: what the VM     *)
(* defines for that case is what it is in the other cases.                  *)
LEMMA RemainderFits ==
  ASSUME NEW x \in Ints, NEW y \in Ints, y # 0
  PROVE  /\ TruncMod(x, y) \in Ints
         /\ y \in {1, -1} => TruncMod(x, y) = 0
<1>1. x \in Int /\ y \in Int /\ MinInt <= x /\ x <= MaxInt /\ MinInt <= y /\ y <= MaxInt
  BY IntsAreInt, InInts
<1>2. /\ TruncMod(x, y) \in Int /\ Abs(TruncMod(x, y)) < Abs(y)
      /\ Abs(TruncMod(x, y)) <= Abs(x)
  BY <1>1, TruncFacts
<1> QED
  BY <1>1, <1>2, Limits DEF Ints, Abs

(* The mathematical result of an operation on integers.                     *)
Exact(op, x, y) ==
  CASE op = "Add" -> x + y
    [] op = "Sub" -> x - y
    [] op = "Mul" -> x * y
    [] op = "Div" -> TruncDiv(x, y)
    [] op = "Mod" -> TruncMod(x, y)
IsDefined(op, y) == op \in {"Div", "Mod"} => y # 0

(* The definitions by operation, one case at a time.                        *)
LEMMA ExactCases ==
  ASSUME NEW x, NEW y
  PROVE  /\ Exact("Add", x, y) = x + y
         /\ Exact("Sub", x, y) = x - y
         /\ Exact("Mul", x, y) = x * y
         /\ Exact("Div", x, y) = TruncDiv(x, y)
         /\ Exact("Mod", x, y) = TruncMod(x, y)
BY Zenon DEF Exact
LEMMA VmCases ==
  ASSUME NEW x, NEW y
  PROVE  /\ VmArith("Add", x, y) = IF AddOverflows(x, y) THEN ArithmeticError ELSE VInt(x + y)
         /\ VmArith("Sub", x, y) = IF SubOverflows(x, y) THEN ArithmeticError ELSE VInt(x - y)
         /\ VmArith("Mul", x, y) = IF MulOverflows(x, y) THEN ArithmeticError ELSE VInt(x * y)
         /\ VmArith("Div", x, y) = IF y = 0 \/ (x = MinInt /\ y = -1) THEN ArithmeticError ELSE VInt(TruncDiv(x, y))
         /\ VmArith("Mod", x, y) = IF y = 0 THEN ArithmeticError
                                   ELSE IF x = MinInt /\ y = -1 THEN VInt(0) ELSE VInt(TruncMod(x, y))
BY Zenon DEF VmArith

(* The interpreter computes the mathematical result of an operation on ints *)
(* if there is one that fits an int, and throws otherwise.                  *)
THEOREM InterpreterExact ==
  ASSUME NEW op \in IntOps, NEW x \in Ints, NEW y \in Ints
  PROVE  VmArith(op, x, y) = IF IsDefined(op, y) /\ Exact(op, x, y) \in Ints
                             THEN VInt(Exact(op, x, y)) ELSE ArithmeticError
<1>1. CASE op = "Add"
  BY <1>1, OverflowTestsExact, ExactCases, VmCases DEF IsDefined
<1>2. CASE op = "Sub"
  BY <1>2, OverflowTestsExact, ExactCases, VmCases DEF IsDefined
<1>3. CASE op = "Mul"
  BY <1>3, OverflowTestsExact, ExactCases, VmCases DEF IsDefined
<1>4. CASE op = "Div"
  BY <1>4, QuotientFits, ExactCases, VmCases DEF IsDefined
<1>5. CASE op = "Mod"
  BY <1>5, RemainderFits, ExactCases, VmCases DEF IsDefined
<1> QED
  BY <1>1, <1>2, <1>3, <1>4, <1>5 DEF IntOps

(* --- Compile-time evaluation -------------------------------------------- *)
LEMMA FoldCases ==
  ASSUME NEW x, NEW y
  PROVE  /\ FoldArith("Add", x, y) = IF AddOverflows(x, y) THEN NoFold ELSE VInt(x + y)
         /\ FoldArith("Sub", x, y) = IF SubOverflows(x, y) THEN NoFold ELSE VInt(x - y)
         /\ FoldArith("Mul", x, y) = IF MulChecked(x, y) THEN VInt(x * y) ELSE NoFold
         /\ FoldArith("Div", x, y) = IF y = 0 \/ (x = MinInt /\ y = -1) THEN NoFold ELSE VInt(TruncDiv(x, y))
         /\ FoldArith("Mod", x, y) = IF y = 0 THEN NoFold
                                     ELSE IF x = MinInt /\ y = -1 THEN VInt(0) ELSE VInt(TruncMod(x, y))
BY Zenon DEF FoldArith
LEMMA LiteralCases ==
  ASSUME NEW x, NEW y
  PROVE  /\ LiteralArith("Add", x, y) = IF AddOverflows(x, y) THEN NoFold ELSE VInt(x + y)
         /\ LiteralArith("Sub", x, y) = IF SubOverflows(x, y) THEN NoFold ELSE VInt(x - y)
         /\ LiteralArith("Mul", x, y) = IF OverflowBuiltins /\ x * y \in Ints THEN VInt(x * y) ELSE NoFold
         /\ LiteralArith("Div", x, y) = IF y # 0 /\ ~(x = MinInt /\ y = -1) THEN VInt(TruncDiv(x, y)) ELSE NoFold
         /\ LiteralArith("Mod", x, y) = IF y = 0 THEN NoFold
                                        ELSE IF x = MinInt /\ y = -1 THEN VInt(0) ELSE VInt(TruncMod(x, y))
BY Zenon DEF LiteralArith

LEMMA Kinds ==
  /\ IsFault(ArithmeticError)
  /\ \A i : ~IsFault(VInt(i)) /\ VInt(i) # NoFold
BY DEF IsFault, ArithmeticError, Fault, VInt, NoFold

(* The MIR's compile-time evaluation has the interpreter's result, and none *)
(* exactly where the interpreter throws: folding a constant expression      *)
(* neither changes its value nor drops or adds an exception.                *)
THEOREM FoldingExact ==
  ASSUME NEW op \in IntOps, NEW x \in Ints, NEW y \in Ints
  PROVE  FoldArith(op, x, y) = IF IsFault(VmArith(op, x, y)) THEN NoFold ELSE VmArith(op, x, y)
<1>1. CASE op = "Add"
  BY <1>1, VmCases, FoldCases, Kinds
<1>2. CASE op = "Sub"
  BY <1>2, VmCases, FoldCases, Kinds
<1>3. CASE op = "Mul"
  BY <1>3, OverflowTestsExact, VmCases, FoldCases, Kinds
<1>4. CASE op = "Div"
  BY <1>4, VmCases, FoldCases, Kinds
<1>5. CASE op = "Mod"
  BY <1>5, VmCases, FoldCases, Kinds
<1> QED
  BY <1>1, <1>2, <1>3, <1>4, <1>5 DEF IntOps

(* What the reference compiler makes of two literals is the interpreter's   *)
(* result; it leaves to run time whatever throws, and in builds without the *)
(* builtins every multiplication.                                           *)
THEOREM LiteralsExact ==
  ASSUME NEW op \in IntOps, NEW x \in Ints, NEW y \in Ints
  PROVE  LiteralArith(op, x, y) = IF IsFault(VmArith(op, x, y)) \/ (op = "Mul" /\ ~OverflowBuiltins)
                                  THEN NoFold ELSE VmArith(op, x, y)
<1>1. CASE op = "Add"
  BY <1>1, VmCases, LiteralCases, Kinds
<1>2. CASE op = "Sub"
  BY <1>2, VmCases, LiteralCases, Kinds
<1>3. CASE op = "Mul"
  BY <1>3, OverflowTestsExact, VmCases, LiteralCases, Kinds
<1>4. CASE op = "Div"
  BY <1>4, VmCases, LiteralCases, Kinds
<1>5. CASE op = "Mod"
  BY <1>5, VmCases, LiteralCases, Kinds
<1> QED
  BY <1>1, <1>2, <1>3, <1>4, <1>5 DEF IntOps

(* Negation is folded as the interpreter computes it, and negating twice    *)
(* gives the operand back wherever the first negation does not throw: the   *)
(* rule for -(-x) can neither lose nor add an exception.                    *)
THEOREM NegationExact ==
  ASSUME NEW x \in Ints
  PROVE  /\ VmNeg(x) = IF -x \in Ints THEN VInt(-x) ELSE ArithmeticError
         /\ FoldNeg(x) = IF IsFault(VmNeg(x)) THEN NoFold ELSE VmNeg(x)
         /\ ~IsFault(VmNeg(x)) => VmNeg(-x) = VInt(x)
<1>1. x \in Int /\ MinInt <= x /\ x <= MaxInt
  BY IntsAreInt, InInts
<1>2. -x \in Ints <=> x # MinInt
  BY <1>1, Limits DEF Ints
<1>3. -x # MinInt /\ -(-x) = x
  BY <1>1, Limits
<1> QED
  BY <1>2, <1>3, Kinds DEF VmNeg, FoldNeg

(* --- Rules about operands that are not all known ------------------------ *)
(* What is known of an operand is true of it.                               *)
Describes(K, v) == K \in {{}, {v}}

LEMMA KnownValue ==
  ASSUME NEW K, NEW v, Describes(K, v), NEW c, K = {c}
  PROVE  v = c
BY DEF Describes

(* An operation whose operands operationCanRaise finds harmless does not    *)
(* throw, whatever the operand that is not known turns out to be: deleting  *)
(* it when its result is unused loses no exception.                         *)
THEOREM HarmlessNeverRaises ==
  ASSUME NEW op \in IntOps, NEW x \in Ints, NEW y \in Ints,
         NEW L, Describes(L, x), NEW R, Describes(R, y), CannotRaise(op, L, R)
  PROVE  ~IsFault(VmArith(op, x, y))
<1>1. x \in Int /\ y \in Int /\ 0 \in Ints
  BY IntsAreInt, Limits DEF Ints
<1>2. VmArith(op, x, y) = IF IsDefined(op, y) /\ Exact(op, x, y) \in Ints
                          THEN VInt(Exact(op, x, y)) ELSE ArithmeticError
  BY InterpreterExact
<1>3. SUFFICES IsDefined(op, y) /\ Exact(op, x, y) \in Ints
  BY <1>2, Kinds
<1>4. CASE op = "Add"
  <2>1. x = 0 \/ y = 0
    BY <1>4, KnownValue DEF CannotRaise
  <2> QED
    BY <1>1, <1>4, <2>1, ExactCases DEF IsDefined
<1>5. CASE op = "Sub"
  <2>1. y = 0
    BY <1>5, KnownValue DEF CannotRaise
  <2> QED
    BY <1>1, <1>5, <2>1, ExactCases DEF IsDefined
<1>6. CASE op = "Mul"
  <2>1. x \in {0, 1} \/ y \in {0, 1}
    BY <1>6, KnownValue DEF CannotRaise
  <2>2. x * y \in {0, x, y}
    BY <1>1, <2>1
  <2> QED
    BY <1>1, <1>6, <2>2, ExactCases DEF IsDefined
<1>7. CASE op \in {"Div", "Mod"}
  <2>1. R = {y} /\ y # 0
    BY <1>7 DEF CannotRaise, Describes
  <2>2. y = -1 => x # MinInt
    BY <1>7, <2>1 DEF CannotRaise, Describes
  <2>3. TruncDiv(x, y) \in Ints /\ TruncMod(x, y) \in Ints
    BY <2>1, <2>2, QuotientFits, RemainderFits
  <2> QED
    BY <1>7, <2>1, <2>3, ExactCases DEF IsDefined
<1> QED
  BY <1>4, <1>5, <1>6, <1>7 DEF IntOps

(* The value an operand or constant stands for that replaces a result.      *)
Replacement(i, x, y) == IF i = "left" THEN x ELSE IF i = "right" THEN y ELSE 0

(* Where tryAlgebraicIdentity replaces the result of an operation by an     *)
(* operand or by zero, the operation computes that value and does not       *)
(* throw, whatever its unknown operands are.                                *)
THEOREM IdentitiesExact ==
  ASSUME NEW op \in IntOps, NEW x \in Ints, NEW y \in Ints,
         NEW L, Describes(L, x), NEW R, Describes(R, y),
         NEW same \in BOOLEAN, same => x = y,
         Identity(op, L, R, same) # "none"
  PROVE  VmArith(op, x, y) = VInt(Replacement(Identity(op, L, R, same), x, y))
<1> DEFINE i == Identity(op, L, R, same)
           v == Replacement(i, x, y)
<1>1. x \in Int /\ y \in Int /\ 0 \in Ints
  BY IntsAreInt, Limits DEF Ints
<1>2. SUFFICES IsDefined(op, y) /\ Exact(op, x, y) = v /\ v \in Ints
  BY InterpreterExact
<1>3. v \in Ints
  BY <1>1 DEF Replacement
<1>4. CASE op = "Add"
  <2>1. (i = "right" /\ x = 0) \/ (i = "left" /\ y = 0)
    BY <1>4, KnownValue DEF Identity
  <2> QED
    BY <1>1, <1>3, <1>4, <2>1, ExactCases DEF IsDefined, Replacement
<1>5. CASE op = "Sub"
  <2>1. (i = "left" /\ y = 0) \/ (i = "zero" /\ x = y)
    BY <1>5, KnownValue DEF Identity
  <2> QED
    BY <1>1, <1>3, <1>5, <2>1, ExactCases DEF IsDefined, Replacement
<1>6. CASE op = "Mul"
  <2>1. \/ i = "right" /\ (x = 1 \/ y = 0)
        \/ i = "left" /\ (y = 1 \/ x = 0)
    BY <1>6, KnownValue DEF Identity
  <2>2. x * y = v
    BY <1>1, <2>1 DEF Replacement
  <2> QED
    BY <1>3, <1>6, <2>2, ExactCases DEF IsDefined
<1>7. CASE op = "Div"
  <2>1. i = "left" /\ y = 1
    BY <1>7, KnownValue DEF Identity
  <2>2. TruncMod(x, y) = 0
    BY <2>1, RemainderFits
  <2>3. TruncDiv(x, y) = x
    BY <1>1, <2>1, <2>2, TruncFacts
  <2> QED
    BY <1>3, <1>7, <2>1, <2>3, ExactCases DEF IsDefined, Replacement
<1>8. CASE op = "Mod"
  <2>1. i = "zero" /\ y = 1
    BY <1>8, KnownValue DEF Identity
  <2> QED
    BY <1>3, <1>8, <2>1, RemainderFits, ExactCases DEF IsDefined, Replacement
<1> QED
  BY <1>4, <1>5, <1>6, <1>7, <1>8 DEF IntOps
=============================================================================
