-------------------------------- MODULE Values --------------------------------
(***************************************************************************)
(* Run-time values and the operators on them: src/vm/value.cpp and the     *)
(* arithmetic of src/vm/vm.cpp, that of ints being IntegerArithmetic's.  A  *)
(* value is <<kind, payload>>; the payload of list, map, obj and func is a  *)
(* heap reference; a double has an integer payload of DoubleBits            *)
(* significant bits.  An operation that throws yields <<"fault", exception  *)
(* class>>.                                                                 *)
(***************************************************************************)
EXTENDS IntegerArithmetic, Sequences, TLC
LOCAL INSTANCE Bitwise

CONSTANT DoubleBits
ASSUME WidthAssumption == IntBits \in 2 .. 15 /\ DoubleBits \in 1 .. 15

Unsigned(x) == x % (2 ^ IntBits)
Signed(u)   == IF u > MaxInt THEN u - 2 ^ IntBits ELSE u

VNil == <<"nil", 0>>
VDouble(d) == <<"double", d>>
VBool(b) == <<"bool", b>>
VStr(s) == <<"string", s>>
IsNumber(v) == v[1] \in {"int", "double"}

IsTruthy(h, v) ==
  CASE v[1] = "nil" -> FALSE
    [] v[1] = "bool" -> v[2]
    [] IsNumber(v) -> v[2] # 0
    [] v[1] = "string" -> v[2] # ""
    [] v[1] \in {"list", "map"} -> h[v[2]].items # <<>>
    [] OTHER -> TRUE

(* valuesEqual: numbers by value, records of a data type field by field,    *)
(* other references by identity.                                            *)
RECURSIVE ValuesEqual(_, _, _)
ValuesEqual(h, a, b) ==
  CASE IsNumber(a) /\ IsNumber(b) -> a[2] = b[2]
    [] a[1] # b[1] -> FALSE
    [] a[1] = "obj" /\ h[a[2]].data /\ h[b[2]].data ->
         \/ a[2] = b[2]
         \/ /\ h[a[2]].cls = h[b[2]].cls
            /\ \A n \in DOMAIN h[a[2]].fields : ValuesEqual(h, h[a[2]].fields[n], h[b[2]].fields[n])
    [] OTHER -> a[2] = b[2]

(* valueToString, as far as programs can tell values apart by it.           *)
RECURSIVE Show(_, _), FoldShow(_, _)
Show(h, v) ==
  CASE v[1] = "nil" -> "nil"
    [] v[1] = "string" -> v[2]
    [] v[1] = "obj" -> h[v[2]].cls
    [] v[1] = "list" -> FoldShow(h, h[v[2]].items)
    [] v[1] \in {"func", "map"} -> v[1]
    [] OTHER -> ToString(v[2])
FoldShow(h, items) ==
  LET n == Len(items)
      r[i \in 0 .. n] == IF i = 0 THEN "" ELSE r[i - 1] \o Show(h, items[i]) \o ";"
  IN  "[" \o r[n] \o "]"

(* Exponentiation by squaring: the last factor is not squared again.  A     *)
(* product out of range ends it.                                            *)
RECURSIVE PowChecked(_, _, _)
PowChecked(r, f, n) ==
  LET r2 == IF n % 2 = 1 THEN r * f ELSE r
      f2 == IF n < 2 THEN f ELSE f * f
  IN  CASE n = 0 -> VInt(r)
        [] n % 2 = 1 /\ ~MulChecked(r, f) -> ArithmeticError
        [] n >= 2 /\ ~MulChecked(f, f) -> ArithmeticError
        [] OTHER -> PowChecked(r2, f2, n \div 2)

IntArith(op, x, y) ==
  CASE op # "Pow" -> VmArith(op, x, y)
    [] y < 0 -> Fault("RuntimeError")
    [] OTHER -> PowChecked(1, x, y)

(* The double nearest to an integer, ties to an even last digit.            *)
ToDouble(i) ==
  LET a == IF i < 0 THEN -i ELSE i
      k == CHOOSE n \in 0 .. 30 - DoubleBits : a < 2 ^ (DoubleBits + n) /\ (n = 0 \/ a >= 2 ^ (DoubleBits + n - 1))
      q == a \div 2 ^ k
      r == 2 * (a % 2 ^ k)
      n == IF r > 2 ^ k \/ (r = 2 ^ k /\ q % 2 = 1) THEN q + 1 ELSE q
  IN  IF k = 0 THEN i ELSE (IF i < 0 THEN -1 ELSE 1) * n * 2 ^ k

DoubleArith(op, x, y) ==
  CASE op = "Add" -> VDouble(ToDouble(x + y))
    [] op = "Sub" -> VDouble(ToDouble(x - y))
    [] op = "Mul" -> VDouble(ToDouble(x * y))
    [] op = "Pow" -> VDouble(ToDouble(x ^ y))
    [] y = 0 -> Fault("ArithmeticError")
    [] op = "Div" -> VDouble(ToDouble(TruncDiv(x, y)))
    [] op = "Mod" -> VDouble(TruncMod(x, y))

BinaryArith(h, op, a, b) ==
  CASE op = "Add" /\ "string" \in {a[1], b[1]} -> VStr(Show(h, a) \o Show(h, b))
    [] ~IsNumber(a) \/ ~IsNumber(b) -> Fault("RuntimeError")
    [] a[1] = "int" /\ b[1] = "int" -> IntArith(op, a[2], b[2])
    [] OTHER -> DoubleArith(op, ToDouble(a[2]), ToDouble(b[2]))

BinaryBitwise(op, a, b) ==
  LET x == Unsigned(a[2])
      y == b[2]
      fill == IF a[2] < 0 THEN 2 ^ IntBits - 2 ^ (IntBits - y) ELSE 0
  IN  CASE a[1] # "int" \/ b[1] # "int" -> Fault("RuntimeError")
        [] op = "BitAnd" -> VInt(Signed(x & Unsigned(y)))
        [] op = "BitOr"  -> VInt(Signed(x | Unsigned(y)))
        [] op = "BitXor" -> VInt(Signed(x ^^ Unsigned(y)))
        [] y < 0 \/ y >= IntBits -> Fault("RuntimeError")
        [] op = "Shl"  -> VInt(Signed((x * 2 ^ y) % 2 ^ IntBits))
        [] op = "Shr"  -> VInt(Signed((x \div 2 ^ y) + fill))
        [] op = "Ushr" -> VInt(Signed(x \div 2 ^ y))

BinaryCompare(h, op, a, b) ==
  CASE op = "Eq" -> VBool(ValuesEqual(h, a, b))
    [] op = "Ne" -> VBool(~ValuesEqual(h, a, b))
    [] ~IsNumber(a) \/ ~IsNumber(b) -> Fault("RuntimeError")
    [] op = "Lt" -> VBool(a[2] < b[2])
    [] op = "Gt" -> VBool(a[2] > b[2])
    [] op = "Le" -> VBool(a[2] <= b[2])
    [] op = "Ge" -> VBool(a[2] >= b[2])

(* and and or of the VM are strict: both operands are on the stack.         *)
BinaryLogical(h, op, a, b) ==
  VBool(IF op = "And" THEN IsTruthy(h, a) /\ IsTruthy(h, b) ELSE IsTruthy(h, a) \/ IsTruthy(h, b))

Binary(h, op, a, b) ==
  CASE op \in {"Add", "Sub", "Mul", "Div", "Mod", "Pow"} -> BinaryArith(h, op, a, b)
    [] op \in {"BitAnd", "BitOr", "BitXor", "Shl", "Shr", "Ushr"} -> BinaryBitwise(op, a, b)
    [] op \in {"And", "Or"} -> BinaryLogical(h, op, a, b)
    [] OTHER -> BinaryCompare(h, op, a, b)

Unary(h, op, a) ==
  CASE op = "Not" -> VBool(~IsTruthy(h, a))
    [] op = "Neg" /\ a[1] = "int" -> VmNeg(a[2])
    [] op = "Neg" /\ a[1] = "double" -> VDouble(-a[2])
    [] op = "BitNot" /\ a[1] = "int" -> VInt(-a[2] - 1)
    [] OTHER -> Fault("RuntimeError")

RangeContinue(c, e, s) ==
  CASE \E v \in {c, e, s} : ~IsNumber(v) -> Fault("RuntimeError")
    [] s[2] > 0 -> VBool(c[2] < e[2])
    [] s[2] < 0 -> VBool(c[2] > e[2])
    [] OTHER -> Fault("RuntimeError")
=============================================================================
