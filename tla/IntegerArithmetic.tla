-------------------------- MODULE IntegerArithmetic --------------------------
(***************************************************************************)
(* Arithmetic on ints, which the code carries out in four places that have *)
(* to agree: the interpreter (binaryArith and unary of src/vm/vm.cpp), the *)
(* MIR's compile-time evaluation (src/mir/folding.cpp) and that of the     *)
(* reference compiler (tryFoldBinaryLiterals of src/compiler/compiler.cpp), *)
(* and the rules by which the optimizer drops or replaces an operation     *)
(* without evaluating it (src/mir/effects.cpp, opt_simplify.cpp).          *)
(*                                                                         *)
(* A value is <<kind, payload>>; an int is two's complement of IntBits     *)
(* bits.  An operation that throws yields <<"fault", exception class>>; an *)
(* evaluator that leaves an operation to run time yields NoFold.           *)
(***************************************************************************)
EXTENDS Integers

CONSTANTS IntBits,           \* width of an int, 64 in the code
          OverflowBuiltins   \* whether the C++ compiler has __builtin_add_overflow and
                             \* its like; without them the code tests the operands

MinInt == -(2 ^ (IntBits - 1))
MaxInt == 2 ^ (IntBits - 1) - 1
Ints == MinInt .. MaxInt

(* The optimizer's rules name 0, 1 and -1.                                 *)
ASSUME IntegerAssumption ==
  IntBits \in Nat \ {0} /\ 1 \in Ints /\ OverflowBuiltins \in BOOLEAN

VInt(i)    == <<"int", i>>
Fault(c)   == <<"fault", c>>
IsFault(v) == v[1] = "fault"
NoFold     == <<"none", 0>>
ArithmeticError == Fault("ArithmeticError")

IntOps == {"Add", "Sub", "Mul", "Div", "Mod"}

(* --- Overflow ----------------------------------------------------------- *)
(* C++ division truncates towards zero.                                     *)
TruncDiv(x, y) ==
  LET ax == IF x < 0 THEN -x ELSE x
      ay == IF y < 0 THEN -y ELSE y
  IN  IF (x < 0) = (y < 0) THEN ax \div ay ELSE -(ax \div ay)
TruncMod(x, y) == x - y * TruncDiv(x, y)

(* What an operand is compared with where the builtins are missing.  C++    *)
(* leaves an overflow of these undefined.                                   *)
AddLimit(y) == IF y > 0 THEN MaxInt - y ELSE MinInt - y
SubLimit(y) == IF y < 0 THEN MaxInt + y ELSE MinInt + y

AddOverflows(x, y) ==
  IF OverflowBuiltins THEN x + y \notin Ints
  ELSE (y > 0 /\ x > AddLimit(y)) \/ (y < 0 /\ x < AddLimit(y))
SubOverflows(x, y) ==
  IF OverflowBuiltins THEN x - y \notin Ints
  ELSE (y < 0 /\ x > SubLimit(y)) \/ (y > 0 /\ x < SubLimit(y))

(* The multiplication of binaryArith.                                       *)
MulOverflows(x, y) ==
  IF OverflowBuiltins THEN x * y \notin Ints
  ELSE /\ x # 0 /\ y # 0
       /\ \/ x = -1 /\ y = MinInt
          \/ y = -1 /\ x = MinInt
          \/ x > 0 /\ y > 0 /\ x > TruncDiv(MaxInt, y)
          \/ x > 0 /\ y < 0 /\ y < TruncDiv(MinInt, x)
          \/ x < 0 /\ y > 0 /\ x < TruncDiv(MinInt, y)
          \/ x < 0 /\ y < 0 /\ x < TruncDiv(MaxInt, y)

(* mulChecked, of folding.cpp and of binaryArith's exponentiation.          *)
MulChecked(x, y) ==
  IF OverflowBuiltins THEN x * y \in Ints
  ELSE \/ x = 0 \/ y = 0
       \/ x = -1 /\ y # MinInt
       \/ x # -1 /\ y = -1 /\ x # MinInt
       \/ /\ x \notin {0, -1} /\ y \notin {0, -1}
          /\ x > 0 /\ y > 0 => ~(x > TruncDiv(MaxInt, y))
          /\ x > 0 /\ y < 0 => ~(y < TruncDiv(MinInt, x))
          /\ x < 0 /\ y > 0 => ~(x < TruncDiv(MinInt, y))
          /\ x < 0 /\ y < 0 => ~(y < TruncDiv(MaxInt, x))

(* --- The interpreter ---------------------------------------------------- *)
(* binaryArith on two ints but for Pow, and unary's Neg.                    *)
VmArith(op, x, y) ==
  CASE op = "Add" -> IF AddOverflows(x, y) THEN ArithmeticError ELSE VInt(x + y)
    [] op = "Sub" -> IF SubOverflows(x, y) THEN ArithmeticError ELSE VInt(x - y)
    [] op = "Mul" -> IF MulOverflows(x, y) THEN ArithmeticError ELSE VInt(x * y)
    [] op = "Div" -> IF y = 0 \/ (x = MinInt /\ y = -1) THEN ArithmeticError ELSE VInt(TruncDiv(x, y))
    [] op = "Mod" -> IF y = 0 THEN ArithmeticError
                     ELSE IF x = MinInt /\ y = -1 THEN VInt(0) ELSE VInt(TruncMod(x, y))
VmNeg(x) == IF x = MinInt THEN ArithmeticError ELSE VInt(-x)

(* --- Compile-time evaluation -------------------------------------------- *)
(* foldInstruction: an operation that would throw is not evaluated.         *)
FoldArith(op, x, y) ==
  CASE op = "Add" -> IF AddOverflows(x, y) THEN NoFold ELSE VInt(x + y)
    [] op = "Sub" -> IF SubOverflows(x, y) THEN NoFold ELSE VInt(x - y)
    [] op = "Mul" -> IF MulChecked(x, y) THEN VInt(x * y) ELSE NoFold
    [] op = "Div" -> IF y = 0 \/ (x = MinInt /\ y = -1) THEN NoFold ELSE VInt(TruncDiv(x, y))
    [] op = "Mod" -> IF y = 0 THEN NoFold
                     ELSE IF x = MinInt /\ y = -1 THEN VInt(0) ELSE VInt(TruncMod(x, y))
FoldNeg(x) == IF x = MinInt THEN NoFold ELSE VInt(-x)

(* tryFoldBinaryLiterals, which multiplies only with the builtin.           *)
LiteralArith(op, x, y) ==
  CASE op = "Add" -> IF AddOverflows(x, y) THEN NoFold ELSE VInt(x + y)
    [] op = "Sub" -> IF SubOverflows(x, y) THEN NoFold ELSE VInt(x - y)
    [] op = "Mul" -> IF OverflowBuiltins /\ x * y \in Ints THEN VInt(x * y) ELSE NoFold
    [] op = "Div" -> IF y # 0 /\ ~(x = MinInt /\ y = -1) THEN VInt(TruncDiv(x, y)) ELSE NoFold
    [] op = "Mod" -> IF y = 0 THEN NoFold
                     ELSE IF x = MinInt /\ y = -1 THEN VInt(0) ELSE VInt(TruncMod(x, y))

(* --- Rules about operands that are not all known ------------------------ *)
(* L and R are what is known of the operands: {c} of a constant c, {} of    *)
(* everything else.                                                         *)

(* operationCanRaise: these operands rule out that the operation throws.    *)
CannotRaise(op, L, R) ==
  \/ op = "Add" /\ (L = {0} \/ R = {0})
  \/ op = "Sub" /\ R = {0}
  \/ op = "Mul" /\ (L = {0} \/ L = {1} \/ R = {0} \/ R = {1})
  \/ /\ op \in {"Div", "Mod"} /\ R # {} /\ R # {0}
     /\ R = {-1} => L # {} /\ L # {MinInt}

(* tryAlgebraicIdentity: what the result of an operation on ints is known   *)
(* to be, where same says that the operands are one and the same.           *)
Identity(op, L, R, same) ==
  IF op = "Add" /\ L = {0} THEN "right"
  ELSE IF op \in {"Add", "Sub"} /\ R = {0} THEN "left"
  ELSE IF op = "Sub" /\ same THEN "zero"
  ELSE IF op = "Mul" /\ L = {1} THEN "right"
  ELSE IF op \in {"Mul", "Div"} /\ R = {1} THEN "left"
  ELSE IF op = "Mul" /\ L = {0} THEN "left"
  ELSE IF op = "Mul" /\ R = {0} THEN "right"
  ELSE IF op = "Mod" /\ R = {1} THEN "zero"
  ELSE "none"
=============================================================================
