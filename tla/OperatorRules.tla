---------------------------- MODULE OperatorRules ----------------------------
(***************************************************************************)
(* The result type of the built-in operators, shared by the type checker   *)
(* and by lowering: src/compiler/operator_rules.cpp.  "" is "no such        *)
(* operator on these operands".                                            *)
(***************************************************************************)
EXTENDS Naturals

PrimitiveTypes ==
  {"int", "double", "bool", "string", "nil", "void", "unknown", "list", "map", "set", "array",
   "Task", "Shared", "Thread", "Channel", "Mutex", "RwLock", "Atomic", "Semaphore", "Condition",
   "NativeHandle", "Option", "Result", "func"}

Numeric(t) == t \in {"int", "double"}

UnaryResult(op, t) ==
  CASE op \in {"-", "+"} /\ Numeric(t) -> t
    [] op = "!" -> "bool"
    [] op = "~" /\ t = "int" -> "int"
    [] OTHER -> ""

BinaryResult(op, l, r) ==
  CASE op = "+" /\ "string" \in {l, r} -> "string"
    [] op \in {"+", "-", "*", "/", "%"} ->
         IF l = "int" /\ r = "int" THEN "int" ELSE IF "double" \in {l, r} THEN "double" ELSE ""
    [] op = "^^" -> IF l = "int" /\ r = "int" THEN "int" ELSE IF Numeric(l) /\ Numeric(r) THEN "double" ELSE ""
    [] op \in {"&", "|", "^", "<<", ">>", ">>>"} -> IF l = "int" /\ r = "int" THEN "int" ELSE ""
    [] op \in {"==", "!=", "&&", "||"} -> "bool"
    [] op \in {"<", ">", "<=", ">="} -> IF Numeric(l) /\ Numeric(r) THEN "bool" ELSE ""
    [] OTHER -> ""
=============================================================================
