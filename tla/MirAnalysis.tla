---------------------------- MODULE MirAnalysis ----------------------------
(***************************************************************************)
(* What the verifier and the optimizer know about MIR: the shape of every  *)
(* opcode (src/mir/instruction.cpp) and the control-flow graph of a        *)
(* function (src/mir/analysis.cpp).  Dominance is computed over normal     *)
(* edges only: a block entered by unwinding has no dominator but itself.   *)
(***************************************************************************)
EXTENDS Mir

ArithmeticOps == {"Add", "Sub", "Mul", "Div", "Mod", "Pow"}
BitwiseOps    == {"BitAnd", "BitOr", "BitXor", "Shl", "Shr", "Ushr"}
ComparisonOps == {"Eq", "Ne", "Lt", "Le", "Gt", "Ge"}
SlotOps       == {"Load", "Store", "Move", "Borrow", "EndBorrow", "Drop"}
CallOps       == {"Call", "InvokeMethod", "InvokeSuper", "InvokeStatic", "CallIndirect", "CallNative"}
ScopedLockOps == {"MutexWithLock", "RwLockWithRead", "RwLockWithWrite", "SharedWithLock"}
ThreadBoundaryOps == {"TaskSpawn", "ThreadStart"}

(* Operands: exactly this many, or at least this many for a variadic one.   *)
VariadicOps == CallOps \cup {"MakeClosure", "Drop"}
OperandCount(op) ==
  CASE op \in {"Load", "StaticLoad", "Alloc", "NewCollection", "Move", "EndBorrow", "Call", "InvokeStatic", "CallNative",
               "MakeClosure", "Drop", "Nop"} -> 0
    [] op \in ArithmeticOps \cup BitwiseOps \cup ComparisonOps \cup ScopedLockOps \cup
              {"And", "Or", "FieldStore", "IndexLoad", "ChannelSend", "ChannelSendAsync", "AtomicStore", "AtomicAdd",
               "AtomicStoreBool", "AtomicStoreDouble", "AtomicStoreRef", "SemaphoreSetPermits", "SemaphoreReleaseMany",
               "ConditionWaitFor", "SharedSet"} -> 2
    [] op \in {"IndexStore", "RangeInBounds"} -> 3
    [] OTHER -> 1

VoidOps ==
  {"Nop", "Store", "FieldStore", "IndexStore", "StaticStore", "TaskIgnore", "TaskCancel", "ThreadJoin", "ChannelSend",
   "AtomicStore", "AtomicStoreBool", "AtomicStoreDouble", "AtomicStoreRef", "SemaphoreAcquire", "SemaphoreRelease",
   "SemaphoreSetPermits", "SemaphoreReleaseMany", "ConditionWait", "ConditionNotifyOne", "ConditionNotifyAll", "SharedSet",
   "Borrow", "EndBorrow", "Drop", "Log"}
OptionalResultOps == CallOps \cup ScopedLockOps \cup {"Await", "TaskBlock"}

(* The operations the code says cannot throw; every other one may.          *)
MayThrow(op) ==
  op \notin (ArithmeticOps \ {"Div", "Mod"}) \cup BitwiseOps \cup ComparisonOps \cup
            {"Nop", "Neg", "BitNot", "Not", "And", "Or", "Widen", "TypeTest", "IsNull", "Load", "Store", "StaticLoad",
             "StaticStore", "Alloc", "MakeClosure", "SharedCreate", "Move", "Borrow", "EndBorrow", "Drop", "NewCollection",
             "Log"}

(* The graph *)
NormalEdges(f) == {<<b, t>> \in (DOMAIN f.blocks) \X (DOMAIN f.blocks) : t \in Successors(f.blocks[b])}
Preds(f, b) == {p \in DOMAIN f.blocks : b \in Successors(f.blocks[p])}
UnwindPreds(f, b) == {p \in DOMAIN f.blocks : b \in UnwindTargets(f.blocks[p])}
NormalReachable(f) == ReachFrom(NormalEdges(f), {1})

(* The blocks each block dominates: those a normal path reaches, but not    *)
(* without passing through it.                                              *)
Dominated(f) ==
  LET es == NormalEdges(f)
      R  == ReachFrom(es, {1})
      without(a) == IF a = 1 THEN {} ELSE ReachFrom({e \in es : e[2] # a /\ e[1] # a}, {1})
  IN  [a \in DOMAIN f.blocks |-> {a} \cup (IF a \in R THEN R \ without(a) ELSE {})]

(* The joins a value defined in a block reaches together with another.      *)
DominanceFrontier(f, dom, a) ==
  {y \in NormalReachable(f) :
     /\ Cardinality(Preds(f, y)) >= 2
     /\ \E p \in Preds(f, y) : p \in dom[a]
     /\ y \notin dom[a] \ {a}}

(* The operands of a block in the order they are used, and the places where *)
(* temporaries are defined.                                                 *)
Operands(b) ==
  FlattenSeq([i \in DOMAIN b.ins |-> b.ins[i].args]) \o <<b.term.v>> \o FlattenSeq(b.term.edge)
Definitions(f) ==
  {<<b, i>> \in (DOMAIN f.blocks) \X (1 .. Max({0} \cup {Len(f.blocks[b].ins) : b \in DOMAIN f.blocks})) :
     i \in DOMAIN f.blocks[b].ins /\ f.blocks[b].ins[i].res # 0}
ResultAt(f, d) == f.blocks[d[1]].ins[d[2]].res
=============================================================================
