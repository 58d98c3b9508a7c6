---------------------------- MODULE MirVerifier ----------------------------
(***************************************************************************)
(* The MIR verifier: src/mir/verifier.cpp and src/mir/safety.cpp.          *)
(*                                                                         *)
(* An error is a triple <<property, block, position>>: the safety property *)
(* it is reported under, and where (position 0: the block or terminator).  *)
(* Warnings are left out, as are generic arguments and FFI operations,     *)
(* which lowering does not produce.  Whether verification stops at a limit *)
(* of errors does not change whether there are any.                        *)
(***************************************************************************)
EXTENDS MirAnalysis, OperatorRules

ReferenceTypes(t) == t \notin {"int", "double", "bool", "string", "nil", "void", "unknown"}
Nullable(t) == ReferenceTypes(t) \/ t \in {"string", "nil"}
IsObject(t) == t \notin PrimitiveTypes
CollectionTypes0 == {"list", "map", "set", "array", "List", "Map", "Set"}
SyncTypes == {"Shared", "Thread", "Channel", "Mutex", "RwLock", "Atomic", "Semaphore", "Condition"}
ThreadSafeTypes == SyncTypes \ {"Thread"}

RECURSIVE Ancestors(_, _)
Ancestors(M, c) == IF c \notin DOMAIN M.classes THEN {c} ELSE {c} \cup Ancestors(M, M.classes[c].parent)

(* assignable *)
CanAssign(M, from, to) ==
  \/ from = to
  \/ "unknown" \in {from, to}
  \/ to \in {"object", "Object"} /\ from # "nil"
  \/ from = "nil" /\ Nullable(to)
  \/ from = "int" /\ to = "double"
  \/ IsObject(from) /\ IsObject(to) /\ to \in Ancestors(M, from)

(* requireRefined: a dynamic value enters a typed place only through refine. *)
Unrefined(o, to) == o.ty = "unknown" /\ to \notin {"unknown", "void"}

At(S, b, i) == {<<p, b, i>> : p \in S}
If(c, p) == IF c THEN {p} ELSE {}

CalleeOf(M, key) ==
  LET D == {j \in DOMAIN M.order : M.order[j] = key} IN IF D = {} THEN 0 ELSE CHOOSE j \in D : TRUE

(* checkSignature *)
SignatureErrors(M, i) ==
  LET f == M.funs[i]
      badParam(p) == p.ty \in {"void", "nil"} \/ (p.own = "borrow" /\ p.ty = "Task")
      badSlot(s)  == \/ s.ty = "void"
                     \/ s.own = "borrow" /\ (~s.mut \/ s.ty = "Task")
                     \/ s.own # "gc" /\ ~ReferenceTypes(s.ty)
  IN  At(If(f.blocks = <<>>, "structure")
         \cup If(f.ret = "nil" \/ (M.meta[i].async /\ f.ret = "Task"), "type-flow")
         \cup If(\E p \in DOMAIN f.params : badParam(f.params[p]), "type-flow")
         \cup If(\E p, q \in DOMAIN f.params : p # q /\ f.params[p].n = f.params[q].n, "type-flow")
         \cup If(\E s \in DOMAIN f.slots : badSlot(f.slots[s]), "type-flow"), 0, 0)

(* checkOperand: a constant has its type, a temporary, a parameter or a     *)
(* block parameter exists and is used at the type it is defined with.       *)
ConstantFits(o) ==
  LET k == o.v[1] IN
  \/ k \in {"bool", "int", "double", "string"} /\ o.ty = k
  \/ k = "nil" /\ Nullable(o.ty)
  \/ k = "enum" /\ IsObject(o.ty)

OperandErrors(f, dom, b, o) ==
  CASE o.k = "const" -> If(~ConstantFits(o), "type-flow")
    [] o.k = "temp" ->
         LET D == {d \in Definitions(f) : ResultAt(f, d) = o.n}
         IN  If(D = {}, "definition")
             \cup If(\E d \in D : f.blocks[d[1]].ins[d[2]].ty # o.ty, "type-flow")
    [] o.k = "param" -> If(o.n \notin DOMAIN f.params \/ f.params[o.n].ty # o.ty, "type-flow")
    [] o.k = "arg" ->
         LET D == {c \in DOMAIN f.blocks : \E j \in DOMAIN f.blocks[c].params : f.blocks[c].params[j].id = o.n}
         IN  If(D = {} \/ \E c \in D : b \notin dom[c], "type-flow")
             \cup If(\E c \in D : \E j \in DOMAIN f.blocks[c].params :
                       f.blocks[c].params[j].id = o.n /\ f.blocks[c].params[j].ty # o.ty, "type-flow")
    [] OTHER -> {"structure"}

(* checkTerminator *)
TerminatorErrors(M, i, dom, b) ==
  LET f == M.funs[i]
      t == f.blocks[b].term
      o == OperandErrors(f, dom, b, t.v)
  IN  CASE t.k = "none" -> {"control-flow"}
        [] t.k = "return" ->
             (CASE f.ret = "void" -> If(~IsNone(t.v), "return")
                [] IsNone(t.v) -> {"return"}
                [] OTHER -> o \cup If(~CanAssign(M, t.v.ty, f.ret), "return")
                              \cup If(Unrefined(t.v, f.ret), "dynamic-boundary"))
        [] t.k = "branch" -> IF IsNone(t.v) THEN {"control-flow"} ELSE o \cup If(t.v.ty # "bool", "control-flow")
        [] t.k = "throw" -> IF IsNone(t.v) THEN {"control-flow"} ELSE o
        [] OTHER -> If(~IsNone(t.v), "control-flow")

(* checkBlockParameters, for the edges that leave a block.                  *)
EdgeErrors(M, i, dom, b) ==
  LET f == M.funs[i]
      t == f.blocks[b].term
      one(e) ==
        LET ps == f.blocks[t.to[e]].params
            as == t.edge[e]
        IN  IF Len(as) # Len(ps) THEN {"type-flow"}
            ELSE UNION {OperandErrors(f, dom, b, as[a])
                        \cup If(~CanAssign(M, as[a].ty, ps[a].ty), "type-flow")
                        \cup If(Unrefined(as[a], ps[a].ty), "dynamic-boundary") : a \in DOMAIN as}
  IN  UNION {one(e) : e \in {x \in DOMAIN t.to : t.to[x] \in DOMAIN f.blocks}}

ParameterErrors(f) ==
  LET all == FlattenSeq([b \in DOMAIN f.blocks |-> f.blocks[b].params])
  IN  If(\E p, q \in DOMAIN all : p # q /\ all[p].id = all[q].id, "type-flow")
      \cup If(\E p \in DOMAIN all : all[p].ty = "void", "type-flow")
      \cup If(f.blocks[1].params # <<>>, "type-flow")

(* checkControlFlow: handlers lead to blocks that bind the exception, catch *)
(* blocks are entered by unwinding alone, nothing leads to the entry, every *)
(* block is reachable.                                                      *)
BadHandler(f, h) ==
  \/ h.block \notin DOMAIN f.blocks
  \/ f.blocks[h.block].kind \in {"catch", "cleanup"} /\ h.slot \notin DOMAIN f.slots
  \/ f.blocks[h.block].kind = "normal" /\ h.slot # 0

ControlFlowErrors(M, i, dom) ==
  LET f == M.funs[i]
      targets == UNION {UnwindTargets(f.blocks[b]) : b \in DOMAIN f.blocks}
      one(b) ==
        If(\E h \in DOMAIN f.blocks[b].hs : BadHandler(f, f.blocks[b].hs[h]), "control-flow")
        \cup If(~(Successors(f.blocks[b]) \subseteq DOMAIN f.blocks), "control-flow")
        \cup If(f.blocks[b].kind = "catch" /\ (Preds(f, b) # {} \/ b \notin targets), "control-flow")
        \cup If(b = 1 /\ Preds(f, b) # {}, "control-flow")
        \cup If(b \notin Reachable(f), "reachability")
        \cup TerminatorErrors(M, i, dom, b) \cup EdgeErrors(M, i, dom, b)
  IN  At(ParameterErrors(f), 0, 0) \cup UNION {At(one(b), b, 0) : b \in DOMAIN f.blocks}

(* checkSlotRules *)
SlotErrors(M, f, ins) ==
  LET s == f.slots[ins.slot]
      v == ins.args[1]
  IN  IF ins.slot \notin DOMAIN f.slots THEN {"structure"}
      ELSE CASE ins.op = "Drop" -> If(s.own # "owned" \/ ins.args # <<>>, "resource-lifetime")
             [] ins.op = "Load" -> If(ins.ty # s.ty, "type-flow")
             [] ins.op = "Store" -> If(~s.mut \/ ~CanAssign(M, v.ty, s.ty), "type-flow")
                                    \cup If(Unrefined(v, s.ty), "dynamic-boundary")
             [] ins.op = "Move" -> If(s.own # "owned", "ownership") \cup If(ins.ty # s.ty, "move")
             [] ins.op = "Borrow" -> If(s.own # "borrow" \/ ~ReferenceTypes(v.ty), "borrow")
             [] ins.op = "EndBorrow" -> If(s.own # "borrow", "borrow")

OperatorOf ==
  [op \in ArithmeticOps \cup BitwiseOps \cup ComparisonOps \cup {"And", "Or"} |->
     CASE op = "Add" -> "+" [] op = "Sub" -> "-" [] op = "Mul" -> "*" [] op = "Div" -> "/" [] op = "Mod" -> "%"
       [] op = "Pow" -> "^^" [] op = "BitAnd" -> "&" [] op = "BitOr" -> "|" [] op = "BitXor" -> "^" [] op = "Shl" -> "<<"
       [] op = "Shr" -> ">>" [] op = "Ushr" -> ">>>" [] op = "Eq" -> "==" [] op = "Ne" -> "!=" [] op = "Lt" -> "<"
       [] op = "Le" -> "<=" [] op = "Gt" -> ">" [] op = "Ge" -> ">=" [] op = "And" -> "&&" [] op = "Or" -> "||"]

(* checkBinaryOperator, checkUnaryOperator, checkComparison                 *)
BinaryOk(ins) ==
  LET l == ins.args[1].ty
      r == ins.args[2].ty
      ty == BinaryResult(OperatorOf[ins.op], l, r)
  IN  \/ "unknown" \in {l, r}
      \/ ty # "" /\ ins.ty = ty /\ (ins.op \in {"And", "Or"} => l = "bool" /\ r = "bool")
UnaryOk(ins) ==
  LET ty == UnaryResult(CASE ins.op = "Neg" -> "-" [] ins.op = "BitNot" -> "~" [] OTHER -> "!", ins.args[1].ty)
  IN  ty # "" /\ ins.ty = ty
ComparisonOk(M, ins) ==
  LET l == ins.args[1].ty
      r == ins.args[2].ty
  IN  /\ ins.ty = "bool"
      /\ IF ins.op \in {"Eq", "Ne"}
         THEN IF "nil" \in {l, r} THEN \A t \in {l, r} \ {"nil"} : Nullable(t) \/ t = "unknown"
              ELSE (Numeric(l) /\ Numeric(r)) \/ CanAssign(M, l, r) \/ CanAssign(M, r, l)
         ELSE "unknown" \in {l, r} \/ BinaryResult(OperatorOf[ins.op], l, r) # ""

(* checkFieldAccess: the nearest declaration of the field, parents included. *)
RECURSIVE FieldLayout(_, _, _)
FieldLayout(M, c, n) ==
  IF c \notin DOMAIN M.classes THEN "absent"
  ELSE LET D == {j \in DOMAIN M.classes[c].fields : M.classes[c].fields[j][1] = n}
       IN  IF D = {} THEN FieldLayout(M, M.classes[c].parent, n) ELSE M.classes[c].fields[Min(D)][2]

FieldErrors(M, ins) ==
  LET base == ins.args[1].ty
      ty == FieldLayout(M, base, ins.tgt)
  IN  CASE base = "unknown" -> {}
        [] ~IsObject(base) /\ base # "Shared" -> {"type-flow"}
        [] base \notin DOMAIN M.classes -> {}
        [] ty = "absent" -> {"type-flow"}
        [] ins.op = "FieldLoad" -> If(~CanAssign(M, ty, ins.ty), "type-flow")
        [] OTHER -> If(~CanAssign(M, ins.args[2].ty, ty), "type-flow") \cup If(Unrefined(ins.args[2], ty), "dynamic-boundary")

IndexOk(ins) ==
  LET base == ins.args[1].ty
  IN  \/ base \in {"unknown", "map", "Map"}
      \/ base \in CollectionTypes0 /\ ins.args[2].ty \in {"int", "unknown"}

StaticErrors(M, ins) ==
  LET D == {j \in DOMAIN M.statics : M.statics[j].c = ins.tgt[1] /\ M.statics[j].n = ins.tgt[2]}
      ty == M.statics[Min(D)].ty
  IN  IF D = {} THEN {}
      ELSE IF ins.op = "StaticLoad" THEN If(~CanAssign(M, ty, ins.ty), "type-flow")
      ELSE If(~CanAssign(M, ins.args[1].ty, ty), "type-flow") \cup If(Unrefined(ins.args[1], ty), "dynamic-boundary")

(* checkCall.  The receiver of a super call is counted apart from the       *)
(* arguments, although the callee declares it as a parameter.               *)
ResultErrors(M, ins, ty) ==
  If((ty = "void") # (ins.res = 0), "type-flow") \cup If(ins.res # 0 /\ ~CanAssign(M, ty, ins.ty), "type-flow")
DirectCallErrors(M, ins, n) ==
  LET j == CalleeOf(M, ins.tgt)
      ps == M.funs[j].params
  IN  CASE j = 0 -> {"type-flow"}
        [] Len(ps) # Len(ins.args) - n -> {"type-flow"}
        [] OTHER -> If(\E p \in DOMAIN ps : ~CanAssign(M, ins.args[p + n].ty, ps[p].ty), "type-flow")
                    \cup ResultErrors(M, ins, IF M.meta[j].async THEN "Task" ELSE M.funs[j].ret)
MethodReceiver(ty) ==
  ty = "unknown" \/ IsObject(ty) \/ ty \in SyncTypes \cup {"Task", "Option", "Result", "NativeHandle"}
IndirectCallErrors(ins) ==
  LET callee == ins.args[1].ty
  IN  If(callee \notin {"unknown", "func"}, "type-flow") \cup If(callee = "func" /\ ins.res = 0 /\ ins.ty # "void", "type-flow")
CallErrors(M, ins) ==
  LET n == IF ins.op \in {"InvokeMethod", "InvokeSuper", "CallIndirect"} THEN 1 ELSE 0
  IN  CASE Len(ins.args) < n -> {"structure"}
        [] ins.op \in {"Call", "InvokeSuper", "InvokeStatic"} -> DirectCallErrors(M, ins, n)
        [] ins.op = "InvokeMethod" -> If(~MethodReceiver(ins.args[1].ty), "type-flow")
        [] ins.op = "CallIndirect" -> IndirectCallErrors(ins)
        [] OTHER -> {}

(* checkMakeClosure *)
ClosureErrors(M, ins) ==
  LET j == CalleeOf(M, ins.tgt)
  IN  If(j = 0 \/ ins.ty # "func", "type-flow")
      \cup If(j # 0 /\ Len(M.meta[j].caps) # Len(ins.args), "type-flow")

(* The function behind a closure operand, if it is made in this function.   *)
ClosureBody(M, f, o) ==
  LET D == {d \in Definitions(f) : o.k = "temp" /\ ResultAt(f, d) = o.n /\ f.blocks[d[1]].ins[d[2]].op = "MakeClosure"}
      d == CHOOSE x \in D : TRUE
  IN  IF D = {} THEN 0 ELSE CalleeOf(M, f.blocks[d[1]].ins[d[2]].tgt)
ZeroArgument(M, f, o) ==
  LET j == ClosureBody(M, f, o)
  IN  /\ o.ty \in {"unknown", "func"}
      /\ j # 0 => ~M.meta[j].async /\ Len(M.funs[j].params) <= Len(M.meta[j].caps)
Receiver(o, types) == o.ty \in {"unknown"} \cup types

(* checkScopedLockBody: nothing under a lock suspends or starts a thread.   *)
HoldsNoLockAcross(g) ==
  \A b \in DOMAIN g.blocks : \A k \in DOMAIN g.blocks[b].ins :
    g.blocks[b].ins[k].op \notin {"Await"} \cup ThreadBoundaryOps

(* checkThreadSafeCaptures: the receiver never crosses a thread boundary,   *)
(* a captured value only if it is a synchronization object or dynamic.      *)
CapturesCross(M, j) ==
  \A k \in DOMAIN M.meta[j].caps : M.meta[j].caps[k] # "this" /\ M.funs[j].params[k].ty \in {"unknown"} \cup ThreadSafeTypes

ChannelOps == {"ChannelCreate", "ChannelSend", "ChannelReceive", "ChannelSize", "ChannelSendAsync", "ChannelReceiveAsync"}
AtomicOps == {"AtomicLoad", "AtomicStore", "AtomicAdd", "AtomicLoadBool", "AtomicStoreBool", "AtomicLoadDouble",
              "AtomicStoreDouble", "AtomicLoadRef", "AtomicStoreRef"}
SemaphoreOps == {"SemaphoreAcquire", "SemaphoreRelease", "SemaphoreAvailable", "SemaphoreSetPermits",
                 "SemaphoreTryAcquire", "SemaphoreReleaseMany"}
ConditionOps == {"ConditionWait", "ConditionWaitFor", "ConditionNotifyOne", "ConditionNotifyAll"}

(* A closure that crosses a thread boundary, and one that runs under a lock. *)
Boundary(M, i, ins, ty) ==
  LET j == ClosureBody(M, M.funs[i], ins.args[1])
  IN  ZeroArgument(M, M.funs[i], ins.args[1]) /\ (j # 0 => CapturesCross(M, j)) /\ ins.ty = ty
ScopedLockOk(M, i, ins) ==
  LET j == ClosureBody(M, M.funs[i], ins.args[2])
      types == CASE ins.op = "MutexWithLock" -> {"Mutex"} [] ins.op = "SharedWithLock" -> {"Shared"} [] OTHER -> {"RwLock"}
  IN  Receiver(ins.args[1], types) /\ ZeroArgument(M, M.funs[i], ins.args[2]) /\ (j # 0 => HoldsNoLockAcross(M.funs[j]))

AwaitOk(M, i, ins) == M.meta[i].async /\ ins.args[1].ty = "Task"
TaskOk(M, i, ins) ==
  CASE ins.op = "TaskSpawn" -> Boundary(M, i, ins, "Task")
    [] ins.op = "TaskBlock" -> ~M.meta[i].async /\ Receiver(ins.args[1], {"Task"})
    [] OTHER -> Receiver(ins.args[1], {"Task"})
ThreadOk(M, i, ins) ==
  CASE ins.op = "ThreadStart" -> Boundary(M, i, ins, "Thread")
    [] OTHER -> Receiver(ins.args[1], {"Thread"}) /\ (ins.op = "ThreadIsAlive" => ins.ty = "bool")
ChannelOk(ins) ==
  IF ins.op = "ChannelCreate" THEN ins.args[1].ty \in {"int", "unknown"} /\ ins.ty = "Channel"
  ELSE /\ Receiver(ins.args[1], {"Channel"})
       /\ ins.op = "ChannelSize" => ins.ty = "int"
       /\ ins.op \in {"ChannelSendAsync", "ChannelReceiveAsync"} => ins.ty = "Task"

(* The type of the value an operation on an atomic stores or loads.         *)
AtomicTypes == [o \in AtomicOps |->
  CASE o \in {"AtomicLoad", "AtomicAdd", "AtomicStore"} -> "int"
    [] o \in {"AtomicLoadBool", "AtomicStoreBool"} -> "bool"
    [] o \in {"AtomicLoadDouble", "AtomicStoreDouble"} -> "double"
    [] OTHER -> "reference"]
AtomicOk(ins) ==
  LET fits(ty) == IF AtomicTypes[ins.op] = "reference" THEN ReferenceTypes(ty) \/ ty = "unknown" ELSE ty = AtomicTypes[ins.op]
  IN  /\ Receiver(ins.args[1], {"Atomic"})
      /\ ins.res # 0 => fits(ins.ty)
      /\ Len(ins.args) = 2 => \/ fits(ins.args[2].ty) \/ ins.args[2].ty = "unknown"
                              \/ ins.op = "AtomicStoreRef" /\ ins.args[2].ty = "nil"
SemaphoreOk(ins) ==
  /\ Receiver(ins.args[1], {"Semaphore"})
  /\ ins.op = "SemaphoreAvailable" => ins.ty = "int"
  /\ ins.op = "SemaphoreTryAcquire" => ins.ty = "bool"
  /\ ins.op \in {"SemaphoreSetPermits", "SemaphoreReleaseMany"} => ins.args[2].ty \in {"int", "unknown"}
ConditionOk(ins) ==
  /\ Receiver(ins.args[1], {"Condition"})
  /\ ins.op = "ConditionWaitFor" => (Numeric(ins.args[2].ty) \/ ins.args[2].ty = "unknown") /\ ins.ty = "bool"
SharedOk(ins) == IF ins.op = "SharedCreate" THEN ins.ty = "Shared" ELSE Receiver(ins.args[1], {"Shared"})

ConcurrencyOk(M, i, ins) ==
  CASE ins.op = "Await" -> AwaitOk(M, i, ins)
    [] ins.op \in {"TaskSpawn", "TaskBlock", "TaskIgnore", "TaskCancel"} -> TaskOk(M, i, ins)
    [] ins.op \in {"ThreadStart", "ThreadJoin", "ThreadIsAlive"} -> ThreadOk(M, i, ins)
    [] ins.op \in ChannelOps -> ChannelOk(ins)
    [] ins.op \in ScopedLockOps -> ScopedLockOk(M, i, ins)
    [] ins.op \in AtomicOps -> AtomicOk(ins)
    [] ins.op \in SemaphoreOps -> SemaphoreOk(ins)
    [] ins.op \in ConditionOps -> ConditionOk(ins)
    [] ins.op \in {"SharedCreate", "SharedGet", "SharedSet"} -> SharedOk(ins)
    [] OTHER -> FALSE

ConversionErrors(M, ins) ==
  LET t1 == ins.args[1].ty
  IN  CASE ins.op = "Widen" -> If(t1 # "int" \/ ins.ty # "double", "type-flow")
        [] ins.op = "Refine" -> If(~CanAssign(M, ins.ty, t1), "type-assumption")
        [] ins.op = "TypeTest" -> If(ins.ty # "bool" \/ ins.tgt = "void", "type-assumption")
        [] ins.op = "IsNull" -> If((t1 # "unknown" /\ ~Nullable(t1)) \/ ins.ty # "bool", "type-flow")
AllocErrors(ins) ==
  If(~(IsObject(ins.ty) \/ ins.ty \in SyncTypes \cup {"Option", "Result"}) \/ ins.ty # ins.tgt, "type-flow")

(* checkValueRules: one typing rule per operation, and none for others.     *)
ValueErrors(M, i, ins) ==
  LET f == M.funs[i]
      from == {d \in Definitions(f) : ins.args[1].k = "temp" /\ ResultAt(f, d) = ins.args[1].n}
  IN  CASE ins.op \in ArithmeticOps \cup BitwiseOps \cup {"And", "Or"} -> If(~BinaryOk(ins), "type-flow")
        [] ins.op \in {"Neg", "BitNot", "Not"} -> If(~UnaryOk(ins), "type-flow")
        [] ins.op \in ComparisonOps -> If(~ComparisonOk(M, ins), "type-flow")
        [] ins.op \in {"Widen", "Refine", "TypeTest", "IsNull"} -> ConversionErrors(M, ins)
        [] ins.op \in {"FieldLoad", "FieldStore"} -> FieldErrors(M, ins)
        [] ins.op \in {"IndexLoad", "IndexStore"} -> If(~IndexOk(ins), "type-flow")
        [] ins.op \in {"StaticLoad", "StaticStore"} -> StaticErrors(M, ins)
        [] ins.op = "Alloc" -> AllocErrors(ins)
        [] ins.op \in CallOps -> CallErrors(M, ins)
        [] ins.op = "MakeClosure" -> ClosureErrors(M, ins)
        [] ins.op = "Drop" -> If(\E d \in from : f.blocks[d[1]].ins[d[2]].op \in {"Load", "Move"} /\
                                   f.slots[f.blocks[d[1]].ins[d[2]].slot].own = "borrow", "resource-lifetime")
        [] ins.op = "NewCollection" -> If(ins.ty \notin CollectionTypes0, "type-flow")
        [] ins.op = "RangeInBounds" -> If(ins.ty # "bool" \/ \E k \in 1 .. 3 : ~Numeric(ins.args[k].ty), "type-flow")
        [] ins.op = "Log" -> If(IsNone(ins.args[1]), "type-flow")
        [] OTHER -> If(~ConcurrencyOk(M, i, ins), "concurrency")

(* checkInstruction *)
InstructionErrors(M, i, dom, b, ins) ==
  LET f == M.funs[i]
      n == Len(ins.args)
      c == OperandCount(ins.op)
  IN  CASE ins.op = "Nop" -> If(ins.res # 0, "structure")
        [] n < c \/ (n > c /\ ins.op \notin VariadicOps) -> {"structure"}
        [] OTHER ->
             If(ins.res # 0 /\ ins.op \in VoidOps, "structure")
             \cup If(ins.res = 0 /\ ins.op \notin VoidOps \cup OptionalResultOps, "structure")
             \cup UNION {OperandErrors(f, dom, b, ins.args[k]) : k \in 1 .. n}
             \cup (CASE ins.op = "Drop" /\ ins.slot = 0 -> IF n = 0 THEN {"structure"} ELSE ValueErrors(M, i, ins)
                     [] ins.op \in SlotOps -> SlotErrors(M, f, ins)
                     [] OTHER -> If(ins.slot # 0, "structure") \cup ValueErrors(M, i, ins))

(* collectDefinitions and checkDominance: a temporary is defined once, and  *)
(* before its use in the same block or in a block that dominates it.        *)
DefinitionErrors(f, dom) ==
  LET defs == Definitions(f)
      of(n) == CHOOSE d \in defs : ResultAt(f, d) = n
      undominated(o, b, i) ==
        /\ o.k = "temp" /\ \E d \in defs : ResultAt(f, d) = o.n
        /\ LET d == of(o.n) IN IF d[1] = b THEN d[2] >= i ELSE b \notin dom[d[1]]
      twice == {d \in defs : \E e \in defs : e # d /\ ResultAt(f, e) = ResultAt(f, d)}
      end(b) == LET blk == f.blocks[b] IN {blk.term.v} \cup UNION {ToSet(blk.term.edge[e]) : e \in DOMAIN blk.term.edge}
  IN  {<<"definition", d[1], d[2]>> : d \in twice}
      \cup UNION {{<<"definition", b, i>> : i \in {k \in DOMAIN f.blocks[b].ins :
                     \E a \in DOMAIN f.blocks[b].ins[k].args : undominated(f.blocks[b].ins[k].args[a], b, k)}}
                  : b \in DOMAIN f.blocks}
      \cup {<<"definition", b, 0>> : b \in {x \in DOMAIN f.blocks :
                     \E o \in end(x) : undominated(o, x, Len(f.blocks[x].ins) + 1)}}

(***************************************************************************)
(* Ownership and definedness flow.  A state holds the slots that may have  *)
(* been moved or dropped, the parameters that may have been dropped, the   *)
(* active borrows with their owners (0: unknown or several), the borrows   *)
(* active on every path, the slots initialised on every path and the       *)
(* values that may have been released.                                     *)
(***************************************************************************)
NoFlow == [moved |-> {}, dropped |-> {}, params |-> {}, borrows |-> {}, must |-> {}, init |-> {}, ended |-> {}]
BorrowJoin(B) == {<<s, IF Cardinality({x \in B : x[1] = s}) = 1 THEN (CHOOSE x \in B : x[1] = s)[2] ELSE 0>> :
                    s \in {x[1] : x \in B}}
JoinFlow(x, y) ==
  [moved |-> x.moved \cup y.moved, dropped |-> x.dropped \cup y.dropped, params |-> x.params \cup y.params,
   borrows |-> BorrowJoin(x.borrows \cup y.borrows), must |-> x.must \cap y.must,
   init |-> x.init \cap y.init, ended |-> x.ended \cup y.ended]

ValueId(o) == <<o.k, o.n>>
Provenance(f, o) ==
  LET D == {d \in Definitions(f) : o.k = "temp" /\ ResultAt(f, d) = o.n /\ f.blocks[d[1]].ins[d[2]].op \in {"Load", "Move"}}
      d == CHOOSE x \in D : TRUE
  IN  IF D = {} THEN 0 ELSE f.blocks[d[1]].ins[d[2]].slot
(* root: refining a value does not make a new one.                          *)
RECURSIVE RootValue(_, _)
RootValue(f, o) ==
  LET D == {d \in Definitions(f) : o.k = "temp" /\ ResultAt(f, d) = o.n /\ f.blocks[d[1]].ins[d[2]].op = "Refine"}
      d == CHOOSE x \in D : TRUE
  IN  IF D = {} THEN ValueId(o) ELSE RootValue(f, f.blocks[d[1]].ins[d[2]].args[1])

(* A drop that only other drops separate from the return.                   *)
TrailingCleanup(blk, i) ==
  blk.term.k = "return" /\ \A j \in i + 1 .. Len(blk.ins) : blk.ins[j].op = "Drop"

OwnerOf(f, o) == IF o.k = "param" THEN Len(f.slots) + o.n ELSE Provenance(f, o)
DropTarget(f, ins) ==
  IF ins.slot # 0 \/ ins.args = <<>> \/ ins.args[1].k = "param" THEN ins.slot ELSE Provenance(f, ins.args[1])

(* The effect of one instruction on the state.                              *)
TransferIns(f, st, ins) ==
  LET drop == DropTarget(f, ins)
      byParam == ins.op = "Drop" /\ ins.slot = 0 /\ ins.args # <<>> /\ ins.args[1].k = "param"
      s1 == IF ins.res # 0 /\ ins.op # "Refine" THEN [st EXCEPT !.ended = @ \ {<<"temp", ins.res>>}] ELSE st
  IN  CASE ins.op = "Store" -> [s1 EXCEPT !.dropped = @ \ {ins.slot}, !.init = @ \cup {ins.slot}]
        [] ins.op = "Move" -> [s1 EXCEPT !.moved = @ \cup {ins.slot}]
        [] ins.op = "Borrow" ->
             [s1 EXCEPT !.borrows = {x \in @ : x[1] # ins.slot} \cup {<<ins.slot, OwnerOf(f, ins.args[1])>>},
                        !.must = @ \cup {ins.slot}, !.init = @ \cup {ins.slot}]
        [] ins.op = "EndBorrow" -> [s1 EXCEPT !.borrows = {x \in @ : x[1] # ins.slot}, !.must = @ \ {ins.slot}]
        [] ins.op = "Drop" ->
             [s1 EXCEPT !.params = IF byParam THEN @ \cup {ins.args[1].n} ELSE @,
                        !.dropped = IF ~byParam /\ drop # 0 THEN @ \cup {drop} ELSE @,
                        !.ended = IF ins.args # <<>> THEN @ \cup {RootValue(f, ins.args[1])} ELSE @]
        [] OTHER -> s1

(* borrowRootsInOwned: the chain of owners ends in owned storage that is     *)
(* still alive.                                                             *)
RECURSIVE BorrowRooted(_, _, _, _)
BorrowRooted(f, st, s, seen) ==
  \E x \in st.borrows : x[1] = s /\ x[2] # 0 /\ s \notin seen /\
    IF x[2] > Len(f.slots) THEN (x[2] - Len(f.slots)) \notin st.params /\ f.params[x[2] - Len(f.slots)].own = "owned"
    ELSE /\ x[2] \notin st.moved \cup st.dropped
         /\ \/ f.slots[x[2]].own = "owned"
            \/ f.slots[x[2]].own = "borrow" /\ BorrowRooted(f, st, x[2], seen \cup {s})

(* What the flow analyses report at an instruction reached with a state.    *)
FlowErrorsAt(f, st, blk, i) ==
  LET ins == blk.ins[i]
      s == ins.slot
      live == If(s \in st.moved, "move") \cup If(s \in st.dropped \ st.moved, "resource-lifetime")
      lent(o) == \E x \in st.borrows : x[2] \in {o, 0}
      d == DropTarget(f, ins)
  IN  If(\E a \in DOMAIN ins.args : RootValue(f, ins.args[a]) \in st.ended, "resource-lifetime")
      \cup If(ins.op \in {"Load", "Move"} /\ s \notin st.init, "definition")
      \cup CASE ins.op = "Store" -> live
             [] ins.op = "Load" -> live \cup If(f.slots[s].own = "borrow" /\ s \notin st.must, "borrow")
             [] ins.op = "Move" -> If(s \in st.moved \cup st.dropped \/ lent(s), "move")
             [] ins.op = "Borrow" -> LET o == OwnerOf(f, ins.args[1]) IN
                  If(\/ ins.args[1].k = "param" /\ ins.args[1].n \in st.params
                     \/ o # 0 /\ o \in st.moved \cup st.dropped, "borrow")
             [] ins.op = "EndBorrow" -> If(s \notin st.must, "borrow")
             [] ins.op = "Drop" ->
                  (CASE d = 0 -> If(ins.args # <<>> /\ ins.args[1].k = "param" /\ ins.args[1].n \in st.params, "resource-lifetime")
                     [] OTHER -> If(d \in st.moved \cup st.dropped \/ (~TrailingCleanup(blk, i) /\ lent(d)), "resource-lifetime"))
             [] ins.op = "Await" -> If(\E x \in st.borrows : ~BorrowRooted(f, st, x[1], {}), "concurrency")
             [] OTHER -> {}

(* A block carries the state past each instruction that may throw, before   *)
(* and after it, to its handlers.                                           *)
TransferBlock(f, blk, in) ==
  LET step(acc, ins) ==
        LET n == TransferIns(f, acc.st, ins)
        IN  [st |-> n, unw |-> IF MayThrow(ins.op) THEN acc.unw \cup {acc.st, n} ELSE acc.unw]
      r == FoldLeft(step, [st |-> in, unw |-> {}], blk.ins)
      unw == IF blk.term.k = "throw" THEN r.unw \cup {r.st} ELSE r.unw
      all == IF unw = {} THEN {in} ELSE unw
      one == CHOOSE x \in all : TRUE
  IN  [in |-> in, out |-> r.st, unw |-> FoldSet(JoinFlow, one, all), seen |-> TRUE]

Unseen == [in |-> NoFlow, out |-> NoFlow, unw |-> NoFlow, seen |-> FALSE]

(* The states that enter a block from those analysed so far.                *)
Incoming(f, F, b) ==
  {F[p].out : p \in {x \in Preds(f, b) : F[x].seen}}
  \cup UNION {{[F[p].unw EXCEPT !.init = @ \cup ({f.blocks[p].hs[h].slot} \ {0})] :
                 h \in {k \in DOMAIN f.blocks[p].hs : f.blocks[p].hs[k].block = b}}
              : p \in {x \in UnwindPreds(f, b) : F[x].seen}}
  \cup (IF b = 1 THEN {NoFlow} ELSE {})

RECURSIVE FlowFix(_, _)
FlowFix(f, F) ==
  LET G == [b \in DOMAIN f.blocks |->
              LET I == Incoming(f, F, b)
                  one == CHOOSE x \in I : TRUE
              IN  IF I = {} THEN Unseen ELSE TransferBlock(f, f.blocks[b], FoldSet(JoinFlow, one, I))]
  IN  IF G = F THEN F ELSE FlowFix(f, G)

(* checkOwnershipFlow and the safety analysis, the borrowed values that     *)
(* escape through a return included.                                        *)
EscapesBorrowed(f, o) ==
  LET v == RootValue(f, o)
      D == {d \in Definitions(f) : ResultAt(f, d) = v[2] /\ f.blocks[d[1]].ins[d[2]].op = "Load"}
  IN  CASE v[1] = "param" -> f.params[v[2]].own = "borrow"
        [] v[1] = "temp" -> \E d \in D : f.slots[f.blocks[d[1]].ins[d[2]].slot].own = "borrow"
        [] OTHER -> FALSE

FlowErrors(f) ==
  LET F == FlowFix(f, [b \in DOMAIN f.blocks |-> Unseen])
      states(b) == [i \in 1 .. Len(f.blocks[b].ins) + 1 |->
                      FoldLeft(LAMBDA s, x : TransferIns(f, s, x), F[b].in, SubSeq(f.blocks[b].ins, 1, i - 1))]
      end(b) == LET blk == f.blocks[b]
                    st == states(b)[Len(blk.ins) + 1]
                    os == {blk.term.v} \cup UNION {ToSet(blk.term.edge[e]) : e \in DOMAIN blk.term.edge}
                IN  If(\E o \in os : RootValue(f, o) \in st.ended, "resource-lifetime")
                    \cup If(blk.term.k = "return" /\ EscapesBorrowed(f, blk.term.v), "borrow")
      one(b) == LET S == states(b) IN
                At(end(b), b, 0) \cup UNION {At(FlowErrorsAt(f, S[i], f.blocks[b], i), b, i) : i \in DOMAIN f.blocks[b].ins}
  IN  UNION {one(b) : b \in {x \in DOMAIN f.blocks : F[x].seen}}

(* verifyFunction *)
VerifyFunction(M, i) ==
  LET f == M.funs[i]
      dom == Dominated(f)
  IN  SignatureErrors(M, i) \cup
      IF f.blocks = <<>> THEN {}
      ELSE ControlFlowErrors(M, i, dom) \cup DefinitionErrors(f, dom) \cup FlowErrors(f)
           \cup UNION {UNION {At(InstructionErrors(M, i, dom, b, f.blocks[b].ins[k]), b, k) : k \in DOMAIN f.blocks[b].ins}
                       : b \in DOMAIN f.blocks}

(* verifyModule *)
VerifyModule(M) ==
  (IF \E i, j \in DOMAIN M.order : i # j /\ M.order[i] = M.order[j] THEN {<<"structure", 0, 0>>} ELSE {})
  \cup (IF CalleeOf(M, M.entry) = 0 THEN {<<"structure", 0, 0>>} ELSE {})
  \cup UNION {VerifyFunction(M, i) : i \in DOMAIN M.order}

Verified(M) == VerifyModule(M) = {}
=============================================================================
