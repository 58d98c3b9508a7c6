------------------------------ MODULE MirPasses ------------------------------
(***************************************************************************)
(* The MIR optimizer: effects (src/mir/effects.cpp), compile-time          *)
(* evaluation (folding.cpp), the passes (opt_*.cpp), slot promotion        *)
(* (ssa.cpp), reachability of functions (reachability.cpp), the pass       *)
(* manager's rollback (pass_manager.cpp) and the differential check        *)
(* (differential.cpp).                                                     *)
(***************************************************************************)
EXTENDS MirVerifier, VmBackend, Values
LOCAL INSTANCE Bitwise

(* --- Effects ------------------------------------------------------------ *)
ValueEffects(op) ==
  CASE op \in ArithmeticOps \cup {"Neg", "Shl", "Shr", "Ushr"} \cup ComparisonOps \cup {"RangeInBounds"} -> {"Pure", "MayThrow"}
    [] op \in {"Refine", "NullCheck"} -> {"Pure", "RuntimeCheck", "MayThrow"}
    [] OTHER -> {"Pure"}

MemoryEffects(op) ==
  CASE op = "Load" -> {"Reads"}
    [] op = "Store" -> {"Writes"}
    [] op \in {"FieldLoad", "IndexLoad"} -> {"Reads", "RuntimeCheck", "MayThrow"}
    [] op \in {"FieldStore", "IndexStore"} -> {"Writes", "RuntimeCheck", "MayThrow"}
    [] op = "StaticLoad" -> {"Reads", "RuntimeCheck", "MayThrow", "Calls"}
    [] op = "StaticStore" -> {"Writes", "RuntimeCheck", "MayThrow", "Calls"}
    [] op \in {"Alloc", "NewCollection", "MakeClosure", "SharedCreate"} -> {"Allocation"}
    [] op \in CallOps -> {"Calls", "MayThrow", "Reads", "Writes"}
    [] op \in {"Move", "EndBorrow", "Drop"} -> {"Ownership", "Reads", "Writes", "MayThrow"}
    [] op = "Borrow" -> {"Ownership", "Writes", "MayThrow"}

ConcurrencyEffects(op) ==
  CASE op = "Await" -> {"Suspension", "TaskEffect", "MayThrow", "Reads", "Writes"}
    [] op = "TaskCreate" -> {"Allocation", "TaskEffect"}
    [] op = "TaskSpawn" -> {"TaskEffect", "ThreadBoundary", "MayThrow", "Writes"}
    [] op = "TaskBlock" -> {"TaskEffect", "Synchronization", "MayThrow", "Reads", "Writes"}
    [] op \in {"TaskIgnore", "TaskCancel"} -> {"TaskEffect", "MayThrow", "Writes"}
    [] op = "ThreadStart" -> {"ThreadBoundary", "MayThrow", "Writes"}
    [] op = "ThreadJoin" -> {"ThreadBoundary", "Synchronization", "MayThrow", "Reads", "Writes"}
    [] op = "ChannelCreate" -> {"Allocation", "MayThrow"}
    [] op \in {"ChannelSend", "ChannelReceive", "ConditionWait", "ConditionWaitFor", "ConditionNotifyOne", "ConditionNotifyAll"}
         -> {"Synchronization", "MayThrow", "Reads", "Writes"}
    [] op \in {"ChannelSendAsync", "ChannelReceiveAsync"} -> {"Synchronization", "TaskEffect", "MayThrow", "Reads", "Writes"}
    [] op \in ScopedLockOps -> {"Synchronization", "UnwindBarrier", "Calls", "MayThrow", "Reads", "Writes"}
    [] op \in {"ThreadIsAlive", "ChannelSize", "AtomicLoad", "AtomicLoadBool", "AtomicLoadDouble", "AtomicLoadRef",
               "SemaphoreAvailable", "SemaphoreTryAcquire", "SharedGet"} -> {"Synchronization", "VolatileRead", "MayThrow"}
    [] op = "AtomicAdd" -> {"Synchronization", "VolatileRead", "MayThrow", "Writes"}
    [] OTHER -> {"Synchronization", "MayThrow", "Writes"}

PureOps == ArithmeticOps \cup BitwiseOps \cup ComparisonOps \cup
           {"Neg", "BitNot", "Not", "And", "Or", "Widen", "Refine", "NullCheck", "TypeTest", "IsNull", "RangeInBounds", "Nop"}
MemoryOps == {"Load", "Store", "FieldLoad", "FieldStore", "IndexLoad", "IndexStore", "StaticLoad", "StaticStore", "Alloc",
              "NewCollection", "MakeClosure", "SharedCreate", "Move", "Borrow", "EndBorrow", "Drop"} \cup CallOps
ClassifyOpcode(op) ==
  CASE op \in PureOps -> ValueEffects(op)
    [] op \in MemoryOps -> MemoryEffects(op)
    [] op = "Log" -> {"ObservableIO", "MayThrow"}
    [] OTHER -> ConcurrencyEffects(op)

(* --- Compile-time evaluation -------------------------------------------- *)
(* powChecked: the same squaring as the VM's; a product out of range stops. *)
RECURSIVE FoldPow(_, _, _)
FoldPow(r, f, n) ==
  LET r2 == IF n % 2 = 1 THEN r * f ELSE r
      f2 == IF n >= 2 THEN f * f ELSE f
  IN  CASE n = 0 -> VInt(r)
        [] (n % 2 = 1 /\ ~MulChecked(r, f)) \/ (n >= 2 /\ ~MulChecked(f, f)) -> NoFold
        [] OTHER -> FoldPow(r2, f2, n \div 2)

(* An operation that would throw is not evaluated.                          *)
FoldInt(op, x, y) ==
  LET ux == Unsigned(x)
      shift == y >= 0 /\ y < IntBits
      sign == IF x < 0 /\ y # 0 THEN (2 ^ y - 1) * 2 ^ (IntBits - y) ELSE 0
  IN  CASE op \in IntOps -> FoldArith(op, x, y)
        [] op = "Pow" -> IF y < 0 THEN NoFold ELSE FoldPow(1, x, y)
        [] op = "BitAnd" -> VInt(Signed(ux & Unsigned(y)))
        [] op = "BitOr" -> VInt(Signed(ux | Unsigned(y)))
        [] op = "BitXor" -> VInt(Signed(ux ^^ Unsigned(y)))
        [] ~shift -> NoFold
        [] op = "Shl" -> VInt(Signed((ux * 2 ^ y) % 2 ^ IntBits))
        [] op = "Shr" -> VInt(Signed(ux \div 2 ^ y + sign))
        [] op = "Ushr" -> VInt(Signed(ux \div 2 ^ y))

FoldDouble(op, x, y) ==
  CASE op = "Add" -> VDouble(ToDouble(x + y))
    [] op = "Sub" -> VDouble(ToDouble(x - y))
    [] op = "Mul" -> VDouble(ToDouble(x * y))
    [] op = "Pow" -> IF y < 0 THEN NoFold ELSE VDouble(ToDouble(x ^ y))
    [] y = 0 -> NoFold
    [] op = "Div" -> VDouble(ToDouble(TruncDiv(x, y)))
    [] OTHER -> VDouble(TruncMod(x, y))

(* Two ints are equal as ints, but every ordered comparison is made after   *)
(* both operands became doubles.                                            *)
FoldEqual(a, b) ==
  CASE a[1] = b[1] /\ a[1] \in {"int", "bool", "string", "nil"} -> VBool(a[2] = b[2])
    [] IsNumber(a) /\ IsNumber(b) -> VBool(ToDouble(a[2]) = ToDouble(b[2]))
    [] OTHER -> NoFold
FoldOrdered(op, a, b) ==
  LET x == ToDouble(a[2])
      y == ToDouble(b[2])
  IN  CASE ~(IsNumber(a) /\ IsNumber(b)) -> NoFold
        [] op = "Lt" -> VBool(x < y)
        [] op = "Le" -> VBool(x <= y)
        [] op = "Gt" -> VBool(x > y)
        [] OTHER -> VBool(x >= y)

FoldBinary(op, a, b) ==
  LET both(k) == a[1] = k /\ b[1] = k IN
  CASE op \in ArithmeticOps \cup BitwiseOps /\ both("int") -> FoldInt(op, a[2], b[2])
    [] op \in ArithmeticOps /\ both("double") -> FoldDouble(op, a[2], b[2])
    [] op = "Add" /\ both("string") -> VStr(a[2] \o b[2])
    [] op = "And" /\ both("bool") -> VBool(a[2] /\ b[2])
    [] op = "Or" /\ both("bool") -> VBool(a[2] \/ b[2])
    [] op = "Eq" -> FoldEqual(a, b)
    [] op = "Ne" -> IF FoldEqual(a, b) = NoFold THEN NoFold ELSE VBool(~FoldEqual(a, b)[2])
    [] op \in {"Lt", "Le", "Gt", "Ge"} -> FoldOrdered(op, a, b)
    [] OTHER -> NoFold

FoldUnary(op, a) ==
  CASE op = "Neg" /\ a[1] = "int" -> FoldNeg(a[2])
    [] op = "Neg" /\ a[1] = "double" -> VDouble(-a[2])
    [] op = "BitNot" /\ a[1] = "int" -> VInt(-a[2] - 1)
    [] op = "Not" /\ a[1] = "bool" -> VBool(~a[2])
    [] op = "Widen" /\ a[1] = "int" -> VDouble(ToDouble(a[2]))
    [] OTHER -> NoFold

(* constantMatchesType: nil stands for any nullable type.                   *)
ConstantMatches(v, ty) ==
  CASE v[1] \in {"bool", "int", "double", "string"} -> v[1] = ty
    [] v[1] = "nil" -> Nullable(ty)
    [] OTHER -> IsObject(ty)

FoldInstruction(ins) ==
  LET n == Len(ins.args)
      v == IF n = 1 THEN FoldUnary(ins.op, ins.args[1].v) ELSE FoldBinary(ins.op, ins.args[1].v, ins.args[2].v)
  IN  IF /\ "Pure" \in ClassifyOpcode(ins.op)
         /\ ins.res # 0
         /\ n \in {1, 2}
         /\ \A j \in 1 .. n : ins.args[j].k = "const"
      THEN IF v # NoFold /\ ConstantMatches(v, ins.ty) THEN v ELSE NoFold
      ELSE NoFold

KnownInt(o) == IF o.k = "const" /\ o.v[1] = "int" THEN {o.v[2]} ELSE {}

(* operationCanRaise: what the opcode may do and these operands cannot.     *)
OperationCanRaise(ins) ==
  LET n == Len(ins.args)
      known(j) == IF j <= n THEN KnownInt(ins.args[j]) ELSE {}
  IN  CASE ins.res = 0 -> TRUE
        [] FoldInstruction(ins) # NoFold -> FALSE
        [] ins.op = "Add" /\ \E j \in 1 .. n : ins.args[j].ty = "string" -> FALSE
        [] ins.op \in IntOps -> ~CannotRaise(ins.op, known(1), known(2))
        [] ins.op \in {"Shl", "Shr", "Ushr"} -> known(2) \notin {{c} : c \in 0 .. IntBits - 1}
        [] ins.op \in {"Eq", "Ne"} -> FALSE
        [] ins.op \in {"Lt", "Le", "Gt", "Ge"} -> \E j \in 1 .. n : ins.args[j].ty \notin {"int", "double"}
        [] OTHER -> TRUE

ClassifyInstruction(ins) ==
  LET E == ClassifyOpcode(ins.op)
  IN  IF {"MayThrow", "Pure"} \subseteq E /\ ~OperationCanRaise(ins) THEN E \ {"MayThrow"} ELSE E
IsRemovable(ins) == ins.res # 0 /\ ClassifyInstruction(ins) \subseteq {"Pure", "Reads"}
IsObservable(ins) ==
  ClassifyInstruction(ins) \cap {"ObservableIO", "Calls", "TaskEffect", "ThreadBoundary", "Suspension", "NativeResource",
                                 "Ownership", "Synchronization", "VolatileRead", "Writes"} # {}

(* --- Rewriting ---------------------------------------------------------- *)
IsUse(o, v) == <<o.k, o.n>> = v /\ o.k \in {"temp", "param", "arg"}
Rewritten(f, Of(_)) ==
  [f EXCEPT !.blocks = [b \in DOMAIN @ |->
     [@[b] EXCEPT !.ins = [i \in DOMAIN @ |-> [@[i] EXCEPT !.args = [j \in DOMAIN @ |-> Of(@[j])]]],
                  !.term.v = Of(@),
                  !.term.edge = [e \in DOMAIN @ |-> [j \in DOMAIN @[e] |-> Of(@[e][j])]]]]]

(* replaceValueUsesTyped: a use of another type is left alone.              *)
ReplaceTyped(f, v, to) == LET of(o) == IF IsUse(o, v) /\ o.ty = to.ty THEN to ELSE o IN Rewritten(f, of)
ReplaceUses(f, v, to)  == LET of(o) == IF IsUse(o, v) THEN to ELSE o IN Rewritten(f, of)

Positions(f) == FlattenSeq([b \in DOMAIN f.blocks |-> [i \in DOMAIN f.blocks[b].ins |-> <<b, i>>]])

(* One sweep: every result for which Try finds an operand of the same type  *)
(* is replaced by it, earlier rewrites seen by later instructions.          *)
Sweep(f, Try(_, _)) ==
  LET one(g, p) == LET ins == g.blocks[p[1]].ins[p[2]]
                       to == Try(g, ins)
                   IN  IF ins.res # 0 /\ ~IsNone(to) /\ to.ty = ins.ty THEN ReplaceTyped(g, <<"temp", ins.res>>, to) ELSE g
  IN  FoldLeft(one, f, Positions(f))

FoldConstants(f) ==
  LET try(g, ins) == LET v == FoldInstruction(ins) IN IF v = NoFold THEN None ELSE Const(v, ins.ty)
  IN  Sweep(f, try)

(* ConstantAnalysis: a block parameter is known when every edge into its    *)
(* block passes the same known constant, a temporary when its instruction   *)
(* folds.  What folds is already in the constant pool: folding ran before.  *)
KnownOperand(K, o) ==
  CASE o.k = "const" -> {o.v}
    [] \E x \in K : IsUse(o, x[1]) -> {(CHOOSE x \in K : IsUse(o, x[1]))[2]}
    [] OTHER -> {}
KnownParameter(f, K, b, j) ==
  LET edges == {<<p, e>> \in (DOMAIN f.blocks) \X (1 .. 2) : e \in DOMAIN f.blocks[p].term.to /\ f.blocks[p].term.to[e] = b}
      vals == [x \in edges |-> KnownOperand(K, f.blocks[x[1]].term.edge[x[2]][j])]
  IN  IF edges # {} /\ (\A x \in edges : vals[x] # {}) /\ Cardinality(UNION {vals[x] : x \in edges}) = 1
      THEN UNION {vals[x] : x \in edges} ELSE {}
RECURSIVE KnownConstants(_, _)
KnownConstants(f, K) ==
  LET params == UNION {UNION {{<< <<"arg", f.blocks[b].params[j].id>>, v>> : v \in KnownParameter(f, K, b, j)}
                              : j \in DOMAIN f.blocks[b].params} : b \in DOMAIN f.blocks}
      folded == {<< <<"temp", ResultAt(f, d)>>, FoldInstruction(f.blocks[d[1]].ins[d[2]])>> :
                   d \in {x \in Definitions(f) : FoldInstruction(f.blocks[x[1]].ins[x[2]]) # NoFold}}
      N == K \cup params \cup folded
  IN  IF N = K THEN K ELSE KnownConstants(f, N)

TypeOfValue(f, v) ==
  IF v[1] = "temp" THEN LET d == CHOOSE x \in Definitions(f) : ResultAt(f, x) = v[2] IN f.blocks[d[1]].ins[d[2]].ty
  ELSE LET b == CHOOSE x \in DOMAIN f.blocks : \E j \in DOMAIN f.blocks[x].params : f.blocks[x].params[j].id = v[2]
           j == CHOOSE x \in DOMAIN f.blocks[b].params : f.blocks[b].params[x].id = v[2]
       IN  f.blocks[b].params[j].ty
PropagateConstants(f) ==
  LET K == KnownConstants(f, {})
      one(x, g) == LET ty == TypeOfValue(f, x[1])
                   IN  IF ConstantMatches(x[2], ty) THEN ReplaceTyped(g, x[1], Const(x[2], ty)) ELSE g
  IN  FoldSet(one, f, K)

(* tryAlgebraicIdentity: identities that hold for every operand and neither *)
(* add nor remove a throw.                                                  *)
DoubleNegation(f, ins) ==
  LET D == {d \in Definitions(f) : IsUse(ins.args[1], <<"temp", ResultAt(f, d)>>)}
      inner == LET d == CHOOSE x \in D : TRUE IN f.blocks[d[1]].ins[d[2]]
  IN  IF ins.op \in {"Neg", "Not"} /\ D # {} /\ inner.op = ins.op /\ inner.args[1].ty = ins.ty THEN inner.args[1] ELSE None
IntIdentity(op, l, r) ==
  LET is(o, c) == KnownInt(o) = {c}
      zero == Const(VInt(0), "int")
      one == Identity(op, KnownInt(l), KnownInt(r), l = r)
  IN  CASE op \in IntOps -> [left |-> l, right |-> r, zero |-> zero, none |-> None][one]
        [] op \in {"BitOr", "BitXor"} /\ is(l, 0) -> r
        [] op \in {"BitOr", "BitXor", "Shl", "Shr", "Ushr"} /\ is(r, 0) -> l
        [] op = "BitXor" /\ l = r -> zero
        [] op = "BitAnd" /\ (is(l, 0) \/ is(r, -1)) -> l
        [] op = "BitAnd" /\ (is(r, 0) \/ is(l, -1)) -> r
        [] op = "BitOr" /\ is(l, -1) -> l
        [] op = "BitOr" /\ is(r, -1) -> r
        [] op \in {"BitAnd", "BitOr"} /\ l = r -> l
        [] OTHER -> None
DoubleIdentity(op, l, r) ==
  LET is(o, x) == o.k = "const" /\ o.v = VDouble(x)
  IN  CASE op = "Mul" /\ is(l, 1) -> r
        [] op \in {"Mul", "Div"} /\ is(r, 1) -> l
        [] op = "Sub" /\ is(r, 0) -> l
        [] OTHER -> None
SelfComparison(op, ty) ==
  CASE op = "Eq" /\ ty \in {"int", "bool"} -> Const(VBool(TRUE), "bool")
    [] op = "Ne" /\ ty \in {"int", "bool"} -> Const(VBool(FALSE), "bool")
    [] op \in {"Le", "Ge"} /\ ty = "int" -> Const(VBool(TRUE), "bool")
    [] op \in {"Lt", "Gt"} /\ ty = "int" -> Const(VBool(FALSE), "bool")
    [] OTHER -> None
AlgebraicIdentity(f, ins) ==
  LET l == ins.args[1]
      r == ins.args[2]
      all(ty) == l.ty = ty /\ r.ty = ty /\ ins.ty = ty
  IN  CASE Len(ins.args) = 1 -> DoubleNegation(f, ins)
        [] Len(ins.args) # 2 -> None
        [] all("int") -> IntIdentity(ins.op, l, r)
        [] all("double") -> DoubleIdentity(ins.op, l, r)
        [] ins.ty = "bool" /\ l = r -> SelfComparison(ins.op, l.ty)
        [] OTHER -> None
SimplifyAlgebraic(f) == Sweep(f, AlgebraicIdentity)

(* tryRedundantConversion *)
RedundantConversion(f, ins) ==
  LET o == ins.args[1]
      plain == o.ty = ins.ty /\ o.ty # "unknown"
  IN  CASE Len(ins.args) # 1 -> None
        [] ins.op = "Widen" /\ o.ty = "double" /\ ins.ty = "double" -> o
        [] ins.op = "Refine" /\ plain /\ o.ty \notin CollectionTypes0 -> o
        [] ins.op = "NullCheck" /\ plain /\ ~Nullable(o.ty) -> o
        [] ins.op = "IsNull" /\ o.ty # "unknown" /\ ~Nullable(o.ty) /\ ins.ty = "bool" -> Const(VBool(FALSE), "bool")
        [] OTHER -> None
RemoveRedundantConversions(f) == Sweep(f, RedundantConversion)

(* Copy propagation through block parameters, then within each block: a     *)
(* load sees the last store or load of its slot, unless ownership moved.    *)
AgreedArgument(f, b, j) ==
  LET R == NormalReachable(f)
      S == {f.blocks[p].term.edge[e][j] : <<p, e>> \in
              {x \in R \X (1 .. 2) : x[2] \in DOMAIN f.blocks[x[1]].term.to /\ f.blocks[x[1]].term.to[x[2]] = b}}
  IN  IF b \in R /\ Cardinality(S) = 1 THEN CHOOSE o \in S : TRUE ELSE None
CopiesThroughParameters(f) ==
  LET ps == FlattenSeq([b \in DOMAIN f.blocks |-> [j \in DOMAIN f.blocks[b].params |-> <<b, j>>]])
      one(g, p) == LET o == AgreedArgument(g, p[1], p[2])
                       q == g.blocks[p[1]].params[p[2]]
                   IN  IF IsNone(o) \/ o.ty # q.ty THEN g ELSE ReplaceTyped(g, <<"arg", q.id>>, o)
  IN  FoldLeft(one, f, ps)
CopiesWithinBlock(f, b) ==
  LET one(a, i) ==
        LET ins == a.g.blocks[b].ins[i] IN
        CASE ins.op = "Store" -> [a EXCEPT !.av[ins.slot] = ins.args[1]]
          [] ins.op = "Load" ->
               [g |-> IF ~IsNone(a.av[ins.slot]) /\ a.av[ins.slot].ty = ins.ty
                      THEN ReplaceTyped(a.g, <<"temp", ins.res>>, a.av[ins.slot]) ELSE a.g,
                av |-> [a.av EXCEPT ![ins.slot] = Temp(ins.res, ins.ty)]]
          [] ins.op \in {"Move", "Borrow", "EndBorrow", "Drop"} /\ ins.slot # 0 -> [a EXCEPT !.av[ins.slot] = None]
          [] OTHER -> a
  IN  FoldLeft(one, [g |-> f, av |-> [s \in DOMAIN f.slots |-> None]], [i \in DOMAIN f.blocks[b].ins |-> i]).g
PropagateCopies(f) == FoldLeft(CopiesWithinBlock, CopiesThroughParameters(f), [b \in DOMAIN f.blocks |-> b])

(* Branch simplification: decided branches become jumps, and a jump to an   *)
(* empty block goes where that block goes.  Handlers stay put.              *)
SimplifyTerminator(f, b) ==
  LET t == f.blocks[b].term
      jump(e) == [Jump(t.to[e]) EXCEPT !.edge = <<t.edge[e]>>]
      mid == f.blocks[t.to[1]]
      onward == mid.term.to[1]
  IN  CASE t.k = "branch" /\ t.v.k = "const" /\ t.v.v[1] = "bool" ->
             [f EXCEPT !.blocks[b].term = jump(IF t.v.v[2] THEN 1 ELSE 2)]
        [] t.k = "branch" /\ t.to[1] = t.to[2] /\ t.edge[1] = t.edge[2] -> [f EXCEPT !.blocks[b].term = jump(1)]
        [] /\ t.k = "jump" /\ t.to[1] # b
           /\ mid.ins = <<>> /\ mid.params = <<>> /\ mid.hs = <<>> /\ mid.kind = "normal" /\ mid.term.k = "jump"
           /\ onward \notin {t.to[1], b} /\ f.blocks[onward].params = <<>> ->
             [f EXCEPT !.blocks[b].term.to = <<onward>>]
        [] OTHER -> f
SimplifyBranches(f) == FoldLeft(SimplifyTerminator, f, [b \in DOMAIN f.blocks |-> b])

EliminateDeadBlocks(f) == Finish(f)

(* Dead values: results nothing reads, then stores to slots nothing reads,  *)
(* until neither finds one.  The slots of a closure body are the closure's  *)
(* environment and keep their stores.                                       *)
RECURSIVE EliminateDeadValues(_, _)
EliminateDeadValues(f, captures) ==
  LET used == {o.n : o \in {x \in UNION {ToSet(Operands(f.blocks[b])) : b \in DOMAIN f.blocks} : x.k = "temp"}}
      keep1(ins) == ~(ins.res # 0 /\ ins.res \notin used /\ IsRemovable(ins))
      g == [f EXCEPT !.blocks = [b \in DOMAIN @ |-> [@[b] EXCEPT !.ins = SelectSeq(@, keep1)]]]
      read == {ins.slot : ins \in {x \in UNION {ToSet(g.blocks[b].ins) : b \in DOMAIN g.blocks} :
                                     x.op \in {"Load", "Move", "Drop", "EndBorrow"}}}
      keep2(ins) == ~(/\ ins.op = "Store" /\ ins.slot \notin read
                      /\ ~captures /\ ~f.slots[ins.slot].catch /\ f.slots[ins.slot].own = "gc")
      h == [g EXCEPT !.blocks = [b \in DOMAIN @ |-> [@[b] EXCEPT !.ins = SelectSeq(@, keep2)]]]
  IN  IF h = f THEN f ELSE EliminateDeadValues(h, captures)

(* --- Slot promotion ----------------------------------------------------- *)
UsesOf(f, op, s) == {d \in ((DOMAIN f.blocks) \X (1 .. Max({0} \cup {Len(f.blocks[b].ins) : b \in DOMAIN f.blocks}))) :
                       d[2] \in DOMAIN f.blocks[d[1]].ins /\ f.blocks[d[1]].ins[d[2]].op = op /\ f.blocks[d[1]].ins[d[2]].slot = s}
StoreBlocks(f, s) == {d[1] : d \in UsesOf(f, "Store", s)}

(* slotIsEligible: plain storage, stored at its own type and also loaded.   *)
SlotIsEligible(f, s) ==
  /\ ~f.slots[s].catch
  /\ \A op \in {"Move", "Drop", "Borrow", "EndBorrow"} : UsesOf(f, op, s) = {}
  /\ f.slots[s].own = "gc"
  /\ UsesOf(f, "Store", s) # {} /\ UsesOf(f, "Load", s) # {}
  /\ \A d \in UsesOf(f, "Store", s) : f.blocks[d[1]].ins[d[2]].args[1].ty = f.slots[s].ty

(* DefiniteAssignment: the blocks some path reaches without a store.        *)
Unassigned(f, s) == ReachFrom({e \in NormalEdges(f) : e[1] \notin StoreBlocks(f, s)}, {1})
ReadsAssigned(f, s) ==
  \A d \in UsesOf(f, "Load", s) :
    /\ d[1] \in NormalReachable(f)
    /\ d[1] \notin Unassigned(f, s) \/ \E x \in UsesOf(f, "Store", s) : x[1] = d[1] /\ x[2] < d[2]

RECURSIVE JoinsOf(_, _, _)
JoinsOf(f, dom, B) ==
  LET N == UNION {DominanceFrontier(f, dom, b) : b \in B} IN IF N \subseteq B THEN N ELSE JoinsOf(f, dom, B \cup N)

(* The walk of the dominator tree: cur is the value each promoted slot      *)
(* holds (None: not yet), home the slot a created parameter stands for.     *)
RenameBlock(f, b, cur0, home) ==
  LET entry == [s \in DOMAIN cur0 |->
                  LET P == {j \in DOMAIN f.blocks[b].params : home[f.blocks[b].params[j].id] = s}
                  IN  IF P = {} THEN cur0[s] ELSE LET p == f.blocks[b].params[CHOOSE j \in P : TRUE] IN BlockArg(p.id, p.ty)]
      one(a, i) ==
        LET ins == a.f.blocks[b].ins[i] IN
        CASE ~a.ok \/ ins.slot \notin DOMAIN cur0 \/ ins.op \notin {"Load", "Store"} -> a
          [] ins.op = "Store" -> [a EXCEPT !.cur[ins.slot] = ins.args[1]]
          [] IsNone(a.cur[ins.slot]) -> [a EXCEPT !.ok = FALSE]
          [] OTHER -> [a EXCEPT !.f = ReplaceUses(@, <<"temp", ins.res>>, a.cur[ins.slot])]
      r == FoldLeft(one, [f |-> f, cur |-> entry, ok |-> TRUE], [i \in DOMAIN f.blocks[b].ins |-> i])
      kept(ins) == ~(ins.op \in {"Load", "Store"} /\ ins.slot \in DOMAIN cur0)
      to == f.blocks[b].term.to
      wanted(e) == [j \in DOMAIN f.blocks[to[e]].params |-> r.cur[home[f.blocks[to[e]].params[j].id]]]
  IN  [f |-> [r.f EXCEPT !.blocks[b].ins = SelectSeq(@, kept), !.blocks[b].term.edge = [e \in DOMAIN to |-> wanted(e)]],
       cur |-> r.cur,
       ok |-> r.ok /\ \A e \in DOMAIN to : \A j \in DOMAIN wanted(e) : ~IsNone(wanted(e)[j])]

DominatorChildren(dom, b) ==
  {c \in dom[b] \ {b} : \A d \in dom[b] \ {b, c} : c \notin dom[d]}
RECURSIVE RenameFrom(_, _, _, _, _)
RenameFrom(a, dom, b, cur, home) ==
  LET r == RenameBlock(a.f, b, cur, home)
  IN  IF ~a.ok \/ ~r.ok THEN [a EXCEPT !.ok = FALSE]
      ELSE FoldLeft(LAMBDA x, c : RenameFrom(x, dom, c, r.cur, home), [f |-> r.f, ok |-> TRUE],
                    Sorted(DominatorChildren(dom, b)))

(* promoteSlotsToBlockParameters: all or nothing for the function.          *)
PromoteSlots(f) ==
  LET dom == Dominated(f)
      joins == [s \in DOMAIN f.slots |-> JoinsOf(f, dom, StoreBlocks(f, s))]
      S == {s \in DOMAIN f.slots : SlotIsEligible(f, s) /\ ReadsAssigned(f, s) /\ joins[s] \cap Unassigned(f, s) = {}}
      places == FlattenSeq([b \in DOMAIN f.blocks |-> LET q == Sorted({s \in S : b \in joins[s]}) IN [j \in DOMAIN q |-> <<b, q[j]>>]])
      param(i) == [id |-> i, ty |-> f.slots[places[i][2]].ty]
      ids(b) == LET q == Sorted({i \in DOMAIN places : places[i][1] = b}) IN [j \in DOMAIN q |-> param(q[j])]
      g == [f EXCEPT !.blocks = [b \in DOMAIN @ |-> [@[b] EXCEPT !.params = ids(b)]]]
      r == RenameFrom([f |-> g, ok |-> TRUE], dom, 1, [s \in S |-> None], [i \in DOMAIN places |-> places[i][2]])
  IN  IF \/ f.blocks = <<>>
         \/ \E b \in DOMAIN f.blocks : f.blocks[b].hs # <<>> \/ f.blocks[b].params # <<>>
         \/ places = <<>>
         \/ ~r.ok
      THEN f ELSE r.f
PromoteModule(M) == [M EXCEPT !.funs = [i \in DOMAIN @ |-> PromoteSlots(@[i])]]

(* --- Functions that can run --------------------------------------------- *)
InstructionsOf(f) == UNION {ToSet(f.blocks[b].ins) : b \in DOMAIN f.blocks}

(* Hierarchy: a call on a class may run a method of that name in a subclass *)
(* or a superclass; with none, any function of that name.                   *)
RECURSIVE SuperTypes(_, _)
SuperTypes(M, c) == IF c \notin DOMAIN M.classes \/ M.classes[c].parent = "" THEN {}
                    ELSE {M.classes[c].parent} \cup SuperTypes(M, M.classes[c].parent)
DispatchCandidates(M, c, name) ==
  LET named == {i \in DOMAIN M.meta : M.meta[i].name = name}
      near == {i \in named : \/ M.meta[i].owner \in {c} \cup SuperTypes(M, c)
                             \/ c \in SuperTypes(M, M.meta[i].owner)}
  IN  IF near # {} THEN near ELSE named

(* proveTemp: a closure made here, or loaded from a slot stored once.       *)
RECURSIVE ProvenBody(_, _, _)
ProvenBody(f, o, seen) ==
  LET D == {d \in Definitions(f) : o.k = "temp" /\ ResultAt(f, d) = o.n}
      ins == LET d == CHOOSE x \in D : TRUE IN f.blocks[d[1]].ins[d[2]]
      S == UsesOf(f, "Store", ins.slot)
      st == LET d == CHOOSE x \in S : TRUE IN f.blocks[d[1]].ins[d[2]]
  IN  CASE D = {} -> <<>>
        [] ins.op = "MakeClosure" -> ins.tgt
        [] ins.op = "Load" /\ ins.slot \notin seen /\ Cardinality(S) = 1 -> ProvenBody(f, st.args[1], seen \cup {ins.slot})
        [] OTHER -> <<>>

(* What one instruction can enter: functions, and whether it is unresolved. *)
Reach(F, open) == [funs |-> F \ {0}, open |-> open]
Dispatch(M, c, name) == LET F == DispatchCandidates(M, c, name) IN Reach(F, F = {})
Runs(M, f, ins, j) == LET k == ProvenBody(f, ins.args[j], {}) IN
                      IF k = <<>> THEN Reach({}, TRUE) ELSE Reach({FnIndex(M, k)}, FALSE)
Both(a, b) == Reach(a.funs \cup b.funs, a.open \/ b.open)
StaticInit(M, t) == {FnIndex(M, <<t[1], "<static-init:" \o t[2] \o ">">>)}
Enters(M, f, ins) ==
  CASE ins.op \in {"Call", "InvokeSuper", "InvokeStatic", "MakeClosure"} -> Reach({FnIndex(M, ins.tgt)}, FALSE)
    [] ins.op = "InvokeMethod" -> Dispatch(M, ins.tgt[1], ins.tgt[2])
    [] ins.op \in {"CallIndirect"} \cup ThreadBoundaryOps -> Runs(M, f, ins, 1)
    [] ins.op \in ScopedLockOps \ {"SharedWithLock"} -> Runs(M, f, ins, 2)
    [] ins.op = "SharedWithLock" -> Both(Dispatch(M, "Shared", SharedOps[ins.op]), Runs(M, f, ins, 2))
    [] ins.op \in {"SharedGet", "SharedSet"} -> Dispatch(M, "Shared", SharedOps[ins.op])
    [] ins.op = "IndexStore" /\ ins.args[1].ty \in ClassCollections -> Dispatch(M, ins.args[1].ty, AppendMethod(ins.args[1].ty))
    [] ins.op = "NewCollection" /\ ins.ty \in ClassCollections ->
         LET F == EmptyConstructor(M, ins.ty) IN Reach(F, F = {})
    [] ins.op \in {"StaticLoad", "StaticStore"} -> Reach(StaticInit(M, ins.tgt), FALSE)
    [] OTHER -> Reach({}, FALSE)

(* nativeIsReflective: natives that read the program's function table.      *)
ReflectiveNatives == {"Reflection.methods", "Reflection.invoke"}
RECURSIVE ReachableFunctions(_, _)
ReachableFunctions(M, F) ==
  LET N == F \cup UNION {UNION {Enters(M, M.funs[i], ins).funs : ins \in InstructionsOf(M.funs[i])} : i \in F}
  IN  IF N = F THEN F ELSE ReachableFunctions(M, N)
ReportComplete(M, F) ==
  /\ FnIndex(M, M.entry) # 0
  /\ \A i \in F : \A ins \in InstructionsOf(M.funs[i]) :
       ~Enters(M, M.funs[i], ins).open /\ ~(ins.op = "CallNative" /\ ins.tgt \in ReflectiveNatives)

(* eliminate-dead-functions: keeps static initializers whether or not       *)
(* anything reads them, and every function a kept body names.               *)
RECURSIVE CloseOverCallees(_, _)
CloseOverCallees(M, F) ==
  LET named(ins) == ins.op \in {"Call", "InvokeSuper", "InvokeStatic", "MakeClosure"}
      N == F \cup {FnIndex(M, ins.tgt) : ins \in UNION {{x \in InstructionsOf(M.funs[i]) : named(x)} : i \in F}}
  IN  IF N = F THEN F ELSE CloseOverCallees(M, N)
EliminateDeadFunctions(M) ==
  LET F == ReachableFunctions(M, {FnIndex(M, M.entry)})
      inits == {FnIndex(M, <<M.statics[i].c, "<static-init:" \o M.statics[i].n \o ">">>) : i \in DOMAIN M.statics}
      keep == Sorted(CloseOverCallees(M, F \cup inits))
  IN  IF ~ReportComplete(M, F) THEN M
      ELSE [M EXCEPT !.order = [i \in DOMAIN keep |-> M.order[keep[i]]],
                     !.funs  = [i \in DOMAIN keep |-> M.funs[keep[i]]],
                     !.meta  = [i \in DOMAIN keep |-> M.meta[keep[i]]]]

(* --- The pass manager --------------------------------------------------- *)
DefaultPipeline == <<"eliminate-dead-functions", "simplify-branches", "eliminate-dead-blocks", "fold-constants",
                     "propagate-constants", "simplify-algebraic", "remove-redundant-conversions", "propagate-copies",
                     "eliminate-dead-values">>
RunOnFunction(pass, f, meta) ==
  CASE pass = "simplify-branches" -> SimplifyBranches(f)
    [] pass = "eliminate-dead-blocks" -> EliminateDeadBlocks(f)
    [] pass = "fold-constants" -> FoldConstants(f)
    [] pass = "propagate-constants" -> PropagateConstants(f)
    [] pass = "simplify-algebraic" -> SimplifyAlgebraic(f)
    [] pass = "remove-redundant-conversions" -> RemoveRedundantConversions(f)
    [] pass = "propagate-copies" -> PropagateCopies(f)
    [] pass = "eliminate-dead-values" -> EliminateDeadValues(f, meta.caps # <<>>)

(* Between passes a block nothing reaches is not yet an error.              *)
ToleratesDeadBlocks(M, i) == {e \in VerifyFunction(M, i) : e[1] # "reachability"}

(* run: a function pass whose result does not verify is rolled back;        *)
(* bodiless and incomplete functions are skipped.                           *)
RunPass(M, pass, verify) ==
  IF pass = "eliminate-dead-functions" THEN EliminateDeadFunctions(M)
  ELSE FoldLeft(LAMBDA N, i :
         LET g == RunOnFunction(pass, N.funs[i], N.meta[i])
             T == [N EXCEPT !.funs[i] = g]
         IN  IF \/ N.funs[i].blocks = <<>> \/ N.funs[i].incomplete \/ g = N.funs[i]
                \/ verify /\ ToleratesDeadBlocks(T, i) # {}
             THEN N ELSE T,
       M, [i \in DOMAIN M.funs |-> i])

(* --- The differential check --------------------------------------------- *)
(* observableEventsOf: the effects of the blocks normal edges reach.        *)
EventName(ins) == <<ins.op, IF ins.op \in SlotOps THEN <<ins.slot>> ELSE <<ins.tgt>>,
                    IF ins.op \in CallOps \cup {"MakeClosure"} THEN Len(ins.args) ELSE 0>>
EventsOf(f) ==
  LET evs(b) == LET q == SelectSeq(f.blocks[b].ins, LAMBDA x : x.op # "Store" /\ IsObservable(x))
                IN  [i \in DOMAIN q |-> EventName(q[i])] \o (IF f.blocks[b].term.k = "throw" THEN << <<"throw", <<>>, 0>> >> ELSE <<>>)
      bs == Sorted(NormalReachable(f))
  IN  IF f.blocks = <<>> THEN <<>> ELSE FlattenSeq([i \in DOMAIN bs |-> evs(bs[i])])
Count(q, x) == Cardinality({i \in DOMAIN q : q[i] = x})
Contained(q, r) == \A x \in ToSet(q) : Count(q, x) <= Count(r, x)
SlotWrites(f) ==
  LET bs == Sorted(NormalReachable(f))
  IN  IF f.blocks = <<>> THEN <<>>
      ELSE FlattenSeq([i \in DOMAIN bs |-> LET q == SelectSeq(f.blocks[bs[i]].ins, LAMBDA x : x.op = "Store")
                                           IN  [j \in DOMAIN q |-> q[j].slot]])
InstructionCount(M) == FoldLeft(LAMBDA n, f : FoldLeft(LAMBDA k, b : k + Len(b.ins), n, f.blocks), 0, M.funs)

(* compareModules: after against before, and against the baseline the same  *)
(* pipeline makes of before without verification.                           *)
SameModule(before, base, after) ==
  LET at(M, k) == M.funs[FnIndex(M, k)] IN
  /\ ToSet(after.order) \subseteq ToSet(before.order)
  /\ after.entry = before.entry
  /\ InstructionCount(after) <= InstructionCount(before)
  /\ \A i \in DOMAIN after.order :
       LET k == after.order[i] IN
       /\ FnIndex(base, k) # 0
       /\ at(after, k).params = at(before, k).params /\ at(after, k).ret = at(before, k).ret
       /\ Contained(EventsOf(at(after, k)), EventsOf(at(before, k)))
       /\ Contained(EventsOf(at(after, k)), EventsOf(at(base, k))) /\ Contained(EventsOf(at(base, k)), EventsOf(at(after, k)))
       /\ Contained(SlotWrites(at(after, k)), SlotWrites(at(before, k)))
=============================================================================
