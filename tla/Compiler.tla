------------------------------ MODULE Compiler ------------------------------
(***************************************************************************)
(* The reference compiler: src/compiler/compiler.cpp, which emits bytecode *)
(* from the checked tree directly.                                         *)
(*                                                                         *)
(* Code is a sequence of instructions whose jumps are relative until Link  *)
(* places them.  An environment E holds what the Compiler object keeps     *)
(* while it walks a function: the class, the finally blocks around the     *)
(* point (finals), the handlers installed (depth), the loops and the owned *)
(* locals met so far.  An overloaded operator is a method call here.       *)
(***************************************************************************)
EXTENDS MirLowering, VmBackend, Values

Env(P, owner) ==
  [p |-> P, owner |-> owner, finals |-> <<>>, depth |-> 0, loops |-> <<>>, own |-> <<>>]

ParentOf(P, c) == IF c \in DOMAIN P.classes THEN P.classes[c].parent ELSE ""

(* The functions of the chunk: methods, static initialisers, closures.      *)
FunctionOrder(P) ==
  LET ids == Sorted(DOMAIN P.lambdas)
  IN  P.order \o [i \in DOMAIN P.statics |-> InitKey(P.statics[i])] \o [i \in DOMAIN ids |-> <<"$lambda", ids[i]>>]
PositionOf(P, key) == CHOOSE i \in DOMAIN FunctionOrder(P) : FunctionOrder(P)[i] = key

(* dispatchSignatureForFunction *)
SlotOf(P, key) == <<P.funs[key].name, [j \in DOMAIN P.funs[key].params |-> P.funs[key].params[j].ty]>>

PushNil == <<BC("PushConst", Nil)>>
PopOne  == <<BC("Pop", "")>>

(* emitOwnedLocalCleanup, the last declared first.                          *)
OwnedDrops(own) == [i \in DOMAIN own |-> BC("DropVar", own[Len(own) + 1 - i])]
AddOwned(own, n) == IF Contains(own, n) THEN own ELSE Append(own, n)

(* canFallThrough: whether control can reach the end of a statement.        *)
RECURSIVE CanFallThrough(_)
CanFallThrough(n) ==
  CASE n.k \in {"return", "throw"} -> FALSE
    [] n.k = "block" -> n.ss = <<>> \/ CanFallThrough(Last(n.ss))
    [] n.k = "if" -> \/ ~Present(n.els)
                     \/ \E i \in DOMAIN n.brs : CanFallThrough(n.brs[i][2])
                     \/ CanFallThrough(n.els)
    [] OTHER -> TRUE

(* tryFoldBinaryLiterals: <<>> when the operation is left to run time.      *)
FoldLiterals(op, a, b) ==
  LET x == a[2]
      y == b[2]
      ints == a[1] = "int" /\ b[1] = "int"
      bools == a[1] = "bool" /\ b[1] = "bool"
      folded == LiteralArith(BinaryOpcode[op], x, y)
      compares == {"<", ">", "<=", ">=", "==", "!="}
      compare == CASE op = "<" -> x < y [] op = ">" -> x > y [] op = "<=" -> x <= y
                   [] op = ">=" -> x >= y [] op = "==" -> x = y [] op = "!=" -> x # y
  IN  CASE bools /\ op \in {"==", "!="} -> <<VBool((x = y) = (op = "=="))>>
        [] bools /\ op \in {"and", "or"} -> <<VBool(IF op = "and" THEN x /\ y ELSE x \/ y)>>
        [] ~(IsNumber(a) /\ IsNumber(b)) -> <<>>
        [] op \in compares -> <<VBool(compare)>>
        [] ints /\ op \in {"+", "-", "*", "/", "%"} -> IF folded = NoFold THEN <<>> ELSE <<folded>>
        [] ints /\ op \in {"&", "|", "^"} -> <<BinaryBitwise(BinaryOpcode[op], a, b)>>
        [] ints /\ op \in {"<<", ">>", ">>>"} ->
             IF y < 0 \/ y >= IntBits THEN <<>> ELSE <<BinaryBitwise(BinaryOpcode[op], a, b)>>
        [] ~ints /\ op \in {"+", "-", "*"} -> <<DoubleArith(BinaryOpcode[op], x, y)>>
        [] ~ints /\ op \in {"/", "%"} -> IF y = 0 THEN <<>> ELSE <<DoubleArith(BinaryOpcode[op], x, y)>>
        [] OTHER -> <<>>

RECURSIVE CompileExpr(_, _), CompileStmt(_, _), CompilePattern(_, _, _, _)

Each(E, ns) == FlattenSeq([i \in DOMAIN ns |-> CompileExpr(E, ns[i])])

CompileUnary(E, n) ==
  CompileExpr(E, n.e) \o
  <<BC(CASE n.op = "-" -> "Neg" [] n.op = "!" -> "Not" [] OTHER -> "BitNot", "")>>

(* and, or: the right operand is skipped, the result is made a bool.        *)
CompileLogical(E, n) ==
  LET l == CompileExpr(E, n.l) \o (IF n.op = "or" THEN <<BC("Not", "")>> ELSE <<>>)
      r == CompileExpr(E, n.r) \o <<BC("Not", ""), BC("Not", "")>>
  IN  l \o <<BCto("JumpIfFalse", Len(r) + 2)>> \o r
      \o <<BCto("Jump", 2), BC("PushConst", VBool(n.op = "or"))>>

CompileBinary(E, n) ==
  LET fold == IF n.l.k = "lit" /\ n.r.k = "lit" THEN FoldLiterals(n.op, n.l.v, n.r.v) ELSE <<>>
  IN  CASE fold # <<>> -> <<BC("PushConst", fold[1])>>
        [] n.k = "logical" -> CompileLogical(E, n)
        [] OTHER -> CompileExpr(E, n.l) \o CompileExpr(E, n.r) \o <<BC(BinaryOpcode[n.op], "")>>

(* A static function of the namespace, a native, a function value, or a     *)
(* function found in the class or its parents.                              *)
CompileCall(E, n) ==
  LET q == IF n.ns = "" THEN n.f ELSE n.ns \o "." \o n.f
      args == Each(E, n.as)
      native == CASE q \in DOMAIN ConcurrencyOps -> ConcurrencyOps[q][1]
                  [] q = "share" -> "SharedCreate" [] OTHER -> q
      key == InClassOrParents(E.p, E.owner, n.f)
  IN  CASE n.ns # "" /\ <<n.ns, n.f>> \in DOMAIN E.p.funs -> args \o <<BC("Call", PositionOf(E.p, <<n.ns, n.f>>))>>
        [] n.ns # "" \/ q = "share" -> args \o <<BCn("CallNative", native, Len(n.as))>>
        [] OTHER -> args \o <<BC("Call", PositionOf(E.p, key))>>

CompileMethodCall(E, n) ==
  LET args == CompileExpr(E, n.o) \o Each(E, n.as)
  IN  CASE n.on = "string" -> args \o <<BCn("CallNative", "string." \o n.m, Len(n.as) + 1)>>
        [] n.on = "Task" -> CompileExpr(E, n.o) \o <<BC(MethodOps["Task." \o n.m][1], "")>>
        [] OTHER -> args \o <<BCn("InvokeMethod", <<n.m, n.ps>>, Len(n.as))>>

CompileSuper(E, n, sig) ==
  <<BC("LoadVar", "this")>> \o Each(E, n.as)
  \o <<BCn("InvokeSuper", PositionOf(E.p, InClassOrParents(E.p, ParentOf(E.p, E.owner), sig)), Len(n.as))>>

(* new: the object, a copy for the constructor, the arguments.              *)
CompileNew(E, n) ==
  <<BC("NewObject", n.c), BC("Dup", "")>> \o Each(E, n.as)
  \o <<BCn("InvokeMethod", SlotOf(E.p, <<n.c, n.sig>>), Len(n.as))>> \o PopOne

StoreEach(E, fs) ==
  FlattenSeq([i \in DOMAIN fs |-> <<BC("Dup", "")>> \o CompileExpr(E, fs[i][2])
                                  \o <<BC("SetField", fs[i][1])>> \o PopOne])
CompileDataLiteral(E, n) == <<BC("NewObject", n.c)>> \o StoreEach(E, n.fs)
CompileDataUpdate(E, n) == CompileExpr(E, n.o) \o <<BC("CopyObject", "")>> \o StoreEach(E, n.fs)

(* The elements go in one by one, through the method of a class collection  *)
(* or the native of a built-in one.                                         *)
CompileCollection(E, n) ==
  LET entry(i) == IF n.k = "map" THEN n.es[i] ELSE <<n.es[i]>>
      method == AppendMethod(n.ty)
      key == CHOOSE k \in DOMAIN E.p.funs : k[1] = n.ty /\ E.p.funs[k].name = method
      native == CASE n.k = "map" -> "Collection.mapSet" [] n.ty = "set" -> "Collection.setAdd" [] OTHER -> "Collection.push"
      fresh == IF n.ty \in ClassCollections
               THEN <<BC("NewObject", n.ty), BC("Dup", ""), BCn("InvokeMethod", <<n.ty, <<>>>>, 0)>> \o PopOne
               ELSE <<BCn("CallNative", "Collection.new" \o CollKind(IF n.k = "map" THEN "map" ELSE n.ty), 0)>>
      store(i) == <<BC("Dup", "")>> \o Each(E, entry(i))
                  \o (IF n.ty \in ClassCollections THEN <<BCn("InvokeMethod", SlotOf(E.p, key), Len(entry(i)))>>
                      ELSE <<BCn("CallNative", native, Len(entry(i)) + 1)>>) \o PopOne
  IN  fresh \o FlattenSeq([i \in DOMAIN n.es |-> store(i)])

CompileFieldAccess(E, n) ==
  CASE n.k = "static" -> <<BC("GetStaticField", <<n.c, n.f>>)>>
    [] n.k = "functionRef" -> <<BC("MakeClosure", PositionOf(E.p, InClassOrParents(E.p, n.c, n.sig)))>>
    [] n.k = "enum" -> <<BC("PushConst", VStr(n.m))>>
    [] OTHER -> CompileExpr(E, n.o) \o <<BC("GetField", n.f)>>

CompileFieldAssign(E, n) ==
  IF n.k = "staticSet" THEN CompileExpr(E, n.e) \o <<BC("SetStaticField", <<n.c, n.f>>)>>
  ELSE CompileExpr(E, n.o) \o CompileExpr(E, n.e) \o <<BC("SetField", n.f)>>

(* A pattern's code; the jumps it takes on a mismatch are marked "fail".    *)
(* tmp names the variable that holds the value; nested temporaries extend   *)
(* its name.                                                                *)
Fail == <<BC("JumpIfFalse", "fail")>>
CompilePattern(E, p, tmp, sfx) ==
  LET load == <<BC("LoadVar", tmp)>>
      const(q) == <<BC("PushConst", IF q.v[1] = "enum" THEN VStr(q.v[2]) ELSE q.v)>>
      bind(n) == IF n \in {"", "_"} THEN <<>> ELSE load \o <<BC("DefineVar", n)>>
      length(k) == load \o <<BCn("CallNative", "Collection.length", 1), BC("PushConst", VInt(k)), BC("Eq", "")>> \o Fail
      sub(i, get, q) == load \o get \o <<BC("DefineVar", sfx \o ToString(i))>>
                        \o CompilePattern(E, q, sfx \o ToString(i), sfx \o ToString(i) \o "_")
      has(native, q) == load \o const(q) \o <<BCn("CallNative", native, 2)>> \o Fail
  IN  CASE p.k = "wild" -> <<>>
        [] p.k = "var" -> bind(p.n)
        [] p.k = "value" -> load \o const(p) \o <<BC("Eq", "")>> \o Fail
        [] p.k = "type" -> load \o <<BC("PushConst", VStr(p.ty)), BC("MatchType", "")>> \o Fail \o bind(p.n)
        [] p.k = "list" ->
             length(Len(p.es)) \o
             FlattenSeq([i \in DOMAIN p.es |->
               CASE p.set /\ p.es[i].k = "value" -> has("Collection.setHas", p.es[i])
                 [] p.set -> <<>>
                 [] OTHER -> sub(i, <<BC("PushConst", VInt(i - 1)), BCn("CallNative", "Collection.get", 2)>>, p.es[i])])
        [] p.k = "map" ->
             length(Len(p.es)) \o
             FlattenSeq([i \in DOMAIN p.es |-> has("Collection.mapHas", p.es[i][1]) \o
               sub(i, const(p.es[i][1]) \o <<BCn("CallNative", "Collection.mapGet", 2)>>, p.es[i][2])])
        [] p.k = "data" ->
             load \o <<BC("PushConst", VStr(p.c)), BC("MatchType", "")>> \o Fail \o
             FlattenSeq([i \in DOMAIN p.fs |-> sub(i, <<BC("GetField", p.fs[i][1])>>, p.fs[i][2])])

(* Jumps marked with a label lead to the position given.                    *)
Patch(c, label, target) ==
  [j \in DOMAIN c |-> IF c[j].op \in {"Jump", "JumpIfFalse"} /\ c[j].a = label
                      THEN [c[j] EXCEPT !.a = "", !.to = target - j] ELSE c[j]]

CompileMatch(E, n) ==
  LET subject == "__match_subject_" \o ToString(Len(Nodes(n)))
      arm(a) == LET test == CompilePattern(E, a.p, subject, "__match_item_")
                            \o (IF Present(a.guard) THEN CompileExpr(E, a.guard) \o Fail ELSE <<>>)
                    body == test \o CompileExpr(E, a.e) \o <<BC("Jump", "matched")>>
                IN  Patch(body, "fail", Len(body) + 1)
      none == <<BC("NewObject", "Exception"), BC("Dup", ""), BC("PushConst", VStr("non-exhaustive match")),
                BCn("InvokeMethod", <<"Exception", <<"string">>>>, 1)>> \o PopOne \o <<BC("Throw", "")>>
      all == CompileExpr(E, n.e) \o <<BC("DefineVar", subject)>>
             \o FlattenSeq([i \in DOMAIN n.arms |-> arm(n.arms[i])]) \o none
  IN  Patch(all, "matched", Len(all) + 1)

(* The body of a closure is emitted where it is made and jumped over.  The  *)
(* finally blocks of the function around it are still active in it.         *)
CompileLambda(E, n) ==
  LET d == E.p.lambdas[n.id]
      owned == SelectSeq(d.params, LAMBDA q : q.own = "owned")
      F == [E EXCEPT !.own = [i \in DOMAIN owned |-> owned[i].n]]
      s == CompileStmt(F, d.body)
      body == IF d.expr THEN CompileExpr(F, d.body) \o <<BC("Return", "")>>
              ELSE s.c \o (IF CanFallThrough(d.body) THEN PushNil \o OwnedDrops(s.own) \o <<BC("Return", "")>> ELSE <<>>)
  IN  <<[BCto("Jump", Len(body) + 1) EXCEPT !.a = "closure", !.n = n.id]>> \o body
      \o <<BC("MakeClosure", PositionOf(E.p, <<"$lambda", n.id>>))>>

CompileExpr(E, n) ==
  CASE n.k = "lit" -> <<BC("PushConst", n.v)>>
    [] n.k = "id" -> <<BC("LoadVar", n.n)>>
    [] n.k = "this" -> <<BC("LoadVar", "this")>>
    [] n.k = "unary" -> CompileUnary(E, n)
    [] n.k \in {"binary", "logical"} -> CompileBinary(E, n)
    [] n.k = "assign" -> CompileExpr(E, n.e) \o <<BC("Dup", ""), BC("DefineVar", n.n)>>
    [] n.k = "move" -> <<BC("MoveVar", n.n)>>
    [] n.k = "call" -> CompileCall(E, n)
    [] n.k = "valueCall" -> Each(E, n.as) \o <<BC("LoadVar", n.n), BCn("CallValue", "", Len(n.as))>>
    [] n.k = "method" -> CompileMethodCall(E, n)
    [] n.k = "superMethod" -> CompileSuper(E, n, n.m)
    [] n.k = "super" -> CompileSuper(E, n, n.sig)
    [] n.k = "new" -> CompileNew(E, n)
    [] n.k \in {"field", "static", "enum", "functionRef"} -> CompileFieldAccess(E, n)
    [] n.k \in {"fieldSet", "staticSet"} -> CompileFieldAssign(E, n)
    [] n.k = "index" -> CompileExpr(E, n.o) \o CompileExpr(E, n.i) \o <<BC("GetIndex", "")>>
    [] n.k \in {"list", "map"} -> CompileCollection(E, n)
    [] n.k = "data" -> CompileDataLiteral(E, n)
    [] n.k = "with" -> CompileDataUpdate(E, n)
    [] n.k = "await" -> CompileExpr(E, n.e) \o <<BC("Await", "")>>
    [] n.k = "match" -> CompileMatch(E, n)
    [] n.k = "lambda" -> CompileLambda(E, n)
    [] n.k = "log" -> CompileExpr(E, n.e) \o <<BC("Log", "")>> \o PushNil

(* Code of a statement, with the owned locals known after it.               *)
Piece(c, own) == [c |-> c, own |-> own]

CompileBlock(E, ss) ==
  FoldLeft(LAMBDA acc, n : LET s == CompileStmt([E EXCEPT !.own = acc.own], n) IN Piece(acc.c \o s.c, s.own),
           Piece(<<>>, E.own), ss)

CompileVarDecl(E, n) ==
  LET value == IF ~Present(n.e) THEN PushNil
               ELSE CompileExpr(E, n.e) \o (IF n.ty \in {"", "unknown"} THEN <<>> ELSE <<BC("AssertType", n.ty)>>)
  IN  Piece(value \o <<BC("DefineVar", n.n)>>, IF n.own = "owned" THEN AddOwned(E.own, n.n) ELSE E.own)

(* The finally blocks from the innermost out to a depth, each compiled with *)
(* only the outer ones active.                                              *)
CompileActiveFinally(E, depth) ==
  FoldLeft(LAMBDA acc, k :
             LET i == Len(E.finals) + 1 - k
                 s == CompileStmt([E EXCEPT !.finals = SubSeq(@, 1, i - 1), !.own = acc.own], E.finals[i])
             IN  Piece(acc.c \o s.c, s.own),
           Piece(<<>>, E.own), [k \in 1 .. Len(E.finals) - depth |-> k])

(* Mutant: a return that forgets the finally blocks it leaves.              *)
CompileReturnAtOnce(E, n) ==
  Piece((IF Present(n.e) THEN CompileExpr(E, n.e) ELSE PushNil) \o OwnedDrops(E.own) \o <<BC("Return", "")>>, E.own)

(* The value stays on the stack while the finally blocks run.               *)
CompileReturn(E, n) ==
  LET value == IF Present(n.e) THEN CompileExpr(E, n.e) ELSE PushNil
      f == CompileActiveFinally(E, 0)
  IN  Piece(value \o f.c \o OwnedDrops(f.own) \o <<BC("Return", "")>>, f.own)

CompileIf(E, n) ==
  LET branch(acc, i) ==
        LET c == CompileExpr([E EXCEPT !.own = acc.own], n.brs[i][1])
            b == CompileStmt([E EXCEPT !.own = acc.own], n.brs[i][2])
        IN  Piece(acc.c \o c \o <<BCto("JumpIfFalse", Len(b.c) + 2)>> \o b.c \o <<BC("Jump", "endif")>>, b.own)
      all == FoldLeft(branch, Piece(<<>>, E.own), [i \in DOMAIN n.brs |-> i])
      els == IF Present(n.els) THEN CompileStmt([E EXCEPT !.own = all.own], n.els) ELSE Piece(<<>>, all.own)
      code == all.c \o els.c
  IN  Piece(Patch(code, "endif", Len(code) + 1), els.own)

(* A loop remembers the handlers and finally blocks around it.              *)
CompileLoopBody(E, n) == CompileStmt([E EXCEPT !.loops = Append(@, [depth |-> E.depth, finals |-> Len(E.finals)])], n)
PatchLoop(c, continue, break) == Patch(Patch(c, "continue", continue), "break", break)

CompileWhile(E, n) ==
  LET cond == CompileExpr(E, n.c)
      b == CompileLoopBody(E, n.b)
      code == cond \o <<BCto("JumpIfFalse", Len(b.c) + 2)>> \o b.c \o <<BCto("Jump", -(Len(cond) + 1 + Len(b.c)))>>
  IN  Piece(PatchLoop(code, 1, Len(code) + 1), b.own)

CompileRepeat(E, n) ==
  LET b == CompileLoopBody(E, n.b)
      cond == CompileExpr([E EXCEPT !.own = b.own], n.c)
      code == b.c \o cond \o <<BC("Not", ""), BCto("JumpIfFalse", -(Len(b.c) + Len(cond) + 1))>>
  IN  Piece(PatchLoop(code, Len(b.c) + 1, Len(code) + 1), b.own)

CompileFor(E, n) ==
  LET end == "__for_end_" \o n.n
      step == "__for_step_" \o n.n
      start == CompileExpr(E, n.s) \o <<BC("DefineVar", n.n)>> \o CompileExpr(E, n.e) \o <<BC("DefineVar", end)>>
               \o CompileExpr(E, n.st) \o <<BC("DefineVar", step)>>
      b == CompileLoopBody(E, n.b)
      test == <<BC("LoadVar", n.n), BC("LoadVar", end), BC("LoadVar", step), BC("RangeContinue", "")>>
      next == <<BC("LoadVar", n.n), BC("LoadVar", step), BC("Add", ""), BC("DefineVar", n.n)>>
      code == start \o test \o <<BCto("JumpIfFalse", Len(b.c) + 6)>> \o b.c \o next \o <<BCto("Jump", -(Len(b.c) + 9))>>
  IN  Piece(PatchLoop(code, Len(start) + 6 + Len(b.c), Len(code) + 1), b.own)

(* Mutant: a break or continue that forgets the handlers it leaves.         *)
CompileLeaveInstalled(E, n) ==
  LET f == CompileActiveFinally(E, Last(E.loops).finals) IN Piece(Append(f.c, BC("Jump", n.k)), f.own)

(* Mutant: a break or continue without the finally blocks it leaves.        *)
CompileLeaveUnfinished(E, n) ==
  Piece([i \in 1 .. E.depth - Last(E.loops).depth |-> BC("PopHandler", "")] \o <<BC("Jump", n.k)>>, E.own)

(* break, continue: the finally blocks inside the loop, then the handlers   *)
(* counted as installed since it, then the jump.                            *)
CompileLeave(E, n) ==
  LET f == CompileActiveFinally(E, Last(E.loops).finals)
  IN  Piece(f.c \o [i \in 1 .. E.depth - Last(E.loops).depth |-> BC("PopHandler", "")] \o <<BC("Jump", n.k)>>, f.own)

(* try: the finally handler, the catch handlers with the first on top, the  *)
(* body and its normal exit, the catch clauses from the last to the first,  *)
(* and the exceptional exit through finally.  The handler depth counted     *)
(* inside a catch clause no longer includes the finally handler.            *)
CompileTry(E, n) ==
  LET nc == Len(n.cs)
      fin == Present(n.f)
      nf == IF fin THEN 1 ELSE 0
      pops(k) == [i \in 1 .. k |-> BC("PopHandler", "")]
      Inner(F, own) == [F EXCEPT !.finals = IF fin THEN Append(@, n.f) ELSE @, !.own = own]
      final(F, own) == IF fin THEN CompileStmt([F EXCEPT !.own = own], n.f) ELSE Piece(<<>>, own)
      B == CompileStmt(Inner([E EXCEPT !.depth = @ + nc + nf], E.own), n.b)
      N == final([E EXCEPT !.depth = @ + nf], B.own)
      normal == B.c \o pops(nc) \o N.c \o pops(nf) \o <<BC("Jump", "endtry")>>
      clause(acc, i) ==
        LET b == CompileStmt(Inner(E, acc.own), n.cs[i].b)
            f == final(E, b.own)
            c == <<BC("DefineVar", n.cs[i].n)>> \o b.c \o f.c \o pops(nf) \o <<BC("Jump", "endtry")>>
        IN  [c |-> acc.c \o c, own |-> f.own, at |-> [acc.at EXCEPT ![i] = Len(acc.c) + 1]]
      K == FoldLeft(clause, [c |-> <<>>, own |-> N.own, at |-> [i \in 1 .. nc |-> 0]], [i \in 1 .. nc |-> nc + 1 - i])
      X == final(E, K.own)
      rethrow == IF fin THEN X.c \o <<BC("Throw", "")>> ELSE <<>>
      catches == nf + nc + Len(normal)
      push == (IF fin THEN <<BCto("PushFinallyHandler", catches + Len(K.c))>> ELSE <<>>)
              \o [j \in 1 .. nc |-> LET i == nc + 1 - j IN
                    [BC("PushHandler", n.cs[i].ty) EXCEPT !.g = j, !.to = catches + K.at[i] - (nf + j)]]
      code == push \o normal \o K.c \o rethrow
  IN  Piece(Patch(code, "endtry", Len(code) + 1), X.own)

CompileStmt(E, n) ==
  CASE n.k = "block" -> CompileBlock(E, n.ss)
    [] n.k = "var" -> CompileVarDecl(E, n)
    [] n.k = "log" -> Piece(CompileExpr(E, n.e) \o <<BC("Log", "")>>, E.own)
    [] n.k = "expr" -> Piece(CompileExpr(E, n.e) \o PopOne, E.own)
    [] n.k = "if" -> CompileIf(E, n)
    [] n.k = "while" -> CompileWhile(E, n)
    [] n.k = "repeat" -> CompileRepeat(E, n)
    [] n.k = "for" -> CompileFor(E, n)
    [] n.k \in {"break", "continue"} -> CompileLeave(E, n)
    [] n.k = "return" -> CompileReturn(E, n)
    [] n.k = "throw" -> Piece(CompileExpr(E, n.e) \o <<BC("Throw", "")>>, E.own)
    [] n.k = "try" -> CompileTry(E, n)

(* A constructor that does not start with super(...) calls the parent's     *)
(* constructor without arguments first.                                     *)
ImplicitSuper(P, key) ==
  LET d == P.funs[key]
      parent == ParentOf(P, key[1])
      first == IF d.body.ss = <<>> THEN Absent ELSE d.body.ss[1]
      explicit == first.k = "expr" /\ (IF first.k = "expr" THEN first.e.k = "super" ELSE FALSE)
      ctor == CHOOSE k \in DOMAIN P.funs : k[1] = parent /\ P.funs[k].name = parent /\ P.funs[k].params = <<>>
  IN  IF d.static \/ d.name # key[1] \/ parent = "" \/ explicit THEN <<>>
      ELSE <<BC("LoadVar", "this"), BCn("InvokeSuper", PositionOf(P, ctor), 0)>> \o PopOne

(* The code and the owned locals of one function of the chunk.              *)
CompileFunction(P, i) ==
  LET key == FunctionOrder(P)[i]
      d == P.funs[key]
      owned == SelectSeq(d.params, LAMBDA q : q.own = "owned")
      E == [Env(P, key[1]) EXCEPT !.own = [j \in DOMAIN owned |-> owned[j].n]]
      s == CompileStmt(E, d.body)
      init == P.statics[i - Len(P.order)]
  IN  IF i > Len(P.order)
      THEN Piece((IF Present(init.e) THEN CompileExpr(Env(P, key[1]), init.e) ELSE PushNil) \o <<BC("Return", "")>>, <<>>)
      ELSE Piece(ImplicitSuper(P, key) \o s.c
                 \o (IF CanFallThrough(d.body) THEN PushNil \o OwnedDrops(s.own) \o <<BC("Return", "")>> ELSE <<>>), s.own)

(* Absolute addresses, and a group number for every try.                    *)
Link(c) ==
  [j \in DOMAIN c |-> [c[j] EXCEPT !.to = IF @ = 0 THEN 0 ELSE j + @, !.g = IF @ = 0 THEN 0 ELSE j - @ + 1]]

(* buildDispatchTables: of the classes on the chain of a class the nearest  *)
(* declaration of a signature, of two in one class the later.               *)
DispatchTables(P) ==
  LET methods == {i \in DOMAIN P.order : ~P.funs[P.order[i]].static}
      slot(i) == SlotOf(P, P.order[i])
      classes == DOMAIN P.classes
      level(c, i) == LET ch == ClassChain(P, c) IN {j \in DOMAIN ch : ch[j] = P.order[i][1]}
      inherits(c) == {i \in methods : level(c, i) # {}}
      best(c, k) == LET is == {i \in inherits(c) : slot(i) = k}
                        near == {i \in is : \A o \in is : Min(level(c, i)) <= Min(level(c, o))} IN Max(near)
  IN  [c \in classes |-> [k \in {slot(i) : i \in inherits(c)} |-> best(c, k)]]

(* buildCompilationPlan: the fields of a class are those of its parents,    *)
(* then its own, a name once.                                               *)
PlanClasses(P) ==
  [c \in DOMAIN P.classes |->
     LET fs == FlattenSeq([j \in DOMAIN ClassChain(P, c) |-> P.classes[Reverse(ClassChain(P, c))[j]].fields])
         firsts == {i \in DOMAIN fs : \A j \in 1 .. i - 1 : fs[j][1] # fs[i][1]}
     IN  [P.classes[c] EXCEPT !.fields = [k \in 1 .. Cardinality(firsts) |-> fs[Sorted(firsts)[k]]]]]

(* compile: a jump over the bodies, the bodies, the entry sequence.         *)
CompileProgram(P) ==
  LET n == Len(P.order) + Len(P.statics)
      piece == [i \in 1 .. n |-> CompileFunction(P, i)]
      bodies == FlattenSeq([i \in 1 .. n |-> piece[i].c])
      at(i) == 2 + FoldLeft(LAMBDA sum, j : sum + Len(piece[j].c), 0, [j \in 1 .. i - 1 |-> j])
      main == PositionOf(P, P.entry)
      code == Link(<<BCto("Jump", Len(bodies) + 1)>> \o bodies
                   \o (IF P.funs[P.entry].params = <<>> THEN <<>> ELSE <<BC("PushProgramArgs", "")>>)
                   \o <<BC("Call", main), BC("Pop", ""), BC("Halt", "")>>)
      start(id) == Min({j \in DOMAIN code : code[j].op = "Jump" /\ code[j].a = "closure" /\ code[j].n = id} \cup {Len(code)}) + 1
      info(i) == LET key == FunctionOrder(P)[i] IN
        CASE i <= Len(P.order) ->
               LET d == P.funs[key] IN
               FunctionInfo(at(i), [j \in DOMAIN d.params |-> d.params[j].n], [j \in DOMAIN d.params |-> d.params[j].ty],
                            d.ret, Meta(d.name, key[1], d.static, d.async, FALSE, <<>>, FALSE), Range(piece[i].own))
          [] i <= n -> FunctionInfo(at(i), <<>>, <<>>, P.statics[i - Len(P.order)].ty,
                                    Meta(key[2], key[1], TRUE, FALSE, FALSE, <<>>, FALSE), {})
          [] OTHER -> LET d == P.lambdas[key[2]] IN
               FunctionInfo(start(key[2]), [j \in DOMAIN d.params |-> d.params[j].n],
                            [j \in DOMAIN d.params |-> d.params[j].ty], IF d.ret = "" THEN "unknown" ELSE d.ret,
                            Meta("lambda", d.owner, FALSE, FALSE, FALSE, d.caps, TRUE), {})
  IN  [code |-> [j \in DOMAIN code |-> IF code[j].op = "Jump" THEN [code[j] EXCEPT !.a = ""] ELSE code[j]],
       fns |-> [i \in DOMAIN FunctionOrder(P) |-> info(i)],
       vt |-> DispatchTables(P), classes |-> PlanClasses(P),
       statics |-> [k \in {<<P.statics[j].c, P.statics[j].n>> : j \in DOMAIN P.statics} |->
                      [init |-> PositionOf(P, InitKey([c |-> k[1], n |-> k[2]])),
                       ty |-> P.statics[CHOOSE j \in DOMAIN P.statics : P.statics[j].c = k[1] /\ P.statics[j].n = k[2]].ty]],
       stubbed |-> {}]
=============================================================================
