---------------------------- MODULE TypeChecker ----------------------------
(***************************************************************************)
(* The type checker, src/compiler/type_checker.cpp, over the tree whose    *)
(* annotations it writes: a program is WellTyped when the walk raises no     *)
(* error and resolves every node to what the tree records.                 *)
(*                                                                         *)
(* S is the state the walk threads: the scopes of the symbol table, the    *)
(* ownership flow state (moved names, the region each borrow stands for).  *)
(* The checker works on source names; Src gives the one of a storage name. *)
(* A type is its name, and "list" stands for List<T>.  Generic arguments,  *)
(* unions, function signatures, operator methods, async functions, the     *)
(* order of locks, Shared cells, what crosses a thread or a lock, and the  *)
(* checks of a class as a whole are left out.  The first error ends the    *)
(* walk, so only whether there is one is kept (ok).                        *)
(***************************************************************************)
EXTENDS Ast, OperatorRules, TLC

Src(E, n) == IF n \in DOMAIN E.p.src THEN E.p.src[n] ELSE n

(* Declarations: chains of parents, fields, overloads (semantic_model.cpp). *)
RECURSIVE Ancestry(_, _)
Ancestry(P, c) == IF c \notin DOMAIN P.classes THEN <<>> ELSE <<c>> \o Ancestry(P, P.classes[c].parent)
IsSubclassOf(P, c, d) == c = d \/ Contains(Ancestry(P, c), d)
Catchable(P, c) == IsSubclassOf(P, c, "Exception")

DeclaresField(P, c, f) == \E i \in DOMAIN P.classes[c].fields : P.classes[c].fields[i][1] = f
FieldOwners(P, c, f) == SelectSeq(Ancestry(P, c), LAMBDA d : DeclaresField(P, d, f))
TypeOfField(P, d, f) == P.classes[d].fields[CHOOSE i \in DOMAIN P.classes[d].fields : P.classes[d].fields[i][1] = f][2]

(* collectMethodOverloads: the nearest declaration of each signature.       *)
CollectOverloads(P, c, name) ==
  LET A == Ancestry(P, c)
      In(i) == {k \in DOMAIN P.funs : k[1] = A[i] /\ P.funs[k].name = name /\ A[i] # name}
  IN  UNION {{k \in In(i) : \A j \in 1..(i - 1) : \A q \in In(j) : q[2] # k[2]} : i \in DOMAIN A}
Constructors(P, c) == {k \in DOMAIN P.funs : k[1] = c /\ P.funs[k].name = c}

IsClass(P, t) == t \in DOMAIN P.classes
ReferenceLike(P, t) == IsClass(P, t) \/ t \in {"list", "map", "set", "array", "func", "Task", "Shared", "Mutex", "RwLock", "Atomic"}

IsAssignable(P, from, to) ==
  \/ "unknown" \in {from, to} \/ from = to
  \/ from = "nil" /\ (to = "string" \/ ReferenceLike(P, to)) /\ ~(IsClass(P, to) /\ P.classes[to].enum # {})
  \/ from = "int" /\ to = "double"
  \/ IsSubclassOf(P, from, to)
  \/ from \in {"list", "set"} /\ to \in {"list", "set", "array"}

(* OverloadResolver::resolve: the one exact match, else the one assignable  *)
(* candidate, else the one no other is more specific than.  {} is an error. *)
ResolveOverload(P, cands, tys) ==
  LET ps(k) == [i \in DOMAIN P.funs[k].params |-> P.funs[k].params[i].ty]
      arity == {k \in cands : Len(ps(k)) = Len(tys)}
      exact == {k \in arity : ps(k) = tys}
      wide  == {k \in arity : \A i \in DOMAIN tys : IsAssignable(P, tys[i], ps(k)[i])}
      moreSpecific(q, k) ==
        /\ \A i \in DOMAIN tys : IF IsClass(P, ps(k)[i]) /\ IsClass(P, ps(q)[i])
                                 THEN IsAssignable(P, ps(q)[i], ps(k)[i]) ELSE ps(q)[i] = ps(k)[i]
        /\ \E i \in DOMAIN tys : ps(q)[i] # ps(k)[i]
      maximal == {k \in wide : \A q \in wide \ {k} : ~moreSpecific(q, k)}
  IN  CASE Cardinality(exact) = 1 -> exact
        [] exact # {} -> {}
        [] Cardinality(maximal) = 1 -> maximal
        [] OTHER -> {}

(* checkAccess *)
MayAccess(E, c, m) ==
  \/ m \notin E.p.classes[c].private \cup E.p.classes[c].protected
  \/ E.cls = c
  \/ m \in E.p.classes[c].protected /\ IsSubclassOf(E.p, E.cls, c)

(* statementAlwaysReturns *)
RECURSIVE AlwaysReturns(_)
AlwaysReturns(n) ==
  CASE n.k \in {"return", "throw"} -> TRUE
    [] n.k = "block" -> \E i \in DOMAIN n.ss : AlwaysReturns(n.ss[i])
    [] n.k = "try" -> \/ AlwaysReturns(n.f)
                      \/ AlwaysReturns(n.b) /\ \A i \in DOMAIN n.cs : AlwaysReturns(n.cs[i].b)
    [] n.k = "if" -> AlwaysReturns(n.els) /\ \A i \in DOMAIN n.brs : AlwaysReturns(n.brs[i][2])
    [] OTHER -> FALSE

(* collectLambdaCaptureRefs: the names a body uses and does not bind; the   *)
(* names a pattern binds.                                                   *)
RECURSIVE PatternNames(_), FreeNames(_, _, _)
PatternNames(p) ==
  CASE p.k \in {"var", "type"} -> {p.n}
    [] p.k = "data" -> UNION {PatternNames(p.fs[i][2]) : i \in DOMAIN p.fs}
    [] p.k = "list" -> UNION {PatternNames(p.es[i]) : i \in DOMAIN p.es}
    [] p.k = "map" -> UNION {PatternNames(p.es[i][2]) : i \in DOMAIN p.es}
    [] OTHER -> {}
FreeNames(P, n, bound) ==
  LET F(m) == FreeNames(P, m, bound)
      Each(s) == UNION {F(s[i]) : i \in DOMAIN s}
      Second(s) == UNION {F(s[i][2]) : i \in DOMAIN s}
  IN  CASE n.k \in {"id", "move"} -> {n.n} \ bound
        [] n.k = "this" -> {"this"}
        [] n.k = "assign" -> ({n.n} \ bound) \cup F(n.e)
        [] n.k = "valueCall" -> ({n.n} \ bound) \cup Each(n.as)
        [] n.k = "block" ->
             LET declared(i) == {n.ss[j].n : j \in {j \in 1..(i - 1) : n.ss[j].k = "var"}}
             IN  UNION {FreeNames(P, n.ss[i], bound \cup declared(i)) : i \in DOMAIN n.ss}
        [] n.k = "for" -> F(n.s) \cup F(n.e) \cup F(n.st) \cup FreeNames(P, n.b, bound \cup {n.n})
        [] n.k = "try" -> F(n.b) \cup F(n.f)
                          \cup UNION {FreeNames(P, n.cs[i].b, bound \cup {n.cs[i].n}) : i \in DOMAIN n.cs}
        [] n.k = "lambda" -> LET d == P.lambdas[n.id]
                             IN  FreeNames(P, d.body, bound \cup {d.params[i].n : i \in DOMAIN d.params})
        [] n.k = "match" ->
             F(n.e) \cup UNION {LET b == bound \cup PatternNames(n.arms[i].p)
                                IN  FreeNames(P, n.arms[i].guard, b) \cup FreeNames(P, n.arms[i].e, b) : i \in DOMAIN n.arms}
        [] n.k \in {"unary", "await", "log", "expr", "throw", "return", "staticSet", "var"} -> F(n.e)
        [] n.k \in {"binary", "logical"} -> F(n.l) \cup F(n.r)
        [] n.k \in {"call", "superMethod", "super", "new"} -> Each(n.as)
        [] n.k = "method" -> F(n.o) \cup Each(n.as)
        [] n.k = "field" -> F(n.o)
        [] n.k = "fieldSet" -> F(n.o) \cup F(n.e)
        [] n.k = "index" -> F(n.o) \cup F(n.i)
        [] n.k = "list" -> Each(n.es)
        [] n.k = "map" -> UNION {F(n.es[i][1]) \cup F(n.es[i][2]) : i \in DOMAIN n.es}
        [] n.k = "data" -> Second(n.fs)
        [] n.k = "with" -> F(n.o) \cup Second(n.fs)
        [] n.k = "if" -> F(n.els) \cup UNION {F(n.brs[i][1]) \cup F(n.brs[i][2]) : i \in DOMAIN n.brs}
        [] n.k \in {"while", "repeat"} -> F(n.c) \cup F(n.b)
        [] OTHER -> {}

(* Names assigned below a node: the refinements a loop may invalidate.      *)
AssignedNames(E, n) ==
  LET w == SelectSeq(Nodes(n), LAMBDA x : x.k = "assign") IN {Src(E, w[i].n) : i \in DOMAIN w}

(* SymbolTable.  A variable that is refined keeps its declared type.        *)
Var(st, ty, own, const) == [st |-> st, ty |-> ty, decl |-> "", own |-> own, const |-> const]
NoVar == Var("", "unknown", "gc", FALSE)
Reject(S) == [S EXCEPT !.ok = FALSE]
Require(S, c) == IF c THEN S ELSE Reject(S)
LookupVar(S, name) ==
  LET I == {i \in DOMAIN S.scopes : name \in DOMAIN S.scopes[i]} IN IF I = {} THEN NoVar ELSE S.scopes[Max(I)][name]
Known(S, name) == LookupVar(S, name) # NoVar
OpenScope(S) == [S EXCEPT !.scopes = Append(@, <<>>)]
CloseScope(S) == [S EXCEPT !.scopes = Front(@)]
Define(S, name, v) ==
  IF name \in DOMAIN Last(S.scopes) THEN Reject(S) ELSE [S EXCEPT !.scopes[Len(S.scopes)] = (name :> v) @@ @]
Refine(S, name, ty) ==
  IF ~Known(S, name) \/ name \in DOMAIN Last(S.scopes) THEN S
  ELSE LET v == LookupVar(S, name)
       IN  Define(S, name, [v EXCEPT !.ty = ty, !.decl = IF v.decl = "" THEN v.ty ELSE v.decl])
Widened(v) == IF v.decl = "" THEN v ELSE [v EXCEPT !.ty = v.decl]
Invalidate(S, names) ==
  LET st == {LookupVar(S, x).st : x \in names} IN
  [S EXCEPT !.scopes = [i \in DOMAIN @ |-> [x \in DOMAIN @[i] |-> IF @[i][x].st \in st THEN Widened(@[i][x]) ELSE @[i][x]]]]
JoinRefinements(entry, exits) ==
  [i \in DOMAIN entry |-> [x \in DOMAIN entry[i] |->
     IF \A e \in exits : i \in DOMAIN e /\ x \in DOMAIN e[i] /\ e[i][x].ty = entry[i][x].ty
     THEN entry[i][x] ELSE Widened(entry[i][x])]]

(* Regions: the storage a borrow stands for, as a set of alternative paths  *)
(* from a variable through owned fields and elements.                       *)
ElementPart(p) == p[1] \in {"index", "any"}
WildcardCovers(p, q) ==
  /\ Len(p) > 1 /\ p[Len(p)] = <<"any">>
  /\ Len(q) >= Len(p) /\ IsPrefix(Front(p), q) /\ ElementPart(q[Len(p)])
RegionOverlaps(a, b) ==
  \E p \in a, q \in b : IsPrefix(p, q) \/ IsPrefix(q, p) \/ WildcardCovers(p, q) \/ WildcardCovers(q, p)
Extend(region, part) == {Append(p, part) : p \in region}
IndexPart(i) == IF i.k = "lit" /\ i.v[1] = "int" /\ i.v[2] >= 0 THEN <<"index", i.v[2]>> ELSE <<"any">>

RECURSIVE StaticClass(_, _, _), BorrowRegion(_, _, _)
StaticClass(S, E, e) ==
  CASE e.k = "id" -> LookupVar(S, Src(E, e.n)).ty
    [] e.k = "field" -> LET c == StaticClass(S, E, e.o) o == FieldOwners(E.p, c, e.f)
                        IN  IF o = <<>> THEN "" ELSE TypeOfField(E.p, o[1], e.f)
    [] OTHER -> ""

(* borrowRegionForExpr; {} is none.  The code appends a part to the text of *)
(* the last alternative, here it extends each.                              *)
BorrowRegion(S, E, e) ==
  CASE e.k = "id" -> LET name == Src(E, e.n)
                     IN  CASE LookupVar(S, name).own = "owned" -> {<<name>>}
                           [] name \in DOMAIN S.borrows -> S.borrows[name]
                           [] OTHER -> {}
    [] e.k = "index" -> Extend(BorrowRegion(S, E, e.o), IndexPart(e.i))
    [] e.k = "field" -> LET o == FieldOwners(E.p, StaticClass(S, E, e.o), e.f)
                        IN  IF o # <<>> /\ e.f \in E.p.classes[o[1]].owned
                            THEN Extend(BorrowRegion(S, E, e.o), <<"field", e.f>>) ELSE {}
    [] OTHER -> {}

Borrowed(S, region) == \E b \in DOMAIN S.borrows : RegionOverlaps(region, S.borrows[b])
SourceMoved(S, b) == b \in DOMAIN S.borrows /\ \E m \in S.moved : S.borrows[b] = {<<m>>}
Borrow(S, b, region) == [S EXCEPT !.borrows = (b :> region) @@ @]

(* Mutant: what only some branches move does not count as moved.            *)
JoinCertain(S, exits) ==
  [S EXCEPT !.moved = {x \in UNION {T.moved : T \in exits} : \A T \in exits : x \in T.moved},
            !.borrows = [b \in UNION {DOMAIN T.borrows : T \in exits} |->
                           UNION {T.borrows[b] : T \in {T \in exits : b \in DOMAIN T.borrows}}]]

(* joinOwnershipStates *)
Join(S, exits) ==
  [S EXCEPT !.moved = UNION {T.moved : T \in exits},
            !.borrows = [b \in UNION {DOMAIN T.borrows : T \in exits} |->
                           UNION {T.borrows[b] : T \in {T \in exits : b \in DOMAIN T.borrows}}]]

(* validateOwnership *)
OwnershipAllowed(P, ty, own) == own = "gc" \/ (ReferenceLike(P, ty) /\ (own # "borrow" \/ ty # "Task"))

(* Expressions.  A result is the state after, the type and the ownership.   *)
R(S, ty, own) == [s |-> S, ty |-> ty, own |-> own]
Bad(S) == R(Reject(S), "unknown", "gc")
Given(S, c, r) == IF S.ok /\ c THEN r ELSE Bad(S)

RECURSIVE Infer(_, _, _), Check(_, _, _), CheckPattern(_, _, _, _)

InferArguments(S, E, es) ==
  FoldLeft(LAMBDA a, e : LET r == Infer(a.s, E, e) IN [s |-> r.s, tys |-> Append(a.tys, r.ty)], [s |-> S, tys |-> <<>>], es)

InferIdentifier(S, E, n) ==
  LET name == Src(E, n.n) v == LookupVar(S, name)
  IN  Given(S, v.st = n.n /\ name \notin S.moved /\ ~SourceMoved(S, name), R(S, v.ty, v.own))

(* Mutant: a move does not ask whether the variable is borrowed.            *)
InferMoveBorrowed(S, E, n) ==
  LET name == Src(E, n.n) v == LookupVar(S, name)
  IN  Given(S, v.st = n.n /\ name \notin S.moved /\ name \notin DOMAIN S.borrows /\ v.own = "owned",
            R([S EXCEPT !.moved = @ \cup {name}], v.ty, "owned"))

InferMove(S, E, n) ==
  LET name == Src(E, n.n) v == LookupVar(S, name)
  IN  Given(S, /\ v.st = n.n /\ name \notin S.moved /\ name \notin DOMAIN S.borrows
               /\ ~Borrowed(S, {<<name>>}) /\ v.own = "owned",
            R([S EXCEPT !.moved = @ \cup {name}], v.ty, "owned"))

(* What a borrow initialised or assigned from e stands for; {} is an error. *)
BorrowSource(S, E, e) ==
  LET region == BorrowRegion(S, E, e) IN IF region = {} /\ e.k = "id" THEN {<<Src(E, e.n)>>} ELSE region

(* May a value reach a variable of this ownership?                          *)
MayStore(S, E, own, r, e) ==
  CASE own = "owned" -> r.own = "owned" /\ e.k # "id"
    [] own = "borrow" -> BorrowSource(S, E, e) # {}
    [] OTHER -> r.own # "borrow"

(* Whether the target itself was moved from is not looked at.               *)
InferAssign(S, E, n) ==
  LET name == Src(E, n.n)
      v == LookupVar(S, name)
      ty == Widened(v).ty
      r == Infer(S, E, n.e)
      after == IF v.own = "borrow" THEN Borrow(r.s, name, BorrowSource(r.s, E, n.e)) ELSE r.s
  IN  Given(r.s, /\ v.st = n.n /\ ~v.const
                 /\ \A b \in DOMAIN r.s.borrows \ {name} : r.s.borrows[b] # {<<name>>}
                 /\ MayStore(r.s, E, v.own, r, n.e) /\ IsAssignable(E.p, r.ty, ty),
            R(Invalidate(after, {name}), ty, v.own))

InferUnary(S, E, n) ==
  LET r == Infer(S, E, n.e) ty == UnaryResult(n.op, r.ty)
  IN  Given(r.s, ~IsClass(E.p, r.ty) /\ ty # "", R(r.s, ty, "gc"))

TokenOf(n) == IF n.k = "binary" THEN n.op ELSE IF n.op = "and" THEN "&&" ELSE "||"
InferBinary(S, E, n) ==
  LET l == Infer(S, E, n.l)
      r == Infer(l.s, E, n.r)
      op == TokenOf(n)
      ty == IF "unknown" \in {l.ty, r.ty}
            THEN IF op \in {"==", "!=", "<", ">", "<=", ">="} THEN "bool" ELSE "unknown"
            ELSE BinaryResult(op, l.ty, r.ty)
  IN  Given(r.s, (IsClass(E.p, l.ty) => op \in {"==", "!="}) /\ ty # "", R(r.s, ty, "gc"))

(* A call of one of the candidates: arguments first, then resolution, which *)
(* has to end at a declaration that fits, the one the tree names.  The      *)
(* ownership an argument has is not compared with its parameter's.          *)
InferDispatch(S, E, cands, n, ty, fitting) ==
  LET a == InferArguments(S, E, n.as)
      to == ResolveOverload(E.p, cands, a.tys)
  IN  Given(a.s, to # {} /\ to \subseteq fitting, R(a.s, ty, "gc"))
Accessible(E, k) == MayAccess(E, k[1], E.p.funs[k].name)

NameOf(P, c, sig) ==
  LET D == SelectSeq(Ancestry(P, c), LAMBDA d : <<d, sig>> \in DOMAIN P.funs)
  IN  IF D = <<>> THEN "" ELSE P.funs[<<D[1], sig>>].name

(* A callback that runs under a lock takes no argument; its result is the   *)
(* result of the call.  The lock's order among others is left out.          *)
LockCalls == {<<"Mutex", "withLock">>, <<"RwLock", "withRead">>, <<"RwLock", "withWrite">>}
InferLocked(S, E, n) ==
  LET l == Infer(S, E, n.as[1])
      c == Infer(l.s, E, n.as[2])
      lambda == n.as[2].k = "lambda"
      ret == IF lambda THEN E.p.lambdas[n.as[2].id].ret ELSE "unknown"
  IN  Given(c.s, c.ty = "func" /\ n.ty = ret /\ (lambda => E.p.lambdas[n.as[2].id].params = <<>>), R(c.s, n.ty, "gc"))

(* A static method of the class named, else a method of this class, whose   *)
(* access nobody asks about.                                                *)
InferCall(S, E, n) ==
  LET c == IF n.ns = "" THEN E.cls ELSE n.ns
      all == CollectOverloads(E.p, c, NameOf(E.p, c, n.f))
      cands == IF n.ns = "" THEN all ELSE {k \in all : k[1] = c /\ E.p.funs[k].static}
  IN  IF <<n.ns, n.f>> \in LockCalls /\ Len(n.as) = 2 THEN InferLocked(S, E, n)
      ELSE InferDispatch(S, E, cands, n, n.ty, {k \in cands : k[2] = n.f /\ E.p.funs[k].ret = n.ty /\ (n.ns # "" => Accessible(E, k))})

InferValueCall(S, E, n) ==
  LET v == LookupVar(S, Src(E, n.n)) a == InferArguments(S, E, n.as)
  IN  Given(a.s, v.st = n.n /\ v.ty \in {"func", "unknown"}, R(a.s, n.ty, "gc"))

InferNew(S, E, n) ==
  LET c == E.p.classes[n.c]
      r == InferDispatch(S, E, Constructors(E.p, n.c), n, n.c, {<<n.c, n.sig>>})
      a == InferArguments(S, E, n.as)
  IN  Given(S, IsClass(E.p, n.c) /\ ~c.data /\ c.enum = {},
            IF Constructors(E.p, n.c) = {} THEN Given(a.s, n.as = <<>>, R(a.s, n.c, "owned"))
            ELSE [r EXCEPT !.own = "owned"])

(* The fields of a data literal or an update: declared, once each, fitting. *)
InferFields(S, E, c, fs) ==
  FoldLeft(LAMBDA s, f : LET r == Infer(s, E, f[2]) o == FieldOwners(E.p, c, f[1])
                         IN  Require(r.s, r.s.ok /\ o # <<>> /\ IsAssignable(E.p, r.ty, TypeOfField(E.p, o[1], f[1]))),
           Require(S, \A i, j \in DOMAIN fs : fs[i][1] = fs[j][1] => i = j), fs)
InferDataLiteral(S, E, n) ==
  LET s == InferFields(S, E, n.c, n.fs)
      required == UNION {{E.p.classes[d].fields[i][1] : i \in DOMAIN E.p.classes[d].fields} : d \in ToSet(Ancestry(E.p, n.c))}
  IN  Given(S, IsClass(E.p, n.c) /\ E.p.classes[n.c].data,
            Given(s, required \subseteq {n.fs[i][1] : i \in DOMAIN n.fs}, R(s, n.c, "gc")))
InferDataUpdate(S, E, n) ==
  LET o == Infer(S, E, n.o)
  IN  Given(o.s, o.ty = n.c /\ E.p.classes[n.c].data, [o EXCEPT !.s = InferFields(o.s, E, n.c, n.fs)])

(* A field of an object, a static field, an enum member, a named function.  *)
InferFieldAccess(S, E, n) ==
  LET o == Infer(S, E, n.o)
      own == FieldOwners(E.p, o.ty, n.f)
  IN  Given(o.s, own # <<>> /\ TypeOfField(E.p, own[1], n.f) = n.ty /\ MayAccess(E, own[1], n.f), R(o.s, n.ty, "gc"))
StaticsNamed(P, c, f) == SelectSeq(P.statics, LAMBDA d : d.c = c /\ d.n = f)
InferStatic(S, E, n) ==
  LET d == StaticsNamed(E.p, n.c, n.f)
  IN  Given(S, d # <<>> /\ d[1].ty = n.ty /\ MayAccess(E, n.c, n.f), R(S, n.ty, "gc"))
InferEnumMember(S, E, n) == Given(S, IsClass(E.p, n.c) /\ n.m \in E.p.classes[n.c].enum, R(S, n.c, "gc"))
InferFunctionRef(S, E, n) ==
  Given(S, {k \in CollectOverloads(E.p, n.c, NameOf(E.p, n.c, n.sig)) : E.p.funs[k].static} = {<<n.c, n.sig>>}, R(S, "func", "gc"))

InferFieldAssign(S, E, n) ==
  LET o == Infer(S, E, n.o)
      r == Infer(o.s, E, n.e)
      own == FieldOwners(E.p, o.ty, n.f)
      target == Extend(BorrowRegion(r.s, E, n.o), <<"field", n.f>>)
  IN  Given(r.s, /\ own # <<>> /\ ~E.p.classes[o.ty].data /\ MayAccess(E, own[1], n.f)
                 /\ ~Borrowed(r.s, target) /\ IsAssignable(E.p, r.ty, TypeOfField(E.p, own[1], n.f)),
            R(r.s, r.ty, "gc"))
InferStaticAssign(S, E, n) ==
  LET r == Infer(S, E, n.e) d == StaticsNamed(E.p, n.c, n.f)
  IN  Given(r.s, d # <<>> /\ IsAssignable(E.p, r.ty, d[1].ty) /\ MayAccess(E, n.c, n.f), r)

InferIndexAccess(S, E, n) ==
  LET o == Infer(S, E, n.o) i == Infer(o.s, E, n.i)
  IN  Given(i.s, o.ty = "list" /\ i.ty \in {"int", "unknown"}, R(i.s, n.ty, "gc"))

InferCollection(S, E, n) ==
  LET items == IF n.k = "list" THEN n.es ELSE FlattenSeq(n.es)
  IN  R(InferArguments(S, E, items).s, n.ty, "gc")

(* Methods of strings, lists and maps are natives; push, pop and put may    *)
(* move the elements, put at a known index only that one.                   *)
InferMethodCall(S, E, n) ==
  LET o == Infer(S, E, n.o)
      a == InferArguments(o.s, E, n.as)
      base == BorrowRegion(o.s, E, n.o)
      moves == Extend(base, IF n.m = "put" /\ Len(n.as) >= 2 THEN IndexPart(n.as[1]) ELSE <<"any">>)
      cands == CollectOverloads(E.p, o.ty, n.m)
      fitting == {k \in cands : /\ [i \in DOMAIN E.p.funs[k].params |-> E.p.funs[k].params[i].ty] = n.ps
                                 /\ E.p.funs[k].ret = n.ty /\ Accessible(E, k)}
  IN  IF n.on # "object"
      THEN Given(a.s, o.ty = n.on /\ ~(n.on = "list" /\ n.m \in {"push", "pop", "put"} /\ Borrowed(o.s, moves)), R(a.s, n.ty, "gc"))
      ELSE Given(o.s, \A k \in cands : ~E.p.funs[k].static, InferDispatch(o.s, E, cands, n, n.ty, fitting))

InferThis(S, E) == Given(S, ~E.static /\ E.cls # "", R(S, E.cls, "gc"))

(* super(...) is the first statement of a constructor or nothing.           *)
InferSuperCall(S, E, n) ==
  LET s == [S EXCEPT !.superHere = FALSE]
      parent == E.p.classes[E.cls].parent
  IN  Given(s, E.ctor /\ S.superHere /\ parent # "",
            InferDispatch(s, E, Constructors(E.p, parent), n, "void", {<<parent, n.sig>>}))
InferSuperMethod(S, E, n) ==
  LET parent == E.p.classes[E.cls].parent
      cands == CollectOverloads(E.p, parent, NameOf(E.p, parent, n.m))
  IN  InferDispatch(S, E, cands, n, n.ty, {k \in cands : k[2] = n.m /\ E.p.funs[k].ret = n.ty /\ Accessible(E, k)})

(* A closure captures by value, so neither owned nor borrowed variables; it *)
(* leaves the ownership state around it as it found it.                     *)
InferLambda(S, E, n) ==
  LET d == E.p.lambdas[n.id]
      names == {d.params[i].n : i \in DOMAIN d.params}
      captures == FreeNames(E.p, d.body, names)
      F == [E EXCEPT !.ret = d.ret, !.ctor = FALSE]
      inner == FoldLeft(LAMBDA s, p : Define(Require(s, OwnershipAllowed(E.p, p.ty, p.own)), Src(E, p.n), Var(p.n, p.ty, p.own, FALSE)),
                        Invalidate(OpenScope(S), AssignedNames(E, d.body) \ {Src(E, x) : x \in names}), d.params)
      r == Infer(inner, F, d.body)
      body == IF d.expr THEN Require(r.s, IsAssignable(E.p, r.ty, d.ret)) ELSE Check(inner, F, d.body)
  IN  Given(S, /\ captures = ToSet(n.caps)
               /\ \A c \in captures \ {"this"} : LookupVar(S, Src(E, c)).own = "gc"
               /\ body.ok,
            R(S, "func", "gc"))

(* Patterns.  seen collects the boolean literals of every pattern checked;  *)
(* irrefutable says whether the last one matches every value of its type.   *)
Comparable(P, a, b) == IsAssignable(P, a, b) \/ IsAssignable(P, b, a)
IsEnumPattern(p) == p.k = "value" /\ p.v[1] = "enum"
PatternKey(p) ==
  CASE p.k = "wild" -> {<<"wild">>}
    [] p.k = "value" -> {<<IF Numeric(p.ty) THEN "num" ELSE p.ty, p.v[2]>>}
    [] p.k = "type" -> {<<"type", p.ty>>}
    [] OTHER -> {}
Distinct(ps) == \A i, j \in DOMAIN ps : i # j => PatternKey(ps[i]) \cap PatternKey(ps[j]) = {} \/ ps[i].k = "wild"

CheckPattern(M, E, p, ty) ==
  LET bind(n, t) == IF n = "_" THEN M.s ELSE Define(M.s, Src(E, n), Var(n, t, "gc", FALSE))
      ok(c) == [M EXCEPT !.s = Require(@, c), !.irrefutable = FALSE]
      each(m, ps, t) == FoldLeft(LAMBDA x, q : CheckPattern(x, E, q, t), m, ps)
      field(x, f) == LET o == FieldOwners(E.p, p.c, f[1])
                         y == CheckPattern(x, E, f[2], TypeOfField(E.p, o[1], f[1]))
                     IN  IF o = <<>> THEN [x EXCEPT !.s = Reject(@)] ELSE [y EXCEPT !.irrefutable = @ /\ x.irrefutable]
  IN  CASE p.k = "wild" -> [M EXCEPT !.irrefutable = TRUE]
        [] p.k = "var" -> [M EXCEPT !.s = bind(p.n, ty), !.irrefutable = TRUE]
        [] IsEnumPattern(p) -> ok(IsClass(E.p, p.ty) /\ p.v[2] \in E.p.classes[p.ty].enum /\ ty = p.ty)
        [] p.k = "value" -> [ok(Comparable(E.p, p.ty, ty)) EXCEPT !.seen = IF p.ty = "bool" THEN @ \cup {p.v[2]} ELSE @]
        [] p.k = "type" -> [ok(TRUE) EXCEPT !.s = Require(bind(p.n, p.ty), Comparable(E.p, p.ty, ty))]
        [] p.k = "list" ->
             [each(ok(ty = (IF p.set THEN "set" ELSE "list")
                      /\ (p.set => Distinct(p.es) /\ \A i \in DOMAIN p.es : p.es[i].k \in {"value", "wild"})), p.es, "unknown")
              EXCEPT !.irrefutable = FALSE]
        [] p.k = "map" ->
             LET keys == [i \in DOMAIN p.es |-> p.es[i][1]] values == [i \in DOMAIN p.es |-> p.es[i][2]]
             IN  [each(each(ok(ty = "map" /\ Distinct(keys) /\ \A i \in DOMAIN keys : keys[i].k = "value"), keys, "unknown"), values, "unknown")
                  EXCEPT !.irrefutable = FALSE]
        [] p.k = "data" ->
             FoldLeft(field, [ok(IsClass(E.p, p.c) /\ E.p.classes[p.c].data /\ ty = p.c) EXCEPT !.irrefutable = TRUE], p.fs)

(* Does an arm without a guard leave nothing of an alternative t?           *)
Covers(P, p, irrefutable, seen, enums, t) ==
  CASE p.k \in {"wild", "var"} -> TRUE
    [] p.k = "type" -> IF t \in {"nil", "unknown"} THEN p.ty = t ELSE IsAssignable(P, t, p.ty)
    [] p.k = "data" -> irrefutable /\ IsClass(P, t) /\ IsAssignable(P, t, p.c)
    [] IsEnumPattern(p) -> IsClass(P, t) /\ P.classes[t].enum # {} /\ \A m \in P.classes[t].enum : <<t, m>> \in enums
    [] p.k = "value" -> \/ t = "nil" /\ p.ty = "nil"
                        \/ t = "bool" /\ seen = BOOLEAN
    [] OTHER -> FALSE

Alternatives(P, ty) == {ty} \cup IF IsAssignable(P, "nil", ty) THEN {"nil"} ELSE {}
RefinedTo(p) == IF IsEnumPattern(p) THEN p.ty ELSE IF p.k = "type" THEN p.ty ELSE IF p.k = "data" THEN p.c ELSE ""

(* One arm; A carries what earlier arms have covered.  Scopes are those of  *)
(* the fall through from the arm before; what an arm moves stays moved in   *)
(* the next one.                                                            *)
CheckArm(A, E, arm) ==
  LET p == arm.p
      plain == ~Present(arm.guard)
      reachable == /\ A.left # {} /\ ~A.closed
                   /\ plain => /\ PatternKey(p) \cap A.keys = {}
                               /\ p.k = "type" => \A q \in A.prior \ {p.ty} : ~IsSubclassOf(E.p, p.ty, q)
      m == CheckPattern([s |-> OpenScope([A.s EXCEPT !.scopes = A.fall]), seen |-> A.seen, irrefutable |-> FALSE], E, p, A.ty)
      narrowed == IF A.stable /\ RefinedTo(p) # "" THEN Refine(m.s, A.subject, RefinedTo(p)) ELSE m.s
      enums == A.enums \cup IF plain /\ IsEnumPattern(p) THEN {<<p.ty, p.v[2]>>} ELSE {}
      g == IF plain THEN R(narrowed, "bool", "gc") ELSE Infer(narrowed, E, arm.guard)
      r == Infer(g.s, E, arm.e)
  IN  [A EXCEPT !.s = Require(CloseScope(r.s), reachable /\ g.ty \in {"bool", "unknown"}
                                             /\ (A.result = "" \/ (IsAssignable(E.p, r.ty, A.result) /\ IsAssignable(E.p, A.result, r.ty)))),
                !.fall = JoinRefinements(@, {@, CloseScope(g.s).scopes}), !.exits = @ \cup {CloseScope(r.s).scopes},
                !.result = IF @ = "" THEN r.ty ELSE @, !.own = IF A.result = "" THEN r.own ELSE @,
                !.seen = m.seen, !.enums = enums,
                !.keys = IF plain THEN @ \cup PatternKey(p) ELSE @,
                !.prior = IF plain /\ p.k = "type" THEN @ \cup {p.ty} ELSE @,
                !.closed = @ \/ (plain /\ p.k \in {"wild", "var"}),
                !.left = IF plain THEN {t \in @ : ~Covers(E.p, p, m.irrefutable, m.seen, enums, t)} ELSE @,
                !.stable = @ /\ (plain \/ A.subject \notin AssignedNames(E, arm.guard))]

InferMatch(S, E, n) ==
  LET o == Infer(S, E, n.e)
      A == FoldLeft(LAMBDA a, arm : IF a.s.ok THEN CheckArm(a, E, arm) ELSE a,
             [s |-> o.s, ty |-> o.ty, subject |-> IF n.e.k = "id" THEN Src(E, n.e.n) ELSE "", stable |-> n.e.k = "id",
              fall |-> o.s.scopes, exits |-> {}, result |-> "", own |-> "gc", seen |-> {}, enums |-> {}, keys |-> {}, prior |-> {},
              closed |-> FALSE, left |-> Alternatives(E.p, o.ty)], n.arms)
  IN  Given(o.s, n.arms # <<>>,
            Given(A.s, A.left = {} /\ A.result = n.ty, R([A.s EXCEPT !.scopes = JoinRefinements(o.s.scopes, A.exits)], n.ty, A.own)))

(* inferExprInner *)
Infer(S, E, n) ==
  IF ~S.ok THEN Bad(S)
  ELSE CASE n.k = "lit" -> R(S, n.v[1], "gc")
         [] n.k = "id" -> InferIdentifier(S, E, n)
         [] n.k = "this" -> InferThis(S, E)
         [] n.k = "unary" -> InferUnary(S, E, n)
         [] n.k \in {"binary", "logical"} -> InferBinary(S, E, n)
         [] n.k = "assign" -> InferAssign(S, E, n)
         [] n.k = "move" -> InferMove(S, E, n)
         [] n.k = "call" -> InferCall(S, E, n)
         [] n.k = "valueCall" -> InferValueCall(S, E, n)
         [] n.k = "method" -> InferMethodCall(S, E, n)
         [] n.k = "superMethod" -> InferSuperMethod(S, E, n)
         [] n.k = "super" -> InferSuperCall(S, E, n)
         [] n.k = "new" -> InferNew(S, E, n)
         [] n.k = "field" -> InferFieldAccess(S, E, n)
         [] n.k = "static" -> InferStatic(S, E, n)
         [] n.k = "enum" -> InferEnumMember(S, E, n)
         [] n.k = "functionRef" -> InferFunctionRef(S, E, n)
         [] n.k = "fieldSet" -> InferFieldAssign(S, E, n)
         [] n.k = "staticSet" -> InferStaticAssign(S, E, n)
         [] n.k = "index" -> InferIndexAccess(S, E, n)
         [] n.k \in {"list", "map"} -> InferCollection(S, E, n)
         [] n.k = "data" -> InferDataLiteral(S, E, n)
         [] n.k = "with" -> InferDataUpdate(S, E, n)
         [] n.k = "match" -> InferMatch(S, E, n)
         [] n.k = "lambda" -> InferLambda(S, E, n)
         [] n.k = "log" -> R(Infer(S, E, n.e).s, "void", "gc")
         [] OTHER -> Bad(S)

(* Statements *)
CheckVarDecl(S, E, n) ==
  LET name == Src(E, n.n)
      r == IF Present(n.e) THEN Infer(S, E, n.e) ELSE R(S, "nil", "gc")
      after == IF n.own = "borrow" THEN Borrow(r.s, name, BorrowSource(r.s, E, n.e)) ELSE r.s
  IN  IF n.ty # ""
      THEN Define(Require(after, /\ Present(n.e) /\ OwnershipAllowed(E.p, n.ty, n.own)
                                 /\ IsAssignable(E.p, r.ty, n.ty) /\ MayStore(r.s, E, n.own, r, n.e)),
                  name, Var(n.n, n.ty, n.own, n.const))
      ELSE Define(Require(r.s, r.own # "borrow"), name, Var(n.n, r.ty, IF n.e.k = "move" THEN "owned" ELSE "gc", n.const))

(* Does a borrow from before the block lead, through the borrows it goes    *)
(* by, to a variable declared in the block?  Only a source that is one text *)
(* and whose variable is followed by a field or nothing is recognised.      *)
RECURSIVE LeadsInto(_, _, _, _)
LeadsInto(S, declared, region, seen) ==
  /\ Cardinality(region) = 1 /\ region \notin seen
  /\ LET p == CHOOSE q \in region : TRUE
         named == Len(p) = 1 \/ ~ElementPart(p[2])
     IN  /\ named
         /\ \/ p[1] \in declared
            \/ p[1] \in DOMAIN S.borrows /\ LeadsInto(S, declared, S.borrows[p[1]], seen \cup {region})

(* Borrows made in the block end with it, and so do the moves of the names  *)
(* declared in it, by spelling.                                             *)
CheckBlock(S, E, n) ==
  LET declared == {Src(E, n.ss[i].n) : i \in {i \in DOMAIN n.ss : n.ss[i].k = "var"}}
      s == FoldLeft(LAMBDA t, x : Check(t, E, x), OpenScope(S), n.ss)
      old == DOMAIN S.borrows \cap DOMAIN s.borrows
  IN  CloseScope([Require(s, \A b \in old : ~LeadsInto(s, declared, s.borrows[b], {}))
                EXCEPT !.borrows = [b \in old |-> s.borrows[b]],
                       !.moved = @ \ (declared \ S.moved)])

(* Every branch and the else start from the state before the first          *)
(* condition.                                                               *)
CheckIf(S, E, n) ==
  LET branch(a, br) ==
        LET c == Infer([S EXCEPT !.ok = a.ok, !.scopes = a.fall], E, br[1])
            b == Check(c.s, E, br[2])
        IN  [ok |-> b.ok, fall |-> c.s.scopes, exits |-> a.exits \cup {b}]
      A == FoldLeft(branch, [ok |-> S.ok, fall |-> S.scopes, exits |-> {}], n.brs)
      rest == [S EXCEPT !.ok = A.ok, !.scopes = A.fall]
      e == IF Present(n.els) THEN Check(rest, E, n.els) ELSE rest
      exits == A.exits \cup {e}
  IN  [Join(S, exits) EXCEPT !.ok = e.ok, !.scopes = JoinRefinements(S.scopes, {x.scopes : x \in exits})]

CheckReturn(S, E, n) ==
  LET r == IF Present(n.e) THEN Infer(S, E, n.e) ELSE R(S, "nil", "gc")
  IN  Require(r.s, r.own # "borrow" /\ IF E.ret = "void" THEN ~Present(n.e) ELSE IsAssignable(E.p, r.ty, E.ret))

(* A body is checked once, from the state before the first iteration.       *)
CheckFor(S, E, n) ==
  LET a == InferArguments(Invalidate(S, AssignedNames(E, n)), E, <<n.s, n.e, n.st>>)
      ty == IF "double" \in ToSet(a.tys) THEN "double" ELSE "int"
      in == Define(OpenScope(Require(a.s, \A i \in DOMAIN a.tys : Numeric(a.tys[i]))), Src(E, n.n), Var(n.n, ty, "gc", FALSE))
      out == Check(in, E, n.b)
  IN  CloseScope(Join(out, {in, out}))
CheckWhile(S, E, n) ==
  LET in == Infer(Invalidate(S, AssignedNames(E, n)), E, n.c).s
      out == Check(in, E, n.b)
  IN  Join(out, {in, out})
CheckRepeat(S, E, n) == Infer(Check(Invalidate(S, AssignedNames(E, n)), E, n.b), E, n.c).s

(* The handlers are checked one after the other, each from the state the    *)
(* one before it left.                                                      *)
CheckTry(S, E, n) ==
  LET clause(s, i) ==
        LET c == n.cs[i]
            reachable == \A j \in 1..(i - 1) : n.cs[j].ty # "" /\ ~IsSubclassOf(E.p, c.ty, n.cs[j].ty)
            v == Var(c.n, IF c.ty = "" THEN "string" ELSE c.ty, "gc", FALSE)
        IN  CloseScope(Check(Define(OpenScope(Require(s, reachable /\ (c.ty # "" => Catchable(E.p, c.ty)))), Src(E, c.n), v), E, c.b))
      handled == FoldLeft(clause, Check(S, E, n.b), [i \in DOMAIN n.cs |-> i])
  IN  IF Present(n.f) THEN Check(handled, E, n.f) ELSE handled

CheckThrow(S, E, n) == LET r == Infer(S, E, n.e) IN Require(r.s, Catchable(E.p, r.ty))

Check(S, E, n) ==
  IF ~S.ok THEN S
  ELSE CASE n.k = "var" -> CheckVarDecl(S, E, n)
         [] n.k \in {"log", "expr"} -> Infer(S, E, n.e).s
         [] n.k = "if" -> CheckIf(S, E, n)
         [] n.k = "return" -> CheckReturn(S, E, n)
         [] n.k = "for" -> CheckFor(S, E, n)
         [] n.k = "while" -> CheckWhile(S, E, n)
         [] n.k = "repeat" -> CheckRepeat(S, E, n)
         [] n.k = "block" -> CheckBlock(S, E, n)
         [] n.k = "try" -> CheckTry(S, E, n)
         [] n.k = "throw" -> CheckThrow(S, E, n)
         [] OTHER -> S

(* A function: its parameters and the statements of its body in one scope.  *)
(* A constructor without super(...) needs a parent that takes no arguments. *)
CheckFunction(P, k) ==
  LET f == P.funs[k]
      E == [p |-> P, cls |-> k[1], ret |-> f.ret, static |-> f.static, ctor |-> f.name = k[1]]
      start == [ok |-> TRUE, scopes |-> << <<>> >>, moved |-> {}, borrows |-> <<>>, superHere |-> FALSE]
      param(s, p) == LET d == Define(Require(s, OwnershipAllowed(P, p.ty, p.own)), Src(E, p.n), Var(p.n, p.ty, p.own, FALSE))
                     IN  IF p.own = "borrow" THEN Borrow(d, Src(E, p.n), {<<"<borrow-parameter>">>}) ELSE d
      super(i) == E.ctor /\ i = 1 /\ f.body.ss[i].k = "expr" /\ f.body.ss[i].e.k = "super"
      body == FoldLeft(LAMBDA s, i : Check([s EXCEPT !.superHere = super(i)], E, f.body.ss[i]),
                       FoldLeft(param, start, f.params), [i \in DOMAIN f.body.ss |-> i])
      parent == P.classes[k[1]].parent
  IN  /\ body.ok
      /\ E.ctor /\ parent # "" /\ (f.body.ss = <<>> \/ ~super(1)) => \E c \in Constructors(P, parent) : P.funs[c].params = <<>>
      /\ ~E.ctor /\ f.ret # "void" => AlwaysReturns(f.body)

CheckStatic(P, d) ==
  LET E == [p |-> P, cls |-> d.c, ret |-> "void", static |-> TRUE, ctor |-> FALSE]
      r == Infer([ok |-> TRUE, scopes |-> << <<>> >>, moved |-> {}, borrows |-> <<>>, superHere |-> FALSE], E, d.e)
  IN  r.s.ok /\ IsAssignable(P, r.ty, d.ty)

WellTyped(P) == (\A k \in DOMAIN P.funs : CheckFunction(P, k)) /\ (\A i \in DOMAIN P.statics : CheckStatic(P, P.statics[i]))
=============================================================================
