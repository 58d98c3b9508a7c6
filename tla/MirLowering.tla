----------------------------- MODULE MirLowering -----------------------------
(***************************************************************************)
(* Lowering of the checked syntax tree to MIR: src/mir/lowering.cpp.       *)
(*                                                                         *)
(* A lowerer L is the FunctionLowerer's state: the function being built    *)
(* (f), scopes, enclosing loops, active handlers and finalizers, the owned *)
(* slots it believes moved, and whether it gave up.  Lowering an           *)
(* expression yields a lowerer s and an operand v; the operand None means  *)
(* both "void" and "gave up", as in the code.                              *)
(***************************************************************************)
EXTENDS Ast, Mir, OperatorRules

(* The name a type has in the program, as a MIR type.                       *)
FromName(n) ==
  CASE n \in {"double", "float", "decimal"} -> "double"
    [] n \in {"nil", "null"} -> "nil"
    [] OTHER -> n

(* A binding of a name: a slot, a parameter, or a value known by its operand *)
SlotRef(n)  == [k |-> "slot", n |-> n, o |-> None]
ParamRef(n) == [k |-> "param", n |-> n, o |-> None]
ValueRef(o) == [k |-> "value", n |-> 0, o |-> o]
NoRef       == [k |-> "none", n |-> 0, o |-> None]

NewLowerer(P, f, owner, written) ==
  [p |-> P, f |-> f, owner |-> owner, this |-> NoRef, thisType |-> "unknown", scopes |-> << <<>> >>,
   loops |-> <<>>, handlers |-> <<>>, finals |-> <<>>, written |-> written,
   moved |-> {}, failed |-> FALSE]

Ok(s, v) == [s |-> s, v |-> v]

Unsupported(L) ==
  Ok([L EXCEPT !.failed = TRUE, !.f.incomplete = TRUE], None)

(* newBlock: a block starts under the handlers active where it is created.  *)
WithBlock(L) == [L EXCEPT !.f = AddBlock(@, "normal", L.handlers)]
WithBlocks(L, n) == [L EXCEPT !.f.blocks = @ \o [i \in 1 .. n |-> Block("normal", L.handlers)]]
LastBlock(L) == Len(L.f.blocks)
Goto(L, b) == [L EXCEPT !.f.cur = b]
IsDead(L) == L.f.blocks[L.f.cur].term.k # "none"

Do(L, op, args, slot, tgt) == [L EXCEPT !.f = Emit(@, op, args, slot, tgt)]
Get(L, op, args, slot, tgt, ty) ==
  Ok([L EXCEPT !.f = EmitValue(@, op, args, slot, tgt, ty)], Temp(L.f.temps + 1, ty))
End(L, t) == [L EXCEPT !.f = SetTerm(@, t)]
EndIfAlive(L, t) == IF IsDead(L) THEN L ELSE End(L, t)

WithSlot(L, name, ty, mut, own) == [L EXCEPT !.f = AddSlot(@, name, ty, mut, own)]
LastSlot(L) == Len(L.f.slots)

PushScope(L) == [L EXCEPT !.scopes = Append(@, <<>>)]
Bind(L, n, r) == [L EXCEPT !.scopes[Len(L.scopes)] = (n :> r) @@ @]

(* lookupLocal: the innermost scope that binds the name.                    *)
Lookup(L, n) ==
  LET D == {i \in DOMAIN L.scopes : n \in DOMAIN L.scopes[i]}
  IN  IF D = {} THEN NoRef ELSE L.scopes[Max(D)][n]

(* Leaving scopes from a depth on ends the borrows bound in them, in the    *)
(* order of their slots.                                                    *)
EndBorrowsFrom(L, depth) ==
  LET bound == {s \in 1 .. Len(L.f.slots) :
                  /\ L.f.slots[s].own = "borrow"
                  /\ \E i \in depth .. Len(L.scopes) : \E n \in DOMAIN L.scopes[i] :
                        L.scopes[i][n].k = "slot" /\ L.scopes[i][n].n = s}
  IN  IF IsDead(L) THEN L
      ELSE FoldLeft(LAMBDA M, s : Do(M, "EndBorrow", <<>>, s, ""), L, Sorted(bound))

PopScope(L) == [EndBorrowsFrom(L, Len(L.scopes)) EXCEPT !.scopes = Front(@)]

(* How a bound name is read: a slot is loaded, the rest is an operand.      *)
ReadRef(L, r) ==
  CASE r.k = "param" -> Ok(L, Param(r.n, L.f.params[r.n].ty))
    [] r.k = "value" -> Ok(L, r.o)
    [] OTHER -> Get(L, "Load", <<>>, r.n, "", L.f.slots[r.n].ty)

This(L) == IF L.this.k = "none" THEN Unsupported(L) ELSE ReadRef(L, L.this)

(* tokensBoundHere: a class name without a layout is a type parameter of    *)
(* another function and names nothing here.                                 *)
TokensBound(L, ty) == ty \in PrimitiveTypes \/ ty \in DOMAIN L.p.classes

(* coerce: int widens, a dynamic value is checked against the type it is    *)
(* used at, anything else passes unchanged.                                 *)
Coerce(L, o, ty) ==
  CASE IsNone(o) \/ o.ty = ty -> Ok(L, o)
    [] o.ty = "int" /\ ty = "double" -> Get(L, "Widen", <<o>>, 0, "", "double")
    [] o.ty = "unknown" /\ ty \notin {"unknown", "void"} /\ TokensBound(L, ty) ->
         Get(L, "Refine", <<o>>, 0, ty, ty)
    [] OTHER -> Ok(L, o)

AsCondition(L, o) ==
  CASE IsNone(o) \/ o.ty = "bool" -> Ok(L, o)
    [] o.ty = "unknown" -> Get(L, "Refine", <<o>>, 0, "bool", "bool")
    [] OTHER -> Unsupported(L)

(* refineArguments: an int passed for a double parameter is widened.        *)
RefineArguments(L, as, params) ==
  FoldLeft(LAMBDA acc, i :
             IF i <= Len(params) /\ as[i].ty = "int" /\ params[i].ty = "double"
             THEN LET w == Get(acc.s, "Widen", <<as[i]>>, 0, "", "double")
                  IN  Ok(w.s, Append(acc.v, w.v))
             ELSE Ok(acc.s, Append(acc.v, as[i])),
           Ok(L, <<>>), [i \in 1 .. Len(as) |-> i])

(* lookupFunction: a signature is looked up in the class named, then in the *)
(* parents of the class being lowered.                                      *)
RECURSIVE InClassOrParents(_, _, _)
InClassOrParents(P, c, sig) ==
  CASE c = "" -> <<>>
    [] <<c, sig>> \in DOMAIN P.funs -> <<c, sig>>
    [] c \notin DOMAIN P.classes -> <<>>
    [] OTHER -> InClassOrParents(P, P.classes[c].parent, sig)

LookupFunction(L, c, sig) ==
  IF <<c, sig>> \in DOMAIN L.p.funs THEN <<c, sig>>
  ELSE IF L.owner \in DOMAIN L.p.classes
       THEN InClassOrParents(L.p, L.p.classes[L.owner].parent, sig) ELSE <<>>

ParamsOf(P, key) ==
  LET fn == P.funs[key]
  IN  (IF fn.static THEN <<>> ELSE <<FParam("this", key[1], "gc")>>) \o fn.params

(* The fields of a class with those it inherits, nearest declaration first. *)
RECURSIVE FieldsOf(_, _, _)
FieldsOf(P, c, seen) ==
  IF c \notin DOMAIN P.classes THEN <<>>
  ELSE LET own == SelectSeq(P.classes[c].fields, LAMBDA x : x[1] \notin seen)
       IN  own \o FieldsOf(P, P.classes[c].parent, seen \cup {own[i][1] : i \in DOMAIN own})

FieldType(P, c, f) ==
  LET fs == FieldsOf(P, c, {})
  IN  IF \E i \in DOMAIN fs : fs[i][1] = f
      THEN fs[CHOOSE i \in DOMAIN fs : fs[i][1] = f][2] ELSE "unknown"

(* concurrencyNativeCall: the natives with an operation of their own, the   *)
(* number of arguments they take and the type of the result ("same": the    *)
(* type the checker recorded, no result if that is void).                   *)
ConcurrencyOps ==
  [q \in {"Task.spawn", "Thread.start", "Thread.join", "Thread.isAlive", "Mutex.withLock",
          "RwLock.withRead", "RwLock.withWrite", "Atomic.load", "Atomic.store", "Atomic.add",
          "Atomic.loadBool", "Atomic.storeBool", "Atomic.loadDouble", "Atomic.storeDouble",
          "Atomic.loadRef", "Atomic.storeRef", "Semaphore.acquire", "Semaphore.release",
          "Semaphore.available", "Semaphore.setPermits", "Semaphore.tryAcquire",
          "Semaphore.releaseMany", "Condition.wait", "Condition.notifyOne", "Condition.notifyAll",
          "Condition.waitFor", "Channel.create", "Channel.send", "Channel.receive", "Channel.size",
          "Channel.sendAsync", "Channel.receiveAsync"} |->
     CASE q = "Task.spawn"           -> <<"TaskSpawn", 1, "Task">>
       [] q = "Thread.start"         -> <<"ThreadStart", 1, "Thread">>
       [] q = "Thread.join"          -> <<"ThreadJoin", 1, "void">>
       [] q = "Thread.isAlive"       -> <<"ThreadIsAlive", 1, "bool">>
       [] q = "Mutex.withLock"       -> <<"MutexWithLock", 2, "same">>
       [] q = "RwLock.withRead"      -> <<"RwLockWithRead", 2, "same">>
       [] q = "RwLock.withWrite"     -> <<"RwLockWithWrite", 2, "same">>
       [] q = "Atomic.load"          -> <<"AtomicLoad", 1, "int">>
       [] q = "Atomic.store"         -> <<"AtomicStore", 2, "void">>
       [] q = "Atomic.add"           -> <<"AtomicAdd", 2, "int">>
       [] q = "Atomic.loadBool"      -> <<"AtomicLoadBool", 1, "bool">>
       [] q = "Atomic.storeBool"     -> <<"AtomicStoreBool", 2, "void">>
       [] q = "Atomic.loadDouble"    -> <<"AtomicLoadDouble", 1, "double">>
       [] q = "Atomic.storeDouble"   -> <<"AtomicStoreDouble", 2, "void">>
       [] q = "Atomic.loadRef"       -> <<"AtomicLoadRef", 1, "same">>
       [] q = "Atomic.storeRef"      -> <<"AtomicStoreRef", 2, "void">>
       [] q = "Semaphore.acquire"    -> <<"SemaphoreAcquire", 1, "void">>
       [] q = "Semaphore.release"    -> <<"SemaphoreRelease", 1, "void">>
       [] q = "Semaphore.available"  -> <<"SemaphoreAvailable", 1, "int">>
       [] q = "Semaphore.setPermits" -> <<"SemaphoreSetPermits", 2, "void">>
       [] q = "Semaphore.tryAcquire" -> <<"SemaphoreTryAcquire", 1, "bool">>
       [] q = "Semaphore.releaseMany" -> <<"SemaphoreReleaseMany", 2, "void">>
       [] q = "Condition.wait"       -> <<"ConditionWait", 1, "void">>
       [] q = "Condition.notifyOne"  -> <<"ConditionNotifyOne", 1, "void">>
       [] q = "Condition.notifyAll"  -> <<"ConditionNotifyAll", 1, "void">>
       [] q = "Condition.waitFor"    -> <<"ConditionWaitFor", 2, "bool">>
       [] q = "Channel.create"       -> <<"ChannelCreate", 1, "Channel">>
       [] q = "Channel.send"         -> <<"ChannelSend", 2, "void">>
       [] q = "Channel.receive"      -> <<"ChannelReceive", 1, "same">>
       [] q = "Channel.size"         -> <<"ChannelSize", 1, "int">>
       [] q = "Channel.sendAsync"    -> <<"ChannelSendAsync", 2, "Task">>
       [] q = "Channel.receiveAsync" -> <<"ChannelReceiveAsync", 1, "Task">>]

(* The Task and Shared methods with an operation of their own.              *)
MethodOps ==
  [m \in {"Task.block", "Task.ignore", "Task.cancel", "Shared.get", "Shared.setValue", "Shared.withLock"} |->
     CASE m = "Task.block"      -> <<"TaskBlock", 0, "same">>
       [] m = "Task.ignore"     -> <<"TaskIgnore", 0, "void">>
       [] m = "Task.cancel"     -> <<"TaskCancel", 0, "void">>
       [] m = "Shared.get"      -> <<"SharedGet", 0, "same">>
       [] m = "Shared.setValue" -> <<"SharedSet", 1, "void">>
       [] m = "Shared.withLock" -> <<"SharedWithLock", 1, "same">>]

(* An instruction with the recorded result type, or none if that is void.   *)
CallOrVoid(L, op, as, tgt, ty) ==
  IF ty = "void" THEN Ok(Do(L, op, as, 0, tgt), None) ELSE Get(L, op, as, 0, tgt, ty)

TableCall(L, row, as, ty) ==
  CallOrVoid(L, row[1], as, "", IF row[3] = "same" THEN ty ELSE row[3])

BinaryOpcode ==
  [op \in {"+", "-", "*", "/", "%", "^^", "&", "|", "^", "<<", ">>", ">>>", "==", "!=", "<", "<=", ">", ">="} |->
     CASE op = "+" -> "Add" [] op = "-" -> "Sub" [] op = "*" -> "Mul" [] op = "/" -> "Div"
       [] op = "%" -> "Mod" [] op = "^^" -> "Pow" [] op = "&" -> "BitAnd" [] op = "|" -> "BitOr"
       [] op = "^" -> "BitXor" [] op = "<<" -> "Shl" [] op = ">>" -> "Shr" [] op = ">>>" -> "Ushr"
       [] op = "==" -> "Eq" [] op = "!=" -> "Ne" [] op = "<" -> "Lt" [] op = "<=" -> "Le"
       [] op = ">" -> "Gt" [] op = ">=" -> "Ge"]

RECURSIVE Expr(_, _), Exprs(_, _), Stmt(_, _), MatchPattern(_, _, _, _, _), MatchArms(_, _, _, _, _, _, _, _)

(* Arguments from left to right; the first that yields nothing ends it.     *)
Exprs(L, ns) ==
  IF ns = <<>> THEN [s |-> L, v |-> <<>>, ok |-> TRUE]
  ELSE LET h == Expr(L, Head(ns))
       IN  IF IsNone(h.v) THEN [s |-> h.s, v |-> <<>>, ok |-> FALSE]
           ELSE LET t == Exprs(h.s, Tail(ns)) IN [t EXCEPT !.v = <<h.v>> \o @]

UnaryExpr(L, n) ==
  LET e == Expr(L, n.e)
  IN  CASE IsNone(e.v) -> e
        [] n.op = "+" -> e
        [] n.op = "-" -> IF UnaryResult("-", e.v.ty) = "" THEN Unsupported(e.s)
                         ELSE Get(e.s, "Neg", <<e.v>>, 0, "", e.v.ty)
        [] n.op = "!" -> Get(e.s, "Not", <<e.v>>, 0, "", "bool")
        [] n.op = "~" -> Get(e.s, "BitNot", <<e.v>>, 0, "", "int")

(* An operator on unknown operands keeps the type recorded for the node,    *)
(* which is unknown too; known operands are widened to the result's type.   *)
BinaryExpr(L, n) ==
  LET l == Expr(L, n.l)
      r == IF IsNone(l.v) THEN l ELSE Expr(l.s, n.r)
      ty == BinaryResult(n.op, l.v.ty, r.v.ty)
      cl == IF l.v.ty = "unknown" THEN Ok(r.s, l.v) ELSE Coerce(r.s, l.v, ty)
      cr == IF r.v.ty = "unknown" THEN Ok(cl.s, r.v) ELSE Coerce(cl.s, r.v, ty)
  IN  CASE IsNone(l.v) \/ IsNone(r.v) -> Ok(r.s, None)
        [] ty = "" /\ "unknown" \notin {l.v.ty, r.v.ty} -> Unsupported(r.s)
        [] ty = "" -> Get(r.s, BinaryOpcode[n.op], <<l.v, r.v>>, 0, "", "unknown")
        [] OTHER -> Get(cr.s, BinaryOpcode[n.op], <<cl.v, cr.v>>, 0, "", ty)

(* && and ||: the result travels through a slot, written with the short-    *)
(* circuit value before the right operand is evaluated.                     *)
LogicalExpr(L, n) ==
  LET e  == Expr(L, n.l)
      c  == AsCondition(e.s, e.v)
      S  == Do(WithSlot(c.s, "__logical", "bool", TRUE, "gc"), "Store",
               <<Const(<<"bool", n.op = "or">>, "bool")>>, LastSlot(c.s) + 1, "")
      B  == WithBlocks(S, 3)
      rhs == LastBlock(S) + 1
      short == LastBlock(S) + 2
      join == LastBlock(S) + 3
      br == End(B, IF n.op = "and" THEN Branch(c.v, rhs, short) ELSE Branch(c.v, short, rhs))
      sh == End(Goto(br, short), Jump(join))
      e2 == Expr(Goto(sh, rhs), n.r)
      c2 == AsCondition(e2.s, e2.v)
      st == End(Do(c2.s, "Store", <<c2.v>>, LastSlot(S), ""), Jump(join))
  IN  CASE IsNone(c.v) -> c
        [] IsNone(c2.v) -> c2
        [] OTHER -> Get(Goto(st, join), "Load", <<>>, LastSlot(S), "", "bool")

AssignExpr(L, n) ==
  LET r == Lookup(L, n.n)
      e == Expr(L, n.e)
      c == Coerce(e.s, e.v, L.f.slots[r.n].ty)
  IN  CASE r.k # "slot" -> Unsupported(L)
        [] IsNone(e.v) -> e
        [] OTHER -> Ok([Do(c.s, "Store", <<c.v>>, r.n, "") EXCEPT !.moved = @ \ {r.n}], c.v)

MoveExpr(L, n) ==
  LET r == Lookup(L, n.n)
  IN  IF r.k # "slot" THEN Unsupported(L)
      ELSE Get([L EXCEPT !.moved = @ \cup {r.n}], "Move", <<>>, r.n, "", L.f.slots[r.n].ty)

(* call: a function value; a native, with or without an operation of its    *)
(* own; or a function of the program.                                       *)
CallExpr(L, n) ==
  LET a   == Exprs(L, n.as)
      q   == IF n.ns = "" THEN n.f ELSE n.ns \o "." \o n.f
      row == ConcurrencyOps[q]
      key == LookupFunction(a.s, IF n.ns = "" THEN L.owner ELSE n.ns, n.f)
      fn  == L.p.funs[key]
      this == IF fn.static THEN Ok(a.s, None) ELSE This(a.s)
      ps  == ParamsOf(L.p, key)
      r   == RefineArguments(this.s, (IF fn.static THEN <<>> ELSE <<this.v>>) \o a.v, ps)
  IN  CASE ~a.ok -> Ok(a.s, None)
        [] q \in DOMAIN ConcurrencyOps /\ row[2] = Len(n.as) -> TableCall(a.s, row, a.v, n.ty)
        [] q = "share" /\ Len(n.as) = 1 -> Get(a.s, "SharedCreate", a.v, 0, "", n.ty)
        [] q \in L.p.natives -> CallOrVoid(a.s, "CallNative", a.v, q, n.ty)
        [] key = <<>> -> Unsupported(a.s)
        [] ~fn.static /\ IsNone(this.v) -> this
        [] OTHER -> CallOrVoid(r.s, IF n.ns = "" THEN "Call" ELSE "InvokeStatic", r.v, key, n.ty)

ValueCallExpr(L, n) ==
  LET r == Lookup(L, n.n)
      c == ReadRef(L, r)
      a == Exprs(c.s, n.as)
  IN  CASE r.k = "none" -> Unsupported(L)
        [] ~a.ok -> Ok(a.s, None)
        [] OTHER -> CallOrVoid(a.s, "CallIndirect", <<c.v>> \o a.v, "", n.ty)

MethodCallExpr(L, n) ==
  LET o == Expr(L, n.o)
      a == Exprs(o.s, n.as)
      q == o.v.ty \o "." \o n.m
  IN  CASE IsNone(o.v) -> o
        [] ~a.ok -> Ok(a.s, None)
        [] q \in DOMAIN MethodOps /\ MethodOps[q][2] = Len(n.as) ->
             TableCall(a.s, MethodOps[q], <<o.v>> \o a.v, n.ty)
        [] o.v.ty = "string" -> CallOrVoid(a.s, "CallNative", <<o.v>> \o a.v, q, n.ty)
        [] o.v.ty = "unknown" -> Unsupported(a.s)
        [] OTHER -> CallOrVoid(a.s, "InvokeMethod", <<o.v>> \o a.v, <<o.v.ty, n.m>>, n.ty)

SuperMethodCallExpr(L, n) ==
  LET t == This(L)
      a == Exprs(t.s, n.as)
      parent == IF L.owner \in DOMAIN L.p.classes THEN L.p.classes[L.owner].parent ELSE L.owner
      key == LookupFunction(a.s, parent, n.m)
      r == RefineArguments(a.s, a.v, Tail(ParamsOf(L.p, key)))
  IN  CASE IsNone(t.v) -> t
        [] ~a.ok -> Ok(a.s, None)
        [] key = <<>> -> Unsupported(a.s)
        [] OTHER -> CallOrVoid(r.s, "InvokeSuper", <<t.v>> \o r.v, key, n.ty)

SuperCallExpr(L, n) ==
  LET t == This(L)
      a == Exprs(t.s, n.as)
      key == <<L.p.classes[L.owner].parent, n.sig>>
  IN  CASE IsNone(t.v) -> t
        [] ~a.ok -> Ok(a.s, None)
        [] key \notin DOMAIN L.p.funs -> Unsupported(a.s)
        [] OTHER -> Ok(Do(a.s, "Call", <<t.v>> \o a.v, 0, key), None)

(* new: arguments first, then the allocation, then the constructor.         *)
NewExpr(L, n) ==
  LET a == Exprs(L, n.as)
      o == Get(a.s, "Alloc", <<>>, 0, n.c, n.c)
      key == LookupFunction(o.s, n.c, n.sig)
      r == RefineArguments(o.s, <<o.v>> \o a.v, ParamsOf(L.p, key))
  IN  CASE ~a.ok -> Ok(a.s, None)
        [] key # <<>> -> Ok(Do(r.s, "Call", r.v, 0, key), o.v)
        [] n.as # <<>> -> Unsupported(o.s)
        [] OTHER -> o

(* Stores of named fields into a fresh object, in the order written.        *)
RECURSIVE StoreFields(_, _, _, _)
StoreFields(L, o, c, fs) ==
  IF fs = <<>> THEN Ok(L, o)
  ELSE LET e == Expr(L, Head(fs)[2])
           v == Coerce(e.s, e.v, FieldType(L.p, c, Head(fs)[1]))
       IN  IF IsNone(e.v) THEN e
           ELSE StoreFields(Do(v.s, "FieldStore", <<o, v.v>>, 0, Head(fs)[1]), o, c, Tail(fs))

DataLiteral(L, n) ==
  LET o == Get(L, "Alloc", <<>>, 0, n.c, n.c) IN StoreFields(o.s, o.v, n.c, n.fs)

(* with: the base is read once, every field is copied, then replaced.       *)
DataUpdate(L, n) ==
  LET b == Expr(L, n.o)
      o == Get(b.s, "Alloc", <<>>, 0, n.c, n.c)
      copied == FoldLeft(LAMBDA M, x : LET v == Get(M, "FieldLoad", <<b.v>>, 0, x[1], x[2])
                                       IN  Do(v.s, "FieldStore", <<o.v, v.v>>, 0, x[1]),
                         o.s, FieldsOf(L.p, n.c, {}))
  IN  CASE IsNone(b.v) -> b
        [] n.c \notin DOMAIN L.p.classes -> Unsupported(b.s)
        [] OTHER -> StoreFields(copied, o.v, n.c, n.fs)

(* Field and static access; the value of an assignment is evaluated before  *)
(* the object it is stored into.                                            *)
FieldExpr(L, n) ==
  LET o == Expr(L, n.o)
      e == Expr(L, n.e)
      b == Expr(e.s, n.o)
      v == Coerce(b.s, e.v, FieldType(L.p, b.v.ty, n.f))
      t == LET D == {i \in DOMAIN L.p.statics : L.p.statics[i].n = n.f}
           IN  IF D = {} THEN Ok(e.s, e.v) ELSE Coerce(e.s, e.v, L.p.statics[Min(D)].ty)
      key == InClassOrParents(L.p, n.c, n.sig)
  IN  CASE n.k = "enum" -> Ok(L, Const(<<"enum", n.m>>, n.c))
        [] n.k = "functionRef" -> IF key = <<>> THEN Unsupported(L) ELSE Get(L, "MakeClosure", <<>>, 0, key, n.ty)
        [] n.k = "static" -> Get(L, "StaticLoad", <<>>, 0, <<n.c, n.f>>, n.ty)
        [] n.k = "staticSet" -> IF IsNone(e.v) THEN e ELSE Ok(Do(t.s, "StaticStore", <<t.v>>, 0, <<n.c, n.f>>), t.v)
        [] n.k = "field" -> IF IsNone(o.v) THEN o ELSE Get(o.s, "FieldLoad", <<o.v>>, 0, n.f, n.ty)
        [] n.k = "fieldSet" -> IF IsNone(e.v) \/ IsNone(b.v) THEN Ok(b.s, None)
                               ELSE Ok(Do(v.s, "FieldStore", <<b.v, v.v>>, 0, n.f), v.v)

IndexExpr(L, n) ==
  LET a == Exprs(L, <<n.o, n.i>>)
  IN  IF ~a.ok THEN Ok(a.s, None) ELSE Get(a.s, "IndexLoad", a.v, 0, "", n.ty)

(* Collection literals: elements are stored one by one, then the contract   *)
(* of the element type is pinned on the finished collection.                *)
RECURSIVE StoreElements(_, _, _, _, _, _)
StoreElements(L, o, es, kt, vt, i) ==
  IF i > Len(es) THEN Get(L, "Refine", <<o>>, 0, o.ty, o.ty)
  ELSE LET a == Exprs(L, es[i])
           k == IF Len(es[i]) = 2 THEN Coerce(a.s, a.v[1], kt) ELSE Ok(a.s, Const(<<"int", i - 1>>, "int"))
           v == Coerce(k.s, Last(a.v), vt)
       IN  IF ~a.ok THEN Ok(a.s, None)
           ELSE StoreElements(Do(v.s, "IndexStore", <<o, k.v, v.v>>, 0, ""), o, es, kt, vt, i + 1)

CollectionLiteral(L, n) ==
  LET ty == IF n.ty \in {"list", "set", "map", "array"} THEN n.ty ELSE n.k
      o  == Get(L, "NewCollection", <<>>, 0, ty, ty)
  IN  IF n.k = "map" THEN StoreElements(o.s, o.v, n.es, n.key, n.val, 1)
      ELSE StoreElements(o.s, o.v, [i \in DOMAIN n.es |-> <<n.es[i]>>], "", n.elem, 1)

AwaitExpr(L, n) ==
  LET e == Expr(L, n.e) IN IF IsNone(e.v) THEN e ELSE CallOrVoid(e.s, "Await", <<e.v>>, "", n.ty)

(* A closure captures the values its names have now.                        *)
LambdaExpr(L, n) ==
  LET c == FoldLeft(LAMBDA acc, x : LET r == ReadRef(acc.s, Lookup(L, x)) IN Ok(r.s, Append(acc.v, r.v)),
                    Ok(L, <<>>), n.caps)
  IN  IF n.id \notin DOMAIN L.p.lambdas \/ \E i \in DOMAIN n.caps : Lookup(L, n.caps[i]).k = "none"
      THEN Unsupported(L)
      ELSE Get(c.s, "MakeClosure", c.v, 0, <<"$lambda", n.id>>, n.ty)

(* bindPatternBinding *)
BindPattern(L, n, o) ==
  CASE n \in {"", "_"} -> L
    [] n \in L.written -> Bind(Do(WithSlot(L, n, o.ty, TRUE, "gc"), "Store", <<o>>, LastSlot(L) + 1, ""),
                               n, SlotRef(LastSlot(L) + 1))
    [] OTHER -> Bind(L, n, ValueRef(o))

(* Branch to a new block if the test holds, else to fail; go on there.      *)
TestThen(L, o, fail) ==
  LET B == WithBlock(L) IN Goto(End(B, Branch(o, LastBlock(B), fail)), LastBlock(B))
CheckedThen(r, fail) == TestThen(r.s, r.v, fail)

(* Sub-patterns, each on a value read from the subject and each leading to  *)
(* a block of its own.                                                      *)
RECURSIVE SubPatterns(_, _, _)
SubPatterns(L, subs, fail) ==
  IF subs = <<>> THEN L
  ELSE LET x == Head(subs)
           h == IF IsNone(x.has) THEN L
                ELSE CheckedThen(Get(L, "CallNative", <<x.args[1], x.has>>, 0,
                                     IF x.op = "" THEN "Collection.setHas" ELSE "Collection.mapHas", "bool"), fail)
           v == Get(h, x.op, x.args, 0, x.tgt, x.ty)
           B == WithBlock(v.s)
           m == MatchPattern(B, x.p, v.v, LastBlock(B), fail)
       IN  IF x.p.k = "absent" THEN SubPatterns(h, Tail(subs), fail)
           ELSE SubPatterns(Goto(m, LastBlock(B)), Tail(subs), fail)

Sub(op, args, tgt, ty, has, p) == [op |-> op, args |-> args, tgt |-> tgt, ty |-> ty, has |-> has, p |-> p]

SameLength(L, o, n, fail) ==
  LET l == Get(L, "CallNative", <<o>>, 0, "Collection.length", "int")
  IN  CheckedThen(Get(l.s, "Eq", <<l.v, Const(<<"int", n>>, "int")>>, 0, "", "bool"), fail)

(* lowerMatchPattern: control reaches ok iff the pattern matches the value. *)
MatchPattern(L, p, o, ok, fail) ==
  LET T(ty) == CheckedThen(Get(L, "TypeTest", <<o>>, 0, ty, "bool"), fail)
      lit(q) == Const(q.v, q.ty)
      done ==
        CASE p.k = "wild" -> L
          [] p.k = "var" -> BindPattern(L, p.n, o)
          [] p.k = "value" -> CheckedThen(Get(L, "Eq", <<o, lit(p)>>, 0, "", "bool"), fail)
          [] p.k = "type" ->
               LET M == T(p.ty)
                   r == IF p.ty = o.ty THEN Ok(M, o) ELSE Get(M, "Refine", <<o>>, 0, p.ty, p.ty)
               IN  IF p.n \in {"", "_"} THEN M ELSE BindPattern(r.s, p.n, r.v)
          [] p.k = "data" ->
               SubPatterns(T(p.c), [i \in DOMAIN p.fs |-> Sub("FieldLoad", <<o>>, p.fs[i][1],
                                       FieldType(L.p, p.c, p.fs[i][1]), None, p.fs[i][2])], fail)
          [] p.k = "list" ->
               SubPatterns(SameLength(L, o, Len(p.es), fail),
                           IF p.set
                           THEN LET vs == SelectSeq(p.es, LAMBDA q : q.k = "value")
                                IN  [i \in DOMAIN vs |-> Sub("", <<o>>, "", "", lit(vs[i]), Absent)]
                           ELSE [i \in DOMAIN p.es |->
                                   Sub("IndexLoad", <<o, Const(<<"int", i - 1>>, "int")>>, "", "unknown", None, p.es[i])],
                           fail)
          [] p.k = "map" ->
               SubPatterns(SameLength(L, o, Len(p.es), fail),
                           [i \in DOMAIN p.es |-> Sub("IndexLoad", <<o, lit(p.es[i][1])>>, "", "unknown",
                                                      lit(p.es[i][1]), p.es[i][2])], fail)
  IN  End(done, Jump(ok))

(* The arms in turn: pattern, guard, body; an arm that does not match leads *)
(* to the next one, the last to the block that throws.                      *)
MatchArms(L, n, o, i, test, join, none, slot) ==
  LET arm  == n.arms[i]
      last == i = Len(n.arms)
      B    == WithBlocks(PushScope(L), 1 + (IF last THEN 0 ELSE 1) + (IF Present(arm.guard) THEN 1 ELSE 0))
      body == LastBlock(L) + 1
      following == IF last THEN none ELSE LastBlock(L) + 2
      guarded   == LastBlock(B)
      M == MatchPattern(Goto(B, test), arm.p, o, IF Present(arm.guard) THEN guarded ELSE body, following)
      ty == CASE arm.p.k = "type" -> arm.p.ty [] arm.p.k = "data" -> arm.p.c [] OTHER -> o.ty
      N == IF n.e.k = "id" /\ ty # o.ty
           THEN LET r == Get(M, "Refine", <<o>>, 0, ty, ty) IN Bind(r.s, n.e.n, ValueRef(r.v)) ELSE M
      ge == Expr(Goto(N, guarded), arm.guard)
      gc == AsCondition(ge.s, ge.v)
      G == IF Present(arm.guard) THEN End(gc.s, Branch(gc.v, body, following)) ELSE N
      e == Expr(Goto(G, body), arm.e)
      c == Coerce(e.s, e.v, n.ty)
      S == IF n.ty = "void" THEN e.s ELSE Do(c.s, "Store", <<c.v>>, slot, "")
      next == Goto(PopScope(End(S, Jump(join))), following)
  IN  IF G.failed \/ e.s.failed \/ (n.ty # "void" /\ IsNone(e.v)) THEN [PopScope(e.s) EXCEPT !.failed = TRUE]
      ELSE IF last THEN next ELSE MatchArms(next, n, o, i + 1, following, join, none, slot)

MatchExpr(L, n) ==
  LET e == Expr(L, n.e)
      S == IF n.ty = "void" THEN e.s ELSE WithSlot(e.s, "__match", n.ty, TRUE, "gc")
      slot == LastSlot(S)
      B == WithBlocks(S, 3)
      join == LastBlock(S) + 1
      none == LastBlock(S) + 2
      test == LastBlock(S) + 3
      A == MatchArms(End(B, Jump(test)), n, e.v, 1, test, join, none, slot)
      x == Get(A, "Alloc", <<>>, 0, "Exception", "Exception")
      T == Goto(End(x.s, Throw(x.v)), join)
  IN  CASE IsNone(e.v) -> e
        [] A.failed -> Ok(A, None)
        [] n.ty = "void" -> Ok(T, Const(Nil, "void"))
        [] OTHER -> Get(T, "Load", <<>>, slot, "", n.ty)

(* expression: nothing is lowered once a construct was found unsupported.   *)
Expr(L, n) ==
  IF L.failed \/ ~Present(n) THEN Unsupported(L)
  ELSE CASE n.k = "lit" -> Ok(L, Const(n.v, n.ty))
         [] n.k = "id" -> IF Lookup(L, n.n).k = "none" THEN Unsupported(L) ELSE ReadRef(L, Lookup(L, n.n))
         [] n.k = "this" -> This(L)
         [] n.k = "unary" -> UnaryExpr(L, n)
         [] n.k = "binary" -> BinaryExpr(L, n)
         [] n.k = "logical" -> LogicalExpr(L, n)
         [] n.k = "assign" -> AssignExpr(L, n)
         [] n.k = "move" -> MoveExpr(L, n)
         [] n.k = "call" -> CallExpr(L, n)
         [] n.k = "valueCall" -> ValueCallExpr(L, n)
         [] n.k = "method" -> MethodCallExpr(L, n)
         [] n.k = "superMethod" -> SuperMethodCallExpr(L, n)
         [] n.k = "super" -> SuperCallExpr(L, n)
         [] n.k = "new" -> NewExpr(L, n)
         [] n.k \in {"field", "fieldSet", "static", "staticSet", "enum", "functionRef"} -> FieldExpr(L, n)
         [] n.k = "index" -> IndexExpr(L, n)
         [] n.k \in {"list", "map"} -> CollectionLiteral(L, n)
         [] n.k = "data" -> DataLiteral(L, n)
         [] n.k = "with" -> DataUpdate(L, n)
         [] n.k = "await" -> AwaitExpr(L, n)
         [] n.k = "match" -> MatchExpr(L, n)
         [] n.k = "lambda" -> LambdaExpr(L, n)
         [] n.k = "log" -> LET e == Expr(L, n.e)
                           IN  IF IsNone(e.v) THEN e
                               ELSE Ok(Do(e.s, "Log", <<e.v>>, 0, ""), Const(Nil, "void"))

(* A local that is const and never written is the value itself; any other   *)
(* local gets a slot.                                                       *)
VarDecl(L, n) ==
  LET e  == IF Present(n.e) THEN Expr(L, n.e) ELSE Ok(L, Const(Nil, IF n.ty = "" THEN "nil" ELSE n.ty))
      ty == IF n.ty = "" THEN e.v.ty ELSE n.ty
      c  == Coerce(e.s, e.v, ty)
      S  == Bind(WithSlot(c.s, n.n, ty, ~n.const, n.own), n.n, SlotRef(LastSlot(c.s) + 1))
  IN  CASE IsNone(c.v) -> c.s
        [] n.const /\ n.own # "borrow" /\ n.n \notin L.written -> Bind(c.s, n.n, ValueRef(c.v))
        [] n.own = "borrow" -> Do(S, "Borrow", <<c.v>>, LastSlot(S), "")
        [] OTHER -> [Do(S, "Store", <<c.v>>, LastSlot(S), "") EXCEPT !.moved = @ \ {LastSlot(S)}]

Condition(L, n) == LET e == Expr(L, n) IN AsCondition(e.s, e.v)

(* if: the branches in turn, each testing in the block the previous one     *)
(* leads to when its condition is false.                                    *)
RECURSIVE IfBranches(_, _, _, _, _)
IfBranches(L, n, i, els, exit) ==
  LET last == i = Len(n.brs)
      B    == WithBlocks(L, IF last THEN 1 ELSE 2)
      body == LastBlock(L) + 1
      otherwise == CASE ~last -> body + 1 [] Present(n.els) -> els [] OTHER -> exit
      c == Condition(B, n.brs[i][1])
      S == Stmt(Goto(End(c.s, Branch(c.v, body, otherwise)), body), n.brs[i][2])
      N == Goto(EndIfAlive(S, Jump(exit)), otherwise)
  IN  IF c.s.failed \/ IsNone(c.v) THEN [s |-> c.s, ok |-> FALSE]
      ELSE IF last THEN [s |-> N, ok |-> TRUE] ELSE IfBranches(N, n, i + 1, els, exit)

IfStmt(L, n) ==
  LET B == WithBlocks(L, IF Present(n.els) THEN 2 ELSE 1)
      exit == LastBlock(L) + 1
      S == IfBranches(B, n, 1, exit + 1, exit)
      E == IF Present(n.els) THEN EndIfAlive(Stmt(S.s, n.els), Jump(exit)) ELSE S.s
  IN  IF S.ok THEN Goto(E, exit) ELSE S.s

(* A loop remembers where break and continue lead, and how many finalizers  *)
(* and scopes were open around it.                                          *)
Loop(L, continue, break) ==
  [continue |-> continue, break |-> break, finals |-> Len(L.finals), scopes |-> Len(L.scopes)]
InLoop(L, continue, break, body) ==
  LET S == Stmt([L EXCEPT !.loops = Append(@, Loop(L, continue, break))], body)
  IN  [S EXCEPT !.loops = L.loops]

WhileStmt(L, n) ==
  LET b0 == LastBlock(L)
      S == Goto(End(WithBlocks(L, 3), Jump(b0 + 1)), b0 + 1)
      c == Condition(S, n.c)
      B == InLoop(Goto(End(c.s, Branch(c.v, b0 + 2, b0 + 3)), b0 + 2), b0 + 1, b0 + 3, n.b)
  IN  IF c.s.failed \/ IsNone(c.v) THEN c.s ELSE Goto(EndIfAlive(B, Jump(b0 + 1)), b0 + 3)

RepeatStmt(L, n) ==
  LET b0 == LastBlock(L)
      S == InLoop(Goto(End(WithBlocks(L, 3), Jump(b0 + 1)), b0 + 1), b0 + 2, b0 + 3, n.b)
      c == Condition(Goto(EndIfAlive(S, Jump(b0 + 2)), b0 + 2), n.c)
  IN  IF c.s.failed \/ IsNone(c.v) THEN c.s
      ELSE Goto(End(c.s, Branch(c.v, b0 + 1, b0 + 3)), b0 + 3)

(* for: start, end and step are evaluated once; the counter's slot belongs  *)
(* to the scope around the loop.                                            *)
ForStmt(L, n) ==
  LET a == Exprs(L, <<n.s, n.e, n.st>>)
      c == LastSlot(a.s) + 1
      S == Bind(WithSlot(WithSlot(WithSlot(a.s, n.n, "int", TRUE, "gc"),
                         "__for_end", "int", TRUE, "gc"), "__for_step", "int", TRUE, "gc"), n.n, SlotRef(c))
      I == FoldLeft(LAMBDA M, i : LET v == Coerce(M, a.v[i], "int") IN Do(v.s, "Store", <<v.v>>, c + i - 1, ""),
                    S, <<1, 2, 3>>)
      b0 == LastBlock(I)
      T == Goto(End(WithBlocks(I, 4), Jump(b0 + 1)), b0 + 1)
      L1 == Get(T, "Load", <<>>, c, "", "int")
      L2 == Get(L1.s, "Load", <<>>, c + 1, "", "int")
      L3 == Get(L2.s, "Load", <<>>, c + 2, "", "int")
      k == Get(L3.s, "RangeInBounds", <<L1.v, L2.v, L3.v>>, 0, "", "bool")
      B == InLoop(Goto(End(k.s, Branch(k.v, b0 + 2, b0 + 4)), b0 + 2), b0 + 3, b0 + 4, n.b)
      N == Goto(EndIfAlive(B, Jump(b0 + 3)), b0 + 3)
      M1 == Get(N, "Load", <<>>, c, "", "int")
      M2 == Get(M1.s, "Load", <<>>, c + 2, "", "int")
      A == Get(M2.s, "Add", <<M1.v, M2.v>>, 0, "", "int")
  IN  IF ~a.ok THEN a.s
      ELSE Goto(End(Do(A.s, "Store", <<A.v>>, c, ""), Jump(b0 + 1)), b0 + 4)

(* The finalizers open here are copied into an exit, innermost first, each  *)
(* lowered with only the outer ones still open.                             *)
RECURSIVE Finalizers(_, _)
Finalizers(L, depth) ==
  LET n == Len(L.finals)
  IN  IF n <= depth THEN L
      ELSE Finalizers(Stmt([L EXCEPT !.finals = Front(@)], L.finals[n]), depth)
FinallyCleanup(L, depth) == [Finalizers(L, depth) EXCEPT !.finals = L.finals]

LeaveLoop(L, target) ==
  LET loop == Last(L.loops)
      S == FinallyCleanup(L, loop.finals)
  IN  IF L.loops = <<>> THEN Unsupported(L).s
      ELSE IF IsDead(S) THEN S ELSE End(EndBorrowsFrom(S, loop.scopes + 1), Jump(loop[target]))

(* Owned locals that are not believed moved are dropped, the last declared  *)
(* first, then owned parameters.                                            *)
OwnedCleanup(L) ==
  LET slots == {s \in DOMAIN L.f.slots : L.f.slots[s].own = "owned" /\ s \notin L.moved}
      params == {p \in DOMAIN L.f.params : L.f.params[p].own = "owned"}
      S == FoldLeft(LAMBDA M, s : Do(M, "Drop", <<>>, s, ""), L, Reverse(Sorted(slots)))
  IN  FoldLeft(LAMBDA M, p : Do(M, "Drop", <<Param(p, L.f.params[p].ty)>>, 0, ""), S,
               Reverse(Sorted(params)))

(* The value is evaluated before the finalizers run.                        *)
ReturnStmt(L, n) ==
  LET e == IF Present(n.e) THEN Expr(L, n.e) ELSE Ok(L, None)
      c == IF Present(n.e) THEN Coerce(e.s, e.v, L.f.ret) ELSE e
      S == FinallyCleanup(c.s, 0)
  IN  CASE Present(n.e) /\ IsNone(c.v) -> c.s
        [] IsDead(S) -> S
        [] OTHER -> End(OwnedCleanup(S), Return(c.v))

ThrowStmt(L, n) == LET e == Expr(L, n.e) IN IF IsNone(e.v) THEN e.s ELSE End(e.s, Throw(e.v))

(* The catch clauses: each runs under the handlers outside the try, with    *)
(* the finalizer open for its own exits.                                    *)
RECURSIVE CatchClauses(_, _, _, _, _)
CatchClauses(L, n, i, hs, next) ==
  IF i > Len(n.cs) THEN L
  ELSE LET S == Bind(PushScope(Goto(L, hs[i].block)), n.cs[i].n, SlotRef(hs[i].slot))
           F == IF Present(n.f) THEN [S EXCEPT !.finals = Append(@, n.f)] ELSE S
           B == PopScope([Stmt(F, n.cs[i].b) EXCEPT !.finals = L.finals])
       IN  CatchClauses(EndIfAlive(B, Jump(next)), n, i + 1, hs, next)

(* try: one handler per catch, then one for finally that saves the          *)
(* exception in flight.  The finalizer is lowered for the normal exit, for  *)
(* the exceptional one, and into every return, break and continue.          *)
TryStmt(L, n) ==
  LET fin == Present(n.f)
      nc  == Len(n.cs)
      A   == WithBlock(L)
      after == LastBlock(A)
      CatchSlot(M, name, ty) == [WithSlot(M, name, ty, FALSE, "gc") EXCEPT !.f.slots[LastSlot(M) + 1].catch = TRUE]
      C == FoldLeft(LAMBDA M, i :
             LET ty == n.cs[i].ty
                 K == CatchSlot(M, n.cs[i].n, IF ty = "" THEN "string" ELSE ty)
             IN  [K EXCEPT !.f = AddBlock(@, "catch", L.handlers)],
             A, [i \in 1 .. nc |-> i])
      F == IF fin THEN WithBlock([CatchSlot(C, "__finally_pending", "Exception")
                                    EXCEPT !.f = AddBlock(@, "cleanup", L.handlers)]) ELSE C
      pending == LastSlot(A) + nc + 1
      rethrow == after + nc + 1
      hs == [i \in 1 .. nc |-> Handler(n.cs[i].ty, after + i, LastSlot(A) + i, FALSE)]
      fh == IF fin THEN <<Handler("", rethrow, pending, TRUE)>> ELSE <<>>
      next == IF fin THEN rethrow + 1 ELSE after
      T == WithBlock([F EXCEPT !.handlers = L.handlers \o hs \o fh])
      B == Stmt([Goto(End(T, Jump(LastBlock(T))), LastBlock(T))
                   EXCEPT !.finals = IF fin THEN Append(@, n.f) ELSE @], n.b)
      D == CatchClauses([EndIfAlive(B, Jump(next)) EXCEPT !.finals = L.finals, !.handlers = L.handlers],
                        n, 1, hs, next)
      N == EndIfAlive(Stmt(Goto(D, next), n.f), Jump(after))
      X == Stmt(Goto(N, rethrow), n.f)
      p == Get(X, "Load", <<>>, pending, "", "Exception")
      R == IF IsDead(X) THEN X ELSE End(p.s, Throw(p.v))
  IN  IF nc = 0 /\ ~fin THEN Unsupported(L).s ELSE Goto(IF fin THEN R ELSE D, after)

(* statement: what follows a terminator is dead and is skipped.             *)
Stmt(L, n) ==
  IF L.failed \/ IsDead(L) THEN L
  ELSE CASE n.k = "block" -> PopScope(FoldLeft(Stmt, PushScope(L), n.ss))
         [] n.k = "var" -> VarDecl(L, n)
         [] n.k = "log" -> LET e == Expr(L, n.e) IN IF IsNone(e.v) THEN e.s ELSE Do(e.s, "Log", <<e.v>>, 0, "")
         [] n.k = "expr" -> Expr(L, n.e).s
         [] n.k = "if" -> IfStmt(L, n)
         [] n.k = "while" -> WhileStmt(L, n)
         [] n.k = "repeat" -> RepeatStmt(L, n)
         [] n.k = "for" -> ForStmt(L, n)
         [] n.k \in {"break", "continue"} -> LeaveLoop(L, n.k)
         [] n.k = "return" -> ReturnStmt(L, n)
         [] n.k = "throw" -> ThrowStmt(L, n)
         [] n.k = "try" -> TryStmt(L, n)

(* collectWrittenLocals: names assigned or moved, closures not entered.     *)
WrittenLocals(body) ==
  LET w == SelectSeq(Nodes(body), LAMBDA x : x.k \in {"assign", "move"}) IN {w[i].n : i \in DOMAIN w}

(* The end of a body that falls through: return for void, else unreachable. *)
FallThrough(L) ==
  CASE IsDead(L) -> L
    [] L.f.ret = "void" -> End(OwnedCleanup(L), Return(None))
    [] OTHER -> End(L, Unreachable)

EntryOf(P, params, ret, owner, written) ==
  WithBlock(NewLowerer(P, NewFunction(params, ret), owner, written))

(* lowerFunctionBody: a parameter that is written or borrowed is copied     *)
(* into a slot first.                                                       *)
FunctionBody(P, key) ==
  LET fn == P.funs[key]
      ps == ParamsOf(P, key)
      L  == EntryOf(P, ps, fn.ret, key[1], WrittenLocals(fn.body))
      T  == IF fn.static THEN L
            ELSE Bind([L EXCEPT !.this = ParamRef(1), !.thisType = key[1]], "this", ParamRef(1))
      S  == FoldLeft(LAMBDA M, i :
              LET p == ps[i]
                  slot == LastSlot(M) + 1
              IN  CASE p.n = "this" -> M
                    [] p.own # "borrow" /\ p.n \notin L.written -> Bind(M, p.n, ParamRef(i))
                    [] OTHER -> Bind(Do(WithSlot(M, p.n, p.ty, TRUE, p.own),
                                        IF p.own = "borrow" THEN "Borrow" ELSE "Store",
                                        <<Param(i, p.ty)>>, slot, ""), p.n, SlotRef(slot)),
              T, [i \in DOMAIN ps |-> i])
  IN  Finish(FallThrough(Stmt(S, fn.body)).f)

(* lowerLambdaBody: captured values are the first parameters, each copied   *)
(* into a slot; an inferred nil result makes the closure void.              *)
LambdaBody(P, id) ==
  LET d  == P.lambdas[id]
      ps == [i \in DOMAIN d.caps |-> FParam(d.caps[i], "unknown", "gc")] \o d.params
      ret == IF d.ret = "nil" THEN "void" ELSE d.ret
      L  == EntryOf(P, ps, ret, d.owner, {})
      S  == FoldLeft(LAMBDA M, i :
              IF i > Len(d.caps) THEN Bind(M, ps[i].n, ParamRef(i))
              ELSE LET N == Bind(Do(WithSlot(M, ps[i].n, "unknown", TRUE, "gc"), "Store",
                                    <<Param(i, "unknown")>>, LastSlot(M) + 1, ""),
                                 ps[i].n, SlotRef(LastSlot(M) + 1))
                   IN  IF ps[i].n = "this" THEN [N EXCEPT !.this = SlotRef(LastSlot(N))] ELSE N,
              L, [i \in DOMAIN ps |-> i])
      e == Expr(S, d.body)
      c == Coerce(e.s, e.v, ret)
      B == CASE ~d.expr -> Stmt(S, d.body)
             [] IsDead(c.s) \/ (ret # "void" /\ IsNone(c.v)) -> c.s
             [] ret = "void" -> End(OwnedCleanup(e.s), Return(None))
             [] OTHER -> End(OwnedCleanup(c.s), Return(c.v))
  IN  Finish((IF B.failed THEN B ELSE FallThrough(B)).f)

(* lowerStaticInitializers: one function per static field.                  *)
StaticInitializer(P, i) ==
  LET d == P.statics[i]
      L == EntryOf(P, <<>>, IF Present(d.e) THEN d.ty ELSE "unknown", d.c, {})
      e == IF Present(d.e) THEN Expr(L, d.e) ELSE Ok(L, Const(Nil, "nil"))
      c == Coerce(e.s, e.v, d.ty)
  IN  IF IsNone(c.v) THEN c.s.f ELSE End(c.s, Return(c.v)).f

InitKey(d) == <<d.c, "<static-init:" \o d.n \o ">">>

(* What a function of the module is called and how it is entered.           *)
Meta(name, owner, static, async, ctor, caps, lambda) ==
  [name |-> name, owner |-> owner, static |-> static, async |-> async, ctor |-> ctor,
   caps |-> caps, lambda |-> lambda]

(* lowerProgram: the module, a function for every method, then for every    *)
(* static field, then for every closure met.                                *)
LowerProgram(P) ==
  LET inits == [i \in DOMAIN P.statics |-> InitKey(P.statics[i])]
      ids   == Sorted(DOMAIN P.lambdas)
      lams  == [i \in DOMAIN ids |-> <<"$lambda", ids[i]>>]
      order == P.order \o inits \o lams
      one(i) == LET k == order[i] IN
        CASE i <= Len(P.order) ->
               LET d == P.funs[k] IN
               [f |-> FunctionBody(P, k),
                m |-> Meta(d.name, k[1], d.static, d.async, ~d.static /\ d.name = k[1], <<>>, FALSE)]
          [] i <= Len(P.order) + Len(inits) ->
               [f |-> StaticInitializer(P, i - Len(P.order)), m |-> Meta(k[2], k[1], TRUE, FALSE, FALSE, <<>>, FALSE)]
          [] OTHER ->
               [f |-> LambdaBody(P, k[2]),
                m |-> Meta("lambda", P.lambdas[k[2]].owner, TRUE, FALSE, FALSE, P.lambdas[k[2]].caps, TRUE)]
  IN  [order |-> order, funs |-> [i \in DOMAIN order |-> one(i).f], meta |-> [i \in DOMAIN order |-> one(i).m],
       classes |-> P.classes, statics |-> P.statics, entry |-> P.entry]
=============================================================================
