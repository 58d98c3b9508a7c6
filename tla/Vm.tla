---------------------------------- MODULE Vm ----------------------------------
(***************************************************************************)
(* The bytecode interpreter: VM::execute (src/vm/vm.cpp), ExecutionState   *)
(* (src/vm/execution_state.cpp) and the natives the compiled programs call. *)
(*                                                                         *)
(* A machine s: pc, value stack, call frames, exception handlers, heap,    *)
(* static fields, the nested executes that natives and static initialisers *)
(* started (nest), what was logged, and how it ended.  Step(C, s) executes *)
(* one instruction of the chunk C.                                         *)
(***************************************************************************)
EXTENDS Values, FiniteSets, SequencesExt

CONSTANT MaxDepth      \* kMaxCallDepth, the deepest call stack
ASSUME MaxDepthAssumption == MaxDepth \in Nat \ {0}

NewMachine ==
  [pc |-> 1, stack |-> <<>>, frames |-> <<>>, handlers |-> <<>>, heap |-> <<>>, statics |-> <<>>,
   nest |-> <<>>, out |-> <<>>, status |-> "running"]

(* Heap boxes *)
Object(c, fields, data) == [k |-> "obj", cls |-> c, fields |-> fields, data |-> data]
ListBox(items) == [k |-> "list", items |-> items]
MapBox(items)  == [k |-> "map", items |-> items]
Closure(fn, caps) == [k |-> "func", fn |-> fn, caps |-> caps]

Alloc(s, box) == [s EXCEPT !.heap = Append(@, box)]
LastRef(s) == Len(s.heap)
Push(s, v) == [s EXCEPT !.stack = Append(@, v)]
PushNext(s, v) == [s EXCEPT !.stack = Append(@, v), !.pc = @ + 1]
Drop(s, n) == [s EXCEPT !.stack = SubSeq(@, 1, Len(@) - n)]
TopN(s, n) == SubSeq(s.stack, Len(s.stack) - n + 1, Len(s.stack))
Advance(s) == [s EXCEPT !.pc = @ + 1]

RECURSIVE IsSubclass(_, _, _)
IsSubclass(C, c, base) ==
  c = base \/ (c \in DOMAIN C.classes /\ C.classes[c].parent # "" /\ IsSubclass(C, C.classes[c].parent, base))

(* reflectiveMatchesSpec: what a pattern's type test accepts.               *)
Matches(C, h, v, ty) ==
  CASE ty \in DOMAIN C.classes /\ C.classes[ty].enum # {} -> v[1] = "string" /\ v[2] \in C.classes[ty].enum
    [] ty = "unknown" -> TRUE
    [] ty \in {"nil", "void"} -> v[1] = "nil"
    [] ty = "object" -> v[1] \in {"obj", "nil"}
    [] ty = "double" -> IsNumber(v)
    [] ty \in {"int", "string", "bool", "map", "func"} -> v[1] = ty
    [] ty \in {"list", "set", "array"} -> v[1] = "list"
    [] OTHER -> v[1] = "obj" /\ IsSubclass(C, h[v[2]].cls, ty)

(* runtimeAssignableToSpec: what may be passed, stored or returned at a     *)
(* type; nil is a value of every reference type.                            *)
Assignable(C, h, v, ty) ==
  CASE ty \in {"object", "unknown", ""} -> TRUE
    [] v[1] = "nil" -> \/ ty \in {"void", "nil", "string", "list", "map", "set", "array", "func", "Task"}
                       \/ ty \in DOMAIN C.classes /\ C.classes[ty].enum = {}
    [] OTHER -> Matches(C, h, v, ty)

DefaultField(C, ty) ==
  CASE ty = "int" -> VInt(0)
    [] ty = "double" -> VDouble(0)
    [] ty = "bool" -> VBool(FALSE)
    [] ty = "string" -> VStr("")
    [] ty \in DOMAIN C.classes /\ C.classes[ty].enum # {} -> VStr(CHOOSE m \in C.classes[ty].enum : TRUE)
    [] OTHER -> VNil

(* makeEmptyObject and initializeObjectType.                                *)
NewObject(C, c) ==
  IF c \notin DOMAIN C.classes THEN Object(c, <<>>, FALSE)
  ELSE LET fs == C.classes[c].fields
       IN  Object(c, [n \in {fs[i][1] : i \in DOMAIN fs} |->
                        DefaultField(C, fs[CHOOSE i \in DOMAIN fs : fs[i][1] = n][2])], C.classes[c].data)

FieldTypes(C, c, n) ==
  IF c \notin DOMAIN C.classes THEN {}
  ELSE {C.classes[c].fields[i][2] : i \in {j \in DOMAIN C.classes[c].fields : C.classes[c].fields[j][1] = n}}

Depth(s) == Len(s.frames)
InFunction(s) == s.frames # <<>>
Frame(s) == Last(s.frames)
HasLocal(s, n) == InFunction(s) /\ n \in DOMAIN Frame(s).locals
SetLocal(s, n, v) ==
  IF InFunction(s) THEN [s EXCEPT !.frames[Depth(s)].locals = (n :> v) @@ @] ELSE s

BaseDepth(s) == IF s.nest = <<>> THEN 0 ELSE Last(s.nest).depth

(* dispatchThrownException: handlers of this execute are popped until one   *)
(* takes the exception.  A typed catch and a finally receive the object, an *)
(* untyped catch the message.  If none takes it, the nested execute is left *)
(* and the exception goes on in the one around it.                          *)
RECURSIVE Raise(_, _, _)
Raise(C, s, ref) ==
  LET hs == s.handlers
      mine == {j \in DOMAIN hs : \A i \in j .. Len(hs) : hs[i].depth >= BaseDepth(s)}
      takes(h) == h.ty = "" \/ IsSubclass(C, s.heap[ref].cls, h.ty)
      taking == {j \in mine : takes(hs[j])}
      j == CHOOSE x \in taking : \A y \in taking : y <= x
      h == hs[j]
      rest == SelectSeq(SubSeq(hs, 1, j - 1), LAMBDA x : h.g = 0 \/ x.g # h.g)
      unwound == [s EXCEPT !.stack = SubSeq(@, 1, h.stack), !.frames = SubSeq(@, 1, h.depth), !.handlers = rest]
      out == Last(s.nest)
      left == [s EXCEPT !.nest = Front(@), !.frames = SubSeq(@, 1, out.depth - 1),
                        !.handlers = SubSeq(hs, 1, Len(hs) - Cardinality(mine)),
                        !.stack = SubSeq(@, 1, IF Len(@) > out.stack THEN out.stack ELSE Len(@)), !.pc = out.pc]
      failed == IF out.key = <<>> THEN left
                ELSE [left EXCEPT !.statics = (out.key :> [k |-> "failed", v |-> <<"obj", ref>>]) @@ @]
  IN  CASE taking # {} ->
             [Push(unwound, IF h.fin \/ h.ty # "" THEN <<"obj", ref>>
                            ELSE IF "message" \in DOMAIN s.heap[ref].fields THEN s.heap[ref].fields["message"]
                            ELSE VStr(s.heap[ref].cls)) EXCEPT !.pc = h.to]
        [] s.nest = <<>> -> [s EXCEPT !.status = "threw " \o s.heap[ref].cls, !.handlers = SubSeq(hs, 1, Len(hs) - Cardinality(mine))]
        [] OTHER -> Raise(C, failed, ref)

(* A fault of the interpreter or of a native becomes an exception object of *)
(* the class named, if the program has it.                                  *)
RaiseFault(C, s, c, msg) ==
  LET cls == IF c \in DOMAIN C.classes THEN c ELSE IF "RuntimeError" \in DOMAIN C.classes THEN "RuntimeError" ELSE "Exception"
      o == Alloc(s, Object(cls, "message" :> VStr(msg), FALSE))
  IN  Raise(C, o, LastRef(o))

ValueOr(C, s, v) == IF IsFault(v) THEN RaiseFault(C, s, v[2], v[2]) ELSE PushNext(s, v)

(* makeCallFrame: the locals of a call are the captured variables of the    *)
(* closure or this, then the parameters, which are checked first.           *)
CallFrame(C, s, i, args, locals, closure, ret) ==
  [ret |-> ret, fn |-> i, closure |-> closure,
   locals |-> [n \in Range(C.fns[i].params) |-> args[CHOOSE j \in DOMAIN args : C.fns[i].params[j] = n]] @@ locals]

BadArguments(C, s, i, args) ==
  CASE Len(args) # Len(C.fns[i].params) -> "RuntimeError"
    [] \E j \in DOMAIN args : ~Assignable(C, s.heap, args[j], C.fns[i].types[j]) -> "TypeError"
    [] Depth(s) >= MaxDepth -> "StackOverflowError"
    [] OTHER -> ""

Enter(C, s, i, args, locals, closure) ==
  LET bad == BadArguments(C, s, i, args)
  IN  IF bad # "" THEN RaiseFault(C, s, bad, bad)
      ELSE [s EXCEPT !.frames = Append(@, CallFrame(C, s, i, args, locals, closure, s.pc + 1)), !.pc = C.fns[i].entry]

(* invokeFunction: a call that runs in an execute of its own.               *)
Invoke(C, s, i, args, locals, closure, key) ==
  LET e == Enter(C, s, i, args, locals, closure)
  IN  IF BadArguments(C, s, i, args) # "" THEN e
      ELSE [e EXCEPT !.nest = Append(@, [depth |-> Depth(e), stack |-> Len(s.stack), pc |-> s.pc, key |-> key])]

CallOp(C, s, ins) ==
  LET fn == C.fns[ins.a]
      n == Len(fn.params)
      this == IF ~fn.static /\ HasLocal(s, "this") THEN "this" :> Frame(s).locals["this"] ELSE <<>>
  IN  Enter(C, Drop(s, n), ins.a, TopN(s, n), this, 0)

CallValueOp(C, s, ins) ==
  LET f == Last(s.stack)
      args == Front(TopN(s, ins.n + 1))
      d == Drop(s, ins.n + 1)
  IN  IF f[1] # "func" THEN RaiseFault(C, Drop(s, 1), "RuntimeError", "call")
      ELSE Enter(C, d, s.heap[f[2]].fn, args, s.heap[f[2]].caps, f[2])

InvokeMethodOp(C, s, ins) ==
  LET all == TopN(s, ins.n + 1)
      o == all[1]
      d == Drop(s, ins.n + 1)
      cls == s.heap[o[2]].cls
  IN  CASE o[1] # "obj" -> RaiseFault(C, d, "RuntimeError", "invoke")
        [] cls \notin DOMAIN C.vt -> RaiseFault(C, d, "RuntimeError", "slot")
        [] ins.a \notin DOMAIN C.vt[cls] -> RaiseFault(C, d, "RuntimeError", "slot")
        [] OTHER -> Enter(C, d, C.vt[cls][ins.a], Tail(all), "this" :> o, 0)

InvokeSuperOp(C, s, ins) ==
  LET all == TopN(s, ins.n + 1)
      d == Drop(s, ins.n + 1)
  IN  IF all[1][1] # "obj" THEN RaiseFault(C, d, "RuntimeError", "super")
      ELSE Enter(C, d, ins.a, Tail(all), "this" :> all[1], 0)

(* A closure takes the captured variables its scope has.                    *)
MakeClosureOp(C, s, ins) ==
  LET fn == C.fns[ins.a]
      scope == IF InFunction(s) THEN Frame(s).locals ELSE <<>>
      a == Alloc(s, Closure(ins.a, IF fn.lambda THEN [n \in Range(fn.caps) \cap DOMAIN scope |-> scope[n]] ELSE <<>>))
  IN  PushNext(a, <<"func", LastRef(a)>>)

(* Return leaves the frame.  In a nested execute whose frame this was, the  *)
(* value goes to the native or the static field that asked for it, and the  *)
(* handlers and captures of the call are left as they are; otherwise the    *)
(* handlers of finished frames go and a closure keeps its locals.           *)
ReturnOp(C, s) ==
  LET v == Last(s.stack)
      f == Frame(s)
      l == [Drop(s, 1) EXCEPT !.frames = Front(@)]
      nested == s.nest # <<>> /\ Depth(l) < BaseDepth(s)
      out == Last(s.nest)
      done == [l EXCEPT !.nest = Front(@), !.pc = out.pc]
      kept == SelectSeq(l.handlers, LAMBDA h : h.depth <= Depth(l))
      r == [l EXCEPT !.handlers = kept, !.pc = f.ret,
                     !.heap = IF f.closure = 0 THEN @ ELSE [@ EXCEPT ![f.closure].caps = f.locals]]
  IN  CASE ~InFunction(s) -> RaiseFault(C, Drop(s, 1), "RuntimeError", "return")
        [] ~Assignable(C, s.heap, v, C.fns[f.fn].ret) -> RaiseFault(C, Drop(s, 1), "TypeError", "return")
        [] nested /\ out.key # <<>> ->
             PushNext([done EXCEPT !.statics = (out.key :> [k |-> "ready", v |-> v]) @@ @], v)
        [] nested -> PushNext(done, v)
        [] OTHER -> Push(r, v)

GetStaticOp(C, s, ins) ==
  LET st == IF ins.a \in DOMAIN s.statics THEN s.statics[ins.a] ELSE [k |-> "new", v |-> VNil]
  IN  CASE ins.a \notin DOMAIN C.statics -> RaiseFault(C, s, "RuntimeError", "static")
        [] st.k = "ready" -> PushNext(s, st.v)
        [] st.k = "failed" -> Raise(C, s, st.v[2])
        [] st.k = "busy" -> RaiseFault(C, s, "RuntimeError", "re-entrant")
        [] OTHER -> Invoke(C, [s EXCEPT !.statics = (ins.a :> [k |-> "busy", v |-> VNil]) @@ @],
                           C.statics[ins.a].init, <<>>, <<>>, 0, ins.a)

SetStaticOp(C, s, ins) ==
  LET v == Last(s.stack)
  IN  CASE ins.a \notin DOMAIN C.statics -> RaiseFault(C, s, "RuntimeError", "static")
        [] ~Assignable(C, s.heap, v, C.statics[ins.a].ty) -> RaiseFault(C, s, "TypeError", "static")
        [] OTHER -> Advance([s EXCEPT !.statics = (ins.a :> [k |-> "ready", v |-> v]) @@ @])

GetFieldOp(C, s, ins) ==
  LET o == Last(s.stack)
      d == Drop(s, 1)
      fs == s.heap[o[2]].fields
  IN  IF o[1] # "obj" THEN RaiseFault(C, d, "RuntimeError", "field")
      ELSE PushNext(d, IF ins.a \in DOMAIN fs THEN fs[ins.a] ELSE VNil)

SetFieldOp(C, s, ins) ==
  LET o == TopN(s, 2)[1]
      v == Last(s.stack)
      d == Drop(s, 2)
      tys == FieldTypes(C, s.heap[o[2]].cls, ins.a)
  IN  CASE o[1] # "obj" -> RaiseFault(C, d, "RuntimeError", "field")
        [] tys = {} -> RaiseFault(C, d, "RuntimeError", "field")
        [] \A ty \in tys : ~Assignable(C, s.heap, v, ty) -> RaiseFault(C, d, "TypeError", "field")
        [] OTHER -> PushNext([d EXCEPT !.heap[o[2]].fields = (ins.a :> v) @@ @], v)

GetIndexOp(C, s) ==
  LET l == TopN(s, 2)[1]
      i == Last(s.stack)
      d == Drop(s, 2)
      items == s.heap[l[2]].items
  IN  CASE l[1] # "list" \/ i[1] # "int" -> RaiseFault(C, d, "RuntimeError", "index")
        [] i[2] < 0 \/ i[2] >= Len(items) -> RaiseFault(C, d, "RuntimeError", "index")
        [] OTHER -> PushNext(d, items[i[2] + 1])

(* The natives of collections, the ones that run a closure under a lock,    *)
(* and the rest, which are external here and yield nil.                     *)
CallNativeOp(C, s, ins) ==
  LET a == TopN(s, ins.n)
      d == Drop(s, ins.n)
      box(b) == LET h == Alloc(d, b) IN PushNext(h, <<b.k, LastRef(h)>>)
      items == d.heap[a[1][2]].items
      has(v) == \E j \in DOMAIN items : ValuesEqual(d.heap, items[j], v)
      at(k) == {j \in DOMAIN items : ValuesEqual(d.heap, items[j][1], k)}
      put(is) == PushNext([d EXCEPT !.heap[a[1][2]].items = is], VNil)
      kind(k) == a[1][1] = k
  IN  CASE ins.a \in {"Collection.newList", "Collection.newSet"} -> box(ListBox(<<>>))
        [] ins.a = "Collection.newMap" -> box(MapBox(<<>>))
        [] ins.a \in {"Collection.push", "Collection.setAdd", "Collection.setHas"} /\ ~kind("list") ->
             RaiseFault(C, d, "TypeError", "list")
        [] ins.a \in {"Collection.mapSet", "Collection.mapGet", "Collection.mapHas"} /\ ~kind("map") ->
             RaiseFault(C, d, "TypeError", "map")
        [] ins.a = "Collection.push" -> put(Append(items, a[2]))
        [] ins.a = "Collection.setAdd" -> put(IF has(a[2]) THEN items ELSE Append(items, a[2]))
        [] ins.a = "Collection.setHas" -> PushNext(d, VBool(has(a[2])))
        [] ins.a = "Collection.mapHas" -> PushNext(d, VBool(at(a[2]) # {}))
        [] ins.a = "Collection.mapSet" ->
             put(IF at(a[2]) = {} THEN Append(items, <<a[2], a[3]>>)
                 ELSE [items EXCEPT ![CHOOSE j \in at(a[2]) : TRUE] = <<@[1], a[3]>>])
        [] ins.a = "Collection.mapGet" ->
             IF at(a[2]) = {} THEN RaiseFault(C, d, "KeyError", "key")
             ELSE PushNext(d, items[CHOOSE j \in at(a[2]) : TRUE][2])
        [] ins.a = "Collection.get" -> GetIndexOp(C, s)
        [] ins.a = "Collection.length" ->
             IF a[1][1] \in {"list", "map"} THEN PushNext(d, VInt(Len(items))) ELSE RaiseFault(C, d, "TypeError", "length")
        [] ins.a \in {"MutexWithLock", "RwLockWithRead", "RwLockWithWrite"} ->
             IF a[2][1] # "func" THEN RaiseFault(C, d, "NativeError", "withLock")
             ELSE Invoke(C, d, d.heap[a[2][2]].fn, <<>>, d.heap[a[2][2]].caps, a[2][2], <<>>)
        [] OTHER -> PushNext(d, VNil)

PushHandlerOp(s, ins, fin) ==
  Advance([s EXCEPT !.handlers = Append(@, [to |-> ins.to, stack |-> Len(s.stack), depth |-> Depth(s),
                                         ty |-> ins.a, fin |-> fin, g |-> ins.g])])

(* One turn of the interpreter's loop.                                      *)
StackNeeds(op, n) ==
  CASE op \in {"Pop", "DefineVar", "Dup", "Neg", "Not", "BitNot", "JumpIfFalse", "Return", "Throw", "Log", "AssertType",
               "GetField", "SetStaticField", "CallValue", "CopyObject"} -> 1
    [] op \in {"RangeContinue"} -> 3
    [] op \in {"Add", "Sub", "Mul", "Div", "Mod", "Pow", "BitAnd", "BitOr", "BitXor", "Shl", "Shr", "Ushr", "Eq", "Ne", "Lt",
               "Le", "Gt", "Ge", "And", "Or", "MatchType", "GetIndex", "SetField"} -> 2
    [] op = "CallNative" -> n
    [] op \in {"InvokeMethod", "InvokeSuper"} -> n + 1
    [] OTHER -> 0

Execute(C, s) ==
  LET ins == C.code[s.pc]
      top == Last(s.stack)
      two == TopN(s, 2)
      three == TopN(s, 3)
      d == Drop(s, 1)
      op == ins.op
  IN  CASE op = "PushConst" -> PushNext(s, IF ins.a[1] = "enum" THEN VStr(ins.a[2]) ELSE ins.a)
        [] op = "PushProgramArgs" -> LET h == Alloc(s, ListBox(<<>>)) IN PushNext(h, <<"list", LastRef(h)>>)
        [] op = "Pop" -> Advance(d)
        [] op = "Dup" -> PushNext(s, top)
        [] op = "DefineVar" -> Advance(SetLocal(d, ins.a, top))
        [] op = "LoadVar" -> IF HasLocal(s, ins.a) THEN PushNext(s, Frame(s).locals[ins.a])
                             ELSE RaiseFault(C, s, "RuntimeError", "undefined")
        [] op = "MoveVar" -> IF HasLocal(s, ins.a) THEN PushNext(SetLocal(s, ins.a, VNil), Frame(s).locals[ins.a])
                             ELSE RaiseFault(C, s, "RuntimeError", "undefined")
        [] op = "DropVar" -> Advance(IF HasLocal(s, ins.a)
                                  THEN [s EXCEPT !.frames[Depth(s)].locals = [n \in DOMAIN @ \ {ins.a} |-> @[n]]] ELSE s)
        [] op \in {"Neg", "Not", "BitNot"} -> ValueOr(C, d, Unary(s.heap, op, top))
        [] op = "RangeContinue" -> ValueOr(C, Drop(s, 3), RangeContinue(three[1], three[2], three[3]))
        [] op = "Jump" -> [s EXCEPT !.pc = ins.to]
        [] op = "JumpIfFalse" -> [d EXCEPT !.pc = IF IsTruthy(s.heap, top) THEN @ + 1 ELSE ins.to]
        [] op = "CallNative" -> CallNativeOp(C, s, ins)
        [] op = "MatchType" -> PushNext(Drop(s, 2), VBool(two[2][1] = "string" /\ Matches(C, s.heap, two[1], two[2][2])))
        [] op = "AssertType" -> IF Assignable(C, s.heap, top, ins.a) THEN Advance(s) ELSE RaiseFault(C, d, "TypeError", "assert")
        [] op = "Call" -> CallOp(C, s, ins)
        [] op = "CallValue" -> CallValueOp(C, s, ins)
        [] op = "InvokeMethod" -> InvokeMethodOp(C, s, ins)
        [] op = "InvokeSuper" -> InvokeSuperOp(C, s, ins)
        [] op = "MakeClosure" -> MakeClosureOp(C, s, ins)
        [] op = "NewObject" -> LET h == Alloc(s, NewObject(C, ins.a)) IN PushNext(h, <<"obj", LastRef(h)>>)
        [] op = "CopyObject" -> IF top[1] # "obj" THEN RaiseFault(C, d, "RuntimeError", "copy")
                                ELSE LET h == Alloc(d, s.heap[top[2]]) IN PushNext(h, <<"obj", LastRef(h)>>)
        [] op = "GetStaticField" -> GetStaticOp(C, s, ins)
        [] op = "SetStaticField" -> SetStaticOp(C, s, ins)
        [] op = "GetIndex" -> GetIndexOp(C, s)
        [] op = "GetField" -> GetFieldOp(C, s, ins)
        [] op = "SetField" -> SetFieldOp(C, s, ins)
        [] op = "Return" -> ReturnOp(C, s)
        [] op = "PushHandler" -> PushHandlerOp(s, ins, FALSE)
        [] op = "PushFinallyHandler" -> PushHandlerOp(s, ins, TRUE)
        [] op = "PopHandler" -> Advance([s EXCEPT !.handlers = IF @ = <<>> THEN @ ELSE Front(@)])
        [] op = "Throw" -> IF top[1] # "obj" THEN RaiseFault(C, d, "RuntimeError", "throw") ELSE Raise(C, d, top[2])
        [] op = "Log" -> Advance([d EXCEPT !.out = Append(@, Show(s.heap, top))])
        [] op = "Halt" -> [s EXCEPT !.status = "halted"]
        [] OTHER -> ValueOr(C, Drop(s, 2), Binary(s.heap, op, two[1], two[2]))

Step(C, s) ==
  IF s.pc > Len(C.code) THEN RaiseFault(C, s, "RuntimeError", "pc")
  ELSE LET ins == C.code[s.pc] IN
       IF Len(s.stack) < StackNeeds(ins.op, ins.n) THEN RaiseFault(C, s, "RuntimeError", "underflow")
       ELSE Execute(C, s)
=============================================================================
