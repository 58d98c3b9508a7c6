------------------------------ MODULE VmBackend ------------------------------
(***************************************************************************)
(* The backend that turns a MIR module into bytecode: src/mir/vm_backend.cpp *)
(* (MirBytecodeTranslator).                                                *)
(*                                                                         *)
(* A bytecode instruction has an operation, its main operand a (a name, a  *)
(* value, a function), a count n, a handler group g and the block or       *)
(* address it leads to.  Functions are named by their position.            *)
(***************************************************************************)
EXTENDS Mir, TLC

BC(op, a)       == [op |-> op, a |-> a, n |-> 0, g |-> 0, to |-> 0]
BCn(op, a, n)   == [BC(op, a) EXCEPT !.n = n]
BCto(op, b)     == [BC(op, "") EXCEPT !.to = b]

(* What the VM knows of a function.                                         *)
FunctionInfo(entry, params, types, ret, m, owned) ==
  [entry |-> entry, params |-> params, types |-> types, ret |-> ret, owner |-> m.owner,
   static |-> m.static, async |-> m.async, caps |-> m.caps, lambda |-> m.lambda, owned |-> owned]

HasThis(M, i) == ~M.meta[i].static
ParamTypes(M, i) ==
  LET ps == M.funs[i].params IN [j \in DOMAIN ps |-> ps[j].ty]

(* dispatchKeyFor: a constructor is dispatched under the name of its class. *)
DispatchKey(M, i) == <<M.meta[i].name, IF HasThis(M, i) THEN Tail(ParamTypes(M, i)) ELSE ParamTypes(M, i)>>

FnIndex(M, key) ==
  IF \E i \in DOMAIN M.order : M.order[i] = key THEN CHOOSE i \in DOMAIN M.order : M.order[i] = key ELSE 0

RECURSIVE ClassChain(_, _)
ClassChain(M, c) ==
  IF c = "" THEN <<>>
  ELSE <<c>> \o (IF c \in DOMAIN M.classes THEN ClassChain(M, M.classes[c].parent) ELSE <<>>)

(* buildDispatchers: for every class the nearest declaration of every       *)
(* dispatch key in its chain; of two in one class the later wins.           *)
Dispatchers(M) ==
  LET instance == {i \in DOMAIN M.order : HasThis(M, i) /\ ~M.meta[i].lambda}
      keys == {DispatchKey(M, i) : i \in instance}
      names == DOMAIN M.classes \cup {M.meta[i].owner : i \in instance}
      declares(c, k) == {i \in instance : M.meta[i].owner = c /\ DispatchKey(M, i) = k}
      row(c) == LET ch == ClassChain(M, c) IN
        [k \in {x \in keys : \E j \in DOMAIN ch : declares(ch[j], x) # {}} |->
           LET j == Min({j \in DOMAIN ch : declares(ch[j], k) # {}}) IN Max(declares(ch[j], k))]
  IN  [c \in names |-> row(c)]

(* buildClassReflection: the fields of a class, inherited ones first.       *)
ClassReflection(M) ==
  [c \in DOMAIN M.classes |->
     LET ch == Reverse(ClassChain(M, c))
         layouts == SelectSeq(ch, LAMBDA x : x \in DOMAIN M.classes)
     IN  [M.classes[c] EXCEPT !.fields = FlattenSeq([j \in DOMAIN layouts |-> M.classes[layouts[j]].fields])]]

(* Names of the locals a function's values live in.  In a closure a slot    *)
(* named like a capture is the captured variable itself.                    *)
ParamLocal(M, i, p) == M.funs[i].params[p].n
SlotName(s) == "@m_slot_" \o ToString(s)
SlotLocal(M, i, s) ==
  LET name == M.funs[i].slots[s].name
  IN  IF M.meta[i].lambda /\ Contains(M.meta[i].caps, name) THEN name ELSE SlotName(s)
TempLocal(t) == "@m_tmp_" \o ToString(t)
BlockParamLocal(p) == "@m_bparam_" \o ToString(p)

PushOperand(M, i, o) ==
  CASE o.k = "const" -> <<BC("PushConst", o.v)>>
    [] o.k = "param" -> <<BC("LoadVar", ParamLocal(M, i, o.n))>>
    [] o.k = "temp"  -> <<BC("LoadVar", TempLocal(o.n))>>
    [] o.k = "arg"   -> <<BC("LoadVar", BlockParamLocal(o.n))>>
    [] OTHER -> <<>>
PushOperands(M, i, os) == FlattenSeq([j \in DOMAIN os |-> PushOperand(M, i, os[j])])

(* collectReadTemps *)
OperandsOf(b) ==
  FlattenSeq([j \in DOMAIN b.ins |-> b.ins[j].args]) \o <<b.term.v>> \o FlattenSeq(b.term.edge)
ReadTemps(f) ==
  UNION {LET os == OperandsOf(f.blocks[b]) IN {os[j].n : j \in {x \in DOMAIN os : os[x].k = "temp"}} :
           b \in DOMAIN f.blocks}

(* defineTemp, and the form that discards the result of a void call.        *)
DefineTemp(f, t) ==
  CASE t = 0 -> <<>>
    [] t \notin ReadTemps(f) -> <<BC("Pop", "")>>
    [] OTHER -> <<BC("DefineVar", TempLocal(t))>>
ResultOrPop(f, t) == IF t = 0 THEN <<BC("Pop", "")>> ELSE DefineTemp(f, t)

BinaryOps == {"Add", "Sub", "Mul", "Div", "Mod", "Pow", "BitAnd", "BitOr", "BitXor", "Shl", "Shr", "Ushr",
              "Eq", "Ne", "Lt", "Le", "Gt", "Ge"}
UnaryOps  == {"Neg", "Not", "BitNot"}

(* The operations that are a call of a native by its identifier.            *)
NativeOps ==
  [o \in {"TaskSpawn", "ThreadStart", "ThreadJoin", "ThreadIsAlive", "ChannelCreate", "ChannelSend",
          "ChannelReceive", "ChannelSize", "ChannelSendAsync", "ChannelReceiveAsync", "MutexWithLock",
          "RwLockWithRead", "RwLockWithWrite", "AtomicLoad", "AtomicStore", "AtomicAdd", "AtomicLoadBool",
          "AtomicStoreBool", "AtomicLoadDouble", "AtomicStoreDouble", "AtomicLoadRef", "AtomicStoreRef",
          "SemaphoreAcquire", "SemaphoreRelease", "SemaphoreAvailable", "SemaphoreSetPermits",
          "SemaphoreTryAcquire", "SemaphoreReleaseMany", "ConditionWait", "ConditionWaitFor",
          "ConditionNotifyOne", "ConditionNotifyAll", "SharedCreate"} |-> o]
SharedOps == [o \in {"SharedGet", "SharedSet", "SharedWithLock"} |->
                CASE o = "SharedGet" -> "get" [] o = "SharedSet" -> "setValue" [] OTHER -> "withLock"]

SupportedOpcodes ==
  BinaryOps \cup UnaryOps \cup DOMAIN NativeOps \cup DOMAIN SharedOps \cup
  {"Widen", "Refine", "TypeTest", "IsNull", "Move", "Drop", "Borrow", "EndBorrow", "Load", "Store",
   "FieldLoad", "FieldStore", "IndexLoad", "IndexStore", "NewCollection", "Alloc", "Call", "InvokeMethod",
   "InvokeSuper", "InvokeStatic", "CallIndirect", "CallNative", "MakeClosure", "StaticLoad", "StaticStore",
   "Await", "TaskBlock", "TaskIgnore", "TaskCancel", "RangeInBounds", "Log"}
SupportedTerminators == {"return", "jump", "branch", "throw", "unreachable"}

(* isSupported: nothing is emitted for a body lowering gave up on.          *)
IsSupported(f) ==
  /\ ~f.incomplete
  /\ f.blocks = <<>> \/ f.blocks[1].hs = <<>>
  /\ \A b \in DOMAIN f.blocks :
       /\ \A j \in DOMAIN f.blocks[b].ins : f.blocks[b].ins[j].op \in SupportedOpcodes
       /\ f.blocks[b].term.k \in SupportedTerminators

(* findDeclaredMethod: the only method of that name and arity in the class, *)
(* or among several the one whose parameter types are the argument types.   *)
DeclaredMethod(M, c, name, args) ==
  LET arity == {i \in DOMAIN M.order : /\ M.meta[i].owner = c /\ HasThis(M, i) /\ ~M.meta[i].ctor
                                       /\ M.meta[i].name = name /\ Len(M.funs[i].params) = Len(args)}
      exact == {i \in arity : \A j \in 2 .. Len(args) : M.funs[i].params[j].ty = args[j].ty}
  IN  IF Cardinality(arity) = 1 THEN arity ELSE IF exact = {} THEN {} ELSE {Min(exact)}

(* resolveMethodSlot: the nearest class of the chain that declares it.      *)
MethodSlot(M, c, name, args) ==
  LET ch == ClassChain(M, c)
      found == {j \in DOMAIN ch : DeclaredMethod(M, ch[j], name, args) # {}}
  IN  IF found = {} THEN <<>>
      ELSE DispatchKey(M, CHOOSE i \in DeclaredMethod(M, ch[Min(found)], name, args) : TRUE)

ClassCollections == {"List", "Map", "Set"}
CollectionTypes == {"list", "map", "set", "array"} \cup ClassCollections
CollKind(ty) == CASE ty \in {"map", "Map"} -> "Map" [] ty \in {"set", "Set"} -> "Set" [] OTHER -> "List"
AppendMethod(base) == CASE base = "Map" -> "put" [] base = "Set" -> "add" [] OTHER -> "push"
EmptyConstructor(M, base) ==
  {i \in DOMAIN M.order : M.meta[i].ctor /\ M.meta[i].owner = base /\ Len(M.funs[i].params) = 1}

(* A class collection takes the value only, unless it is a map.             *)
StoreArgs(ins) == IF ins.args[1].ty = "Map" THEN ins.args ELSE <<ins.args[1], ins.args[3]>>

(* What makes emission throw: the function is then replaced by a stub.      *)
Emittable(M, i, ins) ==
  /\ \A j \in DOMAIN ins.args : ~IsNone(ins.args[j])
  /\ ins.op = "Drop" => ins.slot # 0 \/ (ins.args # <<>> /\ ins.args[1].k \in {"param", "temp"})
  /\ ins.op = "Call" =>
       LET c == FnIndex(M, ins.tgt)
       IN  /\ c # 0
           /\ HasThis(M, c) /\ ~M.meta[c].ctor =>
                HasThis(M, i) /\ ~M.meta[i].lambda /\ ins.args[1].k = "param" /\ ins.args[1].n = 1
  /\ ins.op = "InvokeMethod" => MethodSlot(M, ins.tgt[1], ins.tgt[2], ins.args) # <<>>
  /\ ins.op \in DOMAIN SharedOps => MethodSlot(M, "Shared", SharedOps[ins.op], ins.args) # <<>>
  /\ ins.op = "MakeClosure" => /\ FnIndex(M, ins.tgt) # 0
                               /\ Len(M.meta[FnIndex(M, ins.tgt)].caps) = Len(ins.args)
  /\ ins.op = "NewCollection" /\ ins.ty \in ClassCollections => EmptyConstructor(M, ins.ty) # {}
  /\ ins.op = "IndexStore" /\ ins.args[1].ty \in ClassCollections =>
       MethodSlot(M, ins.args[1].ty, AppendMethod(ins.args[1].ty), StoreArgs(ins)) # <<>>

(* A constructor is invoked through its dispatch slot on the new object; a  *)
(* method of this is called directly; the rest are plain calls.             *)
EmitCall(M, i, ins) ==
  LET c == FnIndex(M, ins.tgt)
      as == ins.args
  IN  CASE HasThis(M, c) /\ M.meta[c].ctor ->
             PushOperands(M, i, as) \o <<BCn("InvokeMethod", DispatchKey(M, c), Len(as) - 1)>>
        [] HasThis(M, c) -> PushOperands(M, i, Tail(as)) \o <<BC("Call", c)>>
        [] OTHER -> PushOperands(M, i, as) \o <<BC("Call", c)>>

(* The captures are bound under their names where the closure is made, and  *)
(* read from there by MakeClosure.                                          *)
EmitMakeClosure(M, i, ins) ==
  LET c == FnIndex(M, ins.tgt)
      bind(j) == IF M.meta[c].caps[j] = "this" THEN <<>>
                 ELSE PushOperand(M, i, ins.args[j]) \o <<BC("DefineVar", M.meta[c].caps[j])>>
  IN  FlattenSeq([j \in DOMAIN ins.args |-> bind(j)]) \o <<BC("MakeClosure", c)>>

EmitNewCollection(M, ins) ==
  IF ins.ty \in ClassCollections
  THEN <<BC("NewObject", ins.ty), BC("Dup", ""),
         BCn("InvokeMethod", DispatchKey(M, Min(EmptyConstructor(M, ins.ty))), 0), BC("Pop", "")>>
  ELSE <<BCn("CallNative", "Collection.new" \o CollKind(ins.ty), 0)>>

EmitIndexLoad(M, i, ins) ==
  PushOperands(M, i, ins.args) \o
  (IF CollKind(ins.args[1].ty) = "Map" /\ ins.args[1].ty \notin ClassCollections
   THEN <<BCn("CallNative", "Collection.mapGet", 2)>> ELSE <<BC("GetIndex", "")>>)

EmitIndexStore(M, i, ins) ==
  LET ty == ins.args[1].ty
      args == StoreArgs(ins)
  IN  (CASE ty \in ClassCollections ->
              PushOperands(M, i, args) \o
              <<BCn("InvokeMethod", MethodSlot(M, ty, AppendMethod(ty), args), Len(args) - 1)>>
         [] CollKind(ty) = "Map" -> PushOperands(M, i, ins.args) \o <<BCn("CallNative", "Collection.mapSet", 3)>>
         [] CollKind(ty) = "Set" -> PushOperands(M, i, args) \o <<BCn("CallNative", "Collection.setAdd", 2)>>
         [] OTHER -> PushOperands(M, i, args) \o <<BCn("CallNative", "Collection.push", 2)>>)
      \o <<BC("Pop", "")>>

(* emitInstruction.  The stores that leave no value discard it, except a    *)
(* static store and the void task operations.                               *)
EmitInstruction(M, i, ins) ==
  LET f == M.funs[i]
      push == PushOperands(M, i, ins.args)
      def == DefineTemp(f, ins.res)
      call == ResultOrPop(f, ins.res)
      local == SlotLocal(M, i, ins.slot)
  IN  CASE ins.op \in BinaryOps \cup UnaryOps -> push \o <<BC(ins.op, "")>> \o def
        [] ins.op = "Widen" -> push \o def
        [] ins.op = "Refine" -> push \o (IF ins.args[1].ty # ins.ty \/ ins.ty \in CollectionTypes
                                         THEN <<BC("AssertType", ins.ty)>> ELSE <<>>) \o def
        [] ins.op = "TypeTest" -> push \o <<BC("PushConst", <<"string", ins.tgt>>), BC("MatchType", "")>> \o def
        [] ins.op = "IsNull" -> push \o <<BC("PushConst", Nil), BC("Eq", "")>> \o def
        [] ins.op = "Load" -> <<BC("LoadVar", local)>> \o def
        [] ins.op \in {"Store", "Borrow"} -> push \o <<BC("DefineVar", local)>>
        [] ins.op = "Move" -> <<BC("MoveVar", local)>> \o def
        [] ins.op \in {"Drop", "EndBorrow"} ->
             <<BC("DropVar", CASE ins.slot # 0 -> local
                               [] ins.args[1].k = "param" -> ParamLocal(M, i, ins.args[1].n)
                               [] OTHER -> TempLocal(ins.args[1].n))>>
        [] ins.op = "FieldLoad" -> push \o <<BC("GetField", ins.tgt)>> \o def
        [] ins.op = "FieldStore" -> push \o <<BC("SetField", ins.tgt), BC("Pop", "")>>
        [] ins.op = "IndexLoad" -> EmitIndexLoad(M, i, ins) \o def
        [] ins.op = "IndexStore" -> EmitIndexStore(M, i, ins)
        [] ins.op = "NewCollection" -> EmitNewCollection(M, ins) \o def
        [] ins.op = "Alloc" -> <<BC("NewObject", ins.tgt)>> \o def
        [] ins.op = "Call" -> EmitCall(M, i, ins) \o call
        [] ins.op = "InvokeMethod" ->
             push \o <<BCn("InvokeMethod", MethodSlot(M, ins.tgt[1], ins.tgt[2], ins.args), Len(ins.args) - 1)>> \o call
        [] ins.op = "InvokeSuper" -> push \o <<BCn("InvokeSuper", FnIndex(M, ins.tgt), Len(ins.args) - 1)>> \o call
        [] ins.op = "InvokeStatic" -> push \o <<BC("Call", FnIndex(M, ins.tgt))>> \o call
        [] ins.op = "CallIndirect" ->
             PushOperands(M, i, Tail(ins.args) \o <<ins.args[1]>>) \o <<BCn("CallValue", "", Len(ins.args) - 1)>> \o call
        [] ins.op = "CallNative" -> push \o <<BCn("CallNative", ins.tgt, Len(ins.args))>> \o call
        [] ins.op = "MakeClosure" -> EmitMakeClosure(M, i, ins) \o def
        [] ins.op = "StaticLoad" -> <<BC("GetStaticField", ins.tgt)>> \o def
        [] ins.op = "StaticStore" -> push \o <<BC("SetStaticField", ins.tgt)>>
        [] ins.op \in {"Await", "TaskBlock", "TaskIgnore", "TaskCancel"} -> push \o <<BC(ins.op, "")>> \o def
        [] ins.op \in DOMAIN NativeOps -> push \o <<BCn("CallNative", ins.op, Len(ins.args))>> \o call
        [] ins.op \in DOMAIN SharedOps ->
             push \o <<BCn("InvokeMethod", MethodSlot(M, "Shared", SharedOps[ins.op], ins.args), Len(ins.args) - 1)>> \o call
        [] ins.op = "RangeInBounds" -> push \o <<BC("RangeContinue", "")>> \o def
        [] ins.op = "Log" -> push \o <<BC("Log", "")>>

(* Two handlers are the same whatever slot they bind.                       *)
SameHandler(a, b) == a.block = b.block /\ a.ty = b.ty /\ a.fin = b.fin
CommonPrefix(a, b) ==
  Max({0} \cup {n \in 1 .. Len(a) : n <= Len(b) /\ \A j \in 1 .. n : SameHandler(a[j], b[j])})
SameChain(a, b) == Len(a) = Len(b) /\ CommonPrefix(a, b) = Len(a)

(* handlerGroups: handlers that always follow one another belong to one     *)
(* try.  Groups are numbered from 1 in every function.                      *)
HandlerGroups(f) ==
  LET chains == SelectSeq([b \in DOMAIN f.blocks |-> f.blocks[b].hs], LAMBDA c : c # <<>>)
      follows(c, x, y) == \A j \in DOMAIN c : c[j].block = x => j < Len(c) /\ c[j + 1].block = y
      next == UNION {{<<chains[k][j].block, chains[k][j + 1].block>> : j \in 1 .. Len(chains[k]) - 1} : k \in DOMAIN chains}
      siblings == {e \in next : \A k \in DOMAIN chains : follows(chains[k], e[1], e[2])}
      try(x) == ReachFrom(siblings \cup {<<e[2], e[1]>> : e \in siblings}, {x})
      all == [j \in DOMAIN FlattenSeq(chains) |-> FlattenSeq(chains)[j].block]
      first(x) == Min({j \in DOMAIN all : all[j] \in try(x)})
  IN  [x \in Range(all) |-> Cardinality({try(all[j]) : j \in 1 .. first(x)})]

(* syncHandlers: leaving a chain of handlers for another one.               *)
SyncHandlers(f, from, to) ==
  LET s == f.blocks[from].hs
      t == f.blocks[to].hs
      n == CommonPrefix(s, t)
      push(h) == IF h.fin THEN BCto("PushFinallyHandler", h.block)
                 ELSE [BC("PushHandler", h.ty) EXCEPT !.g = HandlerGroups(f)[h.block], !.to = h.block]
  IN  [j \in 1 .. Len(s) - n |-> BC("PopHandler", "")]
      \o [j \in 1 .. Len(t) - n |-> push(t[Len(t) + 1 - j])]

EmitEdgeArguments(M, i, t, e) ==
  LET ps == M.funs[i].blocks[t.to[e]].params
  IN  FlattenSeq([j \in DOMAIN ps |-> PushOperand(M, i, t.edge[e][j]) \o <<BC("DefineVar", BlockParamLocal(ps[j].id))>>])

(* emitTerminator.  An unreachable end emits nothing.                       *)
EmitTerminator(M, i, b) ==
  LET f == M.funs[i]
      t == f.blocks[b].term
  IN  CASE t.k = "return" -> (IF IsNone(t.v) THEN <<BC("PushConst", Nil)>> ELSE PushOperand(M, i, t.v))
                             \o <<BC("Return", "")>>
        [] t.k = "jump" -> EmitEdgeArguments(M, i, t, 1) \o SyncHandlers(f, b, t.to[1]) \o <<BCto("Jump", t.to[1])>>
        [] t.k = "branch" -> EmitEdgeArguments(M, i, t, 1) \o EmitEdgeArguments(M, i, t, 2) \o PushOperand(M, i, t.v)
                             \o <<BCto("JumpIfFalse", t.to[2]), BCto("Jump", t.to[1])>>
        [] t.k = "throw" -> PushOperand(M, i, t.v) \o <<BC("Throw", "")>>
        [] OTHER -> <<>>

EmittableTerminator(f, b) ==
  LET t == f.blocks[b].term
  IN  /\ t.k \in {"branch", "throw"} => ~IsNone(t.v)
      /\ t.k = "branch" => \A e \in DOMAIN t.to : SameChain(f.blocks[b].hs, f.blocks[t.to[e]].hs)
      /\ \A e \in DOMAIN t.to : f.blocks[t.to[e]].params # <<>> => Len(t.edge[e]) = Len(f.blocks[t.to[e]].params)

(* emitCatchBinding: the slot of the first handler that names the block.    *)
CatchSlots(f, b) ==
  LET all == FlattenSeq([c \in DOMAIN f.blocks |-> f.blocks[c].hs])
      of == SelectSeq(all, LAMBDA h : h.block = b)
  IN  IF of = <<>> THEN 0 ELSE of[1].slot

(* compileFunctionBody: the blocks in order, then jumps are given the       *)
(* addresses of the blocks they lead to.                                    *)
CompileBody(M, i, base) ==
  LET f == M.funs[i]
      bind(b) == IF f.blocks[b].kind = "normal" THEN <<>>
                 ELSE <<BC("DefineVar", SlotName(CatchSlots(f, b)))>>
      ins(b) == f.blocks[b].ins
      code == [b \in DOMAIN f.blocks |->
                 bind(b) \o FlattenSeq([j \in DOMAIN ins(b) |-> EmitInstruction(M, i, ins(b)[j])])
                 \o EmitTerminator(M, i, b)]
      label(b) == base + 1 + FoldLeft(LAMBDA n, c : n + Len(code[c]), 0, [j \in 1 .. b - 1 |-> j])
      flat == FlattenSeq(code)
  IN  [j \in DOMAIN flat |-> IF flat[j].to = 0 THEN flat[j] ELSE [flat[j] EXCEPT !.to = label(@)]]

Compilable(M, i) ==
  LET f == M.funs[i]
  IN  /\ IsSupported(f)
      /\ \A b \in DOMAIN f.blocks :
           /\ f.blocks[b].kind # "normal" => CatchSlots(f, b) # 0
           /\ \A j \in DOMAIN f.blocks[b].ins : Emittable(M, i, f.blocks[b].ins[j])
           /\ EmittableTerminator(f, b)

(* registerFunctions: a closure's first parameters are its captures; owned  *)
(* locals are the slots and parameters a return must have let go of.        *)
Register(M, i, entry) ==
  LET f == M.funs[i]
      m == M.meta[i]
      skip == IF m.lambda THEN Len(m.caps) ELSE IF m.static THEN 0 ELSE 1
      ps == SubSeq(f.params, skip + 1, Len(f.params))
      slots == {s \in DOMAIN f.slots : f.slots[s].own = "owned"}
      owned == {f.params[p].n : p \in {q \in DOMAIN f.params : f.params[q].own = "owned"}}
  IN  FunctionInfo(entry, [j \in DOMAIN ps |-> ps[j].n], [j \in DOMAIN ps |-> ps[j].ty], f.ret,
                   IF m.lambda THEN [m EXCEPT !.static = FALSE] ELSE m, {SlotName(s) : s \in slots} \cup owned)

(* compileModuleToBytecode: a jump over the bodies, the bodies, the stub    *)
(* every untranslatable function leads to, and the entry sequence.          *)
Translate(M) ==
  LET bodies == FoldLeft(LAMBDA acc, i :
                  IF Compilable(M, i)
                  THEN [code |-> acc.code \o CompileBody(M, i, Len(acc.code)), at |-> Append(acc.at, Len(acc.code) + 1)]
                  ELSE [acc EXCEPT !.at = Append(@, 0)],
                [code |-> <<BCto("Jump", 0)>>, at |-> <<>>], [i \in DOMAIN M.order |-> i])
      stub == <<BC("PushConst", <<"string", "untranslatable">>), BC("Throw", "")>>
      main == FnIndex(M, M.entry)
      start == (IF M.funs[main].params = <<>> THEN <<>> ELSE <<BC("PushProgramArgs", "")>>)
               \o <<BC("Call", main), BC("Pop", ""), BC("Halt", "")>>
      all == bodies.code \o stub \o start
      stubAt == Len(bodies.code) + 1
  IN  [code |-> [all EXCEPT ![1].to = stubAt + 2],
       fns |-> [i \in DOMAIN M.order |-> Register(M, i, IF bodies.at[i] = 0 THEN stubAt ELSE bodies.at[i])],
       vt |-> Dispatchers(M), classes |-> ClassReflection(M),
       statics |-> [k \in {<<M.statics[j].c, M.statics[j].n>> : j \in DOMAIN M.statics} |->
                      [init |-> FnIndex(M, <<k[1], "<static-init:" \o k[2] \o ">">>),
                       ty |-> M.statics[CHOOSE j \in DOMAIN M.statics : M.statics[j].c = k[1] /\ M.statics[j].n = k[2]].ty]],
       stubbed |-> {i \in DOMAIN M.order : bodies.at[i] = 0}]
=============================================================================
