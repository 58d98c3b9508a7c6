--------------------------- MODULE SamplePrograms ---------------------------
(***************************************************************************)
(* Checked programs to compile: small trees in which every construct of    *)
(* the language that both routes support occurs, alone and inside others.  *)
(***************************************************************************)
EXTENDS Ast, TLC

EStr(x)   == ELit(<<"string", x>>, "string")
EDbl(x)   == ELit(<<"double", x>>, "double")
ENil      == ELit(<<"nil", 0>>, "nil")
EOp(op, l, r) == EBinary(op, l, r)
Error(x)  == ENew("RuntimeError", "new(string)", <<EStr(x)>>)
SIf1(c, ss) == SIf(<< <<c, SBlock(ss)>> >>, Absent)
SSet(n, e) == SExpr(EAssign(n, e))
STyped(n, ty, e) == SVar(n, FALSE, "gc", ty, e)
SConst(n, e) == SVar(n, TRUE, "gc", "", e)
Static(name, params, ret, ss) == Fun(name, params, ret, TRUE, FALSE, SBlock(ss))
Method(name, params, ret, ss) == Fun(name, params, ret, FALSE, FALSE, SBlock(ss))
Arg(n, ty) == FParam(n, ty, "gc")
Caught(ty, ss) == Catch(ty, "e", SBlock(ss))
Message == SLog(EField(EId("e"), "message", "string"))

(* The exception classes every program has.                                 *)
NewSig == "new(string)"
ExceptionCtor == Method("Exception", <<Arg("message", "string")>>, "void",
                        <<SExpr(EFieldSet(EThis, "message", EId("message")))>>)
ErrorCtor(c) == Method(c, <<Arg("message", "string")>>, "void", <<SExpr(ESuper(NewSig, <<EId("message")>>))>>)
Raised == {"RuntimeError", "TypeError", "ArithmeticError"}
BaseClasses == ("Main" :> Class("", <<>>)) @@ ("Exception" :> Class("", << <<"message", "string">> >>))
               @@ [c \in Raised |-> Class("Exception", <<>>)]
BaseFuns == (<<"Exception", NewSig>> :> ExceptionCtor) @@ (<<"RuntimeError", NewSig>> :> ErrorCtor("RuntimeError"))

(* A program: its own classes, functions (key, declaration), lambdas and    *)
(* static fields around a main.                                             *)
Program(classes, funs, lambdas, statics, main) ==
  [classes |-> classes @@ BaseClasses,
   order |-> << <<"Main", "main()">> >> \o [i \in DOMAIN funs |-> funs[i][1]]
             \o << <<"Exception", NewSig>>, <<"RuntimeError", NewSig>> >>,
   funs |-> (<<"Main", "main()">> :> Static("main", <<>>, "void", main))
            @@ [k \in {funs[i][1] : i \in DOMAIN funs} |-> funs[CHOOSE i \in DOMAIN funs : funs[i][1] = k][2]]
            @@ BaseFuns,
   lambdas |-> lambdas, statics |-> statics, natives |-> {}, src |-> <<>>, entry |-> <<"Main", "main()">>]
Main(main) == Program(<<>>, <<>>, <<>>, <<>>, main)
With(funs, main) == Program(<<>>, funs, <<>>, <<>>, main)
Key(sig) == <<"Main", sig>>

(* Arithmetic, folding, overflow at the edge, division by zero, widening.   *)
Arithmetic(lo, hi) == Main(
  <<SLog(EOp("+", EInt(1), EOp("*", EInt(2), EInt(3)))),
    SLet("x", EInt(5)), STyped("d", "double", EDbl(2)),
    SLog(EOp("-", EId("x"), EId("x"))), SLog(EOp("*", EId("x"), EInt(1))), SLog(EOp("/", EInt(7), EInt(2))),
    SLog(EOp("%", EId("x"), EInt(3))), SLog(EOp("<", EId("x"), EInt(5))), SLog(EOp("<=", EId("d"), EDbl(2))),
    SLog(EUnary("-", EUnary("-", EId("x")))), SLog(EUnary("!", EOp("==", EId("x"), EId("x")))),
    SLog(EOp("+", EId("d"), EDbl(1))), SLog(EOp(">>", EInt(lo), EInt(1))), SLog(EOp("&", EId("x"), EInt(4))),
    STry(SBlock(<<SSet("x", EOp("+", EInt(hi), EInt(1)))>>), <<Caught("ArithmeticError", <<SLog(EStr("overflow"))>>)>>, Absent),
    STry(SBlock(<<SLog(EOp("/", EInt(1), EOp("-", EId("x"), EId("x"))))>>),
         <<Caught("Exception", <<SLog(EStr("zero"))>>)>>, Absent)>>)

(* Loops that are left early, inside and outside a protected region.        *)
ForLoop == Main(
  <<SLet("s", EInt(0)),
    SFor("i", EInt(0), EInt(5), EInt(1),
         SBlock(<<SIf(<< <<EOp("==", EId("i"), EInt(1)), SBlock(<<SContinue>>)>>,
                         <<EOp("==", EId("i"), EInt(3)), SBlock(<<SBreak>>)>> >>, Absent),
                  SSet("s", EOp("+", EId("s"), EId("i")))>>)),
    SLog(EId("s"))>>)
DownLoop == Main(<<SFor("j", EInt(3), EInt(0), EInt(-1), SBlock(<<SLog(EId("j"))>>))>>)
WhileLoops == Main(
  <<SLet("s", EInt(2)),
    SWhile(EOp("<", EId("s"), EInt(4)), SBlock(<<SSet("s", EOp("+", EId("s"), EInt(1)))>>)),
    SRepeat(SBlock(<<SSet("s", EOp("-", EId("s"), EInt(2))), SIf1(EOp("==", EId("s"), EInt(2)), <<SContinue>>), SLog(EId("s"))>>),
            EOp("<=", EId("s"), EInt(0)))>>)

LoopExits(exit) == Main(
  <<SLet("s", EInt(0)),
    SFor("i", EInt(0), EInt(3), EInt(1),
         SBlock(<<STry(SBlock(<<SLog(EId("i")), SIf1(EOp("==", EId("i"), EInt(1)), <<exit>>), SSet("s", EOp("+", EId("s"), EInt(1)))>>),
                       <<>>, SBlock(<<SLog(EStr("finally"))>>)),
                  SLog(EId("s"))>>)),
    SLog(EStr("end"))>>)

(* The ways to leave a block.                                               *)
Exits == ("falls" :> SLog(EStr("-"))) @@ ("returns" :> SReturn(EInt(6))) @@ ("throws" :> SThrow(Error("x")))
         @@ ("faults" :> SLog(EOp("/", EInt(1), EId("n")))) @@ ("breaks" :> SBreak) @@ ("continues" :> SContinue)
Raises(w) == w \in {"throws", "faults"}

(* The catches of a try: none, one that does not take what is raised, or    *)
(* one after it that does and is left in one of these ways.                 *)
Catches == {"none", "misses"} \cup DOMAIN Exits
Missed == Caught("TypeError", <<SLog(EStr("type"))>>)
CatchOf(y) == CASE y = "none" -> <<>>
                [] y = "misses" -> <<Missed>>
                [] OTHER -> <<Missed, Caught("Exception", <<SLog(EStr("caught")), Exits[y]>>)>>
TryLeft(w, y, fin) == STry(SBlock(<<SLog(EId("i")), Exits[w]>>), CatchOf(y),
                           IF fin THEN SBlock(<<SLog(EStr("finally"))>>) ELSE Absent)
Around(outer, s) ==
  CASE outer = "plain" -> s
    [] outer = "finally" -> STry(SBlock(<<SLog(EStr("outer")), s>>), <<>>, SBlock(<<SLog(EStr("last"))>>))
    [] outer = "catch" -> STry(SBlock(<<SLog(EStr("outer")), s>>), <<Caught("RuntimeError", <<Message>>)>>, Absent)

(* A function whose loop runs a try that is left in way w, its catch, if    *)
(* that is entered, in way y; then it throws or returns.  The tries main    *)
(* has first keep the numbers of its handlers apart from the function's.    *)
Finished(s) == STry(SBlock(<<SLog(EStr(s))>>), <<Caught("Exception", <<SLog(EStr("never"))>>)>>, Absent)
Guarding(call, ss) == STry(SBlock(<<SLog(call)>> \o ss), <<Caught("Exception", <<Message>>)>>, Absent)
CallF == ECall("", "f(int)", <<EInt(0)>>, "int")
Leaving(w, y, fin, outer, rounds, end) == With(
  << <<Key("f(int)"), Static("f", <<Arg("n", "int")>>, "int",
       <<SFor("i", EInt(0), EInt(rounds), EInt(1), SBlock(<<Around(outer, TryLeft(w, y, fin)), SLog(EStr("after"))>>)),
         IF end = "throw" THEN SThrow(Error("y")) ELSE SReturn(EInt(7))>>)>> >>,
  <<Finished("a"), Finished("b"), Guarding(CallF, <<>>)>>)

(* A try as the first statement of a try.                                   *)
Nested == Main(<<STry(SBlock(<<STry(SBlock(<<SThrow(Error("x"))>>), CatchOf("falls"), Absent)>>), CatchOf("falls"), Absent)>>)

(* The same handler numbers in a function and its caller, two variables     *)
(* exchanged in a loop, and ints that are one as doubles.                   *)
SameNumber == With(
  << <<Key("f(int)"), Static("f", <<Arg("n", "int")>>, "int", <<STry(SBlock(<<Exits["faults"]>>), CatchOf("falls"), Absent), SReturn(EInt(7))>>)>> >>,
  <<Guarding(CallF, <<SThrow(Error("y"))>>)>>)
Exchange == Main(
  <<SLet("a", EInt(1)), SLet("b", EInt(2)),
    SFor("i", EInt(0), EInt(3), EInt(1), SBlock(<<SLet("t", EId("a")), SSet("a", EId("b")), SSet("b", EId("t"))>>)),
    SLog(EId("a")), SLog(EId("b"))>>)
CompareInts(lo, hi) == Main(<<SLog(EOp("<", EInt(lo), EInt(hi))), SLog(EOp("==", EInt(lo), EInt(hi)))>>)

(* An exception nobody catches passes two finally blocks and ends the       *)
(* program.                                                                 *)
Uncaught == With(
  << <<Key("f(int)"), Static("f", <<Arg("n", "int")>>, "int",
        <<STry(SBlock(<<SReturn(EOp("/", EInt(1), EId("n")))>>), <<>>, SBlock(<<SLog(EStr("inner"))>>)), SReturn(EInt(2))>>)>> >>,
  <<STry(SBlock(<<SLog(ECall("", "f(int)", <<EInt(0)>>, "int"))>>),
         <<Caught("TypeError", <<Message>>)>>, SBlock(<<SLog(EStr("outer"))>>))>>)

(* Classes: construction, fields, inheritance, dispatch through a parent.   *)
Animals == ("Animal" :> Class("", << <<"legs", "int">>, <<"name", "string">> >>)) @@ ("Dog" :> Class("Animal", <<>>))
Objects == Program(Animals,
  << << <<"Animal", "new(int)">>, Method("Animal", <<Arg("n", "int")>>, "void", <<SExpr(EFieldSet(EThis, "legs", EId("n")))>>)>>,
     << <<"Animal", "speak()">>, Method("speak", <<>>, "int", <<SReturn(EField(EThis, "legs", "int"))>>)>>,
     << <<"Animal", "twice()">>, Method("twice", <<>>, "int",
          <<SReturn(EOp("*", EInt(2), EMethod(EThis, "speak", <<>>, <<>>, "int")))>>)>>,
     << <<"Dog", "new()">>, Method("Dog", <<>>, "void", <<SExpr(ESuper("new(int)", <<EInt(4)>>))>>)>>,
     << <<"Dog", "speak()">>, Method("speak", <<>>, "int", <<SReturn(EInt(-1))>>)>>,
     << Key("show(Animal)"), Static("show", <<Arg("a", "Animal")>>, "void",
          <<SLog(EMethod(EId("a"), "speak", <<>>, <<>>, "int")), SLog(EMethod(EId("a"), "twice", <<>>, <<>>, "int"))>>)>> >>,
  <<>>, <<>>,
  <<SLet("a", ENew("Animal", "new(int)", <<EInt(3)>>)), SExpr(ECall("", "show(Animal)", <<EId("a")>>, "void")),
    SExpr(ECall("Main", "show(Animal)", <<ENew("Dog", "new()", <<>>)>>, "void")),
    SExpr(EFieldSet(EId("a"), "legs", EInt(6))), SLog(EField(EId("a"), "legs", "int")),
    STry(SBlock(<<STyped("b", "Animal", ENil), SLog(EField(EId("b"), "legs", "int"))>>),
         <<Caught("RuntimeError", <<SLog(EStr("nil"))>>)>>, Absent)>>)

(* Data, enums, patterns over values of an unknown type, guards.            *)
Shapes == ("Point" :> [Class("", << <<"x", "int">>, <<"y", "int">> >>) EXCEPT !.data = TRUE])
          @@ ("Color" :> [Class("", <<>>) EXCEPT !.enum = {"Red", "Green"}])
Point(x, y) == EData("Point", << <<"x", x>>, <<"y", y>> >>)
Patterns == Program(Shapes,
  << <<Key("kind(object)"), Static("kind", <<Arg("v", "unknown")>>, "int",
        <<SReturn(EMatch(EId("v"),
            <<Arm(PType("int", "n"), EOp("<", EId("n"), EInt(3)), EId("n")),
              Arm(PType("int", "m"), Absent, EOp("-", EId("m"), EInt(1))),
              Arm(PType("Point", "p"), Absent, EField(EId("v"), "x", "int")),
              Arm(PWild, Absent, EInt(9))>>, "int"))>>)>>,
     <<Key("at(Point)"), Static("at", <<Arg("v", "Point")>>, "int",
        <<SReturn(EMatch(EId("v"),
            <<Arm(PData("Point", << <<"x", PValue(<<"int", 1>>, "int")>>, <<"y", PVar("y")>> >>), Absent, EInt(20)),
              Arm(PData("Point", << <<"x", PVar("x")>>, <<"y", PWild>> >>), Absent, EId("x")),
              Arm(PValue(<<"nil", 0>>, "nil"), Absent, EInt(0))>>, "int"))>>)>>,
     <<Key("name(Color)"), Static("name", <<Arg("c", "Color")>>, "int",
        <<SReturn(EMatch(EId("c"), <<Arm(PValue(<<"enum", "Red">>, "Color"), Absent, EInt(1)),
                                     Arm(PValue(<<"enum", "Green">>, "Color"), Absent, EInt(2))>>, "int"))>>)>> >>, <<>>, <<>>,
  <<SLet("p", Point(EInt(1), EInt(2))), SLet("q", EWith(EId("p"), "Point", << <<"x", EInt(5)>> >>)),
    SLog(EField(EId("q"), "x", "int")), SLog(EField(EId("p"), "x", "int")), SLog(EOp("==", EId("p"), Point(EInt(1), EInt(2)))),
    SLog(ECall("", "kind(object)", <<EInt(2)>>, "int")), SLog(ECall("", "kind(object)", <<EInt(8)>>, "int")),
    SLog(ECall("", "kind(object)", <<EId("p")>>, "int")), SLog(ECall("", "kind(object)", <<EStr("s")>>, "int")),
    SLog(ECall("", "at(Point)", <<EId("p")>>, "int")), SLog(ECall("", "at(Point)", <<EId("q")>>, "int")),
    SLog(ECall("", "name(Color)", <<EEnum("Color", "Green")>>, "int"))>>)

(* Collections and the patterns over them.                                  *)
Lists == Main(
  <<SLet("l", EList(<<EInt(4), EInt(5)>>, "list", "int")), SLog(EIndex(EId("l"), EInt(1), "int")),
    STry(SBlock(<<SLog(EIndex(EId("l"), EInt(2), "int"))>>), <<Caught("RuntimeError", <<SLog(EStr("index"))>>)>>, Absent),
    SLog(EMatch(EId("l"), <<Arm(PList(<<PValue(<<"int", 4>>, "int")>>, FALSE), Absent, EInt(1)),
                            Arm(PList(<<PWild, PValue(<<"int", 5>>, "int")>>, FALSE), Absent, EInt(2)),
                            Arm(PWild, Absent, EInt(3))>>, "int"))>>)
Maps == Main(
  <<SLet("m", EMap(<< <<EStr("k"), EInt(1)>> >>, "map", "string", "int")),
    SLog(EMatch(EId("m"), <<Arm(PMap(<< << PValue(<<"string", "k">>, "string"), PValue(<<"int", 2>>, "int")>> >>), Absent, EInt(1)),
                            Arm(PMap(<< << PValue(<<"string", "k">>, "string"), PWild>> >>), Absent, EInt(2)),
                            Arm(PWild, Absent, EInt(3))>>, "int"))>>)

(* Short circuit, and a condition that is known when it is compiled.        *)
ShortCircuit == With(
  << <<Key("t(bool)"), Static("t", <<Arg("b", "bool")>>, "bool", <<SLog(EId("b")), SReturn(EId("b"))>>)>> >>,
  <<SLog(ELogical("and", ECall("", "t(bool)", <<EBool(FALSE)>>, "bool"), ECall("", "t(bool)", <<EBool(TRUE)>>, "bool"))),
    SLog(ELogical("or", ECall("", "t(bool)", <<EBool(FALSE)>>, "bool"), ECall("", "t(bool)", <<EBool(TRUE)>>, "bool")))>>)
KnownConditions == Main(
  <<SIf(<< <<EOp("==", EInt(1), EInt(2)), SBlock(<<SLog(EStr("never"))>>)>> >>, SBlock(<<SLog(EStr("always"))>>)),
    SConst("k", EOp("<", EInt(1), EInt(2))), SIf1(EId("k"), <<SLog(EStr("const"))>>),
    SWhile(EBool(FALSE), SBlock(<<SLog(EStr("dead"))>>))>>)

(* Recursion to the limit of the call stack, and a function with no result. *)
Recursion(n) == With(
  << <<Key("down(int)"), Static("down", <<Arg("n", "int")>>, "int",
        <<SIf1(EOp("==", EId("n"), EInt(0)), <<SReturn(EInt(0))>>),
          SReturn(EOp("+", EInt(1), ECall("", "down(int)", <<EOp("-", EId("n"), EInt(1))>>, "int")))>>)>> >>,
  <<STry(SBlock(<<SLog(ECall("", "down(int)", <<EInt(n)>>, "int"))>>), <<Caught("RuntimeError", <<SLog(EStr("deep"))>>)>>, Absent)>>)

(* Closures: captured values, called after the scope has gone.              *)
Closures == Program(<<>>,
  << <<Key("adder(int)"), Static("adder", <<Arg("n", "int")>>, "func", <<SReturn(ELambda(1, <<"n">>, "func"))>>)>>,
     <<Key("inc(int)"), Static("inc", <<Arg("n", "int")>>, "int", <<SReturn(EOp("+", EId("n"), EInt(1)))>>)>> >>,
  <<LambdaDecl("Main", <<"n">>, <<Arg("x", "int")>>, "unknown", TRUE, EOp("+", EId("x"), EId("n")))>>, <<>>,
  <<SLet("f", ECall("", "adder(int)", <<EInt(3)>>, "func")), SLog(EValueCall("f", <<EInt(4)>>, "unknown")),
    SLet("g", EFunctionRef("Main", "inc(int)", "func")), SLog(EValueCall("g", <<EInt(4)>>, "unknown")),
    SLog(EValueCall("f", <<EInt(5)>>, "unknown"))>>)

(* A callback under a lock: a native runs it in a nested execute.           *)
Locked(body) == Program("Mutex" :> Class("", <<>>), << << <<"Mutex", "new()">>, Method("Mutex", <<>>, "void", <<>>)>> >>,
  <<LambdaDecl("Main", <<>>, <<>>, "int", FALSE, SBlock(body))>>, <<>>,
  <<SLet("m", ENew("Mutex", "new()", <<>>)),
    STry(SBlock(<<SLog(ECall("Mutex", "withLock", <<EId("m"), ELambda(1, <<>>, "func")>>, "int")), SThrow(Error("y"))>>),
         <<Caught("RuntimeError", <<Message>>)>>, Absent),
    SLog(EStr("end"))>>)
LockedReturn == Locked(<<STry(SBlock(<<SLog(EStr("locked"))>>), <<Caught("RuntimeError", <<Message>>)>>, Absent), SReturn(EInt(1))>>)
LockedThrow == Locked(<<STry(SBlock(<<SThrow(Error("x"))>>), <<Caught("TypeError", <<Message>>)>>, SBlock(<<SLog(EStr("finally"))>>)),
                        SReturn(EInt(1))>>)
LockedEarly == Locked(<<STry(SBlock(<<SReturn(EInt(1))>>), <<Caught("RuntimeError", <<SLog(EStr("stale"))>>)>>, Absent), SReturn(EInt(2))>>)

(* Static fields: initialised once on first use, a failed initialiser stays *)
(* failed, one that reads its own field is refused.                         *)
Statics == Program(<<>>,
  << <<Key("make()"), Static("make", <<>>, "int", <<SLog(EStr("init")), SReturn(EInt(3))>>)>>,
     <<Key("fail()"), Static("fail", <<>>, "int", <<SLog(EStr("once")), SThrow(Error("bad"))>>)>> >>, <<>>,
  <<StaticDecl("Main", "n", "int", ECall("", "make()", <<>>, "int")), StaticDecl("Main", "bad", "int", ECall("", "fail()", <<>>, "int")),
    StaticDecl("Main", "self", "int", EOp("+", EStatic("Main", "self", "int"), EInt(1)))>>,
  <<SLog(EStatic("Main", "n", "int")), SExpr(EStaticSet("Main", "n", EOp("+", EStatic("Main", "n", "int"), EInt(1)))),
    SLog(EStatic("Main", "n", "int")),
    SFor("i", EInt(0), EInt(2), EInt(1), SBlock(
      <<STry(SBlock(<<SLog(EStatic("Main", "bad", "int"))>>), <<Caught("RuntimeError", <<Message>>)>>, Absent)>>)),
    STry(SBlock(<<SLog(EStatic("Main", "self", "int"))>>), <<Caught("RuntimeError", <<SLog(EStr("self"))>>)>>, Absent)>>)
=============================================================================
