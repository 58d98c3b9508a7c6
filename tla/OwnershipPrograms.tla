------------------------- MODULE OwnershipPrograms -------------------------
(***************************************************************************)
(* Programs the type checker has to judge: every sequence of a few         *)
(* statements about an owned object, and every match with a few arms,      *)
(* accepted or not.  A function is called with each argument it can get    *)
(* and does nothing that fails but use a moved variable or miss an arm.    *)
(***************************************************************************)
EXTENDS SamplePrograms

Boxes == "Box" :> Class("", << <<"v", "int">> >>)
NewBox(i) == ENew("Box", "new(int)", <<EInt(i)>>)
ValueOf(n) == SLog(EField(EId(n), "v", "int"))
Owned(n, e) == SVar(n, FALSE, "owned", "Box", e)
Borrows(n, e) == SVar(n, FALSE, "borrow", "Box", e)
Local(n, i) == n \o ToString(i)
IfElse(ss, tt) == SIf(<< <<EId("p"), SBlock(ss)>> >>, SBlock(tt))
Take(n) == SExpr(ECall("", "take(Box)", <<EMove(n)>>, "void"))

(* The i-th statement, by name.                                             *)
Statement(x, i) ==
  CASE x = "use" -> <<ValueOf("a")>>
    [] x = "move" -> <<Owned(Local("c", i), EMove("a")), ValueOf(Local("c", i))>>
    [] x = "give" -> <<Take("a")>>
    [] x = "moveIf" -> <<SIf1(EId("p"), <<Take("a")>>)>>
    [] x = "moveBoth" -> <<IfElse(<<Take("a")>>, <<Owned(Local("c", i), EMove("a")), ValueOf(Local("c", i))>>)>>
    [] x = "leave" -> <<SIf1(EId("p"), <<Take("a"), SReturn(Absent)>>)>>
    [] x = "borrow" -> <<Borrows(Local("r", i), EId("a"))>>
    [] x = "useBorrow" -> <<ValueOf("r1")>>
    [] x = "inner" -> <<SBlock(<<Borrows(Local("r", i), EId("a")), ValueOf(Local("r", i))>>)>>
    [] x = "capture" -> <<SLet(Local("f", i), ELambda(1, <<"a">>, "func"))>>
    [] x = "renew" -> <<SSet("a", NewBox(3))>>

Consumes(x) == x \in {"move", "give", "moveIf", "moveBoth", "leave"}
Stores(x) == x = "renew"
Statements == {"use", "move", "give", "moveIf", "moveBoth", "leave", "borrow", "useBorrow", "inner", "capture", "renew"}

BoxFuns(body) ==
  << << <<"Box", "new(int)">>, Method("Box", <<Arg("n", "int")>>, "void", <<SExpr(EFieldSet(EThis, "v", EId("n")))>>)>>,
     << Key("take(Box)"), Static("take", <<FParam("x", "Box", "owned")>>, "void", <<ValueOf("x")>>)>>,
     << Key("f(bool)"), Static("f", <<Arg("p", "bool")>>, "void", <<Owned("a", NewBox(1))>> \o body)>> >>
Call(b) == SExpr(ECall("", "f(bool)", <<EBool(b)>>, "void"))
OwnershipProgram(xs) ==
  Program(Boxes, BoxFuns(FlattenSeq([i \in DOMAIN xs |-> Statement(xs[i], i)])),
          IF Contains(xs, "capture") THEN <<LambdaDecl("Main", <<"a">>, <<>>, "unknown", TRUE, EField(EId("a"), "v", "int"))>> ELSE <<>>,
          <<>>, <<Call(TRUE), Call(FALSE)>>)

(* A match on a value of a type with finitely many values, arms by name.    *)
Guarded(p) == Arm(p, EId("g"), EInt(1))
Plain(p) == Arm(p, Absent, EInt(2))
BoolArm(x) ==
  CASE x = "true" -> Plain(PValue(<<"bool", TRUE>>, "bool"))
    [] x = "false" -> Plain(PValue(<<"bool", FALSE>>, "bool"))
    [] x = "true?" -> Guarded(PValue(<<"bool", TRUE>>, "bool"))
    [] x = "_" -> Plain(PWild)
    [] x = "_?" -> Guarded(PWild)
EnumArm(x) ==
  CASE x \in {"Red", "Green"} -> Plain(PValue(<<"enum", x>>, "Color"))
    [] x = "Red?" -> Guarded(PValue(<<"enum", "Red">>, "Color"))
    [] x = "_" -> Plain(PVar("y"))
    [] x = "_?" -> Guarded(PVar("z"))
ClassArm(x) ==
  CASE x = "Dog" -> Plain(PType("Dog", "d"))
    [] x = "Animal" -> Plain(PType("Animal", "n"))
    [] x = "Animal?" -> Guarded(PType("Animal", "m"))
    [] x = "null" -> Plain(PValue(<<"nil", 0>>, "nil"))
    [] x = "_" -> Plain(PWild)
MatchOn(classes, ty, arms, values, dog) ==
  Program(classes,
    << <<Key("f(subject,bool)"), Static("f", <<Arg("s", ty), Arg("g", "bool")>>, "int", <<SReturn(EMatch(EId("s"), arms, "int"))>>)>> >> \o dog,
    <<>>, <<>>,
    FlattenSeq([i \in DOMAIN values |->
      <<SLog(ECall("", "f(subject,bool)", <<values[i], EBool(TRUE)>>, "int")), SLog(ECall("", "f(subject,bool)", <<values[i], EBool(FALSE)>>, "int"))>>]))
DogFuns == << << <<"Animal", "new()">>, Method("Animal", <<>>, "void", <<>>)>>, << <<"Dog", "new()">>, Method("Dog", <<>>, "void", <<>>)>> >>
MatchProgram(kind, xs) ==
  CASE kind = "bool" -> MatchOn(<<>>, "bool", [i \in DOMAIN xs |-> BoolArm(xs[i])], <<EBool(TRUE), EBool(FALSE)>>, <<>>)
    [] kind = "enum" -> MatchOn(Shapes, "Color", [i \in DOMAIN xs |-> EnumArm(xs[i])], <<EEnum("Color", "Red"), EEnum("Color", "Green")>>, <<>>)
    [] kind = "class" -> MatchOn(Animals, "Animal", [i \in DOMAIN xs |-> ClassArm(xs[i])],
                                 <<ENew("Animal", "new()", <<>>), ENew("Dog", "new()", <<>>), ENil>>, DogFuns)
=============================================================================
