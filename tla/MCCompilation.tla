--------------------------- MODULE MCCompilation ---------------------------
(* Instances of Compilation for TLC. *)
EXTENDS Compilation, OwnershipPrograms, TypeChecker, MirPasses, Compiler, Vm

(* The stages.  Each is a LET, which TLC evaluates like any other operator  *)
(* but does not unfold when it prepares its statistics on the actions:      *)
(* unfolded, the compilers are too large for it.                            *)
StageChecks(p) == LET x == WellTyped(p) IN x
StageCompiled(p) == LET x == CompileProgram(p) IN x
StageLowered(p) == LET x == LowerProgram(p) IN x
StagePromoted(M) == LET x == PromoteModule(M) IN x
StageVerifies(M) == LET x == Verified(M) IN x
StageAfterPass(M, pass, verify) == LET x == RunPass(M, pass, verify) IN x
StageAgree(M, B, N) == LET x == SameModule(M, B, N) IN x
StageTranslated(M) == LET x == Translate(M) IN x
StageExecuted(C, s) == LET x == Step(C, s) IN x

AllOptions == [promote : BOOLEAN, optimize : BOOLEAN]

(* A try left in every way, its catch in every way, in a loop and under     *)
(* another try.                                                             *)
Lefts == {x \in
  {<<"leaving", w, y, fin, "plain", 2, end>> : w \in {w \in DOMAIN Exits : Raises(w)}, y \in Catches, fin \in BOOLEAN, end \in {"return", "throw"}}
  \cup {<<"leaving", w, y, fin, "plain", 2, "throw">> : w \in DOMAIN Exits, y \in {"none", "misses", "falls"}, fin \in BOOLEAN}
  \cup {<<"leaving", "throws", y, TRUE, outer, 2, "throw">> : y \in Catches, outer \in {"finally", "catch"}}
  \cup {<<"leaving", w, y, TRUE, "plain", 1, "return">> : w \in {"throws", "faults"}, y \in {"falls", "continues"}} :
  x[3] # "none" \/ x[4]}

(* Where the code is known to go wrong (README, Departures): a catch that   *)
(* was entered does not take down the handler of its try's own finally when *)
(* it is left by falling through (translated code) or by continue (the      *)
(* reference compiler).  It is in the way of a later throw, and installed   *)
(* again by the next round.                                                 *)
Entered(x) == x[1] = "leaving" /\ Raises(x[2]) /\ x[4]
KnownToInstallAgain == {x \in Lefts : Entered(x) /\ x[3] \in {"falls", "continues"} /\ x[6] = 2}
KnownToDiffer == {x \in Lefts : Entered(x) /\ x[3] = "falls" /\ x[7] = "throw"}
                  \cup {<<"same number">>, <<"exchange">>, <<"compare">>}

(* break leaves that handler, or the next one out, behind on either route:  *)
(* the routes agree, and a later throw enters a try that was left.          *)
KnownToHandleTwice == {x \in Lefts : Entered(x) /\ x[3] \in {"falls", "breaks", "continues"} /\ x[7] = "throw"}

(* Programs written out, one for each construct.                            *)
Samples ==
  (<<"nested">> :> Nested) @@ (<<"same number">> :> SameNumber) @@ (<<"exchange">> :> Exchange)
  @@ (<<"compare">> :> CompareInts(MaxInt - 3, MaxInt - 2))
  @@ (<<"arithmetic">> :> Arithmetic(MinInt, MaxInt)) @@ (<<"for">> :> ForLoop)
  @@ (<<"down">> :> DownLoop) @@ (<<"while">> :> WhileLoops)
  @@ (<<"uncaught">> :> Uncaught) @@ (<<"break">> :> LoopExits(SBreak)) @@ (<<"continue">> :> LoopExits(SContinue))
  @@ (<<"objects">> :> Objects) @@ (<<"patterns">> :> Patterns)
  @@ (<<"lists">> :> Lists) @@ (<<"maps">> :> Maps) @@ (<<"logic">> :> ShortCircuit) @@ (<<"known">> :> KnownConditions)
  @@ (<<"deep">> :> Recursion(MaxDepth)) @@ (<<"shallow">> :> Recursion(2))
  @@ (<<"closures">> :> Closures) @@ (<<"statics">> :> Statics)
  @@ (<<"locked">> :> LockedReturn) @@ (<<"thrown">> :> LockedThrow)

(* Programs generated: every sequence of three statements about an owned    *)
(* object that does not store into a variable which may have been moved,    *)
(* and every match of at most three arms.                                   *)
NoRevival(xs) == \A i, j \in DOMAIN xs : i < j /\ Consumes(xs[i]) => ~Stores(xs[j])
Owners == {<<"owner", xs>> : xs \in {xs \in [1..3 -> Statements] : NoRevival(xs)}}
Arms(kind) == CASE kind = "bool" -> {"true", "false", "true?", "_", "_?"}
                [] kind = "enum" -> {"Red", "Green", "Red?", "_", "_?"}
                [] kind = "class" -> {"Dog", "Animal", "Animal?", "null", "_"}
Matchings == UNION {{<<kind, xs>> : xs \in UNION {[1..n -> Arms(kind)] : n \in 1..3}} : kind \in {"bool", "enum", "class"}}
MCPrograms ==
  [x \in Lefts \cup Owners \cup Matchings \cup DOMAIN Samples |->
     CASE x[1] = "leaving" -> Leaving(x[2], x[3], x[4], x[5], x[6], x[7])
       [] x[1] = "owner" -> OwnershipProgram(x[2])
       [] x[1] \in {"bool", "enum", "class"} -> MatchProgram(x[1], x[2])
       [] OTHER -> Samples[x]]

(* A callback that returns from inside a try, under a lock.                 *)
EarlyReturn == <<"early">> :> LockedEarly

(* A guarded boolean literal counts as coverage (README, Departures): the   *)
(* arms of a match leave a value to it.                                     *)
RestsOnGuard(x) == x[1] = "bool" /\ Range(x[2]) \cap {"true?"} # {} /\ Range(x[2]) \cap {"true", "_"} = {}

(* Whatever way a try and its catch are left and whatever happens later,    *)
(* its finally runs once and its catch is closed.  In these programs a try  *)
(* logs first that it begins, its finally that it ends: what was begun has  *)
(* ended before it begins again and before the program is over; and the     *)
(* exception thrown after the loop is met by main alone, which logs "y".    *)
(* But for the programs known to hold on to a handler.                      *)
HandledOnce ==
  prog \in Lefts \ KnownToHandleTwice =>
    LET logged(S) == Cardinality({i \in DOMAIN vm.out : vm.out[i] \in S})
        paired(S, T) == logged(S) - logged(T) \in 0 .. (IF vm.status = "running" THEN 1 ELSE 0)
    IN  /\ prog[4] => paired({"0", "1"}, {"finally"})
        /\ prog[5] = "finally" => paired({"outer"}, {"last"})
        /\ logged({"y"}) <= 1

(* In the two generated families, whose programs can fail only by using an  *)
(* object after it was moved away or by matching a value that no arm takes, *)
(* a program the checker accepts does not fail, along either route, unless  *)
(* its match rests on a guarded literal.  The families have moves and       *)
(* borrows in sequences, branches, blocks and closures; loops, conditions   *)
(* that move, and shadowed names are not in them.                           *)
Sound == prog[1] \in {"owner", "bool", "enum", "class"} /\ ~RestsOnGuard(prog) => vm.status \in {"running", "halted"}
=============================================================================
