---------------------------- MODULE Compilation ----------------------------
(***************************************************************************)
(* The two routes from a program to the interpreter, side by side          *)
(* (src/compiler/pipeline.cpp, src/mir/pass_manager.cpp).                  *)
(*                                                                         *)
(* A program is type checked, and left there when that fails.  The         *)
(* reference route compiles the tree to bytecode directly.  The MIR route  *)
(* lowers it, promotes slots where asked, verifies, optimizes where asked, *)
(* and translates the result to bytecode for the same interpreter.  The    *)
(* behaviour of a program is what it prints and how it ends; the reference *)
(* route is run first and its behaviour kept in ref.                       *)
(*                                                                         *)
(* What a stage computes is a parameter here; MCCompilation gives each the *)
(* operator of the module that models it.                                  *)
(***************************************************************************)
EXTENDS Naturals, Sequences

CONSTANTS Programs,        \* a function from names to parsed programs
          Options,         \* the pipeline::Options programs are compiled with
          MaxIterations    \* OptimizationOptions::maxIterations

CONSTANTS KnownDifferent,       \* programs the routes are known to run differently
          KnownInstalledAgain   \* programs with which a handler is known to be
                                \* installed again while it is still there

CONSTANTS Checks(_),       \* the type checker accepts a program     (TypeChecker)
          Compiled(_),     \* a program's chunk, the reference route  (Compiler)
          Lowered(_),      \* a program's module                      (MirLowering)
          Promoted(_),     \* a module with its slots promoted        (MirPasses)
          Verifies(_),     \* the verifier accepts a module           (MirVerifier)
          Passes,          \* the optimizer's passes in order         (MirPasses)
          AfterPass(_, _, _),  \* a module after a pass, rolled back where it does
                           \* not verify when the third argument says so
          Agree(_, _, _),  \* the differential check of a module before and after,
                           \* and of the baseline                     (MirPasses)
          Translated(_),   \* a module's chunk                        (VmBackend)
          Machine,         \* the interpreter before the first step   (Vm)
          Executed(_, _)   \* a machine after one instruction of a chunk

ASSUME IterationsAssumption == MaxIterations \in Nat \ {0}
ASSUME OptionsAssumption == Options \subseteq [promote : BOOLEAN, optimize : BOOLEAN]

VARIABLES prog,    \* name of the program compiled
          opts,    \* promoteSlots and optimize of pipeline::Options
          stage,   \* the stage that runs next
          ref,     \* behaviour along the reference route
          mir,     \* the module
          before,  \* the module the optimizer was given
          base,    \* the differential check's baseline: no verification
          at,      \* the pass manager: iteration, pass, whether the iteration
                   \* changed anything, whether a pass was rolled back
          chunk, vm

vars == <<prog, opts, stage, ref, mir, before, base, at, chunk, vm>>

NoModule == [order |-> <<>>, funs |-> <<>>]
NoBehaviour == [out |-> <<>>, status |-> "running"]
FirstPass == [iter |-> 1, pass |-> 1, changed |-> FALSE, rolledBack |-> FALSE]

Behaviour == [out |-> vm.out, status |-> vm.status]

Init ==
  /\ prog \in DOMAIN Programs
  /\ opts = [promote |-> FALSE, optimize |-> FALSE]
  /\ stage = "check"
  /\ ref = NoBehaviour /\ mir = NoModule /\ before = NoModule /\ base = NoModule /\ at = FirstPass
  /\ chunk = <<>>
  /\ vm = Machine

(* TypeChecker::check, then Compiler::compile for the reference route.      *)
CheckTypes ==
  /\ stage = "check"
  /\ IF Checks(Programs[prog])
     THEN stage' = "reference" /\ chunk' = Compiled(Programs[prog])
     ELSE stage' = "illtyped" /\ chunk' = chunk
  /\ UNCHANGED <<prog, opts, ref, mir, before, base, at, vm>>

RunReference ==
  /\ stage = "reference" /\ vm.status = "running"
  /\ vm' = Executed(chunk, vm)
  /\ UNCHANGED <<prog, opts, stage, ref, mir, before, base, at, chunk>>

EndReference ==
  /\ stage = "reference" /\ vm.status # "running"
  /\ ref' = Behaviour
  /\ stage' = "lower" /\ vm' = Machine /\ chunk' = <<>>
  /\ UNCHANGED <<prog, opts, mir, before, base, at>>

(* lowerToMir: the module, with slots promoted when the options ask for it.  *)
LowerToMir ==
  /\ stage = "lower"
  /\ \E o \in Options :
       LET M == Lowered(Programs[prog]) IN
       /\ opts' = o
       /\ IF \E i \in DOMAIN M.funs : M.funs[i].incomplete
          THEN stage' = "unsupported" /\ mir' = M
          ELSE stage' = "verify" /\ mir' = IF o.promote THEN Promoted(M) ELSE M
  /\ UNCHANGED <<prog, ref, before, base, at, chunk, vm>>

VerifyMir ==
  /\ stage = "verify"
  /\ stage' = IF ~Verifies(mir) THEN "rejected" ELSE IF opts.optimize THEN "optimize" ELSE "generate"
  /\ before' = mir /\ base' = mir
  /\ UNCHANGED <<prog, opts, ref, mir, at, chunk, vm>>

(* PassManager::run, one pass over the module at a time.                    *)
OptimizePass ==
  /\ stage = "optimize" /\ at.pass <= Len(Passes)
  /\ mir'  = AfterPass(mir, Passes[at.pass], TRUE)
  /\ base' = AfterPass(base, Passes[at.pass], FALSE)
  /\ at' = [at EXCEPT !.pass = @ + 1, !.changed = @ \/ mir' # mir,
                       !.rolledBack = @ \/ mir' # AfterPass(mir, Passes[at.pass], FALSE)]
  /\ UNCHANGED <<prog, opts, stage, ref, before, chunk, vm>>

(* An iteration that changed nothing is the last; a rollback, a module that *)
(* does not verify and a failed differential check each refuse the result.  *)
NextIteration ==
  /\ stage = "optimize" /\ at.pass > Len(Passes)
  /\ IF at.changed /\ at.iter < MaxIterations
     THEN at' = [at EXCEPT !.iter = @ + 1, !.pass = 1, !.changed = FALSE] /\ stage' = stage
     ELSE /\ at' = at
          /\ stage' = IF at.rolledBack \/ ~Verifies(mir) \/ ~Agree(before, base, mir) THEN "refused" ELSE "generate"
  /\ UNCHANGED <<prog, opts, ref, mir, before, base, chunk, vm>>

(* generate: verifies again, then translates.                               *)
Generate ==
  /\ stage = "generate"
  /\ IF Verifies(mir) THEN chunk' = Translated(mir) /\ stage' = "run" ELSE chunk' = chunk /\ stage' = "rejected"
  /\ UNCHANGED <<prog, opts, ref, mir, before, base, at, vm>>

RunTranslated ==
  /\ stage = "run" /\ vm.status = "running"
  /\ vm' = Executed(chunk, vm)
  /\ UNCHANGED <<prog, opts, stage, ref, mir, before, base, at, chunk>>

EndTranslated ==
  /\ stage = "run" /\ vm.status # "running"
  /\ stage' = "done"
  /\ UNCHANGED <<prog, opts, ref, mir, before, base, at, chunk, vm>>

Next == \/ CheckTypes \/ RunReference \/ EndReference \/ LowerToMir \/ VerifyMir \/ OptimizePass
        \/ NextIteration \/ Generate \/ RunTranslated \/ EndTranslated

Spec == Init /\ [][Next]_vars

-----------------------------------------------------------------------------
(* The MIR route is the reference route: but for the programs known to      *)
(* differ, under every combination of promotion and optimization the        *)
(* translated program logs the same values in the same order and ends in    *)
(* the same way (runMirVm against the legacy compiler).                     *)
SameBehaviour == stage = "done" /\ prog \notin KnownDifferent => Behaviour = ref

(* The stages agree on what a program is: what the checker accepts is       *)
(* lowered completely, verifies, and is neither rolled back nor refused by  *)
(* the optimizer's own checks.                                              *)
Accepted == stage \notin {"unsupported", "rejected", "refused"}

(* The machine the compilers share stays sound along both routes, when a    *)
(* try, a loop, a function or a nested execute is left.  An installed       *)
(* handler belongs to a live frame and to values that are still on the      *)
(* stack, so that an exception never resumes a function that has ended.     *)
(* None is installed while it is there already in the same activation, but  *)
(* in the programs known for it.  A program that ends by itself leaves no   *)
(* handler, frame or nested execute behind and, compiled by the reference   *)
(* route, no value on the stack.                                            *)
LeftClean ==
  /\ prog \notin KnownInstalledAgain =>
       \A i, j \in DOMAIN vm.handlers :
         i < j => vm.handlers[i].to # vm.handlers[j].to \/ vm.handlers[i].depth # vm.handlers[j].depth
  /\ \A i \in DOMAIN vm.handlers :
       /\ vm.handlers[i].depth <= Len(vm.frames) /\ vm.handlers[i].stack <= Len(vm.stack)
       /\ i > 1 => vm.handlers[i - 1].depth <= vm.handlers[i].depth
  /\ vm.status = "halted" => /\ vm.handlers = <<>> /\ vm.frames = <<>> /\ vm.nest = <<>>
                             /\ stage = "reference" => vm.stack = <<>>
=============================================================================
