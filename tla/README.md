# A verification of the ZL tool chain

TLA+ models of three parts of [ZL](../src/README.md): the concurrent runtime of
the virtual machine, whose correctness depends on the order in which things
happen; the compiler, from the type checker over MIR and its optimizer to the
bytecode interpreter, in which two routes have to give a program one meaning; and
the package manager `zlpkg`. Every module is translated from the C++ source;
`PROJECT.json` gives the source lines of each definition.

- [The system](#the-system) – inventory: components, state, operations, hazards
- [Modules](#modules) – which module models what, and how
- [Runs](#runs) – what TLC checks, with which bounds
- [Fairness](#fairness)
- [Proofs](#proofs)
- [Departures](#departures-between-the-code-and-what-is-said-about-it)
- [What is not modelled](#what-is-not-modelled)
- [Plan](#plan)

## The system

ZL is a statically typed language with a tool chain in C++17: lexer and parser →
type checker → MIR (typed mid-level IR, verified and optimised) → bytecode or
native code → virtual machine with a tracing collector, tasks, threads and
channels. `zlpkg` resolves git and path dependencies and starts the VM with one
source root per package.

| Component | State | Operations | Hard behaviour | What makes it correct |
|---|---|---|---|---|
| GC safepoint coordinator (`vm/gc_safepoint.cpp`) | participants, parked set, root snapshots, request and running flags, one condition variable | register, unregister, poll, begin/end blocking native | every VM thread meets every other one; snapshots are built outside the lock; a faster VM starts the next collection before a slower one woke up; collection may throw | nobody mutates during a trace, snapshots stay complete, no wait is forever |
| Tracing collector (`vm/gc.cpp`) | registry, pins, free lists, byte counters | allocate, protect, collect, reclaim | reclaim runs after the world has been restarted; boxes are recycled | reachable objects live, recycled ones are clean |
| Task state (`vm/runtime_task.cpp`) | status, result, cancellation request, continuations, observers, weak spawn edges | start, succeed, fail, cancel, requestCancellation, then, onCancellation, addSpawnedChild, observe | any thread may call any of them; continuations run outside the lock | one terminal transition, each callback once, cancellation reaches every descendant |
| Async invocation and scheduler (`vm/vm.cpp`, `vm/runtime_scheduler.cpp`) | ready queue, per body: invocation, resume point, awaited task | Await, Task.block, Task.cancel, resume, pump | bodies nest on the C++ stack of the pumping thread; frames arrive from other threads | no lost wake-up, no body runs settled or without a reason |
| CPU pool and Task.spawn (`vm/runtime_task_executor.cpp`, `vm/native.cpp`) | queue, worker count, current spawning task | enqueue, workerLoop, destructor, spawn lambda | cancel between check and start; shutdown with work queued | exact count, cancelled work does not run, everything settles |
| Channels (`vm/native.cpp`) | buffer, pending senders and receivers | send, receive, sendAsync, receiveAsync, cancellation hooks, deadlock detection | completion after unlock, cancellation in between, collection in between | every value once, nobody waits in vain, no false alarm |
| Threads (`vm/runtime_thread.cpp`) | handle, std::thread, deferred joins, worker count | start, join, drop, drain | a `std::thread` destroyed joinable ends the process; implicit joins are bounded | one owner per std::thread, drains end |
| Locks, atomics, semaphores, conditions, `Shared` (`vm/native.cpp`) | per value | withLock, acquire, wait, notify, ... | callbacks under a lock, waits across safepoints | mutual exclusion, no lost notify |
| Interpreter (`vm/vm.cpp`, `vm/execution_state.cpp`, `vm/value.cpp`) | frames, value stack, handlers, heap, static fields, nested executes | one per opcode | exceptions through nested executions, lazy static initialisation, arithmetic at its limits | handlers belong to live frames, nothing is left behind, each initialiser runs once |
| Runtime types, native resources, other natives, regex | – | – | handles released while in use | contracts leave containers unchanged; no use after release |
| Lexer, parser, module loader | token stream, AST, module graph | – | look-ahead, import cycles | – |
| Type checker (`compiler/type_checker.cpp`) | scopes, moved names, borrow regions, refinements | one per kind of node | joins of branches, moves and borrows, coverage of matches, overloads | an accepted program uses no moved object and misses no arm |
| Reference compiler (`compiler/compiler.cpp`) | chunk, enclosing loops and finally blocks, owned locals | one per kind of node | every way out of nested loops and tries | each finally once, the stack balanced |
| MIR lowering (`mir/lowering.cpp`, `mir/builder.cpp`) | function under construction, scopes, handlers, finalizers | one per kind of node | finally on every path, clean-up of owned slots | the same meaning as the reference compiler |
| MIR verifier (`mir/verifier.cpp`, `mir/analysis.cpp`, `mir/safety.cpp`) | CFG, dominators, ownership flow | per-instruction and flow checks | fixpoints, joins | what lowering and the passes produce is accepted |
| MIR optimizer (`mir/opt_*.cpp`, `mir/folding.cpp`, `mir/ssa.cpp`, `mir/pass_manager.cpp`) | module, copies, iteration | promotion, nine passes, verify and roll back, differential check | stale facts inside a block, folding against run time, cap of the fixpoint | meaning is preserved, no good program is refused |
| Bytecode backend (`mir/vm_backend.cpp`) | chunk, locals, handler groups, dispatchers | per instruction, edge and terminator | handler chains re-created between blocks, edge arguments | the same meaning as the module |
| Native backend, pipeline, driver | – | – | fallback, per-stage options | stages agree on what a program is |
| `zlpkg` | manifest, lock, cache, remotes | install, install --update, run | a crash or a full disk in the middle of a write, two installs at once, edits and pushes meanwhile | a lock is used only if it is right; the graph matches the declarations |

How they meet: every VM is a participant of the coordinator. A program, a started
Thread and a spawned task run theirs on a thread of their own; an async body has a VM
too, which its scheduler resumes on the thread of the VM that pumps, while that one is
parked. Natives that wait are bracketed with begin/endBlockingNative.
`Task.spawn`, `Thread.start` and async calls create VMs or frames and share
`RuntimeTaskState`; a settled task runs continuations, which enqueue frames on the
scheduler of the VM that awaited. Channels and the deadlock detector read the
worker count that the pool and the threads keep. The collector reads the roots
the coordinator gathered. A program goes from the checker to one of two routes to
bytecode: the reference compiler reads the annotated tree, the MIR route lowers it,
verifies, optimizes and translates; both end in the same interpreter. `zlpkg` shares only the disk with other processes.

The hazards found while reading are listed with their lines in
`PROJECT.json`; the properties are aimed at them.

## Modules

In the runtime's modules one action is one critical section, or the work a thread
does between two of them; in the compiler's one stage, one pass or one
instruction. A guard is the code's condition; a call that throws and changes nothing
has no action. Definitions named `...` after a comment "Mutant" are wrong
variants used to see that the properties notice; they are not part of `Next`.

**GCSafepoint** – coordinator and collector. `participants`, `parked`, `roots`,
`collectionRequested`, `collectionRunning` are the fields of `CoordinatorState`;
`asleep` is the wait set of its condition variable, and `notify_all` empties it.
`pc[v]` is where VM `v`'s thread is. `poll` is split where it drops the lock:
`PollSnapshot` (roots copied outside the lock), `PollJoin`, then `CvWait`,
`Elect` or `PollResume`; the elected VM runs `Trace`, `Sweep`, `EndCollection`
and, with the world running again, `ReclaimReset` and `ReclaimPool`. Failures are
`GatherFails` and `CollectFails`. `entries` is the registry, `pool` the free
list, `refs` the object graph, `stack[v]` what `VM::gcRoots` reports. The
allocation thresholds are abstracted to `pressure`, which any allocation may
raise; `AllocOther` stands for the allocation of boxes that are not among the
instance's. `Mutex.withLock` and a timed wait stand for all bracketed natives.

**ManagedHeap** – the abstract specification: threads, closures handed to
workers, and boxes that exist as long as someone can reach them. No collector.
GCSafepoint implements it under the mapping that empties boxes the runtime no
longer owns.

**Promise** – the abstract specification of a task: an outcome decided once, a request
that stays, callbacks called at most once and for a reason. No threads, locks or lists.

**TaskState** – `RuntimeTaskState`. It implements Promise, under the mapping that shows
a task's terminal status only. Calls that run continuations or cascade a
cancellation outside the lock are unrolled into `todo[th]`, the rest of the
call, so that other threads act between two continuations.

**AsyncInvocation** – async bodies. `stack` is the nest of `execute()` calls on
the scheduler's thread, `ready` the scheduler's queue, `inflight` frames another
thread is about to enqueue. `Await` is three steps as in the code (read the task,
register the cancellation observer, register the continuation). What else a body
does is a free choice between awaiting, blocking in a helper, cancelling,
returning and throwing. `mode` is the kind of program: which bodies block inside a
helper, and which are cancelled from another thread; it is chosen at the start.

**TaskExecutor** – `Task.spawn`, the pool and its shutdown; `current` is
`gCurrentSpawningTask` with the value each worker's guard restores.

**Channel** – one channel between the main thread, its frames and workers. The
blocking operations retry under the lock; async ones leave a waiter whose
completion and whose cancellation hook are separate steps. `swept` records what
a collection in a receiver's window would reclaim.

**RuntimeThread** – where each `std::thread` object is: in its handle, in a join,
in a VM's deferred joins, joined or detached.

**Zlpkg** – manifests, lock, cache and remotes on disk, and processes that run
`ensureInstalled`. `tryUseLock` is the predicate `Usable`; `resolveAll` is one
step per queue item (`Visit`, `Revisit`, `Reject`), `fetchGit` one step per
filesystem operation of `settle`. `Truncate` and `Write` are `writeLockFile`: the
file is truncated on open and the stream is never checked, so `Prefixes` is what
a crash or a full disk can leave and `Overlays` what two writers can: the new text, or
a part of it, followed by the rest of the older one, whose fields override those of the
entry they follow (`Joined`, `Splices`). The history variable `tangled` remembers of a
lock that it goes back to such a text. The
fingerprints are the fields they hash (no collisions); git packages have no path
dependencies; relative paths mean the same directory for every requester.

The compiler is split as its source is. Everything but the pipeline is a pure
function there, and is one here; the recursion over trees needs RECURSIVE
operators, so these modules are for TLC only. IntegerArithmetic, which needs no
recursion, is kept apart from them so that it can be proved about.

| Module | Models | How |
|---|---|---|
| Ast | `parser/ast.hpp` | constructors for the annotated tree: types, storage names and resolved dispatch are fields of the nodes, as the checker leaves them |
| OperatorRules | `compiler/operator_rules.cpp` | result types of the built-in operators, used by the checker and by lowering |
| TypeChecker | `compiler/type_checker.cpp`, `semantic_model.cpp` | the walk threads scopes, moved names and borrow regions; `WellTyped` says it meets no error and resolves every node as the tree records it |
| Compiler | `compiler/compiler.cpp` | the reference route: code with relative jumps, then linked; environment `E` holds what the object keeps while walking (finally blocks, handlers, loops, owned locals) |
| Mir | `include/zl/mir`, `mir/builder.cpp` | functions of blocks with parameters and edge arguments, and the builder |
| MirLowering | `mir/lowering.cpp` | a lowerer record is `FunctionLowerer`'s state; `incomplete` is its way to give up |
| MirAnalysis | `mir/instruction.cpp`, `mir/analysis.cpp` | opcode shapes, edges, dominance over normal edges only, as in the code |
| MirVerifier | `mir/verifier.cpp`, `mir/safety.cpp` | the set of errors; the ownership flow is a fixpoint over blocks |
| MirPasses | `mir/effects.cpp`, `folding.cpp`, `opt_*.cpp`, `ssa.cpp`, `reachability.cpp`, `pass_manager.cpp`, `differential.cpp` | every pass of the default pipeline, promotion, and what the pass manager compares |
| VmBackend | `mir/vm_backend.cpp` | locals, instructions, edges, handler groups, dispatchers |
| IntegerArithmetic | int arithmetic of `vm/vm.cpp`, `mir/folding.cpp`, `tryFoldBinaryLiterals` of `compiler/compiler.cpp`, and the rules of `mir/effects.cpp` and `mir/opt_simplify.cpp` for operands known in part | two's complement at `IntBits`; `OverflowBuiltins` says whether the C++ compiler has `__builtin_add_overflow` and its like or the tests written out are built |
| Values | `vm/value.cpp`, the rest of the arithmetic of `vm/vm.cpp` | doubles are integers with `DoubleBits` significant bits, so that conversion loses precision at a reachable size |
| Vm | `vm/vm.cpp`, `vm/execution_state.cpp` | `Step(C, s)` executes one instruction; a native or a static initialiser that calls back pushes on `nest` |
| Compilation | `compiler/pipeline.cpp`, `mir/pass_manager.cpp` | the state machine: check, run the reference route, lower, verify, optimize pass by pass, translate, run |

`Compilation!Init` chooses a program and `LowerToMir` the options; `ref` keeps the
behaviour along the reference route, against which the other route is compared.
What a stage computes is a CONSTANT operator of Compilation; the configurations give
it the operator of its module through a one-line LET in MCCompilation, because TLC
otherwise unfolds the whole compiler into each action when it prepares its
statistics.
**SamplePrograms** and **OwnershipPrograms** are the inputs: trees written by hand,
one for each construct, and generated families.

MC modules (`MC*.tla`) only extend a module with symmetry or with the constants
of the instance.

## Runs

| Run | Instance | Checks | Shows |
|---|---|---|---|
| `gc_safepoint` | 2 VMs, 1 box that can refer to itself, a free list of 1 | TypeOK, StopTheWorld, NoDangling, ParkedRootsKept, PoolClean, TraceFrozen, NoSleeperForgotten, ImplementsManagedHeap, WaitsEnd | the rendezvous with start-up, exit, blocking natives and failures, and allocation by peers while a collector reclaims; 15 748 states |
| `task_state` | 2 tasks, 2 threads, 1 continuation, 1 observer | TypeOK, CallbacksOnce, CascadeComplete, ImplementsPromise, CascadeArrives | all interleavings of settle, register, cancel and spawn; 244 000 states |
| `async_bodies` | 2 bodies, 1 native task, 1 await each; no body blocks, or one blocks in a helper, or one is cancelled from another thread | RunsUnsettled, NeverEntersEmpty, NoLostWakeup, WakesUp | await against settlement and cancellation, nested pumping, cancellation from afar; 623 000 states |
| `async_stale_completion` | 1 body, another thread cancels | StaleCompletionAbsorbed – **violated** | see Departures |
| `executor` | 2 spawns (nested or not), 2 workers | CountMatches, AskedNeverSucceeds, CancelledNeverRuns, NoneStranded, SpawnsSettle | cancel and shutdown at any moment; 117 000 states |
| `channel` | 3 values, 2 async receives, 1 worker, capacity 1 | TypeOK, Conserved, NoStuckPair, NoFalseAlarm | sync and async operations with cancellation; 233 000 states |
| `channel_cancel`, `channel_collect` | smaller | CancelIsClean, ReceivedSurvives – **violated** | see Departures |
| `threads` | 3 handles, 2 VMs | NeverDestroyedJoinable, AliveIsExact, JoinRethrows, DrainReturns | handles shared, dropped, joined, drained; 316 000 states |
| `zlpkg` | 2 processes, packages with a diamond, a cycle, a conflict, a missing manifest and pins, those of path packages on each other included; 1 edit or push | GraphComplete, Reproducible, LockSound, TakesPristine | crashes, full disks, concurrent installs that write over each other; 881 000 states |
| `compile` | 1784 programs, of which the checker accepts 309, each of these compiled with and without promotion and optimization | SameBehaviour, Accepted, LeftClean, HandledOnce, Sound | both routes agree, no stage refuses what an earlier one accepted, handlers stay sound and each finally runs once, the checker is sound for moves and matches, but for the programs listed below; 185 000 states |
| `compile_return` | a callback under a lock that returns from inside a try | LeftClean – **violated** | see Departures |

Why these bounds are enough to be interesting. Two VMs are the smallest number in
which one polls, blocks, starts or leaves while the other collects, and names are
reused, so that any number of VMs come and go one after the other; what depends
on more VMs or on chains of boxes is covered by the proofs, which hold for any
number. Two tasks give a parent and a child, two threads a race for one task; one
continuation is enough as continuations do not interact. Two bodies give an
awaiter and an awaited body, and a body on top of another on the stack. Three
handles give a queue of two deferred joins beside a join. A channel of capacity 1
with three values is full with a sender waiting. In `zlpkg`, the instance has a
package reached from two sides under equal and under different refs, a cycle of
path packages, a commit that requires itself, pins that hold and pins that fail;
one edit is enough to make any lock stale, and damaged caches are edits too. The
cut points 0 and 5 of a torn entry are the ones its readers tell apart: without its
`deps_sha`, and with it but without the fields after it; a complete entry is the lock cut
before the next one.

Two premises of the `zlpkg` properties are needed, as runs without them show. LockSound is
about locks that one process wrote, whole or torn: the overlay of two texts can be accepted
although it describes no graph. And of the pinned versions it promises those the project
or a package from git asks for: those a path package pins of another are not compared
(both in Departures). GraphComplete, about fresh resolutions, has neither premise.

NoSleeperForgotten and WaitsEnd share the question whether a wait ends: the first says
that at every moment somebody awake will end it, the second that, with fair threads, it
does end, unless the VM is elected collector again and again (see Fairness).
DrainReturns is about the drain at the end of a VM's run; of drains in mid-run
`runtime_thread.hpp` says the opposite of what the code does (Departures).

For `compile`: `IntBits = 8` makes every overflow reachable by constants;
`OverflowBuiltins = FALSE` takes the tests that are written out, which are the harder
case (`compile_return` takes the builtins), and by OverflowTestsExact the choice shows
in no result; with `DoubleBits = 6`, fewer bits than an int has, sums of large numbers
are inexact in a double and exact in an int, and two ints can be one as doubles;
`MaxDepth = 6` is the interpreter's `maxCallDepth` (100000) shrunk so that a recursion exceeds it;
`MaxIterations = 4` is the code's default.

The programs are a hundred with a try in a loop, 465 and 1196 generated ones about matches and
owned objects, and 23 written by hand, which cover loops, arithmetic at the limits,
objects and dispatch, patterns, lists, maps, closures, static fields, recursion, nested
tries, callbacks under a lock and an exception nobody catches. What the families have:

- `Lefts`: a function whose loop of two rounds has a try; after the loop it throws. The
  body of the try throws or faults and the catch is left in each of the six ways
  (falling through, return, throw, fault, break, continue), or there is none, or none
  that takes the exception, with and without finally, and also with a return after the
  loop; or the body is left in each of the six ways and there is no catch, one that does
  not take the exception, or one that falls through. The try with finally whose body
  throws occurs with each of its catches inside another try with a catch, and inside one
  with a finally, too. All 1152 combinations of body, catch, finally, outer try, one or
  two rounds and end were compared once, outside the run: SameBehaviour and LeftClean
  fail for none but those with an entered catch that the table below lists.
- `Matchings`: every match of up to three arms over a boolean, an enumeration and a class
  hierarchy, with guards on literals, members, classes and wildcards.
- `Owners`: every sequence of three statements about an owned object out of eleven (use,
  move, give away, move in one branch, move in both, move and return, borrow, use the
  borrow, borrow in a block, capture, renew), but for those that store into the variable
  after a statement that may move it. A program is called with each argument it can get.

What the code is known to get wrong (Departures) is in the run and exempt, each set
by its shape, from the properties it breaks:

| Exempt | From | Programs |
|---|---|---|
| `KnownToInstallAgain` | LeftClean, its clause about handlers installed twice | a try with finally, in the second round of a loop, whose catch was entered and left by falling through or by continue |
| `KnownToHandleTwice` | HandledOnce | the same left by falling through, break or continue, with a throw after the loop |
| `KnownToDiffer` | SameBehaviour | the same left by falling through, with a throw after the loop; a function whose handlers have the numbers of its caller's; a loop that exchanges two variables; a comparison of two ints that are one as doubles |
| `RestsOnGuard` | Sound | a match over a boolean that leaves a value to a guarded literal |

Not in the run, although the code is known to depart there: a store into a variable that
may have been moved, moves in loops and in conditions, shadowed owners, a borrow of a
variable initialised by a move, and a call of `super.method`. Sound and Accepted say
nothing about these. A return from a try inside a callback is the violating run.

Deadlock is checked in `gc_safepoint`. The others may stop: programs end, task
states become terminal, a compiled program halts, and `zlpkg` has a bounded number of edits.

## Fairness

- `GCSafepoint!Fairness`: threads run; sleeps, callbacks and lock holders finish;
  the interpreter polls at least every 128 instructions, so a running VM reaches
  its safepoint. Waiting for the coordinator's condition variable is strongly
  fair: a notified thread whose predicate is true again and again gets the mutex
  at some point. This is needed, and it is an assumption about the operating
  system: with weak fairness only, a VM that is woken can find the next collection
  requested by a faster peer each time. It does not help a collector: while it
  destroys what it retired, its peers may allocate, request and park, so that it
  comes back to the loop with a request up and is elected again. WaitsEnd leaves
  out exactly that VM (see Departures). Nothing forces a VM to allocate, spawn or
  end, and no collection has to succeed.
- `TaskState`: a thread inside a call finishes it. Nobody has to start one.
- `AsyncInvocation`: the scheduler's thread runs while it has something to do;
  a frame handed over by another thread is enqueued. Native tasks need not settle.
  WakesUp is about programs in which no body blocks: a body on top of a blocked
  one can block on it in turn, and neither returns (see Departures).
- `TaskExecutor`: workers run, closures return.
- `RuntimeThread`: a drain goes on, the bound of `joinOrAbandon` expires, a worker
  that stored its flag exits. Workers need not end.
- `Channel`, `Zlpkg` and `Compilation` check no liveness and assume no fairness;
  the programs compiled may loop, and a stage is a function that returns.

## Proofs

TLAPS proves the following for every value of the constants that satisfies the
module's named assumption: any number of VMs, threads, tasks, bodies, values,
workers, processes, packages and manifests, any capacity, any bound and ints of any
width. Apart from finiteness (where something is
counted) and bounds being natural numbers, the assumptions only keep the model's
sets apart from each other and from its reserved words (`"none"`, `"main"`, ...), and
of the width of an int they ask that 1 be one.

| Module | Theorem | Statement |
|---|---|---|
| `GCSafepoint_proofs` | TypeCorrect | `Spec => []TypeOK` |
| | WorldStops | `Spec => []StopTheWorld` |
| | NeverDangling | `Spec => []NoDangling` |
| | RootsKept | `Spec => []ParkedRootsKept` |
| | PoolStaysClean | `Spec => []PoolClean` |
| | SleepersRemembered | `Spec => []NoSleeperForgotten` |
| | TraceIsFrozen | `Spec => TraceFrozen` |
| | CollectorIsInvisible | `Spec => ImplementsManagedHeap` |
| `TaskState_proofs` | TypeCorrect | `Spec => []TypeOK` |
| | CallbacksRunOnce | `Spec => []CallbacksOnce` |
| | TasksArePromises | `Spec => ImplementsPromise` |
| | CascadeReachesAll | `Spec => []CascadeComplete` |
| `AsyncInvocation_proofs` | TypeCorrect | `Spec => []TypeOK` |
| | NoWakeupLost | `Spec => []NoLostWakeup` |
| | EnteredForAReason | `Spec => []NeverEntersEmpty` |
| | BodiesRunUnsettled | `Spec => []RunsUnsettled` |
| `TaskExecutor_proofs` | TasksCounted | `Spec => []CountMatches` |
| | NoneIsStranded | `Spec => []NoneStranded` |
| | AskedNeverDelivers | `Spec => []AskedNeverSucceeds` |
| | CancelledStaysOut | `Spec => CancelledNeverRuns` |
| `Channel_proofs` | TypeCorrect | `Spec => []TypeOK` |
| | NoPairWaits | `Spec => []NoStuckPair` |
| | AlarmsAreTrue | `Spec => []NoFalseAlarm` |
| | ValuesConserved | `Spec => []Conserved` |
| `RuntimeThread_proofs` | ThreadsDisposedOnce | `Spec => []NeverDestroyedJoinable` |
| | WorkersCounted | `Spec => []AliveIsExact` |
| | FailuresRethrown | `Spec => []JoinRethrows` |
| `Zlpkg_proofs` | PristineTaken | `Spec => TakesPristine` |
| | InstallReproducible | `Spec => []Reproducible` |
| | GraphsComplete | `Spec => []GraphComplete` |
| | LocksSound | `Spec => LockSound` |
| `IntegerArithmetic_proofs` | TestsStayInRange | no limit an operand is compared with overflows |
| | OverflowTestsExact | the tests for overflow answer exactly whether the result fits |
| | InterpreterExact | the interpreter's result is the mathematical one, if that is defined and fits; otherwise it throws |
| | FoldingExact, LiteralsExact | both compile-time evaluators have the interpreter's result, and none where it throws |
| | NegationExact | the same for negation, and -(-x) is x wherever -x does not throw |
| | HarmlessNeverRaises | an operation taken for harmless never throws |
| | IdentitiesExact | a result replaced by an operand or zero is that value |

Each theorem about a specification follows from an inductive invariant: `InvInit`, one lemma per action,
`InvStep`, `InvHolds`. TLC checked every one of these invariants on the instance of
the module's run before it was proved, but for `Locks` of Zlpkg, which speaks of all
graphs at once. None of the properties above is inductive as
it stands, but for NoneStranded, which is so beside `Inv`; what has to be added says why
the code is right.

**GCSafepoint.** Typing already needs an argument: a pin counter stays a natural
number only because it counts exactly the workers whose closure it pins
(`ClosurePinned`, `ClosureWhere`). The invariant is

    IInv == TypeInv /\ CoordInv /\ RootsInv /\ MarkInv /\ BoxInv /\ Live \subseteq entries

- `CoordInv`: which program counters are participants, which are parked, and that
  at most one VM is in the collecting region, exactly while `collectionRunning`.
  StopTheWorld follows; it is not preserved on its own, because nothing in it
  stops a second VM from being elected.
- `RootsInv`: a parked VM's roots cover its stack, and so does the private
  snapshot of one that is between building it and joining.
- `MarkInv`: what the collector marked covers everything live and is closed under
  references, from the trace to the sweep. It is preserved because during these
  steps nobody mutates (`FrozenStep`), which rests on CoordInv.
- `BoxInv`: registry, pool and retired lists are disjoint; pooled boxes are empty
  and, once reset, so are retired ones.
- `Live \subseteq entries` is NoDangling. The sweep preserves it by MarkInv; a
  mutator step because it can only reach what was live (`LiveMutate`); a new
  worker's closure because it is pinned.

NoSleeperForgotten needs, beside IInv, `SleepersWait`: whoever sleeps has its reason to
wait. A step that takes a reason away must notify (`NotifyWakes`) and every other step
leaves the reason alone (`ReasonStays`). That somebody awake will end the wait is then
`CoordInv`: the collector of a running collection is one of the VMs between election and
end, and none of these sleeps; outside a collection a thread waits only for a participant
that has yet to park, and that one does not sleep, because it would have parked first.

`Reach` is defined as the least closed set, so that its three facts
(`ReachContains`, `ReachClosed`, `ReachLeast`) need no induction. The refinement
maps a sweep to the disappearance of unreachable boxes and everything the
coordinator does to a stutter.

**TaskState.** `Inv == Types /\ WaitsLive /\ CallbackInv`.

- `DueOnce`, `Exclusive`: a callback is in at most one of "registered", "in some
  thread's list of calls" and "has run", and in that list once. This is about all
  threads at once, because a callback moves from a task's set to the list of
  whichever thread settled or cancelled the task. That `ran` never exceeds 1, part
  of TypeOK, rests on it.
- `WaitsLive`: registered continuations wait on unsettled tasks, registered observers
  on tasks that were not asked either. It holds because registration and settlement
  look at the status under the same lock, and it is what keeps `NotLost` true.
- CascadeComplete is carried by `Cascade`: a child of a cancelled parent is dead,
  settled, asked, about to be asked, *or its parent's list is still to be
  propagated*. The last disjunct covers the child added in mid-cascade.
- ImplementsPromise: every critical section is one step of Promise or a stutter. What
  Promise asks of a call is that the callback was not called and that its task settled,
  or was asked to stop. `ran` is 0 for what is still in a list, by `Exclusive` and
  `DueOnce`; the rest is `WaitsUnsettled`, proved beside `Inv`: a continuation of an
  unsettled task is still among its continuations, so that one on its way to be called
  belongs to a settled task.

**AsyncInvocation.** `Inv` has eight parts. `Woken` (a started body that is not on the
stack has a frame that will enter it, or waits: its awaited task is unsettled and has
it among its waiters, and its own task has an observer) is NoLostWakeup made
inductive. It is at risk while a body suspends, in the window between the two
registrations of Await; there `CallOK` asks for `Prompted`, that a cancellation has
become or will become a frame. `FramesOK` says what each queued frame promises, from
which NeverEntersEmpty follows; `StartsOnce` is needed with it, since a second start
frame would resume a body that waits for something else. `Lifecycle` ties status,
`started` and `invocation`. `QuietOK` is the part about programs that neither block
nor cancel from afar; the stale completion the run `async_stale_completion` shows is
exactly what lies outside it, and the other three theorems hold there too.

**TaskExecutor.** `Inv == Safe /\ CountMatches`: every task is in one worker's hands or
once in the queue (`HeldOnce`, `QueuedOnce`), so the count changes by one with each
step that changes the set it counts. `AskedStays` keeps a request from the moment main
made it until the worker looks; `SucceededLast` that nobody settles a task for its worker.
NoneStranded (`Tended` for each task, and no worker gone while the pool runs or anything
is queued) is inductive beside `Inv`: a task leaves the queue only into the hands of a
worker, by `QueuedOnce` the one entry it has, and a cancelled task is no longer pending.

**Channel.** `Places`: a value is in the buffer, with a queued sender, in one
operation's hands, delivered or swallowed, and these exclude each other; Conserved
counts the places. NoStuckPair is inductive together with `Queues` (no waiter twice,
queued senders not settled) and `Hands` (what an operation carries between unlock and
completion). `Counts` ties the number of live workers to the workers that can act; it
cannot grow under the detector, whose check holds the channel's lock.

**RuntimeThread.** `PlacesHold`: a `std::thread` object is in its handle, in a VM's
hands, in one queue of deferred joins or disposed of, and the handle's owners agree
with that. `CallsApart` and `QueuesHold` keep two VMs off the same object.

**Zlpkg.** `ManifestsAssumption` says what `loadManifest` lets through: no name empty or
given twice, no ref on a path. `Resolving == Types /\ Graphs /\ Memos /\ Clones /\ Alone`
is enough for PristineTaken; the whole is
`Inv == Resolving /\ Finished /\ Took /\ Kept /\ Locks`.

- `Graphs` describes a resolution in progress (`Growing`): every recorded declaration is
  answered or still queued, the root's declarations come first under their names (so
  they are recorded as written, which the lock is later compared with), and every set
  closed under "needs" holds all names met. `Finished` is the same with an empty queue.
- `Memos`: a fetched checkout lies under the name of the package in it, or was fetched
  for the head of the queue and is looked at next. Without it a memoized checkout could
  be taken for another name.
- `Alone`: nobody else runs, the remembered checkouts verify, and what is being removed
  does not. `Took` and `Kept` carry "as it is on disk" from the packages a process took
  to the lock it wrote, across the steps of processes that start afterwards. What they
  carry is `Lasting`: the lock is accepted and taken over as it stands, which a step
  preserves as long as the checkouts the lock names stay (`LastingStays`).
- `Locks`: a lock that is not `tangled` and has a graph's header has entries of this
  graph, of which some may be missing and some cut. `LockReused` is the heart:
  `tryUseLock` accepts such a text only if it is the graph. The comparison of dependency
  lists rules out an entry cut too early, reachability one nobody asks for, closure a
  missing one. `GraphUsable` is the converse for Reproducible, for which it does not
  matter where a lock comes from: what an install accepted it accepts again. The
  lemmas about `Overlays` show only that such a text is typed and `tangled`.

No theorem has a hypothesis beside `ManifestsAssumption`: any manifest may pin the version
of any dependency.

**IntegerArithmetic.** There are no steps here; the argument is about division.
`TruncFacts` states what truncating division is (x = y·q + r, r smaller than y and of x's
sign), `BeyondQuotient` that a > M div b exactly if a·b > M, and `ProductCases` reads the
tests of a multiplication off it, sign by sign; `QuotientFits` finds MinInt / -1 to be
the only quotient that does not fit. The rules of the optimizer follow from
InterpreterExact: it says what the operation computes, and what is known of one operand
says that this is the other, or zero, or fits. Exponentiation is missing, since it
recurses, and so are shifts, bitwise operations and comparisons.

Two definitions are written with the prover in mind, with the same meaning: a cascade
is a least closed set and the frames a settlement enqueues are described by their
positions (`Slots`, `InOrder`), where the code loops; a waiter leaves a queue by
position (`Without`).

Only model-checked:

- all liveness (WaitsEnd, CascadeArrives, WakesUp, SpawnsSettle, DrainReturns): fairness
  and ENABLED are beyond this prover;
- the compiler but for its int arithmetic (SameBehaviour, Accepted, LeftClean, HandledOnce,
  Sound):
  its operators recurse over trees and graphs, and a theorem about all programs would
  need induction over them.

## Departures between the code and what is said about it

Shown by a run (findings in `PROJECT.json`):

- *A stale completion reaches the handler* (`async_stale_completion`).
  `Task.cancel` from another thread settles a body that has just started; its
  completion resets the invocation, throws, and the handler dereferences the
  reset optional. The comment at `vm.cpp:1582` says this race is absorbed.
- *Cancelled waiters swallow or deliver values* (`channel_cancel`), in the window
  between taking the waiter off the queue and completing it.
- *A received value can be reclaimed* (`channel_collect`): `receive` takes it while
  its VM counts as parked.
- *A return leaves handlers behind* (`compile_return`). A function called from a
  native that returns from inside a try leaves that try's handlers installed: the
  nested execute returns at `vm.cpp:1379`, before the code that removes the handlers
  of an ended frame. A later exception resumes the ended function.

Met while modelling, without a run of their own.

Runtime and `zlpkg`:

- A collector can be kept in `poll` without end (`gc_safepoint.cpp:137-190`): while it
  destroys what it retired, with the world running, a peer may allocate, request the
  next collection and park; the collector counts as parked, finds the request up when it
  is back in the loop and is elected again. No fairness of threads or of the condition
  variable prevents it; every round collects, but the VM's program does not go on.
- `gCurrentSpawningTask` is one variable for the process, so a spawn can be recorded
  under a task of another thread; `runtime_task.hpp:90` says "on this thread" and the
  changelog (`changelog.md:296`) calls it thread-local. Module TaskExecutor has the
  shared variable and reaches the wrong edge.
- A body that pumps the scheduler from a synchronous helper and is cancelled is
  entered a second time by its cancellation continuation (`vm.cpp:975`; the README
  says cancellation is observed at the next await).
- A body run on top of a blocked body that blocks on the lower one never returns,
  although the comment at `vm.cpp:578` says blocking cannot deadlock the scheduler.
- `Task.cancel` throws `logic_error` if the task settles between its two critical
  sections (`vm.cpp:936`).
- A second concurrent `Thread.join` returns at once (`runtime_thread.cpp:101`);
  `runtime_thread.hpp:70` says an explicit join waits. A drain in mid-run
  gives up after the bound as well (`runtime_thread.cpp:72-83`, whose comment says so),
  where `runtime_thread.hpp:61` says it keeps waiting. The failure of a dropped,
  never joined Thread is lost, unlike `runtime_thread.hpp:69`.
- `tryUseLock` compares version pins for the root's declarations only
  (`commands.cpp:117`): a path package whose version moved away from the pin of another
  path package is accepted under the lock, where a fresh resolution would fail;
  `docs/packages.md` says the pin is verified. Pins on git packages hold all the same,
  because the commit is compared. With the pins of path packages in its promise,
  LockSound is violated by the run's instance.
- Two installs at once write into one file (`lockfile.cpp:115-137`). Where the older text is
  longer, its remaining fields override those of the last new entry
  (`lockfile.cpp:199-206`). The header, the root's entries and the dependency lists can
  fit although a transitive entry names another commit than its requester asks for,
  since `declared_ref` is compared for root dependencies only (`commands.cpp:99-104`).
  Without its premise about such texts LockSound is violated by the run's instance.
- Transitive path packages are read from the `dir` recorded in the lock, which the comment
  at `commands.cpp:60` calls never trusted.
- Two installs that settle the same commit: the one that renames second finds the
  directory, falls back to copying and fails; if the entry was damaged before, one
  may remove the checkout the other has just placed (`git.cpp:165-180`).
- A lock torn in the middle of a line is a hard error for every install until
  `--update`, as `lockfile.hpp` says; nothing tells the install that tore it.

Interpreter and code generation:

- The arguments of an edge are copied into the target's parameters one after the
  other (`vm_backend.cpp:1528`), although the comment above it and
  `docs/mir-optimizer.md` speak of preserved meaning: a loop that exchanges two
  variables gives a different result when it is promoted (`ZL_MIR_PROMOTE=1`) and
  optimized; unoptimized, a temporary slot stands between (program `exchange`).
- The same early return at `vm.cpp:1379` also skips writing captured variables back
  to their closure, which the return at 1391 does.
- `removeHandlerGroup` removes a group from every frame, not from its own only
  (`execution_state.cpp:124`). Translated functions number their groups from 1 each, so
  that an exception caught in a callee uninstalls its caller's handlers of the same number
  (program `same number`); the reference compiler's numbers are unique in a program, and
  only a recursive function loses its own.
- While a catch of a try with a finally runs, the finally's handler is still installed,
  but the compilers do not count it. In the reference compiler (`compiler.cpp:636`,
  649-656) break and continue in the catch pop one handler too few (573, 587); in
  translated code (`lowering.cpp:2055-2101`, `vm_backend.cpp:1649-1668`) falling through does,
  too. A handler of a try that was left, the finally's or that of the next try out,
  stays: a later throw in the function runs a finally a second time or is caught by a
  catch that is over, and the next round of a loop installs the handler again. That
  a throw in the catch runs the finally at all is owed to the same handler: in MIR the
  catch is not protected by it.
- A lambda inside a try inherits its finally blocks (`compileLambdaExpr`).
- MIR lowering has no implicit call of the parent's constructor
  (`compiler.cpp:266-290`). The order of evaluation differs between the routes for
  field assignments and for calls of values; the backend resolves overloads again.
- A store to a static field, a void await and the task instructions leave their
  value on the stack in translated code: LeftClean asks for an empty stack on the
  reference route only.
- `unreachable` emits no code, and `Widen` is the identity in
  `vm_backend.cpp:788-794`.

Verifier and optimizer:

- The verifier rejects every `super.method(...)` lowering produces
  (`verifier.cpp:2167-2213`, `lowering.cpp:1280-1307`).
- Dominance ignores unwind edges; `Add` and `Sub` are marked as not throwing.
- Folding compares ints as doubles (`folding.cpp:349-364`): two ints that are one as doubles
  are compared as equal, unlike in the interpreter (program `compare`).
- Copy propagation carries a moved value into a borrow; the verifier rolls the pass
  back and the optimizer refuses the module (`opt_simplify.cpp:447-470`,
  `verifier.cpp:3420-3437`).

Type checker:

- A guarded boolean literal counts as coverage, although
  `docs/language-guide.md:289` says "Guards do not establish exhaustive coverage".
- A store into a moved variable is accepted (`type_checker.cpp:5081-5216`);
  `docs/mir.md:273` says the checker rejects it, and the verifier does.
- Loop bodies are checked once (3488-3533), so a move is not seen by the next
  iteration; a move in an if's condition is forgotten in its else (3373-3400);
  moves are recorded by name, so a shadowing variable shares them (2692-2694);
  joined borrows and borrows of elements escape the region test (2660-2682).
- An implicit call of an inherited private method is not checked for access
  (5002-5045).

## What is not modelled

- Memory reclamation of channels' containers by reference counts, and data races
  on containers below the level of one operation: undefined behaviour is named in
  the hazards, not explored.
- Two static initialisers on two threads that wait for each other: module Vm has
  one thread.
- In the compiler: async functions and tasks in bytecode (their protocol is
  AsyncInvocation), generics and unions, function signatures, the order of locks,
  the capture rules of threads and `Shared`, the verifier's checks of foreign calls,
  and the IR kept for listings and the experimental native compiler.
- Lexer and parser, module loader, regular expressions, native backend: planned as
  far as they hold logic. Tables, text formats, diagnostics, encodings of machine
  words, file and socket I/O, built-in declarations and the standard library (ZL
  programs) stay out.
- Native resources and most locks: planned.
- `zl-bind` is an offline generator.

## Plan

Done: GCSafepoint with ManagedHeap, TaskState, AsyncInvocation, TaskExecutor,
Channel, RuntimeThread and Zlpkg with their proofs; the compiler and interpreter as
Compilation and the modules under it, with proofs about IntegerArithmetic. The project keeps to a dozen runs, so a new
question takes the place of an old one.

1. **SyncPrimitives** and **NativeResource** (native.cpp, native_resource.cpp,
   native_boundary.cpp): locks, semaphores, conditions, `Shared`; ownership,
   borrows and release of handles.
2. **Static fields across threads**: each initialiser runs once and is seen
   complete, or everybody sees its failure, as a refinement.
3. **Frontend**: operator precedence and look-ahead, module loading with cycles and
   shadowing.
4. **Native backend** as far as selection and refusals; **Regex** against a
   reference matcher.
