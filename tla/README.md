# The Yz compiler and runtime: a verification project

Yz is a language in which every block of code ("boc") may be called
concurrently. The compiler (`src/compiler`, Go) translates Yz to Go; the
generated program runs on a small runtime that schedules behaviours over
*cowns* (concurrent owners). What the language promises - no data races, no
deadlock, spawn order, structured concurrency - is produced jointly by
the lock-free queue of `runtime/rt/cown.go`, by the thunks and groups of the
runtime, and by the order in which `internal/ir/lower.go` and
`internal/codegen/codegen.go` emit statements. Around it are the phases of a
compiler: lexer, parser, analyzer, and a build driver that runs macros as
separate executables. This project models all of them. Paths below are relative
to `src/compiler` unless they start with `src/`.

Contents: 1 inventory, 2 plan, 3 the modules, 4 the runs, 5 bounds, 6
fairness, 7 the proofs, 8 where code and documentation disagree, 9 what is not
modelled.

## 1. Inventory

| Component | State | Operations | Interacts with | What makes it correct | Module |
|---|---|---|---|---|---|
| Cown queue, `runtime/rt/cown.go` | per cown: tail `last`, `currentReq`; per request: `next`; per behaviour: `count`, `done` | Schedule, ScheduleMulti, ScheduleAsSuccessor, enqueueCown, insertSuccessor, run, releaseCown | atomics shared by all goroutines; starts a goroutine per behaviour | one holder at a time, no lost request, exact counts, first come first served, successors first, no circular wait | `Cown`, `CownQueue`, `BocQueue` |
| Thunks and groups, `runtime/rt/thunk.go`, `core.go` | `once`, `val`, `fn`; `pending` | Force, NewThunk, Go, Add, Wait | run closures of the generated code, which schedule on cowns | run once, everybody waits for the end, all children forced | `BocExec` |
| Emitted shapes, `internal/codegen/codegen.go` | none: decides what is inside and outside the cown | emitThunk, emitScheduleMultiSplit, emitImmediateBody, partitionWaitBody | IR in, Go text out | nothing waits with a cown held, no field access without one, order of the calls | `BocExec`, `BocLowering` |
| Body lowering, `internal/ir/lower.go` | group of the body, pending spawns, pending names | lowerBocBody, lowerSingletonBodyStmts, lowerMainStmt | AST and types in, IR out | every call joined, every reader sees the last write, the result is the last element | `BocLowering` |
| Held-cown calls, `internal/ir/lower.go` | set of leaf methods, pending declarations | collectMethodEligibility, hoistHeldCownCalls, trySyncExpr | the lowering above | a method waits for a sibling that needs the cown it holds nowhere but at the call it ends with | `HeldCalls` |
| Values, `runtime/rt/types.go`, `option.go`, `collections.go` | `val`, `lazy` cell, marks of printing, backing arrays | force on first use, Await, operators, Stringify; At, Set, Append, Filter, Any, All, Range | thunks | a value is settled once and before it is read; prints are whole; arrays are not shared | `LazyValues` |
| Analyzer, `internal/sema/analyzer.go`, `types.go` | scopes, stubs, types of expressions | stubs, one pass over the elements, IsCompatibleWith | AST in | what it accepts is what structural typing accepts, whatever the order of declarations | `Types`, `Sema` |
| Definite assignment, `internal/sema/definite_assign.go`, `scope.go` | per variable the field paths assigned; chain of scopes | mark, clone, join, propagate, resolve | analyzer | a field counts as assigned only if every path assigns it | `DefiniteAssign` |
| Lexer, `internal/lexer` | position, last token | Next, automatic semicolons, interpolation, annotations | source in | statements end where the rules say | `Lexer` |
| Parser, `internal/parser` | position, `inTypeBoc` | recursive descent | AST out | one reading, nothing dropped | `Parser`, `Front` |
| Build driver, `cmd/yzc/build.go` | source roots, packages, `target/` | walk, merge, order, compile, write, link | files, `go build` | packages in dependency order, conflicts reported | `Yzc` |
| Macros, `cmd/yzc/macro.go` | registry, states, hash files, executables, kept outputs | ensureMacroPackageBuilt, bootstrap, expandSubject, invokeMacro | executables, files that survive a crash | cycles found, nothing stale used | `Yzc` |
| HTTP, time, diagnostics, command line, wire format | none | I/O, formatting, encoding | the outside | - | - |

How they interact. The build driver calls lexer, parser, analyzer, lowering
and generator in sequence for every file; they are single-threaded and share
data by return values. The generated program is where concurrency starts:
`main` forces `Main.Call()`, a call enqueues requests on cowns, the last token
starts a goroutine, its closure makes further calls, and the *forcer* (not the
closure) waits for the group and executes what follows the Wait. Between two
builds only the files under `target/` survive, and a build can be killed while
it writes one.

Hard behaviours, and the hazards they give (`PROJECT.json` lists each with its
line and the properties that would catch it):

* interleavings of the atomic operations of two enqueuers, an inserter and a
  releaser on one queue, where the links lag behind the tail;
* `ScheduleMulti` joins its queues one at a time;
* state read outside a lock (`currentReq`, `lazy`, the marks of printing) and
  used afterwards;
* waiting while holding a cown; statements executed after it was released;
* a body's order changed three times: by the hoist, by the lowering (waits) and
  by the generator (declarations ahead of the split);
* flags carried over a whole body or file (`hasPendingSpawns`, `didEmitWait`,
  the trailing return, `inTypeBoc`) whose combinations nobody enumerated;
* thunks and pending scalars shared by several goroutines;
* types used before they are filled in, and recursion over recursive types;
* branches whose effects on the analyzer's state must be joined;
* edits and kills between the steps of a build, and macros that expand macros.

## 2. Plan

| Step | Modules | Status |
|---|---|---|
| 1 | `BocQueue` (abstract), `Cown`, `CownInvariant`, `MCCown` | done |
| 2 | `CownSpawnProofs`, `CownRunProofs`: the inductive invariant of the queue | done |
| 3 | `BocLowering`, `MCBocLowering` | done |
| 4 | `BocExec`, `MCBocExec` (composes `BocQueue`) | done |
| 5 | `HeldCalls`, `MCHeldCalls` | done |
| 6 | `Yzc`, `MCYzc`: driver and macros | done |
| 7 | `DefiniteAssign`, `MCDefiniteAssign` | done |
| 8 | `LazyValues`, `MCLazyValues` | done |
| 9 | `Lexer`, `Parser`, `Front`, `MCFront`; `Types`, `Sema`, `MCSema` | done |
| 10 | `BocQueueProofs`: a behaviour is in a queue once and runs only at the head of all its queues | done |
| 11 | `BocExecInvariant`, `BocExecProofs`: call order, structured completion, which updates count | done |
| 12 | `CownQueue`, `CownOrderProofs`: spawn order, successors first, no circular wait, `Cown` implements `BocQueue` step by step | done |
| 13 | `YzcInvariant`, `YzcProofs`: no executable of a macro is stale, across edits and kills; `YzcClean`: comparison with a clean build | done |
| 14 | `LoweringInvariant`, `LoweringProofs`: the lowering of bodies of every length | done |
| 15 | `LazyInvariant`, `LazyProofs`: pending scalars and collections, for all programs; `LazyPrint`: prints | done |
| 16 | struct fields that hold cowns (cown.go:154), nested conditionals and `match` in the lowering; type variables and namespaces in `Sema` | next |

Abstract specifications: `BocQueue` (what the cowns promise), implemented by
`Cown` and used by `BocExec`. The sequential modules carry their reference with
them: the body read from top to bottom (`BocLowering`), the set of all paths
(`DefiniteAssign`), the environment in which everything is declared (`Sema`),
the printer of the grammar (`Front`), a build in an empty directory (`YzcClean`), the
final values (`LazyValues`).

## 3. The modules

**`Cown`** - `runtime/rt/cown.go`, one action per atomic operation. State:
`last` and `currentReq` (fields of `Cown`), `next` (of `request`), `count` and
`closed` (of `behaviour`), and the program counters and locals of the calls
(`spawnPc`, `spawnIdx`, `at`, `seen` for enqueueCown/insertSuccessor; `runPc`,
`runIdx`, `succ` for `run` and releaseCown). A request is a pair of behaviour
and slot, so a cown listed twice has two requests. A client is a program of
runtime calls per goroutine (`Prog`): main goroutines and the bodies of
behaviours. `pre` is a history variable: the request that is ahead in the chain
before `next` says so. enqueueCown = `SwapLast`, then `GrantIdle` or
`LinkPrev`; insertSuccessor = `LoadNext`, `CasTail`/`LinkCur` or
`CasNext`/`LinkNew`, with its retry loop; `run` = `SetCurrent` per cown,
`FnReturns`, `ClearCurrent` per cown, `Close`; releaseCown = `ReleaseTail`, the
spin `AwaitNext`, `HandOver`.

**`CownInvariant`** - the inductive invariant `CownInv` (section 7).

**`CownQueue`** - the queue of a cown read off its requests. `Line(c)` starts
at the request without a predecessor and follows `pre` to the tail (`IsLine`
says the same without recursion). On it rest the refinement mapping
(`ImplementsBocQueue`, with the fairness of the queues as `QueuesMove`), the
orders the language promises (`ScheduledInOrder`, `SuccessorFirst`,
`NoCircularWait`), the conditions two of them need (`DistinctCowns`,
`MultiFromOneGoroutine`) and the inductive invariant `LineInv`.

**`BocQueue`** - the promise: a queue per cown, a behaviour starts when first
everywhere, completes, then gives its cowns up one by one; a holder may put a
behaviour directly behind itself. Joining several queues is several steps,
because it is in the code.

**`MCCown`** - client programs. It assumes of the program of `cown_multi` what
the theorems about it assume; the one of `cown_race` is the program that does
not satisfy it.

**`BocLowering`** - the lowering of a boc's body. A behaviour of the
specification chooses one of the two lowerings and appends one element at a time
to a body, so its states are all bodies up to `MaxLen[lowering]`; the invariants
lower each of them with the operators of `lowerBocBody` (`MethodBody`) or
`lowerSingletonBodyStmts` (`SingletonBody`), run the result in the order `emitThunk`
gives it (`Run`: `HoistedAt`, `SplitAt`, `RestAt`) under the slowest schedule of calls - a call
delivers its result only when something waits for it - and compare with the body
read from top to bottom. A variable is named by the element that declares it, a
value by the element that wrote it; expressions are reduced to the variable they
mention. The loop over the elements is a recursive function of their number
(`methodState`, `singletonState`). **`LoweringInvariant`** says what every lowered
body looks like (`Shape`), what is true while elements are added
(`MethodInv`, `SingletonInv`) and while statements run (`RunInv`), and names
the conditions of the theorems (section 7).

**`BocExec`** - running compiled bocs. A call is an *activation* with one of the
three shapes codegen emits:

| Shape | Code | Scheduled | Behind the Wait |
|---|---|---|---|
| simple | `Schedule`/`ScheduleMulti`, no Wait | at the call | nothing |
| cold | `NewThunk(func() { Schedule(...).Force(); _bg0.Wait(); rest })` | when forced | run by the forcer |
| eager | `ScheduleMulti(...)`; `NewThunk(func() { _sched.Force(); _bg0.Wait(); rest })` | at the call | run by the forcer |

`Pre[a]` is the closure, `Post[a]` the rest; `ForceCode(a)` is what the thunk's
function runs. A goroutine is `main` or the goroutine of a behaviour; `stack[g]`
are the thunks it is inside of. `EnterThunk`/`LeaveThunk`/`PassThunk` are
`sync.Once.Do`; `Await` is the receive from `done`; `CallHeld` is
`ScheduleAsSuccessor`. An increment of a field is a read and a write. The queues
are those of `BocQueue`, by INSTANCE. `group[a]` is what the closure of `a` has added to
its `BocGroup`. **`BocExecInvariant`** holds the inductive invariant `ExecInv`
and what the theorems ask of a program, **`MCBocExec`** compiled programs.

**`HeldCalls`** - calls between the methods of one singleton. `SyncEligible` is
collectMethodEligibility, `Hoisted` hoistHeldCownCalls (`HoistIn` is
hoistInExprEx, `HoistElement` hoistInElement), and the lowering turns a sibling
call into `sync` (a Go call of the sync body), `call` (a scheduled thunk) or
leaves it; `LowerResult` is lowerExprForced, which returns a pending scalar and
forces any other call; `Split` says where the Wait is. A program gives each method
its result, a scalar or something eager (Unit, a struct), and `WellTyped` are the
programs the analyzer accepts. What the program was lowered to is
then run: `task` are the calls made, each `queued`, `held`, `free` (cown given
up, forcing) or `done`; `queue` is the cown's.

**`LazyValues`** - values at run time. A scalar is plain or refers to a cell
(the shared `lazy` pointer) with its `once`; `todo[g]` is the goroutine's stack
of operations, and the first use of a pending scalar pushes the operations of
its thunk. `marks` is stringifyInProgress, keyed by goroutine and object;
`store` the backing arrays of slices, so sharing between two appends would be
visible. Reads of a raw `.val` are reads of zero when the value is pending.
`Leads` follows the chains of results, so `Final` is what a pending scalar
stands for. `LazyInvariant` has the inductive invariant, `LazyPrint` the
recursive function of what a print must show.

**`DefiniteAssign`** - `sema` is the analyzer's state while it goes through a
body: the scopes, for each struct variable the paths that are assigned
(fieldInit), and the errors; branches, matches and literals clone and join it as
analyzer.go does. `paths` is the set of all states the running program can be in
at the same element.

**`Types`**, **`Sema`** - a heap of structs, types as references into it,
`IsCompatibleWith` with the pairs on its stack (meeting one again is a recursion
that does not end), constructors of variants and their disambiguation.
`Register` puts the stubs of methods and types into scope, `Analyze` takes one
element. `meaning` is the declared environment of the same file, computed once
without regard to order.

**`Lexer`**, **`Parser`**, **`Front`** - a source is a sequence of symbols (a
word, a number, an operator is one). `Lexer` decides what a newline is, strips
comments, and splits strings with code and annotations. Each function of
parser.go is an operator of tokens, position and `inTypeBoc` that returns a
syntax tree or an error. `Front` runs them, a token or an element per step, and
contains `Show`, which prints a syntax tree by the grammar in three layouts:
`tight` (one line), `lines` (a statement per line), `loose` (a newline wherever
one may be).

**`Yzc`** - a build is `Begin`, `Scan`, `Inject`, then per package `Open` (or
`Ensure` and `ReadSources` for a macro package, on top of the `stack`), for each
annotation `Invoke` (or `Refuse`, `Cycle`), then `Generate` (or
`GenerateMacro`, `LinkMacro`, `SaveHash`), at the end `Write` and `Link`.
`disk` is `target/`; it survives `KillBetweenSteps`, `KillInRunCache` and
`KillInHash`, which leave a `Torn` file where one was being written. `Edit`
changes a source file at any moment. The output of an executable is an unknown
function of its code and its input; an executable (`bin`) is its directory, the
macros it dispatches (`names`: those the scan found) and its code. `target/` is
indexed by `PkgKey`, as the code does it, not by directory. The hash of a
package is the map of its files to what was read of them; it also tells source
roots apart, which the code's does not. `past` is a history variable: the
contents each file has had, and whether one came back (`back`), a file changed
since the last build began (`mid`) or under any build (`raced`).

**`YzcInvariant`** - the inductive invariant `BuildInv` behind `BinaryIsFresh`
(section 7), and `DistinctKeys`, the condition on source trees that it needs.
**`YzcClean`** - what a build in an empty `target/` makes, the comparison with it
(`AppIsCleanBuild`, of which `BuildInv` and `EveryFileOnce` are parts) and
which triggers a build has to refuse (`TriggersChecked`). It is a module of its
own because its definitions are recursive.

## 4. The runs

| Run | Asks | Shows |
|---|---|---|
| `cown_one` | one cown, two spawning goroutines, nested successors | `currentReq` is exact inside `fn`; no request is lost while links are missing; successors run before the others; every behaviour finishes |
| `cown_multi` | two cowns in opposite orders, successor, three goroutines that spawn | the inductive invariant `LineInv` (`CownInv` with its exact counts is part of it); exclusive holding; spawn order of one goroutine; no circular wait; refinement of `BocQueue` and, separately, of its fairness |
| `cown_race` | two goroutines call `ScheduleMulti` at once | violation: circular wait |
| `lower` | all method bodies up to 4 elements without reassignment, all singleton bodies up to 5 | the inductive invariant `LoweringInv`; every call joined, reads see the last write, the result is the last element's, independent calls overlap and start in order, names visible behind the split |
| `boc_exec` | eleven calls of all shapes, a value forced by three goroutines, two cold bocs of one cown forced concurrently | the inductive invariant `ExecInv`; structured completion with one forcer per thunk; call order; a field loses no update until a statement behind a Wait has written it; main completes |
| `held_calls` | 1107 programs of three sibling methods and an outside caller | the one place where a method waits for a sibling while holding its cown is the call it ends with, when that returns no scalar (section 8); direct calls find a sync body; no call lost, repeated or reordered; unless a method stops there clients finish |
| `lazy_values` | all pairs of seven programs over three pending scalars and three object graphs, thunks of both kinds | the inductive invariant `LazyInv` (a part of `PrintsWhole`); a scalar is settled once, whoever is first; prints are whole; arrays not shared; everything ends |
| `definite_assignment` | about 30000 bodies | accepted bodies read nothing unassigned on any path; what counts as assigned is; bodies are rejected only for a real path |
| `sema_declarations` | about 25000 files | the one pass over stubs accepts what the declared environment accepts, with the same types; constructors go to the expected variant |
| `sema_recursive` | the same with two recursive types of one structure | violation: comparing them never ends |
| `front_end` | about 2100 programs in three layouts; every source of up to four of 20 symbols, of up to six over the symbols of brackets, signatures and conditionals, and `match {` with up to seven more | a printed program is read back as itself; whatever is accepted has one reading but for the shapes `Ambiguous` names (section 8), and nothing of it is dropped |
| `yzc_build` | three builds with edits and a kill anywhere, sixteen other trees | a build from what is left on disk equals a clean build; the inductive invariant `BuildInv`; executables are fresh; triggers are checked; builds end |

The two violations are properties documentation states of every program.
`cown_multi` checks the first on a program that avoids the construct, and the
files of `sema_declarations` have no two recursive types of one structure: a
comparison that did not end there would be a disagreement with the declared
environment. The trees of `yzc_build` satisfy `DistinctKeys`. Every property
of a passing run has a mutant in `PROJECT.json`: a definition of the model
replaced by the form a plausible bug would give it (operators marked
`Mutant:`, next to the definition they replace), under which the run must find
the property violated. Types of variables are checked inside the first
invariant of each module.

## 5. Bounds

* Cowns: two cowns and six behaviours. Every step of `cown.go` reads at
  most a request, the one ahead and the one behind; three requests on a queue
  (holder, inserted, enqueued) meet in every combination, and the runs have up to
  six. Multi-cown behaviours with two cowns are enough for opposite orders. The
  proofs have no bound.
* `BocLowering`: the lowering keeps a bounded memory (pending, waited, last);
  two calls, a reader, a writer and a last element fit into five, without
  reassignment into four. The proofs have no bound on the length. `MCKinds` lists what the bodies contain; the kinds it
  leaves out are those of section 8.
* `BocExec`: each program is fixed, every schedule of it is explored. Each
  operation runs once, so `field` and `writes` are bounded by the program.
* `HeldCalls`: `Fuel` 2, the depth at which a recursive call returns a value:
  deep enough for a method to meet itself or a sibling through another one.
  Three methods: one leaf, one that may call itself, one that calls all; every
  mixture of results.
* `LazyValues`: int64 is narrowed to -4 .. 3 (`MaxInt`), so that all pairs of bounds of a
  Range are tried. Two programs and the goroutine of a `std.Go` scalar compete;
  three cells form a chain of pending results and ends of it. The proofs have no
  bound on any of these.
* `DefiniteAssign`: `Length` 3 elements behind the declarations, conditionals
  nested in matches, structs nested in structs once; the analyzer's join and
  propagation work on one level at a time.
* `Sema`: up to four elements of 53, as sets in all orders that declare a name
  before its use (a field may be declared before its type, and a method with a
  builtin return be called before it is declared).
* `Front`: all expressions with one operator over simple ones in every place of
  an expression and in every statement, pairs of statements. What no printer would write comes from words: all of
  `Length` 4, and longer ones over the few symbols that mean something together
  (`Themes`): `Length` + 2 over names with brackets, parentheses, `:` and newline,
  over a signature with its body, and over `?` with blocks; `match {` followed by
  `Length` + 3. Two expressions that run into each other, which is what goes wrong
  there, need five (`x y [ Box ]`). All 67 million words of up to six of the 20 symbols were
  searched once, which the run does not repeat, and gave no further shape.
* `Yzc`: three builds, two edits, one kill (`MaxBuilds`, `MaxEdits`,
  `MaxKills`): a stale file needs a build that writes it, an edit, and a build
  that reads it; one more build shows whether it recovers. The edited project
  has two macros of which one expands the other; layouts and faulty projects are
  trees of their own.

Deadlock checking is off where the system really stops: a body of full length
cannot grow (`Lower`), programs end (`ExecTree`, `HeldCalls`, `LazyValues`:
`MainCompletes`, `ClientsFinish` and `AllDone` are the liveness properties that
exclude stopping early), the input is consumed (`DefiniteAssign`, `Sema`,
`SemaRecursive`, `Front`), the builds are used up (`YzcBuild`, with `BuildEnds`),
and `CownRace`, which looks for a safety violation. In the passing runs of
`Cown` deadlock is checked; `Terminating` stutters when all goroutines are done.

## 6. Fairness

`Cown`, `BocExec`, `LazyValues`: weak fairness of every goroutine's next step.
Go's scheduler is preemptive and runs every runnable goroutine, including one
that spins in releaseCown. Nothing stronger is assumed: the compare-and-swap
retries of insertSuccessor end because only finitely many requests arrive, and
`sync.Once` needs no fairness between its waiters because it is never reset. In
`BocQueue` fairness is asked only of `Start` and `Release` - clients decide when
to join, closures when to complete - and `Cown` is shown to implement it.
`HeldCalls` asks that some task moves as long as one can (programs of bounded
depth end after finitely many steps). `Yzc` asks it of the steps of a running
build: the compiler is sequential, and `go build` and macro executables are
assumed to return; nothing is asked of edits, kills or the start of a build.
`BocLowering`, `DefiniteAssign`, `Sema` and `Front` are sequential functions of
their input, and their properties are safety properties.

## 7. The proofs

Every theorem holds for all sets of cowns, behaviours (or activations) and
goroutines, finite or not, all lists of cowns and all programs - those of
`YzcProofs` for all source trees and edits and any number of builds, edits and
kills, those of `LoweringProofs` for all bodies of any length, those of `LazyProofs`
for any finite number of pending scalars - under the assumptions named with it. Each module states its assumptions on the constants
next to them; they are what the comments of the source ask of a caller.

| Theorem | Says | Beyond the modules' assumptions |
|---|---|---|
| `InvariantHolds`, `TypeCorrect`, `CountIsExact` | `Spec => []CownInv`; two of its parts | - |
| `MutualExclusionHolds`, `CurrentReqIsExact`, `NoRequestIsLost` | one holder per cown; `currentReq` inside `fn`; no request is lost | - |
| `LineInvHolds` | `Spec => []LineInv` | - |
| `ScheduledInOrderHolds`, `SuccessorFirstHolds` | spawn order; successors first | - |
| `NoCircularWaitHolds` | no behaviours wait for each other in a circle | `DistinctCowns`, `MultiFromOneGoroutine` |
| `CownImplementsBocQueue` | `Spec => ImplementsBocQueue` | `DistinctCowns` |
| `QueuesExclude` | the queues of `BocQueue` keep behaviours of a common cown apart | - |
| `ExecInvHolds`, `ExecTypeCorrect` | `Spec => []ExecInv`; the types | - |
| `CallOrderHolds` | calls of one body on a common cown run in order | - |
| `StructuredCompletionHolds` | a boc completes after all bocs it called | `CallsForced` |
| `HeldUpdatesCountHolds` | no update of a field is lost before a statement behind a Wait has written it | - |
| `BuildInvHolds` | `Spec => []BuildInv` | `DistinctKeys` |
| `BinaryIsFreshHolds` | a macro package that counts as built has an executable of its present sources | `DistinctKeys` |
| `BodyInvHolds`, `LoweringInvHolds` | bodies declare before use; `Spec => []LoweringInv` | - |
| `CallsCompleteHolds` | the generated code waits for every call of the body | `BranchesAwaited` |
| `ReadersSeeLastWriteHolds` | reads see the value of their place in the body | `ReadersKept` |
| `ResultIsLastElementHolds` | a boc returns its last value | `ResultsKept` |
| `SpawnsInOrderHolds` | calls start in order; independent ones overlap | - |
| `NamesVisibleHolds` | what the code behind the Wait mentions is visible there | - |
| `LazyInvHolds` | `Spec => []LazyInv` | - |
| `UsesSeeFinalValuesHolds` | all users of a pending scalar get its final value; it is computed once | - |
| `CollectionsSeeValuesHolds` | collections work with values; arrays are not shared; ranges agree | `OperandsPlain` |

**The requests of a cown** (`CownSpawnProofs`, `CownRunProofs`). The modules
assume that a list of cowns is never empty and that a successor names one cown
which its caller holds. Mutual exclusion alone is not inductive: that a release hands
over to the right request depends on how `next` agrees with the queue, and
`next` lags behind `last`. `CownInv` therefore speaks of the chain `pre`:

* `TailInv`, `PreInv`, `PreInjective`, `UniqueHead`, `Acyclic` - the live
  requests of a cown form one chain from one head to `last`;
* `NextInv` - a stored `next` of a live request agrees with the chain;
* `SpawnInv` - what the locals of enqueueCown and insertSuccessor stand for
  while the chain is ahead of the links; in particular an inserter's anchor is
  the request of a body that is still running (`Anchored`);
* `RunInv`, `CurrentInv` - what the goroutine of a behaviour relies on;
* `CountInv` - `count` is the number of cowns that have not granted.

`Acyclic` is stated without recursion (no nonempty set is closed under `pre`),
which keeps it within reach of first-order provers. There is one lemma per
action. The hard ones are the insertions, `CasTail` and `CasNext`, where a request gets into the
middle of the chain, and `HandOver`, where a grant passes. The lemmas are split
over two modules by the goroutine that acts: spawner or runner.
`NoRequestIsLost` needs a second, smaller induction on top of `CownInv`
(`NextKeepsLinks`): every chain link is stored in `next` or about to be.

**Lines and orders** (`CownOrderProofs`). The requests of a cown are now taken as a sequence. That `Line(c)` is one (`LineIs`) is shown
without induction over data: from a state in which some sequence satisfies
`IsLine`, every step leaves one, which the lemmas give explicitly (`LineKept`,
`LineAppended`, `LineInserted`, `LineReleased`), and a sequence that satisfies
`IsLine` is the value of the recursive function `chain`, because its tails
satisfy the equation that defines `chain`. Every step moves the lines in
one of four ways - it stays, appends a request, inserts one behind the running
holder, or removes the first - and wakes a behaviour only when all its requests
are first (`StepMoves`); everything else follows from that lemma and never
looks at an atomic operation again:

* `CallInv` - which calls of a program have been made;
* `OrderInv` - of two calls of a goroutine, the request of the later one stands
  behind that of the earlier one, in each line both are in, until that is
  released. Orders are not inductive in terms of who runs: they must speak of
  the places in the line (`Ahead`), which an insertion between two requests
  changes without changing their order;
* `SuccessorInv` - a request from outside stands behind the successors of the
  holder. An insertion is the one step that lets a request overtake, and its
  anchor is the running holder, at the first place.

`NoCircularWait` is not an invariant of its own. Suppose a set of behaviours
wait directly behind each other. Behaviours of a single cown alone cannot, as a
line has a first request, so some of them have several cowns. Take the one
whose call comes first in the goroutine that makes these calls. Going forward in the line it
waits in over requests of single cowns, one meets a
request of another behaviour of several cowns in the set, which was called later
and stands ahead, against `OrderInv`. The two assumptions are both needed:
`cown_race` violates the property with two goroutines.

`CownImplementsBocQueue` maps a line to the behaviours of its requests and `runPc` to
their phases. Each of the four moves is a step of `BocQueue`: append is `Join`,
insertion is `JoinBehind`, removal is `Release`, and a step that leaves the
lines is a stutter, `Start` or `Complete`. With a cown listed twice a behaviour
would be in a queue twice, which `BocQueue` does not know, hence
`DistinctCowns`; for repeated cowns `Cown` keeps `CownInv` and `LineInv` and
only the refinement is lost.

**Running bocs** (`BocQueueProofs`, `BocExecProofs`). `BocExec` is proved from
the queues of `BocQueue`, not from `Cown`: `QueueInv` (in a queue once, running
only at the head) is an invariant of every step `BocExec` takes on the queues.
`StructuredCompletion` alone is not inductive: a force returns after the last
operation of its code, and what the earlier ones achieved has to be
remembered. `ExecInv` therefore says for every goroutine and every thunk that
what its counter has passed has left its effect (`DoneInv`), an effect that no
later step undoes: a call is in all its queues, an awaited closure has
completed, a forced thunk is at its end. The rest connects the code of a
force, which depends on the group, with the closure that fills the group
(`GroupInv`), the stacks with `sync.Once` (`StackInv`), and calls with places
in the queues (`JoinedInv`, `OrderInv`). `CallOrder` follows from `OrderInv`:
whoever stands behind in one queue is not first there.

`HeldUpdatesCount` is about all programs, those with statements behind the Wait
included. Such a statement does lose updates, so the field counts exactly only
until one has written it (`LooseWritten`); what it *reads* without the cown harms
nobody. Of a field not yet written so, the induction carries `RegInv`: a goroutine
whose next operation writes it back, holding the cown (`Ends`), still has its
present value. It runs in a queue of the cown, at the head, so any other writer would
be at the head too (`WriterRuns`) or be a loose one, which ends the claim. A loose
write, once passed, stays passed (`LooseStays`): counters only grow, and the code of
a force is fixed from its Wait on, since the group is then complete.

`CallAssumption` says that an activation is one executed call; `CallsForced` that
what is not in a group is forced by its caller, which is a fact about emitted
code. TLC evaluates all assumptions on the programs of the runs.

**Executables of macros** (`YzcProofs`). Four things are written or read at
different moments: the list of files and macros (scan), the hash, the sources
that are parsed, and the executable with, later, the recorded hash. Between any two the
user may edit a file, and a kill may leave an executable without its hash or
under the previous one. `BinaryIsFresh` gives the two circumstances in
which the code is right nevertheless, and the invariant has a part for each.

* While no file gets an old content back: a content in a hash that is present
  again has been present all the time. `Follows(a, b, f)` says so of two
  snapshots: if `f` is now as in `a`, it is as in `b`. The recorded hash is
  followed by the sources the executable is made of (`EntryInv`), the hash of a
  package being compiled and the old recorded hash by the sources it was parsed from
  (`FrameInv`) - so an executable may be replaced under either hash, and a kill in between
  does no harm. An edit keeps this because the new content was never
  seen, while every content of a hash was. Files that appear under a build need
  `UnknownInv`: the build does not hash them.
* Without kills and races: hash and executable are of the same sources
  (`ExactInv`), so an old content may come back.

`NamesInv` says, without races, that an executable dispatches the macros of its
own sources. The theorems rest on no bound on builds, edits and kills, which
`MaxBuilds` and so on may be. Every step of `Next` is shown to be one of a few
moves (`NextMoves`): a build stops, begins or discovers the macros; an
executable is reused; a package is opened, parsed, linked or saved; a file is
edited; or nothing of this changes. There is then one lemma per move.

`DistinctKeys` (no two directories of a tree have one key) is not something the
code ensures, and without it the property fails (section 8).

**Lowering** (`LoweringProofs`). A step of `BocLowering` adds an element to a
body, but the properties speak of the code for the whole body, so the step from
one body to the next says nothing: the last element is lowered differently.
The only thing to carry from state to state is `BodyInv`, that bodies declare
before use. The work is in `BodyInv => Shape(Lowered)`, an induction over the
elements of one body, and from `Shape` to the properties, an induction over its
statements. The library's induction theorems take an operator; here each
induction is stated of a set instead (`EveryUpTo`: a set of numbers that has 0
and with every number below `n` the next one has all up to `n`), which follows from
`<` being well-founded on `Nat`. The sets are written with the invariant of the case:

* `MethodInv(methodState[n], n)` and `SingletonInv(singletonState[n], n)` - what
  has been emitted for the first `n` elements. Each element has one statement, in
  their order (`WellFormed`, `InOrder`); between a call and a later statement
  that is not one there is a Wait for the call (`Barriers`), none between adjacent
  independent calls (`Together`, for which `OpenEnd` has to say that no Wait
  follows the last call yet); groups are declared before use (`Grouped`); a
  singleton awaits each group once (`OneWait`). The flags are exact enough: no call is
  open unless `pending`, or unless it is in the `batch` (`Ready`).
* `Shape(Lowered)` - all calls closed, one return at the end, and it returns the last
  element. The fix-ups of `lowerBodyOnlySingleton` replace statements by others
  that are `Alike` for what `Shape` asks, and shift them by one.
* `RunInv(m, ir, R)` - what the machine has done when the statements at the places
  `R` have run. emitThunk makes three passes over them; the induction
  goes over the passes in the order of `Turn`, and `RunInv` is stated for the set of
  places passed so far (`Past`), not for a prefix. A variable has its value once it is
  settled (`StoreInv`): a lazy one at the spawn, a struct one at a Wait of its group, and
  in a method a later Wait may undo a reassignment, which is why `StoreInv` excepts it.
  From `Barriers`, a reader finds the variable settled (`SeenInv`).

`RunStmt` is described once, field by field (`Effects`), and used in that form.

The three conditions restrict the *kinds* of elements, not how many there are or how
they follow each other. `ReadersKept`: in no body a literal hides a
variable, and methods have no `typed` and no `assign`. `BranchesAwaited`:
the branches of singletons have Unit calls only. `ResultsKept`: a method that
returns a struct has no call on an instance, and a singleton no conditional
with a scalar call. Each kind they leave out breaks the property in some body, which
section 8 gives. `MCBocLowering` assumes them of the kinds it enumerates, so
TLC has checked exactly these bodies up to its bound.

**Pending values** (`LazyProofs`). `LazyAssumption` says that the programs are
typed, as the analyzer ensures - operands by operator, and those of `&&` of type Bool
up to the ends of the chains of results (`Bools`) - and that the operations have
names of their own, by which their results are told apart. The properties speak of
operations that are complete, and are not inductive: what is needed is what is on
the way to completion.

* `StackInv` - a stack holds operations of the program, or what Any and All have
  left of one after elements that did not decide it (`Left`); the steps of
  once.Do; the steps of a print.
* `OnceInv` - the function of a once that was entered is at one place of one
  stack, and has run once. Whoever pushes it finds it nowhere, whoever settles
  removes the only one (`SettlesKept`).
* `ValInv` - with `n` scalars settled, the results lead from each of them in at
  most `n` steps to its value. One more settled scalar adds one step, and a chain
  that has ended stays (`LeadsStays`), so the recursive `Leads` is only
  unfolded once. That the chain of a settled scalar ends is a consequence: a scalar
  that leads to itself is never settled.
* `BoolInv` - what a settled Bool is, which the short circuit of `&&` needs to
  agree with the two-sided definition.
* `StoreInv`, `OutInv` - the arrays of the program stay as they are under
  appends and sets of all goroutines, and a completed operation has left what it
  should. New arrays go to the end of the store, so a result keeps its array.

A step either enters or settles a once, and leaves the results alone, or completes
at most one operation and settles nothing (`StepKeeps`). `OperandsPlain` - no
pending index, key or predicate result - is needed: section 8 has what happens
without it. `MCLazyValues` assumes it of the programs of the run.

**Model-checked only.** Liveness (`EveryBehaviourFinishes`, `MainCompletes`,
`ClientsFinish`, `AllDone`, `BuildEnds`) and the fairness part of the
refinement (`QueuesMove`), since fairness and ENABLED are out of the prover's
reach. Prints (`PrintsWhole`) and everything about `HeldCalls`,
`DefiniteAssign`, `Sema` and `Front`: these recurse over trees - objects, nested calls,
types, expressions, branches - with RECURSIVE operators or folds whose value for every
input is an induction over data; a body as `BocLowering` has it is flat, so that an
induction over numbers was enough. For the same reason the comparison with a clean build
(`AppAsClean`), `EveryFileOnce` (a sum of cardinalities) and `TriggersChecked`.

## 8. Where code and documentation disagree

With a run:

| Run | Code | Documentation |
|---|---|---|
| `cown_race` | `ScheduleMulti` joins its queues one by one (cown.go:108) | "Deadlock: Impossible - atomic multi-cown acquisition" (src/spec/08-concurrency.md:196) |
| `sema_recursive` | two types of one recursive structure are compared for ever (types.go:298) | "The compiler handles recursive types without stack overflow" (src/spec/04-type-system.md:236) |

Without a run; each shows when the constants of the named configuration are
changed as given.

Runtime and generated code (`MCCown`, `MCBocExec`):

* LIFO successors: `CownsOf <- LifoCowns`, `Prog <- LifoProg`,
  `Behaviours = {w1, s1, s2}`, `Mains = {m1}`, invariant `SpawnOrder`. Every
  successor goes directly behind the running request (cown.go:182), so two of
  one body run in reverse; src/spec/08-concurrency.md:97 says "always run in
  spawn order".
* Lost update: `Shape <- RaceShape`, and so on for `CownsOf`, `Pre`, `Post`,
  `Acts = {p, u1, u2, r1, r2, s1, s2}`, invariant `NoLostUpdate`. Statements
  behind the Wait run without the cown (codegen.go:824-826); 08:197 says "Data
  races: Impossible". `HeldUpdatesCount`, which the run checks and
  `HeldUpdatesCountHolds` proves, says that only these statements can lose one.
* Tail deadlock: `Shape <- CycleShape`, and so on for `CownsOf`, `Pre`, `Post`,
  `Acts = {p, u1, u2, s1, s2}`, property `MainCompletes`. A last call without a
  group is awaited inside the closure (codegen.go:422-425), so two methods that
  end in a call of each other's cown stop; 08:196, and the comment at cown.go:33.
* Calls of cold bocs are left out of `CallOrder`: they join their cown when
  forced, so a later call of a simple boc overtakes them, and because `Wait`
  forces one child after the other (core.go:82) two cold siblings never overlap,
  while the comment at core.go:62 says that the goroutines are already running.
  The repository tracks this as YZC-0125. A cown that occurs twice in a list
  makes the behaviour wait behind itself; `Cown` allows such lists.

Lowering (`MCBocLowering`; "method" and "singleton" are the lowering whose
`MCKinds` changes):

* method, `CallsDone(BranchKinds)`: no Wait for branch calls behind another Wait
  or a final return (lower.go:1829); 08:131 "does not complete until all of its
  inner bocs have completed". `CallsComplete` asks it of singletons only.
* method, `ReadersSee(CallKinds)`: a spawn does not wait for the struct results it
  mentions (lower.go:1694); src/spec/03-expressions-and-statements.md:52
  "initialized and available from this point forward".
* method with `assign`, length 5, `ReadersSee(DeclKinds)`: typed declarations move
  ahead of assignments (codegen.go:550), against 03:126; and the second Wait of a
  body runs the first one's functions again and stores the old result over a
  reassignment (core.go:83).
* method with `ifbind`: the value of a bound call in a branch is dropped with the
  call (lower.go:1862); singleton with `ifval`: only Unit calls in branches are
  awaited when there is no group (lower.go:4267), and a singleton that ends in such a
  conditional returns Unit, because its result is picked out by the shape of
  the last statement (lower.go:865).
* singleton, `Forms` with `literal`, `ReadersSeeLastWrite`: exprRefsAny does not
  look into array, dictionary and group literals (lower.go:4089).
* method, `Results` with `struct`, `ResultIsLastElement`: a struct result of a
  last call on an instance is spawned without a variable to keep it
  (lower.go:1807).
* method with `typed`: its IR declaration has no type (lower.go:1681), so ahead of
  the first Wait it is local to the closure (`NamesVisible`, asked of methods), and a
  short declaration that mentions it moves ahead of it (`ReadersSeeLastWrite`).

Held calls (`HeldCalls`):

* A body that ends in a call of itself or of a sibling that is no leaf, with no
  other call before it to wait for: when the call returns Unit or a struct it is
  forced where it stands (lower.go:1811, 4241-4246, codegen.go:422-425), inside
  the function that holds the cown the call is queued on, and `a: { b() }` stops
  with every other caller of the singleton. A pending scalar is returned instead,
  and behind a Wait the cown is free. The comment at 3731-3733 takes a call that is
  a return value or a whole statement as "already handled correctly downstream".
  `HolderBlocksOnlyAtTail` says that the holder stands there and nowhere else;
  the run has such programs.
* `Slots = {"assign"}`, `HolderBlocksOnlyAtTail`: after `x = b()` nothing waits for
  the call (lower.go:1741), so the next use of `x` forces it under the cown. The
  comment at 3731-3733 takes a call in a top-level slot as "already handled
  correctly downstream".
* `SyncUnderCown`: a direct sync call behind the Wait runs without the cown that
  the comment at lower.go:3486-3488 relies on.
* `ForceArgs = TRUE`, `HolderBlocksOnlyAtTail`: an argument that is a pending call of
  a sibling is forced by the callee while it holds the cown.
* A group or an infix match hides calls from nodeHasBocCall (lower.go:1272), so
  its method counts as a leaf; `SyncBodiesExist` excludes them.

Values (`LazyValues`):

* `LazyOperands = TRUE`, `CollectionsSeeValues`: At, Set and Filter read the raw
  `.val` of a pending index or result, a Dict compares a pending key by its cell
  (collections.go:72), while types.go:69-72 says that the first access forces.
* Range.ToArray computes its size in an int64, which wraps for ranges longer than
  the type; `RangeAgrees` excludes them.
* A scalar whose own computation uses it waits for itself; the programs exclude
  it. Printing reads fields without the cown of the object.

Definite assignment (`DefiniteAssign`):

* `NoDefault = TRUE`, `AssignedOnEveryPath`: a match without a default arm counts
  as exhaustive; src/spec/07-control-flow.md:145 asks for an error if a path exists on
  which the field is not assigned.
* Also accepted: the body of an infix match is analyzed in place, without a
  clone; a shadowing declaration in a branch replaces the state of the outer
  variable; reassignment of a variable and typed declarations are not tracked; a
  struct is checked at the boundary of a boc only when it is a plain variable,
  and only one level deep; `Bar()` lowers to `&Bar{}` (lower.go:3391-3395), which
  skips the defaults of its fields.
* Also rejected: fields assigned through an alias, and bodies that return early.
  The condition of an arm is analyzed in the state the previous arm left.

Analyzer (`Sema`):

* `OwnParams = TRUE`, `ChecksAgree`: methods are registered before the types
  (analyzer.go:1287 and 1401), so `name: { p T ... }` may not have a `T` of the
  same file, although 03:107-111 shows it.
* A name used before its declaration sees an empty stub: a field access is
  rejected, `x T = v` accepted. A forward call of a method without a declared
  return has type Unit, of one that returns a user type an unknown type. The
  files have uses behind declarations except where the type is known.
* Parameters of bocs are compared covariantly; arguments of struct constructors
  are not compared with the fields; a generic instance is compatible with
  everything; nothing inside the interface declarations of a wrapped file is
  checked.

Front end (`MCFront`, `Front`):

* `NestedCalls = TRUE`, `RoundTrip`: `inTypeBoc` leaks from a type into the
  bodies nested in it (parser.go:310), where `Box(...)` is then a constructor and
  not a call, against "direct body" in the comments at parser.go:39 and 376-378.
* A type parameter with a constraint whose arguments cannot be read is dropped
  together with its error (parser.go:1206-1215); `MCWords` excludes it.
* Accepted sources with two readings, by which a newline decides what is meant and
  which `Ambiguous` excludes from `OneReading`:
  `x y [Box]` on one line is a variable `x` of type `y` and then an array
  (isTypedDeclStart saves the position at `x`, steps over a lowercase `y` in search of
  `y.Type` and tests the bracket behind it, parser.go:248-261), though only
  `ident [TypeIdent]` is meant by the comment at parser.go:236-240; a bracket that begins
  with a type name is a literal or an empty array or dictionary as a newline or a
  comma in it decides (`[Box,]()`, parser.go:740-770); a match over a subject in the
  condition of an arm hides the `=>` of the outer arm when a newline follows the
  subject (parser.go:960-996); a match without arms is joined by the next line.
* Accepted though the grammar does not have it: missing separators between
  elements and arguments; annotations in front of what is no declaration, which are ignored; what follows
  the first expression inside `${ }`, which is dropped.
* Rejected though the grammar has it: a dictionary whose first key begins with
  an uppercase name; `match x.y { ...` on one line, where the first arm is read
  as an argument; a comma after a match inside a list; an arm that begins with an
  infix match with a body. `x[Type]` as a statement is a typed declaration. A
  newline behind an operator ends the statement (lexer.go:152); src/spec/01 §1.12
  says both. A block comment hides the newlines inside it.

Build driver (`Yzc`):

* `Trees <- NameTrees`, `MaxBuilds = 1`, invariant `ReferencesResolve`:
  RegisterPackage replaces the namespace of the same name (analyzer.go:255), so
  `house` hides `house/front`, against build.go:127-128. Packages three levels
  deep are not reachable, and a root file hides a namespace of its name.
* `Trees <- KeyTrees`, `MaxBuilds = 1`, `MaxEdits = 0`, `MaxKills = 0`, invariant
  `BinaryIsFresh`: `macroPkgKey` turns / into _ (macro.go:508), so the packages
  `gen/json` and `gen_json` overwrite each other's executable, and the triggers
  of the one built first fail as unknown macros; macro.go:531-532 "compiles a macro package
  to a native executable at target/macros/<pkgKey>/bin/macros" and
  src/spec/12-macros.md:49 `target/macros/<pkg>/bin/` give each its own.
* `AppAsClean` holds under conditions, each of which the code needs: outputs are
  kept under macro name and input only, so an edited macro is ignored for inputs
  it has seen (src/docs/Features/Macros.md:345; YZC-0118 in the repository); a
  kept output that a kill cut short is used; `target/gen/main.go` survives the
  removal of the root's files; and a macro cycle an edit creates is not found
  while both executables are kept (src/spec/12-macros.md:102).
* `BinaryIsFresh` says nothing of the macros an executable knows once an edit raced
  with a build: they are those of the scan (macro.go:464), and a macro that is
  added before the hash is taken (macro.go:544) is unknown to an executable that
  later builds reuse, until the package changes again.
* Without any macro in the project an unknown annotation is ignored
  (macro.go:689), which section 12.2 of that document makes an error. Annotated
  declarations of a directory merged into a root file are not expanded.

## 9. What is not modelled

* `Cown`: memory reclamation (Go's collector), panics in `fn`. Atomics are
  sequentially consistent, as Go's are. `ScheduleFlatten` is never emitted.
* `BocExec`: `Go[T]` goroutines without a cown; values other than counters;
  recursion (an activation is called once; the successor of a recursive call is
  an ordinary call, as in the code). main exits when its boc is forced;
  the model lets the rest go on, which `StructuredCompletion` shows to be
  at most releases of cowns.
* `BocLowering`: nested conditionals, `match`, multiple results, type variables.
* `HeldCalls`: calls in branches and arm guards, which the source documents as
  not hoisted; objects in struct fields; receivers held by `ScheduleMulti`.
* `LazyValues`: text formatting; `Each` and `ArrayMap`, which call a function per
  element; the sort order of a Dict.
* `Sema`: type variables and their constraints, associated types, namespaces,
  annotations, the table of built-in methods, suggestions of close names.
* `Lexer`, `Parser`: the characters of a token and its position, wording of
  errors, the dump of a syntax tree (`print.go`).
* `Yzc`: text of `go.mod`, search for the compiler's own module, format of
  payloads; of a payload the subject's fields count, those an output adds being an
  abstract version of its macro's, and a config only by whether it fits its schema. Two builds at the same time: nothing in the code locks `target/`.
* HTTP and time (a pending scalar for the rest of the program), diagnostics,
  command line, project template: I/O or wording. The macro wire format is a
  codec without state.
