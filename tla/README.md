# A TLA+ development for the Kappa runtime

Kappa is a dependently typed language. Its compiler is written in Haskell
(`src/Kappa`, `app`); the native backends emit C or LLVM code that links
the runtime `kappart2` (`runtime/`). The runtime is the concurrent part of the
system: fibers scheduled on a pool of threads, structured concurrency with
interruption, promises, software transactional memory, a libuv reactor and a
lane for blocking calls. This development is about the runtime.

Paths below are relative to the root of the repository. Module names refer to this
directory. `PROJECT.json` lists every run, mutant, theorem, finding and hazard, and
maps each definition to the lines it stands for.

## 1. Inventory

| Component | State | Operations | Hard behaviour |
|---|---|---|---|
| Fiber scheduler, `rt.c` | `status`, `cur`, `resumed`, park registration, run queue, waiter lists | `rq_push`, `rq_pop`, `krt2i_wake`, `krt2i_resume`, `do_await`, `fiber_finish`, `krt2i_spawn_from` | wakers act after the unlock; the status CAS decides between them |
| Promises, `rt.c` | `completed`, `exit`, waiters | `promise_complete`, `do_await_promise` | first completion wins while fibers register |
| Interruption, `scope.c`, `rt.c` | `interrupt_pending`, cause | `krt2i_interrupt_request`, `krt2i_op_interrupt`, the delivery gate, the checks before and after a park | the request races with the park |
| Masks, `rt.c` | frame stack, effective state | mask, uninterruptible, restore, inheritance at fork | captured state used after the park is published |
| Scopes and monitors, `scope.c` | children, `live`, `shutting`, drain waiters | attach, detach, `forkIn`, `shutdownScope`, bounded drain, `awaitMonitor` | fork into a scope that drains; last child against drainer |
| STM, `stm.c` | TVar boxes with versions, watchers, `g_tick`, journals | read, write, bind, `orElse`, `retry`, commit, retry-park | validation against concurrent commits; registration on several lists |
| Reactor, `reactor.c` | request queue, timers, `sleep_armed`, `sleep_seq` | submit, start, fire, cancel, close, stop | three threads touch one sleep; coalesced signals |
| Blocking lane, `rt.c` | `blocking_armed`, `blocking_depth`, lane threads | `blocking`, blocking natives, resume on the lane | not cancellable; thread creation may fail; two kinds of threads execute a fiber |
| Race and timeout, `race.c` | none of their own: they build programs | `krt2_race`, `krt2_timeout` over fork, await, promise, `tryExit`, interrupt | simultaneous winners, loser cleanup, a branch that is a value |
| Run loop and shutdown, `rt.c` | latch, daemon scope, worker pool | `krt2_run_main`, `krt2_shutdown`, bounded drain | daemons forked at the boundary of a run, a drain with a budget |
| Effect machine, `rt.c` | continuation stack, mask frames, resumptions | `deliver`, `unwind`, `do_perform`, `do_resume`, abandon drain, loops | finalizers that fail or are interrupted |
| Fiber-local state, `rt.c` | override arrays | get, set, copy at fork | sequential |
| Atomics, `atomic.c` | one cell under a mutex | load, store, exchange, compare-exchange, fetch | one critical section each |
| Values and counts, `value.c`, `kappart.h`, `boxed.h`, `gc.c` | heap, count words | dup, drop, mark shared, cells, reuse of constructors | ownership handed between threads, counts that overflow |
| Primitives, `prims.c`, `bignum.c`, `show.c`, `unicode.c` | none | pure functions | numeric edges |
| Compiler, `src/Kappa`, `app` | terms, contexts, files | lexing to code generation | pure and sequential |

How the parts interact. A worker thread takes a fiber from the run queue and
steps it until it parks, cedes or finishes. A parking operation puts a node on the list
of the object waited for, under the object's lock, publishes `F_PARKED` and returns to the
pool. Whoever resolves the object takes the list under the lock and wakes the fibers after
the unlock. Interrupts use the same wake without a value. The reactor and the lane threads
are wakers too. Every wake ends in one compare-and-swap of `status`; this is the
point at which all components meet.

What makes each part correct: a fiber has one owner at a time and is never dropped;
neither a wakeup nor an interrupt gets lost in the window between decision and park;
a fiber resumes with the value it waited for; masks are respected; children of a
draining scope are interrupted and the drain returns; transactions are serializable,
and a blocked one would block if run now; a sleep ends, its timer wakes nothing else and
no handle leaks; blocking bodies stay off the pool and are executed once; race returns the
right branch only if it ended first, and leaves no loser behind; a run returns and no daemon escapes it;
nothing freed is touched, and a count updated by plain stores belongs to one thread.

## 2. Modules

| Module | Models | Runs |
|---|---|---|
| `Fibers` | scheduler, promises, interruption, scopes (`rt.c`, `scope.c`) | through `MCFibers` |
| `FibersProofs` | types, ownership, finality; no lost interrupt, wakeup or child | proofs |
| `Stm` | `stm.c` | through `MCStm` |
| `AtomicStm` | what `atomically` promises | what `Stm` implements, in `MCStm` |
| `StmProofs` | types, versions, commits, retries, watchers; what trees mean, the frames of `stm_run`, serializability | proofs |
| `Reactor` | `reactor.c` and `OP_SLEEP` | directly |
| `ReactorProofs` | types, timers and slots | proofs |
| `BlockingLane` | the lane of `rt.c` | directly |
| `LaneProofs` | types, ownership, depth, bodies off the pool | proofs |
| `EffectMachine` | `deliver`, `unwind`, scopes, handlers, loops, mask frames (`rt.c`) | through `MCEffectMachine` |
| `EffectProofs` | the shape of the stack, exit actions, masks and causes, for programs without effect handlers | proofs |
| `RunMain` | `krt2_run_main`, forks and their scopes, bounded drain (`rt.c`, `scope.c`), for any programs | through `MCRunMain` |
| `Race` | the programs of `race.c`, on `RunMain` | through `MCRunMain` |
| `RunProofs` | types, main ends last, daemons are asked, the drain; that a right branch which wins a race ended first, and that the loser is done | proofs |
| `RefCount` | count words, the mark walk, reuse (`kappart.h`, `value.c`) | through `MCRefCount` |
| `RefCountInv` | the inductive invariant of `RefCount` | definitions |
| `RefCountSteps` | sums, words, lists of micro-operations; types; what each action does to the list of its thread | proofs |
| `RefCountProofs` | the invariant, dangling references, privacy, exact counts | proofs |

Each module describes one protocol at the granularity at which its participants can
come between one another: a critical section is a step, and so is each atomic access
outside of one when another thread could act in between. What a protocol only uses of another is
one step there (an `await` in `Reactor` and `BlockingLane` parks and is resolved in
one step each, in `RunMain` one step; its races are those of `Fibers`). Atomic operations are sequentially
consistent in the models; the code pairs its relaxed accesses with fences or locks at the
places concerned.

### Fibers

A worker thread is a process with a program counter `pc` and locals; `worker_main`,
`krt2i_wake`, `do_await` and the others are steps of it.

| State | Code |
|---|---|
| `status`, `cur`, `resumed`, `pending` | the fields of `Fiber` |
| `masked`, `born` | effective mask, `mask_base` inherited at fork |
| `park`, `parks`, `waiters` | `park_owner`/`park_waiter`, waiter nodes, the three kinds of lists |
| `att`, `shutting` | `att_scope` (children are its inverse), `Scope.shutting` |
| `todo`, `src`, `won`, `ret` | the wake loop of a thread: nodes left, value delivered, fiber being queued, what comes after |
| `reg` | locals of a park that are used after it: node, object, `park_unmasked` |
| `kids` | the snapshot of `shutdownScope` |

Which operation a fiber executes next is a free choice from `Ops`; its computation is
left out. An operation that parked stays in `cur`, so a wake without a value executes it
again, as in the code. A delivered interrupt ends either in a finalizer (masked) or in
code that goes on: where `unwind` stops is a choice.

### Stm and AtomicStm

`Stm` has one step per iteration of `stm_run`, the commit, each validation, the park and
each wake. The trees are records; `Txn` gives each fiber its
transactions. Values read are kept beside the versions as history, and `past` records the
versions the memory has had, so that properties can refer to them.
`AtomicStm` executes a transaction in one step by evaluating its tree (`Eval`, a recursive function on
trees and memories). The refinement (`Stm!Abstract`) maps `box` to the store and counts a transaction as done
from its commit on. `FiniteTrees` says that each tree has a `Height` and its parts a smaller one: the
number of steps of an attempt is bounded, whatever values it reads. A transaction of the program that
loops for ever, or as often as a value without bound says, is outside of the model.
Left out: `newTVar` inside a transaction, and masked fibers.

### Reactor

Workers, an interrupter and the reactor thread. `armed` and `seq` are the two atomics
through which they see each other; every access is a step. Time is left out: a
started timer may fire at any moment. libuv is external and modelled from its use here: an
async callback once for any number of sends, a close callback for every close,
`uv_run` returns when no handle is left.

### BlockingLane

The threads that execute a fiber are counted by kind (pool worker or lane thread) and
not named. `fresh`, `again` and `queued` count the ways the fiber is about to be taken:
by a lane thread of a call, of a resumption, or from the run queue. The body of a
region is a sequence of the operations in `Ops`. A native call on a lane thread is two
steps (`LaneStarts` or `NativeInPlace`, then `Returns`), so that a request can come while
it executes; nothing else of the fiber happens in between. `interrupt_pending` is tested in two
places, when the lane thread starts (`ObservesPending`) and when the native has returned
(`ObservesAtReturn`); `InterruptObserved` needs both, and fails without either.

### EffectMachine

One fiber and the interrupts others request. A program is a term (`Then`, `Defer`,
`Handle`, ...) with a choice `OneOf` where the result of a computation would decide. A step
executes the current term (`Exec...`, a case of `fiber_step_run`) or passes a value or an
abnormal reason to the topmost frame (`Deliver...`, `Unwind...`, `Leave...`, the arms of
`deliver` and `unwind`).

| State | Code |
|---|---|
| `f.k`, `f.heap` | `f->k` and its `Cont` cells, linked by `next` |
| `f.mode`, `f.cur`, `f.why` | whether a term, a value or a reason is next; `RK_*` with its `Cause` as a sequence |
| `f.exits`, `f.stacks` | `cur_exits`, the `ExitStack`s |
| `f.mask`, `f.masks` | `mask_top`, the `MaskFrame`s |
| `f.handlers`, `f.ress`, `f.fins`, `f.ends`, `f.drain` | `Handler`, `Resumption`, `FinSeq`, `AbandonEnd`, `drain_ae` |
| `ran`, `dead`, `left`, `raised` | history: exit actions started, cells of abandoned segments, cells passed, failures so far |

Frames are cells in a heap and not a sequence, because `perform` cuts a chain, `resume`
links it somewhere else and a drain keeps a pointer to where it was: the defects that the
comments in `rt.c` call fix 1, 2 and 3 are wrong links, and each of them is a mutant
here. Whether a clause is tail-resumptive is part of the term, as it is part of the
handler in the code; `MCEffectMachine!TailResumptive` classifies the clauses of the runs
as `tailResumptiveClause` in `src/Kappa/Usage.hs` does. A loop is a frame that stays while its
body runs in a do-scope of its own; its back-edge is an interruption point. Left out: `onExit`
and `onInterrupt`, return clauses other than the identity, and the tokens through which
generated C code aborts at a safe point.

### RunMain and Race

`RunMain` has the host thread in `krt2_run_main` and the fibers of its runs. What the fibers execute is
given by constants (`Code`, `OnInterrupt`, `Mains`, `Calls`): sequences of operations, with `either` where the
result of a computation would decide. A fiber holds what it has left to execute, as `f->cur` and its
continuation do. `race.c` keeps no state: it builds programs, with a continuation after each
operation. Those are operators of `Race` (`Race`, `RacePure`, `Timeout`, `RaceDecideL`, ...), whose
`RaceAssumption` puts them into `Code` and leaves the branches and all other fibers open.
`MCRunMain` has the programs of the run.

| State | Code |
|---|---|
| `status`, `cur`, `masked`, `asked` | `F_DONE` and queue states, the rest of the program, effective mask, `interrupt_pending` |
| `curScope`, `att`, `shutting` | `f->cur_scope`, `f->att_scope` (children are its inverse), `Scope.shutting` |
| `drained` | the wake that the last child to leave a draining scope gives to who waits in `shutdownScope` |
| `spawning` | the locals of `krt2i_spawn_from` between the read of `daemon_scope`, the attachment and the push |
| `signal` | the promise of race or timeout |
| `verdict`, `order` | history: what was returned, who ended when |
| `kin`, `home` | history: main fibers and what they forked, not as a daemon; the run during which a daemon was forked |
| `host`, `mainDone`, `dscope`, `kids`, `snap`, `expired` | where the host is, `rt->main_done`, `rt->daemon_scope`, the drain's snapshot, runs whose budget ran out |

An operation that waits is a step enabled by what it waits for. In `MCRunMain` users' actions end, wait for
ever, or end in their own time under a mask; daemons mask themselves, fork others, also from
their exit actions, and outlive the run.

### RefCount

Threads over a small heap. What compiled code does is a free choice of operations on references
the thread owns; an operation is a list of micro-operations, one per access of a count word
or critical section, so that two threads interleave inside `kdup`, `kdrop`, the walk of
`krc_mark_shared_recursive`, `kref_get` and `kref_set`.

| State | Code |
|---|---|
| `tag`, `rc`, `field` | constructor or cell, the count word (count, saturated bit, shared bit), its field or content |
| `owned` | references held by a thread's program (no counterpart: the compiler's invariant) |
| `code` | what is left of the C function under way, with its locals |
| `markLock`, `cellLock` | `kshared_mark_lock` and the mutex of a cell |

Freed addresses are not used again, so that a late access shows. A constructor is freed at
count zero; cells are left to the collector. `SATURATED` is the bit `KRC_SATURATED_BIT`, 2^30 in
the code: the largest count is one less, and the shared bit is twice it. The runs take 4.
`RefCountAssumption` says that there are at most `SATURATED` threads: each may have passed the test of a full
count and be about to add, and together they must not carry into the shared bit.

## 3. What the runs check

Passing runs (every action and every alternative fires in one of them):

| Run | Shows |
|---|---|
| `FibersSafety` | `SingleOwner`, `NoLostWakeup`, `NoLostInterrupt`, `NoChildEscapes`: awaits, completions, cedes, masks, both forms of interrupt (also of two fibers by each other), forks into a scope and its shutdown, in every order |
| `FibersLive` | `ResolvedWaiterRuns`, `ParkedInterruptDelivered`, `DrainReturns` |
| `StmProgram` | `Serializable` (refinement of `AtomicStm`), `CommitsAreAtomic`, `VersionsNameValues`, `NoStaleWatcher`, `NoLostRetry`, `BlockedMeansRetry`, `NotStarved`: transfers, `orElse`, `retry` and an interrupt on two TVars |
| `ReactorTimers` | `SlotsOwnTimers`, `ShutdownEnds`, `FirstSleepEnds`, with an interrupt, repeated sleeps and the shutdown |
| `LaneCalls` | `OneRunner`, `BodyOffPool`, `DepthCountsFrames`, `CallsAreTaken`, `InterruptObserved`, with a request at any moment, also while a native executes, and thread creation that may fail |
| `Effects` | `ExitActionsRunOnce`, `InnerFirst`, `FinalizersMasked`, `CausesInOrder`, `AbandonedIsNotRun`, `NoFrameIsLost`, `NoInternalError`, `FiberEnds`, for programs whose clauses resume, abandon, fail and perform outwards, and loops left in every way, with an interrupt at any moment |
| `RunMain` | `WinnerCameFirst`, `LoserIsDone`, `StructuredFirst`, `NoDaemonEscapes`, `DrainedMeansGone`, `RunReturns`: one or two calls of `krt2_run_main` whose main fiber runs a race, a race with a pure left branch, a timeout, a timeout of no time, or daemons |
| `RefCount` | `NoDangling`, `LocalIsPrivate`, `CountExact`: two threads copy, release, project, build, publish, read and overwrite cells and reuse constructors |

Runs that end in a violation each show a disagreement between the code and what the
repository says of it:

| Run | Statement | What happens |
|---|---|---|
| `FibersLateWaker` | `internal.h`: a late waker "is a safe no-op" | its CAS wins a newer park of the fiber and delivers the old object's value |
| `FibersStaleClaim` | `DESIGN.md`: delivery "iff its effective mask state is `Interruptible`" | the claim after a park uses the mask captured at an earlier park |
| `ReactorLostSleep` | `Spec.md`: `sleepFor` suspends "for duration `d`"; `internal.h`: a stale timer "must not wake a newer unrelated park" | the callback checks the generation once, then stores and wakes: it clears the flag of the next sleep, whose timer is then not started |
| `LaneInterrupt` | `scope.c`, `DESIGN.md`: a fiber in a blocking call is not woken | the decision to wake is taken before the fiber parks in the call and carried out after |

What holds in spite of these: in `ReactorTimers` the first sleep of a fiber always ends,
because no older callback exists (`FirstSleepEnds`). In `BlockingLane` the history
variable `crossed` records the fibers an interrupt has woken in a call; the properties of
`LaneCalls` are about all others, also about fibers that are interrupted elsewhere. A `cede`
inside a region has an operation name of its own (`regionCede`), which `LaneCalls` leaves
out: `OP_CEDE` calls `krt2i_resume`, which uses the run queue whatever the depth, so the rest
of the body runs on the pool (`internal.h:177-178` says it stays on the lane), and
`BodyOffPool` fails when `"regionCede"` is added to `Ops`. `DrainReturns` says that `shutdownScope` waits for ever only when a child does: a child
that waits in a finalizer for what never comes, or that drains its own scope.

Two definitions state what does not hold and are in no run. `Stm!ConsistentSnapshot` (`Spec.md`:
each attempt "observes a consistent snapshot") fails when it is added to `StmProgram.cfg`: reads are taken
one by one and validated at the end. With `Program <- TailPrograms` in `Effects.cfg`, whose
clause counts as tail-resumptive and may fail before it resumes, `ExitActionsRunOnce` and
`NoFrameIsLost` fail: there is no guard, and the segment is dropped (`Spec.md`: "cleanup
of the abandoned segment still runs").

The programs of `Effects` leave out three shapes on purpose. One is the clause just named. An exit action that runs on an
ordinary exit of its scope and performs an operation whose clause abandons: the drain walks into the
captured `KK_FINSEQ`, which finishes with its own saved reason, and the code after the operation
goes on (`AbandonedIsNotRun` fails). And an exit action in a drain that performs an operation
of a handler which the drain has already left, or whose outer clause resumes and abandons
later, where a foreign terminal jumps over the resuming clause's own scope. The documents do not
say what the last two mean; they are listed as a hazard, with the property that tells.

Every property of a passing run has a mutant: a definition marked "Mutation" that
changes the code in a plausible way, with which TLC refutes the property.

### Bounds

- `Fibers`: two workers, two initial fibers and one that may be forked, a promise and a
  scope. The protocols are pairwise (waker against parker, requester against parker, drainer
  against child) with a third fiber as the source of an extra wake; two workers let any
  two critical sections interleave. `MaxOps` bounds the operations of all fibers together:
  4 in `FibersSafety` (park, completion, interrupt and a second park, or fork, mask, shutdown
  and interrupt), 3 in `FibersLive`, 5 and 6 in the two violations. The theorems hold for all values.
- `Stm`: three fibers with the transactions of `MCStm!Program`, two TVars, values modulo 4. Two
  TVars are needed for torn reads and several watcher lists, three fibers for a committer
  that wakes a fiber while another commits.
- `Reactor`: one fiber with two parks and one interrupt. A fiber's generations interact with
  themselves only; requests of different fibers share the queue alone.
- `BlockingLane`: one fiber with up to six operations, nested regions included. Fibers do
  not share state in this protocol.
- `EffectMachine`: seven programs with choices, about 33,000 states, one interrupt. `Nested` and
  `Outward` have two handlers, a scope with two exit actions and clauses of every kind; `Foreign` reaches
  the terminal of an outer drain; `Masking` combines masks, restore, poll, return and catch;
  `InPlace` has tail-resumptive and shallow handlers; `Looping` and `MaskedLoop` have loops, at most
  `MaxScopes` = 3 of whose iterations begin, enough for one that ends, one that is cut off and one
  after it. The first three end with one more drain,
  since a drain left active shows only at the next one. Two handlers and two exit actions are the
  least with which drains nest and a sequence has a rest.
- `RunMain`: the fibers of each program, by name; two runs for a race with a pure branch and for
  daemons, whose fibers can outlive the first, one for the others. 329,817 states.
- `RefCount`: three addresses, two threads, six operations, a count of two bits, so that it
  overflows after three copies. Two threads and a chain of two values are the least with which a value
  is reached from two sides; the third address is the one built or reused. 645,570 states.
- Symmetry is used in the safety runs of `MCFibers` and in `RefCount` (threads, addresses): workers, promises, initial fibers
  and unborn fibers are each interchangeable, and no definition chooses among them.
- Deadlock is not checked: programs end, and a program may wait for what never comes.

### Fairness

Weak fairness of each worker's steps: the operating system runs every thread,
and a fiber's computation reaches its next operation. It is given separately to what the
runtime does and what the program asks for, so that a worker with a fiber is never held
for ever. Nobody has to complete a promise, interrupt, commit or shut down. In `Reactor`
a started timer fires (strong fairness, as the loop is entered and left by other callbacks in
between) as long as no shutdown has begun: the shutdown must end without waiting for
a timer. In `BlockingLane` a created thread starts and a native call returns. In `EffectMachine`
the fiber is stepped on; loops are bounded, so a behaviour that goes on for ever is the
machine's doing. In `RunMain` each fiber's steps, its timer and the host go on (the run queue is
first in, first out); `DrainExpires` has strong fairness, since the deadline is absolute and a host that
is woken again and again returns to the same wait. `RunReturns` promises nothing about a
main fiber that hangs: no program here lets main wait under a mask for what never comes.

## 4. What is proved

With TLAPS, for every value of the constants that satisfies the named assumptions:

| Assumption | Says |
|---|---|
| `FibersAssumption`, `NilAssumption` | kinds of handles are distinct, the initial fibers are finitely many |
| `StmAssumption`, `FiniteTrees` | transactions are well typed, their trees of finite height |
| `ReactorAssumption`, `LaneAssumption` | NULL is neither a timer nor a number; which operations there are |
| `RefCountAssumption` | no more threads than a count word has room for |
| `RunMainAssumption` | operations name fibers, main fibers are distinct and made by `krt2_run_main` only, which alone puts the shutdown of a root scope at their end |
| `RaceAssumption` | the fibers of race or timeout execute what `race.c` builds; users' programs do not complete its promise, return its result or start its branches, which they have no handle of |

- `FibersProofs!TypeCorrect`: `TypeOK` with `ThreadShape`. What a worker queues is a
  fiber only because of where the worker is, so the two are inductive together.
- `FibersProofs!Ownership`: `SingleOwner /\ NoOrphan`. Relative to types this is inductive:
  the run queue, a waker (`won`) and a stepping worker are the only owners, each operation
  hands the fiber from one to the next, and the CAS admits one waker. The lemmas `Owned...`
  treat the hand-overs; `OwnedFrame` covers actions that do none.
- `FibersProofs!FinishedForGood`: `DoneIsFinal`, since only a parked fiber can be claimed or
  woken and a finished one has no owner.
- `FibersProofs!InterruptsAreNotLost`: `NoLostInterrupt`, with `Locals` (a thread's
  registration and wake list are empty outside of the places that use them).
- `FibersProofs!WakeupsAreNotLost`: `NoLostWakeup`, with `Locals`, `Owned` and
  `AwaitFits` (a fiber on its way to a park waits for an object of the right kind).
- `FibersProofs!ChildrenAreInterrupted`: `NoChildEscapes`, with `UnbornFree`
  (a fiber that does not exist is in no scope).
- `StmProofs!StmTypeCorrect`: `TypeOK`, with `AtShape` (there is a current transaction
  wherever one is needed) and `ParkShape`.
- `StmProofs!VersionsAreNames`: `VersionsNameValues`, with `Versions` (no version in a box or
  a read set exceeds the tick); a commit uses a version nobody has seen.
- `StmProofs!CommitsOnOneMemory`: `CommitsAreAtomic`, from the invariant above and validation.
- `StmProofs!RetriesAreWoken` and `StmProofs!WatchersLeave`: `NoLostRetry` and
  `NoStaleWatcher`, inductive together (`RetryInv`): a node is on a list because its fiber
  is in that retry, and a commit that takes it holds it in `todo`.
- `StmProofs!StmSerializable`: `Serializable`, that is `Spec => Abstract!Spec`. Every commit that
  validates is an `Atomically` of `AtomicStm`, every delivered interrupt an `Interrupt`, all other steps stutter.
- `StmProofs!StmBlockedMeansRetry`: `BlockedMeansRetry`.

The last two need what versions do not give: that an attempt whose reads still hold *has* computed
what its tree means. This is `OnCourse`, for every attempt at every moment: in each memory that
agrees with the read set, the current tree evaluated under the write log, passed down through the
frames (`Chained`, a sequence of results linked frame by frame), is the result the whole transaction has in that
memory. It speaks of all such memories and not of the present one, since the TVars change under an
attempt that will not validate; a commit or a park that validates may then put in the present one. One lemma
per kind of step (`CoursePush`, `CourseRead`, `CourseWrite`, `CoursePop`, `CourseUnwind`, `CourseBranch`) keeps
it. The right branch of an `orElse` is where it could fail: its frame keeps the length of the log, the log grows
and is cut meanwhile, and the writes to be kept must be those from before the `orElse`. `Nested` (the lengths
in the frames are at most that of the log and do not increase downwards) with `TruncateAppend` and `TruncateTwice` says so.
Before that, `EvalEquation` shows that `Eval` is what its recursive equation says. A recursive function is a `CHOOSE`
among the solutions, and there is one: `BelowExists` finds a meaning for the trees below each
height by the least height without one, `BelowUnique` shows that they agree, and the union of them
solves the equation.

- `ReactorProofs!TimersAreOwned`: `SlotsOwnTimers`. It is inductive with `Generations` (what is open,
  closing or requested is of no later generation than the fiber's, and strictly older while the
  fiber publishes a new one), `Once` (a sleep is requested once, and its timer does
  not exist before), `Callback` (the timer whose callback runs is open and out of its slot) and
  `Stopped` (after the workers are joined nothing is requested, after the walk nothing is left).
  Without `Once` a second start could overwrite a slot that a live timer needs.
- `ReactorProofs!ReactorTypeCorrect`: `TypeOK`, with `Cancels`.
- `LaneProofs!LaneOwnership`: `OneRunner`, from `Owner`, which says for each status who holds the
  fiber: a running one has one thread and no other claim, a runnable one is queued once or given
  to one lane thread, a parked one is held by a call exactly if it is armed.
- `LaneProofs!RegionsBalance`: `DepthCountsFrames`, from `Balance`: a call that may still fail to
  get its thread has a frame to take off.
- `LaneProofs!BodiesStayOffPool`: `BodyOffPool` under the hypothesis that no body cedes, from
  `OffPool`. With `regionCede` among the operations it is false, as said above.
- `LaneProofs!LaneTypeCorrect`: `TypeOK`; the depth never underflows.

`OneRunner`, `DepthCountsFrames` and `BodyOffPool` are about the fibers no interrupt has woken in a
call; the race in `LaneInterrupt` is the reason.

- `RefCountSteps!TypeCorrect`: `Typed`. A list of micro-operations has at most one access that
  depends on an earlier read, at its head, and one that ends it (`WellFormed`).
- `RefCountProofs!Inductive`: `IInv`, which is `Typed` and `Inv(own, val)` for some ghosts `own` and `val`.
- `RefCountProofs!Dangling`, `Private`, `Exact`: `NoDangling`, `LocalIsPrivate`, `CountExact`, from `IInv`.

None of the three properties of `RefCount` is inductive, and none can be proved without the others: a count is
exact only because no other thread updates it by plain stores, a value stays private only because
the mark walk reaches what is published, and the walk reads fields of values that must not have been
freed. `Inv` therefore holds them together, stated for the state in the middle of operations. `own[o]` is
the thread to which `o` belongs, or `Nil` once it has been published; `val[o]` is the count word as it
will be after a plain store that is under way. Its conjuncts:

| Conjunct | Says |
|---|---|
| `Owner` | only the owner of a value mentions it or reaches it through a field; what has no owner has its shared bit set; a plain store is the owner's, an atomic update is of a shared value |
| `Marked` | what a shared value holds is shared, or its owner has the child's `shade` still to do; a publication has the mark of its value behind it or ahead of it |
| `Alive` | whatever is mentioned is live; an increment has a reference to pass on, and another one through which the value is read |
| `Values` | a word differs from `val` only while its store is under way |
| `Balance` | the count plus the increments under way is the number of references in programs, in lists of micro-operations and in fields |
| `Bounded` | threads that add to a full count do not carry into its flag bits |
| `Freeing` | an unsaturated constructor at zero has exactly one thread about to free it |

`InvInit`, a lemma for every micro-operation (`DupReadStep`, `ShadeStep`, `GiveStep`, ...) and for every way
an operation begins (`CopyStep`, `PublishStep`, ...), and `StutterStep` give `Inductive`. Each action is first reduced to what it
does to the list of its thread (`Turn`, in `RefCountSteps`), then each conjunct to a frame lemma
(`OwnerKeep`, `MarkedKeep`, ...) that asks only for what the action changes.

- `RunProofs!RunMainTypeCorrect`: `TypeOK`. `Typed` adds the shape of programs (a main fiber
  has one shutdown, at its end) and of forks under way (the parent is at the fork, the child is known to
  no other fiber).
- `RunProofs!MainEndsLast`, `DaemonsAreAsked`, `DrainLeavesNone`: `StructuredFirst`,
  `NoDaemonEscapes`, `DrainedMeansGone`, all from `RunMainInvariant`, that is `Spec => []IInv`.

Beside `Typed`, `IInv` has these conjuncts:

| Conjunct | Says |
|---|---|
| `Tree` | until it leaves, a fiber is attached where its birth says, to the daemon scope of the run it was forked in or, if it is of main's kin, to the root scope (`Place`); who is in the middle of a fork already knows that scope, and a child of the kin has a parent of the kin, of the same run (`Parent`) |
| `MainRuns` | main's root scope is marked only when all that main has left is the shutdown; once that scope has drained, or main has nothing left, all its kin have left (`AtRest`) |
| `Untouched`, `ToCome` | runs not begun have neither fibers nor marked scopes |
| `Published`, `Marked` | `daemon_scope` is that of the run under way, or NULL between runs; from the drain on, the scope is marked for good |
| `Asked` | a child of a marked daemon scope has been asked, or is among the `kids` the drain has yet to interrupt |
| `Snapped` | a fiber of the snapshot is a child of the daemon scope until it has detached |

The step on which `MainEndsLast` rests is the last child's leave, which wakes main for good: the code takes no
other look at the live count. No fork is under way then that could attach another child, since whoever
forks into that scope is either a child that has not left or main, which is at its shutdown. A daemon forked
late finds the scope marked, under its lock, and is interrupted by its own parent before it is
queued, so that `Asked` holds whichever of fork and drain comes first.

- `RunProofs!FirstWins` and `LoserEnds`: `WinnerCameFirst` and `LoserIsDone`, from `RaceInvariant`,
  `Spec => []RaceInv`, inductive relative to `IInv`.

`RaceInv` says of what every fiber has left to execute that it `Fits`: an operation may rely on what the
one before it has waited for (`Before`) or on what has happened for good since. For the racer: the decision
comes after the signal, `RaceDecideR` is built only when the right branch has ended first, and a result is
preceded by the wait for its loser. For a watcher: it completes the signal after its branch's end.
`First` ties the signal to the history: signal or end of a branch mean that the history is not empty, and who is first
in it has ended. `FitsTail` and `FitsStay` carry a program over one of its own steps and over everybody
else's, which only add to what has happened (`Keeps`).

- `EffectProofs!ExitActionsRunOnceHolds`, `InnerFirstHolds`, `NoInternalErrorHolds`, `FinalizersMaskedHolds`,
  `CausesInOrderHolds` and `NoFrameIsLostHolds`: the properties of `EffectMachine` of these names, from
  `StackShape`, that is `Spec => []Inv(T, S)`.

These are about programs without `handle`, `perform` and `resume`; everything else may be nested in any
way, the programs and their number are any, and so are the interrupts. `Plain(T, S)` says it with two
sets of terms: those of `T` may run anywhere and do not register exit actions, those of `S` run inside
a do-scope; both are closed under what the machine makes of a term (the parts of a `then`, the
iteration of a loop, ...). An exit action is in `T`, because `begin_finseq` has left its scope when it runs,
and `OP_DEFER` without a scope is an internal error in the code. The theorems assume that the programs are
in such a `T`; `LoopIsPlain` gives one.

The invariant claims a witness: a stack `w` whose position `i` has a cell (`st`), its frame (`fr`), and the
top of the mask stack and the current scope when that frame is topmost (`ms`, `xs`); and for each scope the number
of exit actions not yet started (`todo`), and the mask frames that a restore function may name (`user`).

| Conjunct | Says |
|---|---|
| `Links` | the cells from `f.k` on are the stack, every other cell has been left |
| `MaskStack` | each POPMASK is for the mask frame that is on top when it is, and these are the whole mask stack |
| `Suspensions` | each SETMASK is for a suspended frame below it, of its own |
| `Finalizers` | a FINSEQ is right above the POPMASK of a Masked frame in force that no restore function names |
| `Scopes` | a DOSCOPE is for the scope that is current when it is on top; nothing of that scope has been started |
| `Owners` | a scope with exit actions to run has exactly one frame, a DOSCOPE or FINSEQ, and inner scopes are higher |
| `ExitActions` | an exit action is one item of one scope, started once unless it is among the first `todo` |
| `Causes` | what sequences of exit actions keep is in order, older the lower it is, and the reason of the moment is the newest |
| `Actions`, `Running` | code in a frame, in a scope or under way is allowed where it will run |

Each property alone is not inductive: that an exit action is not started twice needs that no second frame
owns its scope, that causes are in order needs the ages of all that wait below, and that the finalizer's
mask stays in force needs that whatever is suspended is named by some restore function. A step is reduced
to what it does to the fields of the fiber (`...Fields`), then to what that does to each conjunct
(`LinksPush`, `MaskingSuspend`, `ScopingLeave`, `CausesChange`, ...), then to the shape (`Shape...`), and
there is one lemma for each action (`Step...`). The properties speak of mask frames, scopes and
cells that are met one after the other (`Chain`); `ChainWithin` and `ChainFalls` say where a chain stays and
when it ends, for any length, by a least counterexample.

Only model-checked: all liveness, `NotStarved`, `FiberEnds` and `RunReturns` included (fairness and `ENABLED` are out of
the prover's reach); `EffectMachine` with handlers, for which the properties are claimed for the
programs of its run and not for all: a clause that counts as tail-resumptive but fails before it
resumes loses frames (see `MCEffectMachine!TailPrograms`), and a captured segment that is spliced in elsewhere
makes the continuation a graph, in which frames that have been passed can be met again.
`AbandonedIsNotRun` is about handlers only.

## 5. Not modelled, and why

- Fiber-local state: copied at fork, sequential otherwise.
- Atomics: each operation is one critical section of the cell's own mutex. `fetchAdd` and the others are
  arithmetic on the value inside.
- Primitives: pure functions on data.
- Values: layout and pointer packing, closures and thunks (never freed by a count; the mark walk
  treats a thunk's content as a cell's), `kreuse_ctor_skip` and counts switched off
  (`k_rc_enabled`), values with several fields, the Boehm collector. The other models assume that a
  fiber on a list or in a queue is alive.
- The idle workers' condition variable: a worker may take a queued fiber at any time. The calls of
  `krt2_shutdown` that join the workers, except what `Reactor` has of them.
- `krt2_safepoint` from generated native loops, which steps one other fiber inline.
- Return clauses other than the identity, `onExit` and `onInterrupt`; causes of interrupts.
- The compiler: sequential and over unbounded terms. Its universe levels have a
  development in Lean (`formal/universes-lean`).
- Exit values, durations, logging.

Of the 110,588 lines of C in the repository 95,864 are the vendored `miniaudio.h` of an
example package; further ones are native parts of examples and tests. The runtime has 10,448, about half
of them primitives and the construction and projection of values. The definitions here stand for
lines of the runtime only.

### Observations without a run

Met while reading; no run refutes a property on their account.

- `race` interrupts its loser with the tag `Requested`; `Spec.md` has `RaceLost`
  (`tests/runtime-import/pending/race-loser-interrupt-tag.kp` is a pending test of it).
- `Spec.md` wants the wait for mandatory cleanup masked; the wait of `krt2i_op_interrupt` in race and
  timeout is an ordinary, interruptible one. `LoserIsDone` is about a race that returns a result.
- A `timeout` of no time still looks at the action first and returns its result if it has ended.
- A child that a daemon forks is attached to the root scope of its run. When main has shut that
  scope down already, nobody waits for the child; if it is masked and forks a daemon after
  `daemon_scope` was reset, that daemon is in no scope. The same holds for what daemons that outlive
  the budget do.
- `deliver_interrupt` clears `interrupt_pending` and then reads `interrupt_cause`. A request in
  between replaces the cause that is delivered and leaves the flag set, although `scope.c:43` says
  that the first request wins.
- The fairness cede at the back-edge of a loop (`rt.c:2222`) calls `krt2i_resume` like `OP_CEDE`,
  so a loop inside a blocking region continues on the pool, too.
- `krt2_safepoint` steps other fibers inline; one of those in an endless native loop keeps
  the outer fiber from going on.

## 6. Plan

The order is that of importance to the whole system.

1. *Done*: `Fibers`, its proofs; `Stm` with `AtomicStm`, its proofs; `Reactor`, its proofs;
   `BlockingLane`, its proofs; `EffectMachine` with loops, its proofs without handlers; `RunMain` and
   `Race`, their proofs;
   `RefCount`, its proofs.
2. The worker pool: `rq_cv` and `rq_idle`, the inline step of `krt2_safepoint`, `krt2_shutdown`.
   Properties: no worker sleeps on a queue that is not empty, the shutdown joins every worker.
3. Extensions: `onExit`, `onInterrupt` and the cause that is read after its flag is cleared, in
   `EffectMachine`; `newTVar` and masks in `Stm`; several fields and thunks in `RefCount`.
4. `MonotoneWorklist` and `DirectedGraph` of the compiler as operators against reference
   definitions.
5. Proofs: `EffectMachine` with handlers whose resumptions are used in their own clause, where the
   continuation is a stack of segments.
