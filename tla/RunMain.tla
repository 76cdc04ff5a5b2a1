------------------------------ MODULE RunMain ------------------------------
(***************************************************************************)
(* One call of krt2_run_main after another (runtime/rt.c) on the           *)
(* persistent runtime: the host thread publishes a main fiber and a daemon *)
(* scope, waits for main, then interrupts the daemons and waits for them   *)
(* within a budget (krt2i_scope_drain_bounded, runtime/scope.c).           *)
(*                                                                         *)
(* How a fiber parks and is woken is the subject of module Fibers; here an *)
(* operation that waits is a step enabled when what it waits for has       *)
(* happened.  A fiber holds the rest of its program, as f->cur and its     *)
(* continuation do.  The programs are constants: module Race has those     *)
(* that race.c builds.                                                     *)
(***************************************************************************)
EXTENDS Naturals, Sequences

CONSTANTS
  Fiber,        \* all the fibers there may be
  Program,      \* what the system may be running
  Mains,        \* the main fibers, one for each call of krt2_run_main
  Calls,        \* how often each program calls krt2_run_main
  Operation,    \* the operations of programs
  Code,         \* what each fiber executes in each program,
  OnInterrupt,  \* and the exit actions an interrupt makes it run
  Branches      \* the fibers whose end the history records

Op(o, x) == [op |-> o, obj |-> x]
Mask == Op("mask", "on")

(* The operation that ends each main fiber.                                *)
Shutdown == Op("shutdown", "root")

(* Operations name fibers; only a fiber made by krt2_run_main is a main    *)
(* fiber and shuts a root scope down (a main executes what Ensuring has).  *)
ASSUME RunMainAssumption ==
  /\ "none" \notin Fiber
  /\ Mains \in Seq(Fiber)
  /\ \A m, n \in DOMAIN Mains : Mains[m] = Mains[n] => m = n
  /\ Calls \in [Program -> 0 .. Len(Mains)]
  /\ Mask \in Operation
  /\ \A o \in Operation :
       /\ o.op # "shutdown"
       /\ o.op \in {"fork", "forkDaemon"} =>
            o.obj \in Fiber /\ \A n \in DOMAIN Mains : o.obj # Mains[n]
       /\ o.op = "interruptFork" => o.obj \in Fiber
       /\ o.op \in {"either", "tryExit"} =>
            o.some \in Seq(Operation) /\ o.none \in Seq(Operation)
  /\ Code \in [Program -> [Fiber -> Seq(Operation)]]
  /\ OnInterrupt \in [Program -> [Fiber -> Seq(Operation)]]
  /\ Branches \in [Program -> SUBSET Fiber]

VARIABLES
  program,   \* which program the system runs
  status,    \* "Unborn", "New" until krt2i_resume, "Queued", "Running",
             \* "Done" once F_DONE is stored, "Detached" from its scope
  cur,       \* what the fiber has yet to execute
  masked,    \* fibers whose effective mask suppresses interrupts
  asked,     \* fibers whose interrupt_pending has been set
  curScope,  \* f->cur_scope: the run whose root scope it is
  att,       \* f->att_scope; a scope's live count is its number of fibers
  spawning,  \* the child and the scope of a krt2i_spawn_from under way
  shutting,  \* scopes whose shutting flag is set
  drained,   \* those whose last child has since left, so that whoever
             \* waits in shutdownScope has been woken
  signal,    \* the promise of race or timeout is completed
  verdict,   \* what race or timeout returned
  order,     \* history: in which order branches ended and a timer expired
  kin,       \* history: main fibers and those forked by one of these, but
             \* not as a daemon
  host,      \* where krt2_run_main is
  run,       \* how often it has been called
  mainDone,  \* rt->main_done
  dscope,    \* rt->daemon_scope: the run it belongs to, 0 for NULL
  kids,      \* snapshotted children the drain has yet to interrupt
  snap,      \* the snapshot
  expired,   \* runs whose drain gave up
  home       \* history: the run during which a daemon was forked, or 0

treeVars == <<curScope, att, spawning, home, kin>>
scopeVars == <<shutting, drained>>
raceVars == <<signal, verdict, order>>
fiberVars == <<status, cur, masked, asked, treeVars, scopeVars, raceVars>>
hostVars == <<host, run, mainDone, dscope, kids, snap, expired>>
vars == <<program, fiberVars, hostVars>>

Root(n) == <<"root", n>>
Daemons(n) == <<"daemons", n>>
NoScope == <<"none", 0>>
Idle == [child |-> "none", scope |-> NoScope]

(* krt2_run_main wraps its action: whatever happens, the root scope is     *)
(* shut down under a mask before main ends.                                *)
Ensuring(a) == a \o <<Mask>> \o <<Shutdown>>

IsMain(f) == \E n \in DOMAIN Mains : f = Mains[n]

(* The exit actions an interrupt runs, masked; a fiber that has executed   *)
(* nothing has installed none.                                             *)
Cleanup(f) ==
  IF status[f] = "Queued" THEN <<>>
  ELSE OnInterrupt[program][f] \o (IF IsMain(f) THEN <<Shutdown>> ELSE <<>>)

Init ==
  /\ program \in Program
  /\ status = [f \in Fiber |-> "Unborn"]
  /\ cur = [f \in Fiber |-> <<>>]
  /\ masked = {} /\ asked = {} /\ shutting = {} /\ drained = {} /\ expired = {}
  /\ curScope = [f \in Fiber |-> 0] /\ home = [f \in Fiber |-> 0]
  /\ kin = {}
  /\ att = [f \in Fiber |-> NoScope]
  /\ spawning = [f \in Fiber |-> Idle]
  /\ signal = FALSE /\ verdict = "none" /\ order = <<>>
  /\ host = "idle" /\ run = 0 /\ mainDone = FALSE /\ dscope = 0
  /\ kids = {} /\ snap = {}

-----------------------------------------------------------------------------
(* What a fiber does.                                                      *)

Ended(f) == status[f] \in {"Done", "Detached"}
Children(s) == {f \in Fiber : att[f] = s}
Happened(x) == IF x = "signal" THEN signal ELSE x \in Fiber /\ Ended(x)

(* A pending interrupt the mask lets through is delivered when the fiber   *)
(* is taken from the run queue, unless it is about to enter a mask, and    *)
(* before an operation that waits.  An interrupted fiber unwinds masked to *)
(* its end, so that its flag, cleared on delivery in the code, may stay in *)
(* asked.                                                                  *)
MustDeliver(f) ==
  /\ f \in asked \ masked
  /\ cur[f] # <<>>
  /\ \/ status[f] = "Queued" /\ Head(cur[f]).op \notin {"either", "mask"}
     \/ Head(cur[f]).op \in {"await", "sleep"}

Active(f) == status[f] \in {"Queued", "Running"} /\ spawning[f] = Idle

(* The fiber is to execute operation o.                                    *)
At(f, o) == Active(f) /\ ~MustDeliver(f) /\ cur[f] # <<>> /\ Head(cur[f]).op = o

Goto(f, rest) ==
  /\ cur' = [cur EXCEPT ![f] = rest]
  /\ status' = [status EXCEPT ![f] = "Running"]

Next1(f) == Goto(f, Tail(cur[f]))

Deliver(f) ==
  /\ Active(f) /\ MustDeliver(f)
  /\ Goto(f, Cleanup(f))
  /\ masked' = masked \cup {f}
  /\ UNCHANGED <<program, asked, treeVars, scopeVars, raceVars, hostVars>>

(* The user's program is one or the other; nothing is executed.            *)
Choose(f) ==
  /\ At(f, "either")
  /\ \E b \in {Head(cur[f]).some, Head(cur[f]).none} :
       cur' = [cur EXCEPT ![f] = b \o Tail(@)]
  /\ UNCHANGED <<program, status, masked, asked, treeVars, scopeVars,
                 raceVars, hostVars>>

(* OP_TRY_EXIT, under the target's lock, with the rest of the program      *)
(* after the continuation on the Option it returns.                        *)
TryExitStep(f) ==
  /\ At(f, "tryExit")
  /\ Goto(f, (IF Ended(Head(cur[f]).obj) THEN Head(cur[f]).some ELSE Head(cur[f]).none)
               \o Tail(cur[f]))
  /\ UNCHANGED <<program, masked, asked, treeVars, scopeVars, raceVars,
                 hostVars>>

(* Operations that return at once: a sleep of no time, a step of an exit   *)
(* action; and OP_AWAIT once what it awaits has happened.                  *)
Continue(f) ==
  /\ \/ At(f, "sleepZero") \/ At(f, "cleanup")
     \/ At(f, "await") /\ Happened(Head(cur[f]).obj)
  /\ Next1(f)
  /\ UNCHANGED <<program, masked, asked, treeVars, scopeVars, raceVars,
                 hostVars>>

(* The reactor fires the timer of a sleep.                                 *)
Wake(f) ==
  /\ At(f, "sleep")
  /\ Next1(f)
  /\ UNCHANGED <<program, masked, asked, treeVars, scopeVars, raceVars,
                 hostVars>>

MaskOn(f) ==
  /\ At(f, "mask")
  /\ Next1(f)
  /\ masked' = masked \cup {f}
  /\ UNCHANGED <<program, asked, treeVars, scopeVars, raceVars, hostVars>>

(* krt2i_interrupt_request.                                                *)
InterruptFork(f) ==
  /\ At(f, "interruptFork")
  /\ Next1(f)
  /\ asked' = asked \cup {Head(cur[f]).obj}
  /\ UNCHANGED <<program, masked, treeVars, scopeVars, raceVars, hostVars>>

(* OP_COMPLETE_PROMISE; obj says what happened, that a fiber ended or that *)
(* a time has expired.                                                     *)
Complete(f) ==
  /\ At(f, "complete")
  /\ Next1(f)
  /\ signal' = TRUE
  /\ order' = IF Head(cur[f]).obj = "expiry" THEN Append(order, f) ELSE order
  /\ UNCHANGED <<program, masked, asked, treeVars, scopeVars, verdict,
                 hostVars>>

Win(f) ==
  /\ At(f, "won")
  /\ Next1(f)
  /\ verdict' = Head(cur[f]).obj
  /\ UNCHANGED <<program, masked, asked, treeVars, scopeVars, signal,
                 order, hostVars>>

(* Mutation: the caller does not wait for the children it interrupted.     *)
RequestedIsEnough(s) == TRUE

(* A caller of shutdownScope that waits goes on when the last child has    *)
(* left, without another look at the live count.                           *)
Drained(s) == s \in drained

(* krt2i_op_shutdown_scope by main, whose mask keeps it there: mark the    *)
(* scope, interrupt its children, then wait until the last has left.       *)
ShutdownScope(f) ==
  /\ At(f, "shutdown")
  /\ LET s == Root(curScope[f]) IN
     IF s \notin shutting
     THEN /\ shutting' = shutting \cup {s}
          /\ drained' = IF Children(s) = {} THEN drained \cup {s} ELSE drained
          /\ asked' = asked \cup Children(s)
          /\ UNCHANGED <<status, cur>>
     ELSE /\ Drained(s)
          /\ Next1(f)
          /\ UNCHANGED <<scopeVars, asked>>
  /\ UNCHANGED <<program, masked, treeVars, raceVars, hostVars>>

-----------------------------------------------------------------------------
(* krt2i_spawn_from, krt2i_scope_attach and fiber_finish.                  *)

(* fiber_new, which makes a fiber, and the read of daemon_scope.  The      *)
(* child inherits the mask and the scope of its own forks.                 *)
SpawnRead(f) ==
  /\ At(f, "fork") \/ At(f, "forkDaemon")
  /\ LET c == Head(cur[f]).obj
         daemon == Head(cur[f]).op = "forkDaemon"
         s == IF ~daemon THEN Root(curScope[f])
              ELSE IF dscope # 0 THEN Daemons(dscope) ELSE NoScope
     IN /\ status[c] = "Unborn"
        /\ spawning' = [spawning EXCEPT ![f] = [child |-> c, scope |-> s]]
        /\ status' = [status EXCEPT ![f] = "Running", ![c] = "New"]
        /\ cur' = [cur EXCEPT ![c] = Code[program][c]]
        /\ curScope' = [curScope EXCEPT ![c] = curScope[f]]
        /\ masked' = IF f \in masked THEN masked \cup {c} ELSE masked
        /\ home' = [home EXCEPT ![c] = IF daemon /\ host # "idle" THEN run ELSE 0]
        /\ kin' = IF f \in kin /\ ~daemon THEN kin \cup {c} ELSE kin
  /\ UNCHANGED <<program, asked, att, scopeVars, raceVars, hostVars>>

(* Mutation: a child of a draining scope is not interrupted.               *)
BornIdle(s, c) == {}

(* A child born into a draining scope is interrupted at once.              *)
BornInterrupted(s, c) == IF s \in shutting THEN {c} ELSE {}

SpawnAttach(f) ==
  LET c == spawning[f].child
      s == spawning[f].scope
  IN /\ s # NoScope /\ att[c] = NoScope
     /\ att' = [att EXCEPT ![c] = s]
     /\ asked' = asked \cup BornInterrupted(s, c)
     /\ UNCHANGED <<program, status, cur, masked, curScope, spawning, home, kin,
                    scopeVars, raceVars, hostVars>>

(* krt2i_all_add, krt2i_resume, and the handle delivered to the parent.    *)
SpawnPush(f) ==
  LET c == spawning[f].child
  IN /\ spawning[f] # Idle /\ att[c] = spawning[f].scope
     /\ status' = [status EXCEPT ![c] = "Queued"]
     /\ cur' = [cur EXCEPT ![f] = Tail(@)]
     /\ spawning' = [spawning EXCEPT ![f] = Idle]
     /\ UNCHANGED <<program, masked, asked, curScope, att, home, kin, scopeVars,
                    raceVars, hostVars>>

(* fiber_finish up to the unlock: F_DONE is visible, awaiters go on.       *)
Finish(f) ==
  /\ Active(f) /\ cur[f] = <<>>
  /\ status' = [status EXCEPT ![f] = "Done"]
  /\ order' = IF f \in Branches[program] THEN Append(order, f) ELSE order
  /\ UNCHANGED <<program, cur, masked, asked, treeVars, scopeVars, signal,
                 verdict, hostVars>>

(* The last child leaves a scope that is draining.                         *)
LeavesLast(f) == Children(att[f]) = {f} /\ att[f] \in shutting

(* krt2i_scope_detach: the last child to leave a draining scope wakes who  *)
(* waits in shutdownScope, and the host.                                   *)
Detach(f) ==
  /\ status[f] = "Done"
  /\ status' = [status EXCEPT ![f] = "Detached"]
  /\ att' = [att EXCEPT ![f] = NoScope]
  /\ drained' = IF LeavesLast(f) THEN drained \cup {att[f]} ELSE drained
  /\ host' = IF LeavesLast(f) /\ host = "timedwait" /\ att[f] = Daemons(run)
             THEN "recheck" ELSE host
  /\ UNCHANGED <<program, cur, masked, asked, curScope, spawning, home, kin,
                 shutting, raceVars, run, mainDone, dscope, kids, snap, expired>>

(* The end of fiber_finish: the fiber that is rt->main_fiber sets the      *)
(* latch.  For any other the comparison has no effect.                     *)
Latch(f) ==
  /\ status[f] = "Detached" /\ run # 0 /\ f = Mains[run]
  /\ ~mainDone
  /\ mainDone' = TRUE
  /\ UNCHANGED <<program, fiberVars, host, run, dscope, kids, snap,
                 expired>>

FiberStep(f) ==
  \/ Deliver(f) \/ Choose(f) \/ TryExitStep(f) \/ Continue(f) \/ MaskOn(f)
  \/ InterruptFork(f) \/ Complete(f) \/ Win(f) \/ ShutdownScope(f)
  \/ SpawnRead(f) \/ SpawnAttach(f) \/ SpawnPush(f)
  \/ Finish(f) \/ Detach(f) \/ Latch(f)

-----------------------------------------------------------------------------
(* The host thread in krt2_run_main.                                       *)

(* Fresh scopes, the latch reset, main and the daemon scope published,     *)
(* main queued.                                                            *)
Publish ==
  /\ host = "idle" /\ run < Calls[program]
  /\ host' = "waitMain"
  /\ run' = run + 1
  /\ mainDone' = FALSE
  /\ dscope' = run + 1
  /\ LET m == Mains[run + 1] IN
       /\ status' = [status EXCEPT ![m] = "Queued"]
       /\ cur' = [cur EXCEPT ![m] = Ensuring(Code[program][m])]
       /\ curScope' = [curScope EXCEPT ![m] = run + 1]
       /\ kin' = kin \cup {m}
  /\ UNCHANGED <<program, masked, asked, att, spawning, scopeVars,
                 raceVars, home, kids, snap, expired>>

(* Mutation: the daemon scope is withdrawn before the drain.               *)
WithdrawFirst == dscope' = 0

(* The daemon scope stays published while it is drained.                   *)
StaysPublished == dscope' = dscope

MainReturned ==
  /\ host = "waitMain" /\ mainDone
  /\ host' = "drain"
  /\ StaysPublished
  /\ UNCHANGED <<program, fiberVars, run, mainDone, kids, snap, expired>>

(* krt2i_scope_drain_bounded: mark and snapshot under the scope's lock.    *)
DrainBegin ==
  /\ host = "drain"
  /\ host' = "interrupt"
  /\ shutting' = shutting \cup {Daemons(run)}
  /\ kids' = Children(Daemons(run))
  /\ snap' = Children(Daemons(run))
  /\ UNCHANGED <<program, status, cur, masked, asked, treeVars, drained, raceVars,
                 run, mainDone, dscope, expired>>

DrainInterrupt ==
  /\ host = "interrupt"
  /\ IF kids = {}
     THEN /\ host' = IF snap = {} THEN "drained" ELSE "recheck"
          /\ UNCHANGED <<kids, asked>>
     ELSE /\ \E k \in kids : kids' = kids \ {k} /\ asked' = asked \cup {k}
          /\ UNCHANGED host
  /\ UNCHANGED <<program, status, cur, masked, treeVars, scopeVars,
                 raceVars, run, mainDone, dscope, snap, expired>>

(* Mutation: the wait is not repeated after a wake-up.                     *)
NoneLiveAfterWake == TRUE

(* The test of the wait loop.                                              *)
NoneLive == Children(Daemons(run)) = {}

DrainCheck ==
  /\ host = "recheck"
  /\ host' = IF NoneLive THEN "drained" ELSE "timedwait"
  /\ UNCHANGED <<program, fiberVars, run, mainDone, dscope, kids, snap,
                 expired>>

(* pthread_cond_timedwait may return for no reason.                        *)
DrainSpurious ==
  /\ host = "timedwait"
  /\ host' = "recheck"
  /\ UNCHANGED <<program, fiberVars, run, mainDone, dscope, kids, snap,
                 expired>>

(* The deadline passes: leave the loop without another look.               *)
DrainExpires ==
  /\ host = "timedwait"
  /\ host' = "drained"
  /\ expired' = expired \cup {run}
  /\ UNCHANGED <<program, fiberVars, run, mainDone, dscope, kids, snap>>

Return ==
  /\ host = "drained"
  /\ host' = "idle"
  /\ dscope' = 0
  /\ UNCHANGED <<program, fiberVars, run, mainDone, kids, snap, expired>>

HostStep ==
  MainReturned \/ DrainBegin \/ DrainInterrupt \/ DrainCheck \/ Return

Next ==
  \/ \E f \in Fiber : FiberStep(f) \/ Wake(f)
  \/ Publish \/ HostStep \/ DrainSpurious \/ DrainExpires

Spec == Init /\ [][Next]_vars

(* The run queue is first in, first out and its fibers take finite steps;  *)
(* timers fire; the deadline of the drain is absolute, so that a host      *)
(* which keeps returning to its wait meets it.                             *)
FairSpec ==
  /\ Spec
  /\ \A f \in Fiber : WF_vars(FiberStep(f)) /\ WF_vars(Wake(f))
  /\ WF_vars(HostStep)
  /\ SF_vars(DrainExpires)

-----------------------------------------------------------------------------

TypeOK ==
  /\ program \in Program
  /\ status \in [Fiber -> {"Unborn", "New", "Queued", "Running", "Done", "Detached"}]
  /\ cur \in [Fiber -> Seq(Operation \cup {Shutdown})]
  /\ masked \subseteq Fiber /\ asked \subseteq Fiber /\ kin \subseteq Fiber
  /\ curScope \in [Fiber -> Nat] /\ home \in [Fiber -> Nat]
  /\ att \in [Fiber -> {"root", "daemons", "none"} \X Nat]
  /\ spawning \in [Fiber -> [child : Fiber \cup {"none"},
                             scope : {"root", "daemons", "none"} \X Nat]]
  /\ shutting \subseteq {"root", "daemons"} \X Nat
  /\ drained \subseteq shutting
  /\ signal \in BOOLEAN /\ order \in Seq(Fiber)
  /\ host \in {"idle", "waitMain", "drain", "interrupt", "recheck", "timedwait", "drained"}
  /\ run \in 0 .. Calls[program] /\ dscope \in 0 .. Calls[program]
  /\ mainDone \in BOOLEAN
  /\ kids \subseteq snap /\ snap \subseteq Fiber
  /\ expired \subseteq Nat

(* krt2_run_main: when the main fiber of a call has ended, every fiber     *)
(* attached to its root scope by it or by those it forked has ended, also  *)
(* one whose fork was under way when main shut the scope down.             *)
StructuredFirst ==
  \A n \in 1 .. run :
    Ended(Mains[n]) => \A f \in kin : curScope[f] = n => Ended(f)

(* A daemon whose fork began before krt2_run_main returned is not left     *)
(* running without having been asked to stop, however the fork and the     *)
(* drain interleave (krt2i_spawn_from, krt2i_scope_attach, the order of    *)
(* the drain and of the reset of daemon_scope in krt2_run_main).           *)
NoDaemonEscapes ==
  \A f \in Fiber :
    home[f] # 0 /\ (home[f] < run \/ host = "idle") /\ status[f] \in {"Queued", "Running"}
      => f \in asked

(* krt2i_scope_drain_bounded: when the drain of a scope that had children  *)
(* ends within its budget, each daemon of the snapshot has run its exit    *)
(* actions and left the scope, also across a wake-up for no reason.        *)
DrainedMeansGone ==
  host \in {"drained", "idle"} /\ run \notin expired =>
    \A f \in snap : status[f] = "Detached"

(* krt2_run_main returns, whatever its daemons do and however the race and *)
(* the shutdown of the root scope interleave, as long as what main and its *)
(* children wait for under a mask ends.                                    *)
RunReturns == host = "waitMain" ~> host = "idle"

=============================================================================
