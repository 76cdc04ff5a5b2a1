------------------------------- MODULE Reactor -------------------------------
(***************************************************************************)
(* Sleeping fibers and the reactor thread, runtime/reactor.c.  A worker    *)
(* that executes sleepFor publishes F_PARKED and queues a request; the     *)
(* reactor, which alone touches libuv handles, starts a timer for it,      *)
(* whose callback wakes the fiber.  An interrupt that abandons a sleep     *)
(* queues a cancel.  The sleep generation sleep_seq and the flag           *)
(* sleep_armed are what worker and reactor see of each other; each access  *)
(* to them that the other side could come between is a step of its own.    *)
(*                                                                         *)
(* Time is left out: a started timer may fire at any moment.  Scheduling   *)
(* is module Fibers: here a runnable fiber may get a worker at any moment. *)
(***************************************************************************)
EXTENDS Naturals, Sequences

CONSTANTS Fiber,
          Victim,    \* the fibers somebody interrupts
          Nil,       \* NULL
          MaxParks   \* bound on the parks each fiber's program asks for

ASSUME ReactorAssumption ==
  /\ Victim \subseteq Fiber
  /\ Nil \notin Nat /\ Nil \notin Fiber \X Nat
  /\ MaxParks \in Nat

VARIABLES
  status,   \* f->status
  cur,      \* f->cur: a value, sleepFor, or some other parking operation
  at,       \* where the worker of the fiber is
  goal,     \* where it goes on after krt2i_cancel_sleep
  left,     \* bound: parks the fiber's program still asks for
  masked,   \* fibers whose effective mask suppresses delivery
  pending,  \* fibers with interrupt_pending
  poke,     \* fibers an interrupter has flagged and has yet to wake
  tails,    \* workers that have published a sleep and have yet to finish it
  armed,    \* fibers with sleep_armed
  seq,      \* f->sleep_seq
  io,       \* the queue of requests to the reactor
  async,    \* a uv_async_send has not been noticed yet
  slot,     \* f->sleep_timer: the generation of its SleepTimer, or NULL
  open,     \* SleepTimers with a started uv_timer, as <<fiber, generation>>
  closing,  \* SleepTimers whose close callback is due
  reactor,  \* where the reactor thread is
  due,      \* the SleepTimer whose callback it executes
  stop      \* how far krt2_shutdown has come

fiberVars == <<status, cur, at, goal, left, masked, pending, poke, tails>>
shared == <<armed, seq, io, async>>
reactorVars == <<slot, open, closing, reactor, due>>
vars == <<fiberVars, shared, reactorVars, stop>>

Request == [op : {"sleep", "cancel"}, f : Fiber, seq : Nat]

Deliverable(f) == f \in pending /\ f \notin masked

(* A worker executes f.  None does once the workers have been joined.      *)
Runs(f, l) == status[f] = "Running" /\ at[f] = l

(* Mutation: nobody rings.                                                 *)
NoRing == UNCHANGED async

(* uv_async_send: makes the reactor drain its queue once more.             *)
Ring == async' = TRUE

(* The end of krt2i_submit_sleep and of krt2i_cancel_sleep: queue the      *)
(* request and ring.  The two are one step: the reactor drains to empty,   *)
(* so a ring on its own only adds a drain that finds nothing.              *)
Send(op, f, n) ==
  /\ io' = Append(io, [op |-> op, f |-> f, seq |-> n])
  /\ Ring

(* deliver_interrupt, into code that handles the interrupt and goes on,    *)
(* for example a finalizer, which runs masked.                             *)
Delivered(f) ==
  /\ pending' = pending \ {f}
  /\ cur' = [cur EXCEPT ![f] = "pure"]
  /\ at' = [at EXCEPT ![f] = "run"]
  /\ masked' \in {masked, masked \cup {f}}

----------------------------------------------------------------------------
(* Workers.                                                                *)

(* OP_SLEEP up to krt2i_submit_sleep's new generation; after a wake that   *)
(* brought no value the fiber executes the same operation again.           *)
Sleep(f) ==
  /\ Runs(f, "run") /\ ~Deliverable(f)
  /\ \/ cur[f] = "sleep" /\ UNCHANGED left
     \/ cur[f] = "pure" /\ left[f] > 0 /\ left' = [left EXCEPT ![f] = @ - 1]
  /\ cur' = [cur EXCEPT ![f] = "sleep"]
  /\ seq' = [seq EXCEPT ![f] = @ + 1]
  /\ at' = [at EXCEPT ![f] = "arm"]
  /\ UNCHANGED <<status, goal, masked, pending, poke, tails, armed, io, async, reactorVars, stop>>

Arm(f) ==
  /\ Runs(f, "arm")
  /\ armed' = armed \cup {f}
  /\ at' = [at EXCEPT ![f] = "publish"]
  /\ UNCHANGED <<status, cur, goal, left, masked, pending, poke, tails, seq, io, async,
                 reactorVars, stop>>

(* F_PARKED is visible: from here on another thread may own the fiber.     *)
Publish(f) ==
  /\ Runs(f, "publish")
  /\ status' = [status EXCEPT ![f] = "Parked"]
  /\ at' = [at EXCEPT ![f] = "parked"]
  /\ tails' = tails \cup {[f |-> f, seq |-> seq[f], unmasked |-> f \notin masked, pc |-> "enqueue"]}
  /\ UNCHANGED <<cur, goal, left, masked, pending, poke, shared, reactorVars, stop>>

Enqueue(w) ==
  /\ w.pc = "enqueue"
  /\ Send("sleep", w.f, w.seq)
  /\ tails' = (tails \ {w}) \cup {[w EXCEPT !.pc = "claim"]}
  /\ UNCHANGED <<status, cur, at, goal, left, masked, pending, poke, armed, seq, reactorVars, stop>>

(* krt2i_claim_pending_after_park; the winner cancels and delivers.        *)
Claim(w) ==
  /\ w.pc = "claim"
  /\ tails' = tails \ {w}
  /\ \/ /\ w.unmasked /\ w.f \in pending /\ status[w.f] = "Parked"
        /\ status' = [status EXCEPT ![w.f] = "Running"]
        /\ at' = [at EXCEPT ![w.f] = "cancel"]
        /\ goal' = [goal EXCEPT ![w.f] = "deliver"]
     \/ /\ ~(w.unmasked /\ w.f \in pending /\ status[w.f] = "Parked")
        /\ UNCHANGED <<status, at, goal>>
  /\ UNCHANGED <<cur, left, masked, pending, poke, shared, reactorVars, stop>>

(* The worker that pops the fiber: its first turn cancels a sleep that an  *)
(* interrupt abandoned, before the delivery gate.                          *)
Resume(f) ==
  /\ status[f] = "Runnable" /\ stop = "no"
  /\ status' = [status EXCEPT ![f] = "Running"]
  /\ goal' = [goal EXCEPT ![f] = "gate"]
  /\ at' = [at EXCEPT ![f] = IF f \in pending /\ f \in armed /\ cur[f] = "sleep"
                               THEN "cancel" ELSE "gate"]
  /\ UNCHANGED <<cur, left, masked, pending, poke, tails, shared, reactorVars, stop>>

(* krt2i_cancel_sleep: test the flag, abandon the generation, clear the    *)
(* flag, queue the cancel.                                                 *)
Cancel(f) ==
  /\ Runs(f, "cancel")
  /\ \/ /\ f \in armed
        /\ seq' = [seq EXCEPT ![f] = @ + 1]
        /\ at' = [at EXCEPT ![f] = "disarm"]
     \/ /\ f \notin armed
        /\ at' = [at EXCEPT ![f] = goal[f]]
        /\ UNCHANGED seq
  /\ UNCHANGED <<status, cur, goal, left, masked, pending, poke, tails, armed, io, async,
                 reactorVars, stop>>

Disarm(f) ==
  /\ Runs(f, "disarm")
  /\ armed' = armed \ {f}
  /\ at' = [at EXCEPT ![f] = "post"]
  /\ UNCHANGED <<status, cur, goal, left, masked, pending, poke, tails, seq, io, async,
                 reactorVars, stop>>

Post(f) ==
  /\ Runs(f, "post")
  /\ Send("cancel", f, seq[f] - 1)
  /\ at' = [at EXCEPT ![f] = goal[f]]
  /\ UNCHANGED <<status, cur, goal, left, masked, pending, poke, tails, armed, seq, reactorVars, stop>>

(* The delivery gate, the delivery of a claimed interrupt and the check    *)
(* before a park.                                                          *)
Deliver(f) ==
  /\ Runs(f, "deliver") \/ ((Runs(f, "gate") \/ Runs(f, "run")) /\ Deliverable(f))
  /\ Delivered(f)
  /\ UNCHANGED <<status, goal, left, poke, tails, shared, reactorVars, stop>>

PassGate(f) ==
  /\ Runs(f, "gate") /\ ~Deliverable(f)
  /\ at' = [at EXCEPT ![f] = "run"]
  /\ UNCHANGED <<status, cur, goal, left, masked, pending, poke, tails, shared, reactorVars, stop>>

(* Any other parking operation (its own races are those of module Fibers), *)
(* and the wake that ends it.                                              *)
Await(f) ==
  /\ Runs(f, "run") /\ ~Deliverable(f)
  /\ \/ cur[f] = "await" /\ UNCHANGED left
     \/ cur[f] = "pure" /\ left[f] > 0 /\ left' = [left EXCEPT ![f] = @ - 1]
  /\ cur' = [cur EXCEPT ![f] = "await"]
  /\ status' = [status EXCEPT ![f] = "Parked"]
  /\ at' = [at EXCEPT ![f] = "parked"]
  /\ UNCHANGED <<goal, masked, pending, poke, tails, shared, reactorVars, stop>>

Resolve(f) ==
  /\ status[f] = "Parked" /\ cur[f] = "await"
  /\ status' = [status EXCEPT ![f] = "Runnable"]
  /\ cur' = [cur EXCEPT ![f] = "pure"]
  /\ UNCHANGED <<at, goal, left, masked, pending, poke, tails, shared, reactorVars, stop>>

(* OP_MASK and KK_POPMASK; the end of the fiber.                           *)
ToggleMask(f) ==
  /\ Runs(f, "run") /\ cur[f] = "pure" /\ left[f] > 0
  /\ masked' = IF f \in masked THEN masked \ {f} ELSE masked \cup {f}
  /\ UNCHANGED <<status, cur, at, goal, left, pending, poke, tails, shared, reactorVars, stop>>

Finish(f) ==
  /\ Runs(f, "run") /\ cur[f] = "pure"
  /\ status' = [status EXCEPT ![f] = "Done"]
  /\ UNCHANGED <<cur, at, goal, left, masked, pending, poke, tails, shared, reactorVars, stop>>

(* krt2i_interrupt_request from elsewhere: the flag, then the wake.  Bound: *)
(* only after the first of the fiber's parks and before the next.          *)
Interrupt(f) ==
  /\ f \in Victim /\ f \notin pending \cup poke /\ status[f] # "Done" /\ left[f] = MaxParks - 1
  /\ pending' = pending \cup {f}
  /\ poke' = poke \cup {f}
  /\ UNCHANGED <<status, cur, at, goal, left, masked, tails, shared, reactorVars, stop>>

Poke(f) ==
  /\ f \in poke
  /\ poke' = poke \ {f}
  /\ status' = IF status[f] = "Parked" THEN [status EXCEPT ![f] = "Runnable"] ELSE status
  /\ UNCHANGED <<cur, at, goal, left, masked, pending, tails, shared, reactorVars, stop>>

----------------------------------------------------------------------------
(* The reactor.                                                            *)

(* libuv calls reactor_async_cb once for any number of sends.              *)
AsyncCb ==
  /\ reactor = "loop" /\ async
  /\ async' = FALSE
  /\ reactor' = "drain"
  /\ UNCHANGED <<fiberVars, armed, seq, io, slot, open, closing, due, stop>>

(* start_sleep goes on only for the sleep the fiber is still in.           *)
StillAsleep(f, n) == f \in armed /\ seq[f] = n

(* Mutation: the old timer goes on when a new one takes the slot.          *)
KeepOld(f) == {}

(* start_sleep stops and closes the timer it replaces.                     *)
Replaced(f) == IF slot[f] = Nil THEN {} ELSE {<<f, slot[f]>>}

StartSleep(r) ==
  \/ /\ StillAsleep(r.f, r.seq)
     /\ slot' = [slot EXCEPT ![r.f] = r.seq]
     /\ open' = (open \ Replaced(r.f)) \cup {<<r.f, r.seq>>}
     /\ closing' = closing \cup Replaced(r.f)
  \/ /\ ~StillAsleep(r.f, r.seq)
     /\ UNCHANGED <<slot, open, closing>>

(* cancel_sleep finds the timer of the abandoned generation in the slot.   *)
InSlot(f, n) == slot[f] = n

CancelSleep(r) ==
  \/ /\ InSlot(r.f, r.seq)
     /\ slot' = [slot EXCEPT ![r.f] = Nil]
     /\ open' = open \ {<<r.f, slot[r.f]>>}
     /\ closing' = closing \cup {<<r.f, slot[r.f]>>}
  \/ /\ ~InSlot(r.f, r.seq)
     /\ UNCHANGED <<slot, open, closing>>

(* reactor_async_cb: drain the queue to empty, ...                         *)
Drain ==
  /\ reactor = "drain" /\ io # <<>>
  /\ io' = Tail(io)
  /\ \/ Head(io).op = "sleep" /\ StartSleep(Head(io))
     \/ Head(io).op = "cancel" /\ CancelSleep(Head(io))
  /\ UNCHANGED <<fiberVars, armed, seq, async, reactor, due, stop>>

(* Mutation: the walk leaves the timers to uv_stop.                        *)
WalkNothing == {}

(* reactor_close_walk_cb visits every handle that is not closing already.  *)
Walked == open

(* ... and then, when krt2i_reactor_stop has asked for it, close all.      *)
Drained ==
  /\ reactor = "drain" /\ io = <<>>
  /\ reactor' = "loop"
  /\ \/ /\ stop = "asked"
        /\ stop' = "walked"
        /\ open' = open \ Walked
        /\ closing' = closing \cup Walked
     \/ /\ stop # "asked"
        /\ UNCHANGED <<stop, open, closing>>
  /\ UNCHANGED <<fiberVars, shared, slot, due>>

(* sleep_timer_cb clears the slot it owns, stale or not.                   *)
ClearsSlot(f, n) == IF slot[f] = n THEN [slot EXCEPT ![f] = Nil] ELSE slot

(* sleep_timer_cb: is this the fiber's current sleep?  If so the flag and  *)
(* then the wake follow, else the handle closes itself.                    *)
Fire(f, n) ==
  /\ reactor = "loop" /\ <<f, n>> \in open
  /\ slot' = ClearsSlot(f, n)
  /\ \/ /\ slot[f] = n /\ f \in armed /\ seq[f] = n
        /\ reactor' = "disarm"
        /\ due' = <<f, n>>
        /\ UNCHANGED <<open, closing>>
     \/ /\ ~(slot[f] = n /\ f \in armed /\ seq[f] = n)
        /\ open' = open \ {<<f, n>>}
        /\ closing' = closing \cup {<<f, n>>}
        /\ UNCHANGED <<reactor, due>>
  /\ UNCHANGED <<fiberVars, shared, stop>>

TimerDisarm ==
  /\ reactor = "disarm"
  /\ armed' = armed \ {due[1]}
  /\ reactor' = "wake"
  /\ UNCHANGED <<fiberVars, seq, io, async, slot, open, closing, due, stop>>

(* krt2i_wake with Unit, and the handle closes.                            *)
TimerWake ==
  /\ reactor = "wake"
  /\ \/ /\ status[due[1]] = "Parked"
        /\ status' = [status EXCEPT ![due[1]] = "Runnable"]
        /\ cur' = [cur EXCEPT ![due[1]] = "pure"]
     \/ /\ status[due[1]] # "Parked"
        /\ UNCHANGED <<status, cur>>
  /\ open' = open \ {due}
  /\ closing' = closing \cup {due}
  /\ due' = Nil
  /\ reactor' = "loop"
  /\ UNCHANGED <<at, goal, left, masked, pending, poke, tails, shared, slot, stop>>

(* sleep_close_cb.                                                         *)
CloseCb(t) ==
  /\ reactor = "loop" /\ t \in closing
  /\ closing' = closing \ {t}
  /\ UNCHANGED <<fiberVars, shared, slot, open, reactor, due, stop>>

(* krt2_shutdown: the workers are joined, then the reactor is stopped; and *)
(* uv_run returns once no handle is left.                                  *)
Shutdown ==
  /\ stop = "no" /\ tails = {} /\ \A f \in Fiber : status[f] # "Running"
  /\ stop' = "asked"
  /\ Ring
  /\ UNCHANGED <<fiberVars, armed, seq, io, reactorVars>>

LoopEnds ==
  /\ stop = "walked" /\ reactor = "loop" /\ open = {} /\ closing = {}
  /\ stop' = "ended"
  /\ UNCHANGED <<fiberVars, shared, reactorVars>>

----------------------------------------------------------------------------
Init ==
  /\ status = [f \in Fiber |-> "Running"]
  /\ cur = [f \in Fiber |-> "pure"]
  /\ at = [f \in Fiber |-> "run"]
  /\ goal = [f \in Fiber |-> "gate"]
  /\ left = [f \in Fiber |-> MaxParks]
  /\ masked = {} /\ pending = {} /\ poke = {} /\ tails = {}
  /\ armed = {}
  /\ seq = [f \in Fiber |-> 0]
  /\ io = <<>> /\ async = FALSE
  /\ slot = [f \in Fiber |-> Nil]
  /\ open = {} /\ closing = {}
  /\ reactor = "loop" /\ due = Nil
  /\ stop = "no"

(* What the worker of f does by itself, and what its program asks for.     *)
Worker(f) == \/ Arm(f) \/ Publish(f) \/ Resume(f) \/ Cancel(f) \/ Disarm(f) \/ Post(f)
             \/ Deliver(f) \/ PassGate(f) \/ Sleep(f) \/ Await(f) \/ Finish(f)

LoopTurn == AsyncCb \/ Drain \/ Drained \/ TimerDisarm \/ TimerWake
              \/ (\E t \in closing : CloseCb(t)) \/ LoopEnds

Next ==
  \/ \E f \in Fiber : Worker(f) \/ ToggleMask(f) \/ Resolve(f) \/ Interrupt(f) \/ Poke(f)
  \/ \E w \in tails : Enqueue(w) \/ Claim(w)
  \/ LoopTurn \/ (\E t \in open : Fire(t[1], t[2]))
  \/ Shutdown

Spec == Init /\ [][Next]_vars

(* Workers and the reactor are threads the system runs; a runnable fiber   *)
(* gets a worker (module Fibers); a started timer fires, while nobody      *)
(* waits for the shutdown: that must not depend on how long a sleep is.    *)
(* Nobody has to interrupt, resolve a wait or shut down.                   *)
FairSpec ==
  /\ Spec
  /\ \A f \in Fiber : WF_vars(Worker(f)) /\ WF_vars(Poke(f))
  /\ WF_vars(\E w \in tails : Enqueue(w) \/ Claim(w))
  /\ WF_vars(LoopTurn)
  /\ \A f \in Fiber : SF_vars(\E t \in open : stop = "no" /\ t[1] = f /\ Fire(t[1], t[2]))

----------------------------------------------------------------------------
Timer == Fiber \X Nat

(* The fields of fibers and requests keep their types.                     *)
TypeOK ==
  /\ status \in [Fiber -> {"Running", "Parked", "Runnable", "Done"}]
  /\ cur \in [Fiber -> {"pure", "sleep", "await"}]
  /\ at \in [Fiber -> {"run", "arm", "publish", "parked", "cancel", "disarm", "post", "gate",
                       "deliver"}]
  /\ goal \in [Fiber -> {"gate", "deliver"}]
  /\ left \in [Fiber -> 0..MaxParks]
  /\ masked \subseteq Fiber /\ pending \subseteq Fiber /\ poke \subseteq Fiber
  /\ tails \subseteq [f : Fiber, seq : Nat, unmasked : BOOLEAN, pc : {"enqueue", "claim"}]
  /\ armed \subseteq Fiber
  /\ seq \in [Fiber -> Nat]
  /\ io \in Seq(Request) /\ async \in BOOLEAN
  /\ slot \in [Fiber -> Nat \cup {Nil}]
  /\ open \subseteq Timer /\ closing \subseteq Timer
  /\ reactor \in {"loop", "drain", "disarm", "wake"}
  /\ due \in Timer \cup {Nil}
  /\ stop \in {"no", "asked", "walked", "ended"}

(* The handles of the reactor: f->sleep_timer never dangles (a cancel that *)
(* followed it would close a handle twice), every open timer is in its     *)
(* fiber's slot or executes its callback (no other could ever be           *)
(* cancelled), and no handle that is closing is open.                      *)
SlotsOwnTimers ==
  /\ \A f \in Fiber : slot[f] # Nil /\ stop \in {"no", "asked"} => <<f, slot[f]>> \in open
  /\ \A t \in open : slot[t[1]] = t[2] \/ due = t
  /\ open \cap closing = {}

(* Nobody sleeps for ever (Spec.md: sleepFor suspends the fiber "for       *)
(* duration d, unless interruption is delivered first").                   *)
SleepEnds ==
  \A f \in Fiber : (status[f] = "Parked" /\ cur[f] = "sleep")
                     ~> (cur[f] # "sleep" \/ stop # "no")

(* The first sleep of a fiber ends, or an interrupt abandons it: no wake   *)
(* of the reactor is lost and no timer it needs is closed.                 *)
FirstSleepEnds ==
  \A f \in Fiber : (status[f] = "Parked" /\ cur[f] = "sleep" /\ seq[f] = 1)
                     ~> (cur[f] # "sleep" \/ seq[f] # 1 \/ stop # "no")

(* After a shutdown no SleepTimer is left (reactor.c, of the live timers:   *)
(* "after a clean shutdown this is 0").                                    *)
ShutdownEnds == (stop = "asked") ~> (stop = "ended" /\ open = {} /\ closing = {})

=============================================================================
