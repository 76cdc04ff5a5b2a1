---------------------------- MODULE ReactorProofs ----------------------------
(* Proofs about sleeps and their timers, for any number of fibers, sleeps  *)
(* and interrupts: the reactor never closes a handle twice, never leaks    *)
(* one, and no slot points to a timer that is gone.                        *)
EXTENDS Reactor, TLAPS

(* What the reactor is about to do fits its timers.                        *)
Callback ==
  /\ reactor \in {"loop", "drain"} => due = Nil
  /\ reactor \in {"disarm", "wake"} => due \in open /\ slot[due[1]] # due[2]

(* A cancel names the generation before the current one.                   *)
Cancels == \A f \in Fiber : at[f] \in {"disarm", "post"} => seq[f] # 0

(* After the workers are joined nobody sends a request; after the walk     *)
(* there is neither a request nor a timer.                                 *)
Stopped ==
  /\ stop # "no" => tails = {} /\ \A f \in Fiber : status[f] # "Running"
  /\ stop \in {"walked", "ended"} => io = <<>> /\ open = {}

(* The generation a worker is about to publish is newer than any other.    *)
Old(f, n) == n <= seq[f] /\ (at[f] \in {"arm", "publish"} => n < seq[f])

Generations ==
  /\ \A t \in open \cup closing : Old(t[1], t[2])
  /\ \A w \in tails : Old(w.f, w.seq)
  /\ \A i \in 1..Len(io) : Old(io[i].f, io[i].seq)

(* A sleep is requested once, and its timer does not exist before that.    *)
Sleeps(r, f, n) == r.op = "sleep" /\ r.f = f /\ r.seq = n

Once ==
  /\ \A v, w \in tails : v.f = w.f /\ v.seq = w.seq => v = w
  /\ \A w \in tails : w.pc = "enqueue" =>
       /\ <<w.f, w.seq>> \notin open \cup closing
       /\ \A i \in 1..Len(io) : ~Sleeps(io[i], w.f, w.seq)
  /\ \A i \in 1..Len(io) : io[i].op = "sleep" =>
       /\ <<io[i].f, io[i].seq>> \notin open \cup closing
       /\ \A j \in 1..Len(io) : Sleeps(io[j], io[i].f, io[i].seq) => i = j

TimerInv == Callback /\ Stopped /\ Generations /\ Once /\ SlotsOwnTimers

----------------------------------------------------------------------------
(* The steps of one fiber and of those that wake it; and the others.       *)
WorkerStep(f) == Worker(f) \/ ToggleMask(f) \/ Resolve(f) \/ Interrupt(f) \/ Poke(f)

ReactorStep ==
  \/ \E w \in tails : Enqueue(w) \/ Claim(w)
  \/ LoopTurn \/ (\E t \in open : Fire(t[1], t[2]))
  \/ Shutdown

(* The workers' steps keep the types.                                      *)
LEMMA WorkerTypes ==
  ASSUME TypeOK, Cancels, NEW f \in Fiber,
         WorkerStep(f)
  PROVE  TypeOK' /\ Cancels'
  <1> USE ReactorAssumption
  <1>1. CASE Sleep(f)
    <2>0. left[f] > 0 => left[f] - 1 \in 0..MaxParks
      BY DEF TypeOK
    <2>1. left' \in [Fiber -> 0..MaxParks]
      BY <1>1, <2>0 DEF Sleep, TypeOK
    <2>2. TypeOK'
      <3>1. seq' \in [Fiber -> Nat]
        BY <1>1 DEF Sleep, TypeOK
      <3> QED BY <1>1, <2>1, <3>1 DEF Sleep, reactorVars, TypeOK
    <2>3. Cancels'
      BY <1>1 DEF Sleep, Runs, shared, TypeOK, Cancels
    <2> QED BY <2>2, <2>3
  <1>2. CASE Arm(f)
    BY <1>2 DEF Arm, Runs, shared, reactorVars, fiberVars, TypeOK, Cancels
  <1>3. CASE Publish(f)
    <2> DEFINE w == [f |-> f, seq |-> seq[f], unmasked |-> f \notin masked, pc |-> "enqueue"]
    <2>1. w \in [f : Fiber, seq : Nat, unmasked : BOOLEAN, pc : {"enqueue", "claim"}]
      BY DEF TypeOK
    <2>2. tails' = tails \cup {w}
      BY <1>3 DEF Publish
    <2> HIDE DEF w
    <2>3. TypeOK'
      BY <1>3, <2>1, <2>2 DEF Publish, Runs, shared, reactorVars, TypeOK
    <2>4. Cancels'
      BY <1>3 DEF Publish, Runs, shared, TypeOK, Cancels
    <2> QED BY <2>3, <2>4
  <1>4. CASE Resume(f)
    BY <1>4 DEF Resume, shared, reactorVars, fiberVars, TypeOK, Cancels
  <1>5. CASE Cancel(f)
    <2>0. goal[f] \in {"gate", "deliver"} /\ seq[f] + 1 \in Nat \ {0} /\ seq \in [Fiber -> Nat]
      BY DEF TypeOK
    <2>1. seq' \in [Fiber -> Nat]
      <3>1. seq' = seq \/ seq' = [seq EXCEPT ![f] = seq[f] + 1]
        BY <1>5 DEF Cancel
      <3> QED BY <2>0, <3>1
    <2>2. at' \in [Fiber -> {"run", "arm", "publish", "parked", "cancel", "disarm", "post", "gate",
                            "deliver"}]
      BY <1>5 DEF Cancel, TypeOK
    <2>6. /\ UNCHANGED <<status, cur, goal, left, masked, pending, poke, tails, armed, io, async>>
          /\ UNCHANGED <<slot, open, closing, reactor, due, stop>>
      BY <1>5 DEF Cancel, reactorVars
    <2>3. TypeOK'
      BY <2>1, <2>2, <2>6 DEF TypeOK
    <2>4. at'[f] \in {"disarm", "post"} => seq'[f] # 0
      BY <1>5, <2>0 DEF Cancel, TypeOK
    <2>5. \A g \in Fiber \ {f} : at'[g] = at[g] /\ seq'[g] = seq[g]
      BY <1>5 DEF Cancel, TypeOK
    <2> QED BY <2>3, <2>4, <2>5 DEF Cancels
  <1>6. CASE Disarm(f)
    BY <1>6 DEF Disarm, Runs, shared, reactorVars, fiberVars, TypeOK, Cancels
  <1>7. CASE Post(f)
    <2>1. /\ UNCHANGED <<status, cur, goal, left, masked, pending, poke, tails, armed, seq>>
          /\ UNCHANGED <<slot, open, closing, reactor, due, stop>>
      BY <1>7 DEF Post, Runs, Send, Ring, shared, reactorVars, fiberVars
    <2>2. /\ at' \in [Fiber -> {"run", "arm", "publish", "parked", "cancel", "disarm", "post", "gate",
                               "deliver"}]
          /\ \A g \in Fiber : at'[g] \in {"disarm", "post"} => at[g] = at'[g]
      BY <1>7 DEF Post, Runs, TypeOK
    <2>3. io' \in Seq(Request) /\ async' \in BOOLEAN
      <3>1. seq[f] \in Nat /\ seq[f] # 0 /\ io \in Seq(Request)
        BY <1>7 DEF Post, Runs, TypeOK, Cancels
      <3>2. [op |-> "cancel", f |-> f, seq |-> seq[f] - 1] \in Request
        BY <3>1 DEF Request
      <3> QED BY <1>7, <3>1, <3>2 DEF Post, Send, Ring
    <2>4. TypeOK'
      BY <2>1, <2>2, <2>3 DEF TypeOK
    <2> QED BY <2>1, <2>2, <2>4 DEF Cancels
  <1>8. CASE Deliver(f)
    BY <1>8 DEF Deliver, Runs, Delivered, shared, reactorVars, fiberVars, TypeOK, Cancels
  <1>9. CASE PassGate(f)
    BY <1>9 DEF PassGate, Runs, shared, reactorVars, fiberVars, TypeOK, Cancels
  <1>10. CASE Await(f)
    <2>0. left[f] > 0 => left[f] - 1 \in 0..MaxParks
      BY DEF TypeOK
    <2>1. left' \in [Fiber -> 0..MaxParks]
      BY <1>10, <2>0 DEF Await, TypeOK
    <2>2. TypeOK'
      BY <1>10, <2>1 DEF Await, Runs, shared, reactorVars, TypeOK
    <2>3. Cancels'
      BY <1>10 DEF Await, Runs, shared, TypeOK, Cancels
    <2> QED BY <2>2, <2>3
  <1>11. CASE Finish(f)
    BY <1>11 DEF Finish, Runs, shared, reactorVars, fiberVars, TypeOK, Cancels
  <1>12. CASE ToggleMask(f)
    BY <1>12 DEF ToggleMask, Runs, shared, reactorVars, fiberVars, TypeOK, Cancels
  <1>13. CASE Resolve(f)
    BY <1>13 DEF Resolve, shared, reactorVars, fiberVars, TypeOK, Cancels
  <1>14. CASE Interrupt(f)
    BY <1>14 DEF Interrupt, shared, reactorVars, fiberVars, TypeOK, Cancels
  <1>15. CASE Poke(f)
    BY <1>15 DEF Poke, shared, reactorVars, fiberVars, TypeOK, Cancels
  <1> QED BY <1>1, <1>2, <1>3, <1>4, <1>5, <1>6, <1>7, <1>8, <1>9, <1>10, <1>11, <1>12, <1>13,
             <1>14, <1>15 DEF WorkerStep, Worker

(* Starting a sleep keeps the types of the timers.                         *)
LEMMA StartTypes ==
  ASSUME TypeOK, NEW r \in Request, StartSleep(r)
  PROVE  /\ slot' \in [Fiber -> Nat \cup {Nil}]
         /\ open' \subseteq Timer /\ closing' \subseteq Timer
  <1>1. r.f \in Fiber /\ r.seq \in Nat
    BY DEF Request
  <1>2. Replaced(r.f) \subseteq Timer /\ <<r.f, r.seq>> \in Timer
    BY <1>1 DEF Replaced, Timer, TypeOK
  <1>3. slot' \in [Fiber -> Nat \cup {Nil}]
    BY <1>1 DEF StartSleep, TypeOK
  <1> QED BY <1>2, <1>3 DEF StartSleep, TypeOK

(* Cancelling a sleep keeps the types of the timers.                       *)
LEMMA CancelTypes ==
  ASSUME TypeOK, NEW r \in Request, CancelSleep(r)
  PROVE  /\ slot' \in [Fiber -> Nat \cup {Nil}]
         /\ open' \subseteq Timer /\ closing' \subseteq Timer
  <1>1. r.f \in Fiber /\ r.seq \in Nat
    BY DEF Request
  <1>2. CASE InSlot(r.f, r.seq)
    <2>1. <<r.f, slot[r.f]>> \in Timer
      BY <1>1, <1>2 DEF InSlot, Timer
    <2>2. slot' \in [Fiber -> Nat \cup {Nil}]
      BY <1>1 DEF CancelSleep, TypeOK
    <2> QED BY <1>2, <2>1, <2>2 DEF CancelSleep, TypeOK
  <1>3. CASE ~InSlot(r.f, r.seq)
    BY <1>3 DEF CancelSleep, TypeOK
  <1> QED BY <1>2, <1>3

(* The reactor's steps keep the types.                                     *)
LEMMA ReactorTypes ==
  ASSUME TypeOK, Cancels, Callback, ReactorStep
  PROVE  TypeOK' /\ Cancels'
  <1> USE ReactorAssumption
  <1>1. CASE \E w \in tails : Enqueue(w)
    <2> PICK w \in tails : Enqueue(w)
      BY <1>1
    <2>1. [op |-> "sleep", f |-> w.f, seq |-> w.seq] \in Request
      BY DEF TypeOK, Request
    <2>2. io' \in Seq(Request)
      BY <2>1 DEF Enqueue, Send, TypeOK
    <2>3. [w EXCEPT !.pc = "claim"] \in [f : Fiber, seq : Nat, unmasked : BOOLEAN,
                                          pc : {"enqueue", "claim"}]
      BY DEF TypeOK
    <2>4. tails' \subseteq [f : Fiber, seq : Nat, unmasked : BOOLEAN, pc : {"enqueue", "claim"}]
      BY <2>3 DEF Enqueue, TypeOK
    <2> QED BY <2>2, <2>4 DEF Enqueue, Send, Ring, reactorVars, TypeOK, Cancels
  <1>2. CASE \E w \in tails : Claim(w)
    <2> PICK w \in tails : Claim(w)
      BY <1>2
    <2>1. w.f \in Fiber /\ tails' \subseteq tails
      BY DEF TypeOK, Claim
    <2>2. /\ status' \in [Fiber -> {"Running", "Parked", "Runnable", "Done"}]
          /\ goal' \in [Fiber -> {"gate", "deliver"}]
      BY <2>1 DEF Claim, TypeOK
    <2>3. /\ at' \in [Fiber -> {"run", "arm", "publish", "parked", "cancel", "disarm", "post", "gate",
                               "deliver"}]
          /\ \A f \in Fiber : at'[f] \in {"disarm", "post"} => at[f] = at'[f]
      <3>1. at' = at \/ at' = [at EXCEPT ![w.f] = "cancel"]
        BY DEF Claim
      <3>2. at \in [Fiber -> {"run", "arm", "publish", "parked", "cancel", "disarm", "post", "gate",
                              "deliver"}]
        BY DEF TypeOK
      <3> QED BY <2>1, <3>1, <3>2
    <2>4. /\ UNCHANGED <<cur, left, masked, pending, poke>>
          /\ UNCHANGED <<armed, seq, io, async, slot, open, closing, reactor, due, stop>>
      BY DEF Claim, shared, reactorVars
    <2>5. TypeOK'
      BY <2>1, <2>2, <2>3, <2>4 DEF TypeOK
    <2> QED BY <2>3, <2>4, <2>5 DEF Cancels
  <1>3. CASE AsyncCb
    BY <1>3 DEF AsyncCb, shared, reactorVars, fiberVars, TypeOK, Cancels
  <1>4. CASE Drain
    <2>1. Head(io) \in Request /\ io' \in Seq(Request)
      BY <1>4 DEF Drain, TypeOK
    <2>3. /\ slot' \in [Fiber -> Nat \cup {Nil}]
          /\ open' \subseteq Timer /\ closing' \subseteq Timer
      <3>1. CASE StartSleep(Head(io))
        BY <2>1, <3>1, StartTypes
      <3>2. CASE CancelSleep(Head(io))
        BY <2>1, <3>2, CancelTypes
      <3> QED BY <1>4, <3>1, <3>2 DEF Drain
    <2>4. /\ UNCHANGED <<status, cur, at, goal, left, masked, pending, poke, tails>>
          /\ UNCHANGED <<armed, seq, async, reactor, due, stop>>
      BY <1>4 DEF Drain, fiberVars
    <2>5. TypeOK'
      BY <2>1, <2>3, <2>4 DEF TypeOK
    <2> QED BY <2>4, <2>5 DEF Cancels
  <1>5. CASE Drained
    BY <1>5 DEF Drained, Walked, shared, reactorVars, fiberVars, TypeOK, Cancels
  <1>6. CASE TimerDisarm
    BY <1>6 DEF TimerDisarm, shared, reactorVars, fiberVars, TypeOK, Cancels, Callback, Timer
  <1>7. CASE TimerWake
    <2>1. due \in open /\ due \in Timer /\ due[1] \in Fiber
      BY <1>7 DEF TimerWake, Callback, TypeOK, Timer
    <2>2. /\ status' \in [Fiber -> {"Running", "Parked", "Runnable", "Done"}]
          /\ cur' \in [Fiber -> {"pure", "sleep", "await"}]
      BY <1>7, <2>1 DEF TimerWake, TypeOK
    <2> QED BY <1>7, <2>1, <2>2 DEF TimerWake, shared, TypeOK, Cancels
  <1>8. CASE \E t \in closing : CloseCb(t)
    BY <1>8 DEF CloseCb, shared, reactorVars, fiberVars, TypeOK, Cancels
  <1>9. CASE LoopEnds
    BY <1>9 DEF LoopEnds, shared, reactorVars, fiberVars, TypeOK, Cancels
  <1>10. CASE \E t \in open : Fire(t[1], t[2])
    <2> PICK t \in open : Fire(t[1], t[2])
      BY <1>10
    <2>1. t[1] \in Fiber /\ t[2] \in Nat /\ <<t[1], t[2]>> \in Timer
      BY DEF TypeOK, Timer
    <2>2. /\ UNCHANGED <<status, cur, at, goal, left, masked, pending, poke, tails>>
          /\ UNCHANGED <<armed, seq, io, async, stop>>
      BY DEF Fire, shared, fiberVars
    <2>3. slot' \in [Fiber -> Nat \cup {Nil}]
      BY <2>1 DEF Fire, ClearsSlot, TypeOK
    <2>4. /\ open' \subseteq Timer /\ closing' \subseteq Timer
          /\ reactor' \in {"loop", "drain", "disarm", "wake"} /\ due' \in Timer \cup {Nil}
      BY <2>1 DEF Fire, TypeOK
    <2>5. TypeOK'
      BY <2>2, <2>3, <2>4 DEF TypeOK
    <2> QED BY <2>2, <2>5 DEF Cancels
  <1>11. CASE Shutdown
    BY <1>11 DEF Shutdown, Ring, shared, reactorVars, fiberVars, TypeOK, Cancels
  <1> QED BY <1>1, <1>2, <1>3, <1>4, <1>5, <1>6, <1>7, <1>8, <1>9, <1>10, <1>11 DEF ReactorStep,
             LoopTurn

----------------------------------------------------------------------------
(* A queued request names a fiber and one of its parks.                    *)
LEMMA RequestTypes ==
  ASSUME TypeOK
  PROVE  \A i \in 1..Len(io) : io[i] \in Request /\ io[i].f \in Fiber /\ io[i].seq \in Nat
  <1>1. \A i \in 1..Len(io) : io[i] \in Request
    BY DEF TypeOK
  <1> QED BY <1>1 DEF Request

(* The timers.  A step that leaves them and the requests alone keeps       *)
(* TimerInv if it makes no generation current again.                       *)
LEMMA Quiet ==
  ASSUME TypeOK, TimerInv,
         UNCHANGED <<tails, io, slot, open, closing, reactor, due, stop>>,
         \A f \in Fiber, n \in Nat : Old(f, n) => Old(f, n)',
         stop # "no" => \A f \in Fiber : status'[f] # "Running"
  PROVE  TimerInv'
  <1>1. Callback' /\ SlotsOwnTimers'
    BY DEF TimerInv, Callback, SlotsOwnTimers
  <1>2. Stopped'
    BY DEF TimerInv, Stopped
  <1>3. Generations'
    <2>1. \A t \in open \cup closing : t[1] \in Fiber /\ t[2] \in Nat
      BY DEF TypeOK, Timer
    <2>2. \A w \in tails : w.f \in Fiber /\ w.seq \in Nat
      BY DEF TypeOK
    <2>3. \A i \in 1..Len(io) : io[i].f \in Fiber /\ io[i].seq \in Nat
      BY RequestTypes
    <2> QED BY <2>1, <2>2, <2>3 DEF TimerInv, Generations
  <1>4. Once'
    BY DEF TimerInv, Once, Sleeps
  <1> QED BY <1>1, <1>2, <1>3, <1>4 DEF TimerInv

(* The steps of a fiber that neither publish a sleep nor post a cancel.    *)
LEMMA QuietSteps ==
  ASSUME TypeOK, TimerInv, NEW f \in Fiber,
         WorkerStep(f), ~Publish(f), ~Post(f)
  PROVE  TimerInv'
  <1>1. UNCHANGED <<tails, io, slot, open, closing, reactor, due, stop>>
    BY DEF WorkerStep, Worker, Sleep, Arm, Resume, Cancel, Disarm, Deliver, PassGate, Await,
       Finish, ToggleMask, Resolve, Interrupt, Poke, Delivered,
       shared, reactorVars
  <1>2. stop # "no" => \A g \in Fiber : status'[g] # "Running"
    BY DEF TimerInv, Stopped, TypeOK, WorkerStep, Worker, Runs, Delivered, Sleep, Arm, Resume,
       Cancel, Disarm, Deliver, PassGate, Await, Finish, ToggleMask, Resolve, Interrupt, Poke
  <1>3. \A g \in Fiber, n \in Nat : Old(g, n) => Old(g, n)'
    <2> SUFFICES ASSUME NEW g \in Fiber, NEW n \in Nat, Old(g, n) PROVE Old(g, n)'
      OBVIOUS
    <2>1. CASE Sleep(f)
      BY <2>1 DEF Sleep, Runs, shared, Old, TypeOK
    <2>2. CASE Arm(f)
      BY <2>2 DEF Arm, Runs, shared, Old, TypeOK
    <2>3. CASE Resume(f)
      BY <2>3 DEF Resume, Runs, shared, Old, TypeOK
    <2>4. CASE Cancel(f)
      <3>1. goal[f] \in {"gate", "deliver"} /\ seq[f] \in Nat /\ seq[g] \in Nat
        BY DEF TypeOK
      <3>2. CASE g = f
        <4>1. at'[g] \notin {"arm", "publish"} /\ seq'[g] >= seq[g]
          BY <2>4, <3>1, <3>2 DEF Cancel, TypeOK
        <4>2. seq'[g] \in Nat
          BY <2>4, <3>1, <3>2 DEF Cancel, TypeOK
        <4> QED BY <3>1, <4>1, <4>2 DEF Old
      <3>3. CASE g # f
        BY <2>4, <3>3 DEF Cancel, Old, TypeOK
      <3> QED BY <3>2, <3>3
    <2>5. CASE Disarm(f)
      BY <2>5 DEF Disarm, Runs, shared, Old, TypeOK
    <2>6. CASE Deliver(f)
      BY <2>6 DEF Deliver, Delivered, shared, Runs, shared, Old, TypeOK
    <2>7. CASE PassGate(f)
      BY <2>7 DEF PassGate, Runs, shared, Old, TypeOK
    <2>8. CASE Await(f)
      BY <2>8 DEF Await, Runs, shared, Old, TypeOK
    <2>9. CASE Finish(f)
      BY <2>9 DEF Finish, Runs, shared, Old, TypeOK
    <2>10. CASE ToggleMask(f)
      BY <2>10 DEF ToggleMask, Runs, shared, Old, TypeOK
    <2>11. CASE Resolve(f)
      BY <2>11 DEF Resolve, Runs, shared, Old, TypeOK
    <2>12. CASE Interrupt(f)
      BY <2>12 DEF Interrupt, Runs, shared, Old, TypeOK
    <2>13. CASE Poke(f)
      BY <2>13 DEF Poke, Runs, shared, Old, TypeOK
    <2> QED BY <2>1, <2>2, <2>3, <2>4, <2>5, <2>6, <2>7, <2>8, <2>9, <2>10, <2>11, <2>12,
               <2>13 DEF WorkerStep, Worker
  <1> QED BY <1>1, <1>2, <1>3, Quiet

(* Generations after a step, in terms of the state before it.              *)
OldNext(f, n) == n <= seq'[f] /\ (at'[f] \in {"arm", "publish"} => n < seq'[f])

(* Generations holds after a step when every timer, tail and request of    *)
(* the new state is of a park that has been.                               *)
LEMMA GenerationsNext ==
  ASSUME \A t \in open' \cup closing' : OldNext(t[1], t[2]),
         \A w \in tails' : OldNext(w.f, w.seq),
         \A i \in 1..Len(io') : OldNext(io'[i].f, io'[i].seq)
  PROVE  Generations'
  BY DEF Generations, Old, OldNext

(* A published sleep has a generation nothing has had before.              *)
LEMMA PublishStep ==
  ASSUME TypeOK, TimerInv, NEW f \in Fiber, Publish(f)
  PROVE  TimerInv'
  <1> DEFINE w == [f |-> f, seq |-> seq[f], unmasked |-> f \notin masked, pc |-> "enqueue"]
  <1>1. /\ tails' = tails \cup {w} /\ w.f = f /\ w.seq = seq[f] /\ w.pc = "enqueue"
        /\ at[f] = "publish" /\ at' = [at EXCEPT ![f] = "parked"]
        /\ status[f] = "Running" /\ seq[f] \in Nat /\ seq' = seq
        /\ UNCHANGED <<io, slot, open, closing, reactor, due, stop>>
    BY DEF Publish, Runs, TypeOK, shared, reactorVars
  <1> HIDE DEF w
  <1>2. Callback' /\ SlotsOwnTimers'
    BY <1>1 DEF TimerInv, Callback, SlotsOwnTimers
  <1>3. Stopped'
    BY <1>1 DEF TimerInv, Stopped
  <1>4. \A g \in Fiber, n \in Nat : Old(g, n) => Old(g, n)' /\ ~(g = f /\ n = seq[f])
    BY <1>1 DEF Old, TypeOK
  <1>5. /\ \A t \in open \cup closing : t[1] \in Fiber /\ t[2] \in Nat
        /\ \A v \in tails : v.f \in Fiber /\ v.seq \in Nat
    BY DEF TypeOK, Timer
  <1>6. Generations'
    <2>1. OldNext(w.f, w.seq)
      BY <1>1 DEF OldNext, TypeOK
    <2>2. \A g \in Fiber, n \in Nat : Old(g, n) => OldNext(g, n)
      BY <1>4 DEF Old, OldNext
    <2>3. \A t \in open' \cup closing' : OldNext(t[1], t[2])
      BY <1>1, <1>5, <2>2 DEF TimerInv, Generations
    <2>4. \A v \in tails' : OldNext(v.f, v.seq)
      BY <1>1, <1>5, <2>1, <2>2 DEF TimerInv, Generations
    <2>5. \A i \in 1..Len(io') : OldNext(io'[i].f, io'[i].seq)
      BY <1>1, <2>2, RequestTypes DEF TimerInv, Generations
    <2> QED BY <2>3, <2>4, <2>5, GenerationsNext
  <1>7. Once'
    <2>1. /\ \A v \in tails : ~(v.f = f /\ v.seq = seq[f])
          /\ \A i \in 1..Len(io) : ~(io[i].f = f /\ io[i].seq = seq[f])
      BY <1>4, <1>5, RequestTypes DEF TimerInv, Generations
    <2>2. <<f, seq[f]>> \notin open \cup closing
      BY <1>4, <1>5 DEF TimerInv, Generations
    <2>3. \A t, u \in tails' : t.f = u.f /\ t.seq = u.seq => t = u
      BY <1>1, <2>1 DEF TimerInv, Once
    <2>4. \A u \in tails' : u.pc = "enqueue" =>
            /\ <<u.f, u.seq>> \notin open' \cup closing'
            /\ \A i \in 1..Len(io') : ~Sleeps(io'[i], u.f, u.seq)
      BY <1>1, <2>1, <2>2 DEF TimerInv, Once, Sleeps
    <2>5. \A i \in 1..Len(io') : io'[i].op = "sleep" =>
            /\ <<io'[i].f, io'[i].seq>> \notin open' \cup closing'
            /\ \A j \in 1..Len(io') : Sleeps(io'[j], io'[i].f, io'[i].seq) => i = j
      BY <1>1 DEF TimerInv, Once
    <2> QED BY <2>3, <2>4, <2>5 DEF Once
  <1> QED BY <1>2, <1>3, <1>6, <1>7 DEF TimerInv

(* The queue with one request more.                                        *)
LEMMA AppendRequest ==
  ASSUME TypeOK, NEW r \in Request, io' = Append(io, r)
  PROVE  /\ Len(io') = Len(io) + 1 /\ io'[Len(io) + 1] = r /\ Len(io) \in Nat
         /\ \A i \in 1..Len(io) : io'[i] = io[i]
         /\ \A i \in 1..Len(io') : i \in 1..Len(io) \/ i = Len(io) + 1
  BY DEF TypeOK

(* A cancel is about an older generation than the fiber's.                 *)
LEMMA PostStep ==
  ASSUME TypeOK, Cancels, TimerInv, NEW f \in Fiber, Post(f)
  PROVE  TimerInv'
  <1> DEFINE r == [op |-> "cancel", f |-> f, seq |-> seq[f] - 1]
  <1>1. /\ io' = Append(io, r) /\ r.op = "cancel" /\ r.f = f /\ r.seq = seq[f] - 1
        /\ r \in Request /\ seq[f] \in Nat /\ seq[f] # 0 /\ seq' = seq /\ status[f] = "Running"
        /\ UNCHANGED <<tails, slot, open, closing, reactor, due, stop, status>>
    BY DEF Post, Send, Runs, Cancels, Request, TypeOK, reactorVars
  <1>2. at' = [at EXCEPT ![f] = goal[f]] /\ goal[f] \in {"gate", "deliver"}
    BY DEF Post, TypeOK
  <1> HIDE DEF r
  <1>3. Callback' /\ SlotsOwnTimers' /\ Stopped'
    BY <1>1 DEF TimerInv, Callback, SlotsOwnTimers, Stopped
  <1>4. \A g \in Fiber, n \in Nat : Old(g, n) => Old(g, n)'
    BY <1>1, <1>2 DEF Old, TypeOK
  <1>5. /\ \A t \in open \cup closing : t[1] \in Fiber /\ t[2] \in Nat
        /\ \A v \in tails : v.f \in Fiber /\ v.seq \in Nat
    BY DEF TypeOK, Timer
  <1>6. OldNext(f, seq[f] - 1)
    BY <1>1, <1>2 DEF OldNext, TypeOK
  <1>7. Generations'
    <2>1. \A g \in Fiber, n \in Nat : Old(g, n) => OldNext(g, n)
      BY <1>4 DEF Old, OldNext
    <2>2. \A i \in 1..Len(io) : OldNext(io[i].f, io[i].seq)
      BY <2>1, RequestTypes DEF TimerInv, Generations
    <2>3. \A i \in 1..Len(io') : OldNext(io'[i].f, io'[i].seq)
      BY <1>1, <1>6, <2>2, AppendRequest
    <2>4. \A t \in open' \cup closing' : OldNext(t[1], t[2])
      BY <1>1, <1>5, <2>1 DEF TimerInv, Generations
    <2>5. \A v \in tails' : OldNext(v.f, v.seq)
      BY <1>1, <1>5, <2>1 DEF TimerInv, Generations
    <2> QED BY <2>3, <2>4, <2>5, GenerationsNext
  <1>8. Once'
    BY <1>1, AppendRequest DEF TimerInv, Once, Sleeps
  <1> QED BY <1>3, <1>7, <1>8 DEF TimerInv

(* A request is queued once: its worker goes on to the claim.              *)
LEMMA EnqueueStep ==
  ASSUME TypeOK, TimerInv, NEW w \in tails, Enqueue(w)
  PROVE  TimerInv'
  <1> DEFINE r == [op |-> "sleep", f |-> w.f, seq |-> w.seq]
             v == [w EXCEPT !.pc = "claim"]
  <1>1. /\ io' = Append(io, r) /\ r.op = "sleep" /\ r.f = w.f /\ r.seq = w.seq /\ r \in Request
        /\ tails' = (tails \ {w}) \cup {v} /\ v.f = w.f /\ v.seq = w.seq /\ v.pc = "claim"
        /\ w.pc = "enqueue" /\ w.f \in Fiber /\ w.seq \in Nat
        /\ UNCHANGED <<at, seq, slot, open, closing, reactor, due, stop, status>>
    BY DEF Enqueue, Send, Request, TypeOK, reactorVars
  <1> HIDE DEF r, v
  <1>2. Callback' /\ SlotsOwnTimers'
    BY <1>1 DEF TimerInv, Callback, SlotsOwnTimers
  <1>3. Stopped'
    BY <1>1 DEF TimerInv, Stopped
  <1>4. Generations'
    <2>1. /\ \A i \in 1..Len(io) : OldNext(io[i].f, io[i].seq)
          /\ OldNext(w.f, w.seq)
      BY <1>1 DEF TimerInv, Generations, Old, OldNext
    <2>2. \A i \in 1..Len(io') : OldNext(io'[i].f, io'[i].seq)
      BY <1>1, <2>1, AppendRequest
    <2>3. /\ \A t \in open' \cup closing' : OldNext(t[1], t[2])
          /\ \A u \in tails' : OldNext(u.f, u.seq)
      BY <1>1, <2>1 DEF TimerInv, Generations, Old, OldNext
    <2> QED BY <2>2, <2>3, GenerationsNext
  <1>5. Once'
    <2>1. /\ <<w.f, w.seq>> \notin open \cup closing
          /\ \A i \in 1..Len(io) : ~Sleeps(io[i], w.f, w.seq)
          /\ \A u \in tails' : u.f = w.f /\ u.seq = w.seq => u = v
      BY <1>1 DEF TimerInv, Once
    <2>2. \A t, u \in tails' : t.f = u.f /\ t.seq = u.seq => t = u
      BY <1>1, <2>1 DEF TimerInv, Once
    <2>3. \A u \in tails' : u.pc = "enqueue" =>
            /\ <<u.f, u.seq>> \notin open' \cup closing'
            /\ \A i \in 1..Len(io') : ~Sleeps(io'[i], u.f, u.seq)
      <3> SUFFICES ASSUME NEW u \in tails', u.pc = "enqueue"
                   PROVE  /\ <<u.f, u.seq>> \notin open' \cup closing'
                          /\ \A i \in 1..Len(io') : ~Sleeps(io'[i], u.f, u.seq)
        OBVIOUS
      <3>1. u \in tails /\ ~(u.f = w.f /\ u.seq = w.seq)
        BY <1>1, <2>1
      <3>2. /\ <<u.f, u.seq>> \notin open \cup closing
            /\ \A i \in 1..Len(io) : ~Sleeps(io[i], u.f, u.seq)
        BY <3>1 DEF TimerInv, Once
      <3> QED BY <1>1, <3>1, <3>2, AppendRequest DEF Sleeps
    <2>4. \A i \in 1..Len(io') : io'[i].op = "sleep" =>
            /\ <<io'[i].f, io'[i].seq>> \notin open' \cup closing'
            /\ \A j \in 1..Len(io') : Sleeps(io'[j], io'[i].f, io'[i].seq) => i = j
      <3> SUFFICES ASSUME NEW i \in 1..Len(io'), io'[i].op = "sleep"
                   PROVE  /\ <<io'[i].f, io'[i].seq>> \notin open' \cup closing'
                          /\ \A j \in 1..Len(io') : Sleeps(io'[j], io'[i].f, io'[i].seq) => i = j
        OBVIOUS
      <3>1. CASE i \in 1..Len(io)
        <4>1. /\ <<io[i].f, io[i].seq>> \notin open \cup closing
              /\ \A j \in 1..Len(io) : Sleeps(io[j], io[i].f, io[i].seq) => i = j
          BY <1>1, <3>1, AppendRequest DEF TimerInv, Once
        <4>2. ~(io[i].f = w.f /\ io[i].seq = w.seq)
          BY <1>1, <2>1, <3>1, AppendRequest DEF Sleeps
        <4> QED BY <1>1, <3>1, <4>1, <4>2, AppendRequest DEF Sleeps
      <3>2. CASE i = Len(io) + 1
        BY <1>1, <2>1, <3>2, AppendRequest DEF Sleeps
      <3> QED BY <1>1, <3>1, <3>2, AppendRequest
    <2> QED BY <2>2, <2>3, <2>4 DEF Once
  <1> QED BY <1>2, <1>3, <1>4, <1>5 DEF TimerInv

(* Claiming a parked fiber keeps the timer invariant.                      *)
LEMMA ClaimStep ==
  ASSUME TypeOK, TimerInv, NEW w \in tails, Claim(w)
  PROVE  TimerInv'
  <1>1. /\ tails' \subseteq tails /\ stop = "no" /\ w.f \in Fiber
        /\ UNCHANGED <<seq, io, slot, open, closing, reactor, due, stop>>
    BY DEF Claim, TypeOK, TimerInv, Stopped, shared, reactorVars
  <1>2. \A f \in Fiber : at'[f] \in {"arm", "publish"} => at[f] = at'[f]
    BY <1>1 DEF Claim, TypeOK
  <1>3. Callback' /\ SlotsOwnTimers' /\ Stopped'
    BY <1>1 DEF TimerInv, Callback, SlotsOwnTimers, Stopped
  <1>4. \A f \in Fiber, n \in Nat : Old(f, n) => Old(f, n)'
    BY <1>1, <1>2 DEF Old
  <1>5. Generations'
    <2>1. /\ \A t \in open \cup closing : t[1] \in Fiber /\ t[2] \in Nat
          /\ \A v \in tails : v.f \in Fiber /\ v.seq \in Nat
      BY DEF TypeOK, Timer
    <2> QED BY <1>1, <1>4, <2>1, RequestTypes DEF TimerInv, Generations
  <1>6. Once'
    BY <1>1 DEF TimerInv, Once, Sleeps
  <1> QED BY <1>3, <1>5, <1>6 DEF TimerInv

----------------------------------------------------------------------------
(* The reactor's steps.  Most of them add no timer.                        *)
LEMMA FewerTimers ==
  ASSUME TimerInv, UNCHANGED <<tails, io, seq, at>>,
         open' \cup closing' \subseteq open \cup closing
  PROVE  Generations' /\ Once'
  <1>1. Generations'
    BY GenerationsNext DEF TimerInv, Generations, Old, OldNext
  <1>2. Once'
    BY DEF TimerInv, Once, Sleeps
  <1> QED BY <1>1, <1>2

(* A request less in the queue.                                            *)
LEMMA TailRequest ==
  ASSUME TypeOK, io # <<>>, io' = Tail(io)
  PROVE  /\ Len(io) \in Nat \ {0} /\ Len(io') = Len(io) - 1 /\ Head(io) = io[1]
         /\ \A i \in 1..Len(io') : io'[i] = io[i + 1] /\ i + 1 \in 1..Len(io) /\ i + 1 # 1
         /\ 1 \in 1..Len(io)
  BY DEF TypeOK

(* Taking a request, and closing timers, keeps what says that there is one *)
(* of each.                                                                *)
LEMMA FewerRequests ==
  ASSUME TypeOK, TimerInv, io # <<>>, io' = Tail(io), UNCHANGED <<tails, seq, at>>,
         open' \cup closing' \subseteq open \cup closing
  PROVE  Generations' /\ Once'
  <1>1. Generations'
    <2>1. \A i \in 1..Len(io') : OldNext(io'[i].f, io'[i].seq)
      BY TailRequest DEF TimerInv, Generations, Old, OldNext
    <2>2. /\ \A t \in open' \cup closing' : OldNext(t[1], t[2])
          /\ \A u \in tails' : OldNext(u.f, u.seq)
      BY DEF TimerInv, Generations, Old, OldNext
    <2> QED BY <2>1, <2>2, GenerationsNext
  <1>2. Once'
    <2>1. \A t, u \in tails' : t.f = u.f /\ t.seq = u.seq => t = u
      BY DEF TimerInv, Once
    <2>2. \A u \in tails' : u.pc = "enqueue" =>
            /\ <<u.f, u.seq>> \notin open' \cup closing'
            /\ \A i \in 1..Len(io') : ~Sleeps(io'[i], u.f, u.seq)
      BY TailRequest DEF TimerInv, Once
    <2>3. \A i \in 1..Len(io') : io'[i].op = "sleep" =>
            /\ <<io'[i].f, io'[i].seq>> \notin open' \cup closing'
            /\ \A j \in 1..Len(io') : Sleeps(io'[j], io'[i].f, io'[i].seq) => i = j
      <3> SUFFICES ASSUME NEW i \in 1..Len(io'), io'[i].op = "sleep"
                   PROVE  /\ <<io'[i].f, io'[i].seq>> \notin open' \cup closing'
                          /\ \A j \in 1..Len(io') : Sleeps(io'[j], io'[i].f, io'[i].seq) => i = j
        OBVIOUS
      <3>1. /\ <<io[i + 1].f, io[i + 1].seq>> \notin open \cup closing
            /\ \A j \in 1..Len(io) : Sleeps(io[j], io[i + 1].f, io[i + 1].seq) => i + 1 = j
        BY TailRequest DEF TimerInv, Once
      <3> QED BY <3>1, TailRequest
    <2> QED BY <2>1, <2>2, <2>3 DEF Once
  <1> QED BY <1>1, <1>2

(* While the queue is not empty every slot holds an open timer.            *)
LEMMA SlotFacts ==
  ASSUME TypeOK, TimerInv, Drain
  PROVE  /\ due = Nil /\ due' = Nil /\ reactor' = "drain" /\ stop \in {"no", "asked"}
         /\ io # <<>> /\ io' = Tail(io) /\ Head(io) \in Request /\ Head(io) = io[1]
         /\ Head(io).f \in Fiber /\ Head(io).seq \in Nat
         /\ \A f \in Fiber : slot[f] # Nil => <<f, slot[f]>> \in open
         /\ \A t \in open :
              t \in Timer /\ slot[t[1]] = t[2] /\ t = <<t[1], t[2]>> /\ t[1] \in Fiber
         /\ UNCHANGED <<tails, seq, at, status, stop>>
  <1>1. /\ due = Nil /\ due' = Nil /\ reactor' = "drain" /\ io # <<>> /\ io' = Tail(io)
        /\ UNCHANGED <<tails, seq, at, status, stop>>
    BY DEF Drain, TimerInv, Callback, fiberVars
  <1>2. stop \in {"no", "asked"}
    BY <1>1 DEF TimerInv, Stopped, TypeOK
  <1>3. Head(io) \in Request /\ Head(io) = io[1] /\ Head(io).f \in Fiber /\ Head(io).seq \in Nat
    BY <1>1, TailRequest, RequestTypes
  <1>4. \A t \in open : t \in Timer /\ t = <<t[1], t[2]>> /\ t # Nil /\ t[1] \in Fiber
    BY ReactorAssumption DEF TypeOK, Timer
  <1>5. \A t \in open : slot[t[1]] = t[2]
    BY <1>1, <1>4 DEF TimerInv, SlotsOwnTimers
  <1> QED BY <1>1, <1>2, <1>3, <1>4, <1>5 DEF TimerInv, SlotsOwnTimers

(* start_sleep: the timer is new, and replaces the one in the slot.        *)
LEMMA StartStep ==
  ASSUME TypeOK, TimerInv, Drain, Head(io).op = "sleep", StartSleep(Head(io))
  PROVE  TimerInv'
  <1> DEFINE f == io[1].f
             n == io[1].seq
             t0 == <<f, n>>
  <1>1. CASE ~StillAsleep(f, n)
    <2>1. UNCHANGED <<slot, open, closing>>
      BY <1>1, SlotFacts DEF StartSleep
    <2>2. Callback' /\ SlotsOwnTimers' /\ Stopped'
      BY <2>1, SlotFacts DEF TimerInv, Callback, SlotsOwnTimers, Stopped
    <2> QED BY <2>1, <2>2, SlotFacts, FewerRequests DEF TimerInv
  <1>2. CASE StillAsleep(f, n)
    <2>1. /\ slot' = [slot EXCEPT ![f] = n]
          /\ open' = (open \ Replaced(f)) \cup {t0}
          /\ closing' = closing \cup Replaced(f)
          /\ Replaced(f) \subseteq open
          /\ f \in Fiber /\ n \in Nat /\ n # Nil
      BY <1>2, SlotFacts, ReactorAssumption DEF StartSleep, Replaced
    <2>2. /\ t0 \notin open \cup closing
          /\ \A u \in tails : u.pc = "enqueue" => ~(u.f = f /\ u.seq = n)
          /\ \A i \in 1..Len(io') : io'[i].op = "sleep" => ~(io'[i].f = f /\ io'[i].seq = n)
          /\ OldNext(f, n)
      <3>1. 1 \in 1..Len(io) /\ io[1].op = "sleep" /\ Sleeps(io[1], f, n)
        BY SlotFacts, TailRequest DEF Sleeps
      <3>2. t0 \notin open \cup closing
        BY <3>1 DEF TimerInv, Once
      <3>3. \A u \in tails : u.pc = "enqueue" => ~(u.f = f /\ u.seq = n)
        BY <3>1 DEF TimerInv, Once, Sleeps
      <3>4. \A i \in 1..Len(io) : Sleeps(io[i], f, n) => i = 1
        BY <3>1 DEF TimerInv, Once
      <3>5. \A i \in 1..Len(io') : io'[i].op = "sleep" => ~(io'[i].f = f /\ io'[i].seq = n)
        BY <3>4, SlotFacts, TailRequest DEF Sleeps
      <3>6. OldNext(f, n)
        BY <3>1, SlotFacts DEF TimerInv, Generations, Old, OldNext
      <3> QED BY <3>2, <3>3, <3>5, <3>6
    <2> HIDE DEF f, n
    <2>3. SlotsOwnTimers'
      <3>1. \A g \in Fiber : slot'[g] # Nil => <<g, slot'[g]>> \in open'
        <4> SUFFICES ASSUME NEW g \in Fiber, slot'[g] # Nil PROVE <<g, slot'[g]>> \in open'
          OBVIOUS
        <4>1. CASE g = f
          BY <2>1, <4>1 DEF TypeOK
        <4>2. CASE g # f
          BY <2>1, <4>2, SlotFacts DEF TypeOK, Replaced
        <4> QED BY <4>1, <4>2
      <3>2. \A t \in open' : slot'[t[1]] = t[2]
        <4> SUFFICES ASSUME NEW t \in open' PROVE slot'[t[1]] = t[2]
          OBVIOUS
        <4>1. CASE t = t0
          BY <2>1, <4>1 DEF TypeOK
        <4>2. CASE t \in open /\ t \notin Replaced(f)
          <5>1. t = <<t[1], t[2]>> /\ slot[t[1]] = t[2] /\ t[1] \in Fiber /\ t[2] \in Nat
            BY <4>2, SlotFacts DEF Timer
          <5>2. t[1] # f
            BY <4>2, <5>1, ReactorAssumption DEF Replaced
          <5> QED BY <2>1, <5>1, <5>2 DEF TypeOK
        <4> QED BY <2>1, <4>1, <4>2
      <3>3. open' \cap closing' = {}
        BY <2>1, <2>2 DEF TimerInv, SlotsOwnTimers
      <3> QED BY <3>1, <3>2, <3>3 DEF SlotsOwnTimers
    <2>4. Callback' /\ Stopped'
      BY SlotFacts DEF TimerInv, Callback, Stopped
    <2>5. open' \cup closing' \subseteq (open \cup closing) \cup {t0}
      BY <2>1
    <2>6. Generations'
      <3>1. \A i \in 1..Len(io') : OldNext(io'[i].f, io'[i].seq)
        BY SlotFacts, TailRequest DEF TimerInv, Generations, Old, OldNext
      <3>2. \A t \in open' \cup closing' : OldNext(t[1], t[2])
        BY <2>2, <2>5, SlotFacts DEF TimerInv, Generations, Old, OldNext
      <3>3. \A u \in tails' : OldNext(u.f, u.seq)
        BY SlotFacts DEF TimerInv, Generations, Old, OldNext
      <3> QED BY <3>1, <3>2, <3>3, GenerationsNext
    <2>7. Once'
      <3>1. \A t, u \in tails' : t.f = u.f /\ t.seq = u.seq => t = u
        BY SlotFacts DEF TimerInv, Once
      <3>2. \A u \in tails' : u.pc = "enqueue" =>
              /\ <<u.f, u.seq>> \notin open' \cup closing'
              /\ \A i \in 1..Len(io') : ~Sleeps(io'[i], u.f, u.seq)
        BY <2>2, <2>5, SlotFacts, TailRequest DEF TimerInv, Once
      <3>3. \A i \in 1..Len(io') : io'[i].op = "sleep" =>
              /\ <<io'[i].f, io'[i].seq>> \notin open' \cup closing'
              /\ \A j \in 1..Len(io') : Sleeps(io'[j], io'[i].f, io'[i].seq) => i = j
        <4> SUFFICES ASSUME NEW i \in 1..Len(io'), io'[i].op = "sleep"
                     PROVE  /\ <<io'[i].f, io'[i].seq>> \notin open' \cup closing'
                            /\ \A j \in 1..Len(io') : Sleeps(io'[j], io'[i].f, io'[i].seq) => i = j
          OBVIOUS
        <4>1. /\ io'[i] = io[i + 1] /\ i + 1 \in 1..Len(io)
              /\ \A j \in 1..Len(io') : io'[j] = io[j + 1] /\ j + 1 \in 1..Len(io)
          BY SlotFacts, TailRequest
        <4>2. /\ <<io[i + 1].f, io[i + 1].seq>> \notin open \cup closing
              /\ \A j \in 1..Len(io) : Sleeps(io[j], io[i + 1].f, io[i + 1].seq) => i + 1 = j
          BY <4>1 DEF TimerInv, Once
        <4>3. ~(io'[i].f = f /\ io'[i].seq = n)
          BY <2>2
        <4> QED BY SMTT(30), <2>5, <4>1, <4>2, <4>3
      <3> QED BY <3>1, <3>2, <3>3 DEF Once
    <2> QED BY <2>3, <2>4, <2>6, <2>7 DEF TimerInv
  <1> QED BY <1>1, <1>2

(* cancel_sleep: the slot's timer, if it is the abandoned one, closes.     *)
LEMMA CancelStep ==
  ASSUME TypeOK, TimerInv, Drain, CancelSleep(Head(io))
  PROVE  TimerInv'
  <1> DEFINE f == Head(io).f
             n == Head(io).seq
  <1>1. CASE ~InSlot(f, n)
    <2>1. UNCHANGED <<slot, open, closing>>
      BY <1>1 DEF CancelSleep
    <2>2. Callback' /\ SlotsOwnTimers' /\ Stopped'
      BY <2>1, SlotFacts DEF TimerInv, Callback, SlotsOwnTimers, Stopped
    <2> QED BY <2>1, <2>2, SlotFacts, FewerRequests DEF TimerInv
  <1>2. CASE InSlot(f, n)
    <2>1. /\ slot[f] = n /\ n # Nil /\ f \in Fiber /\ <<f, n>> \in open
          /\ slot' = [slot EXCEPT ![f] = Nil]
          /\ open' = open \ {<<f, n>>} /\ closing' = closing \cup {<<f, n>>}
      BY <1>2, SlotFacts, ReactorAssumption DEF CancelSleep, InSlot
    <2> HIDE DEF f, n
    <2>2. SlotsOwnTimers'
      <3>1. \A g \in Fiber : slot'[g] # Nil => <<g, slot'[g]>> \in open'
        BY <2>1, SlotFacts DEF TypeOK
      <3>2. \A t \in open' : slot'[t[1]] = t[2]
        BY <2>1, SlotFacts DEF TypeOK
      <3>3. open' \cap closing' = {}
        BY <2>1 DEF TimerInv, SlotsOwnTimers
      <3> QED BY <3>1, <3>2, <3>3 DEF SlotsOwnTimers
    <2>3. Callback' /\ Stopped'
      BY SlotFacts DEF TimerInv, Callback, Stopped
    <2> QED BY <2>1, <2>2, <2>3, SlotFacts, FewerRequests DEF TimerInv
  <1> QED BY <1>1, <1>2

(* Serving a request keeps the timer invariant.                            *)
LEMMA DrainStep ==
  ASSUME TypeOK, TimerInv, Drain
  PROVE  TimerInv'
  <1>1. CASE Head(io).op = "sleep" /\ StartSleep(Head(io))
    BY <1>1, StartStep
  <1>2. CASE Head(io).op = "cancel" /\ CancelSleep(Head(io))
    BY <1>2, CancelStep
  <1> QED BY <1>1, <1>2 DEF Drain

(* An open timer is a pair, and not NULL.                                  *)
LEMMA OpenFacts ==
  ASSUME TypeOK
  PROVE  \A t \in open : t = <<t[1], t[2]>> /\ t # Nil /\ t[1] \in Fiber /\ t[2] \in Nat
  BY ReactorAssumption DEF TypeOK, Timer

(* Leaving the drain keeps the timer invariant.                            *)
LEMMA DrainedStep ==
  ASSUME TypeOK, TimerInv, Drained
  PROVE  TimerInv'
  <1>1. /\ due = Nil /\ due' = due /\ reactor' = "loop" /\ io = <<>>
        /\ UNCHANGED <<tails, io, seq, at, status, slot>>
    BY DEF Drained, TimerInv, Callback, fiberVars, shared
  <1>2. CASE stop = "asked"
    <2>1. stop' = "walked" /\ open' = {} /\ closing' = closing \cup open
      BY <1>2 DEF Drained, Walked
    <2>2. Callback' /\ SlotsOwnTimers' /\ Stopped'
      BY <1>1, <1>2, <2>1 DEF TimerInv, Callback, SlotsOwnTimers, Stopped
    <2>3. Generations' /\ Once'
      BY <1>1, <2>1, FewerTimers
    <2> QED BY <2>2, <2>3 DEF TimerInv
  <1>3. CASE stop # "asked"
    <2>1. UNCHANGED <<stop, open, closing>>
      BY <1>3 DEF Drained
    <2>2. Callback' /\ SlotsOwnTimers' /\ Stopped'
      BY <1>1, <2>1 DEF TimerInv, Callback, SlotsOwnTimers, Stopped
    <2>3. Generations' /\ Once'
      BY <1>1, <2>1, FewerTimers
    <2> QED BY <2>2, <2>3 DEF TimerInv
  <1> QED BY <1>2, <1>3

(* sleep_timer_cb: the timer leaves its slot, whether it wakes or not.     *)
LEMMA FireStep ==
  ASSUME TypeOK, TimerInv, NEW t \in open, Fire(t[1], t[2])
  PROVE  TimerInv'
  <1> DEFINE f == t[1]
             n == t[2]
  <1>1. /\ t = <<f, n>> /\ f \in Fiber /\ n \in Nat /\ n # Nil
        /\ due = Nil /\ reactor = "loop"
        /\ UNCHANGED <<tails, io, seq, at, status, stop>>
    BY OpenFacts, ReactorAssumption DEF Fire, TimerInv, Callback, fiberVars, shared
  <1>2. \A u \in open : slot[u[1]] = u[2] /\ u = <<u[1], u[2]>> /\ u[1] \in Fiber /\ u # Nil
    BY <1>1, OpenFacts DEF TimerInv, SlotsOwnTimers
  <1>3. slot' = [slot EXCEPT ![f] = Nil]
    BY <1>2 DEF Fire, ClearsSlot
  <1>4. \A g \in Fiber : slot'[g] # Nil /\ stop \in {"no", "asked"} =>
          <<g, slot'[g]>> \in open /\ <<g, slot'[g]>> # t
    BY <1>1, <1>3 DEF TypeOK, TimerInv, SlotsOwnTimers
  <1>5. ASSUME NEW u \in open, u # t PROVE slot'[u[1]] = u[2]
    <2>1. u = <<u[1], u[2]>> /\ u[1] \in Fiber /\ slot[u[1]] = u[2] /\ slot[f] = n
      BY <1>2
    <2>2. u[1] # f
      BY <1>1, <1>5, <2>1
    <2>3. slot \in [Fiber -> Nat \cup {Nil}]
      BY DEF TypeOK
    <2> HIDE DEF f, n
    <2> QED BY <1>3, <2>1, <2>2, <2>3
  <1>6. slot'[f] # n
    BY <1>1, <1>3 DEF TypeOK
  <1> HIDE DEF f, n
  <1>7. CASE slot[f] = n /\ f \in armed /\ seq[f] = n
    <2>1. reactor' = "disarm" /\ due' = t /\ UNCHANGED <<open, closing>>
      BY <1>1, <1>7 DEF Fire, f, n
    <2>2. Callback'
      BY <1>1, <1>6, <2>1 DEF Callback, f, n
    <2>3. SlotsOwnTimers'
      BY <1>1, <1>4, <1>5, <2>1 DEF TimerInv, SlotsOwnTimers
    <2>4. Stopped'
      BY <1>1, <2>1 DEF TimerInv, Stopped
    <2> QED BY <1>1, <2>1, <2>2, <2>3, <2>4, FewerTimers DEF TimerInv
  <1>8. CASE ~(slot[f] = n /\ f \in armed /\ seq[f] = n)
    <2>1. UNCHANGED <<reactor, due>> /\ open' = open \ {t} /\ closing' = closing \cup {t}
      BY <1>1, <1>8 DEF Fire, f, n
    <2>2. Callback'
      BY <1>1, <2>1 DEF Callback
    <2>3. SlotsOwnTimers'
      BY <1>1, <1>4, <1>5, <2>1 DEF TimerInv, SlotsOwnTimers
    <2>4. Stopped'
      BY <1>1, <2>1 DEF TimerInv, Stopped
    <2>5. open' \cup closing' \subseteq open \cup closing
      BY <2>1
    <2> QED BY <1>1, <2>2, <2>3, <2>4, <2>5, FewerTimers DEF TimerInv
  <1> QED BY <1>7, <1>8

(* The end of the callback: the handle closes, and it is in no slot.       *)
LEMMA TimerWakeStep ==
  ASSUME TypeOK, TimerInv, TimerWake
  PROVE  TimerInv'
  <1>1. /\ due \in open /\ slot[due[1]] # due[2] /\ due = <<due[1], due[2]>> /\ due[1] \in Fiber
        /\ due' = Nil /\ reactor' = "loop" /\ open' = open \ {due} /\ closing' = closing \cup {due}
        /\ UNCHANGED <<tails, io, seq, at, slot, stop>>
    BY OpenFacts DEF TimerWake, TimerInv, Callback, shared
  <1>2. \A f \in Fiber : status[f] # "Running" => status'[f] # "Running"
    BY <1>1 DEF TimerWake, TypeOK
  <1>3. Callback'
    BY <1>1 DEF Callback
  <1>4. SlotsOwnTimers'
    BY <1>1, OpenFacts DEF TimerInv, SlotsOwnTimers
  <1>5. Stopped'
    BY <1>1, <1>2 DEF TimerInv, Stopped
  <1>6. open' \cup closing' \subseteq open \cup closing
    BY <1>1
  <1> QED BY <1>1, <1>3, <1>4, <1>5, <1>6, FewerTimers DEF TimerInv

(* The steps that leave slots and open timers alone.                       *)
LEMMA OtherSteps ==
  ASSUME TypeOK, TimerInv,
         AsyncCb \/ TimerDisarm \/ (\E t \in closing : CloseCb(t)) \/ LoopEnds \/ Shutdown
  PROVE  TimerInv'
  <1>1. /\ UNCHANGED <<tails, io, seq, at, status, slot, open, due>>
        /\ closing' \subseteq closing
    BY DEF AsyncCb, TimerDisarm, CloseCb, LoopEnds, Shutdown, fiberVars, shared, reactorVars
  <1>2. Callback'
    BY <1>1 DEF TimerInv, Callback, AsyncCb, TimerDisarm, CloseCb, LoopEnds, Shutdown, reactorVars
  <1>3. SlotsOwnTimers' /\ Stopped'
    BY <1>1 DEF TimerInv, SlotsOwnTimers, Stopped, AsyncCb, TimerDisarm, CloseCb, LoopEnds,
       Shutdown
  <1>4. open' \cup closing' \subseteq open \cup closing
    BY <1>1
  <1> QED BY <1>1, <1>2, <1>3, <1>4, FewerTimers DEF TimerInv

----------------------------------------------------------------------------
Inv == TypeOK /\ Cancels /\ TimerInv

(* The invariant holds at the start, when there are no timers.             *)
LEMMA ReactorInit == Init => Inv
  <1> SUFFICES ASSUME Init PROVE Inv
    OBVIOUS
  <1>1. io = <<>> /\ Len(io) = 0
    BY DEF Init
  <1>2. TypeOK
    <2>1. io \in Seq(Request)
      BY <1>1
    <2>2. left \in [Fiber -> 0..MaxParks]
      BY ReactorAssumption DEF Init
    <2> QED BY <2>1, <2>2 DEF Init, TypeOK
  <1>5. Cancels
    BY DEF Init, Cancels
  <1>3. Generations /\ Once
    BY <1>1 DEF Init, Generations, Once
  <1>4. Callback /\ Stopped /\ SlotsOwnTimers
    BY DEF Init, Callback, Stopped, SlotsOwnTimers
  <1> QED BY <1>2, <1>3, <1>4, <1>5 DEF Inv, TimerInv

(* The invariant is preserved by every step.                               *)
LEMMA ReactorNext == Inv /\ [Next]_vars => Inv'
  <1> SUFFICES ASSUME Inv, [Next]_vars PROVE Inv'
    OBVIOUS
  <1> USE DEF Inv
  <1>1. CASE \E f \in Fiber : WorkerStep(f)
    <2> PICK f \in Fiber : WorkerStep(f)
      BY <1>1
    <2>1. TypeOK' /\ Cancels'
      BY WorkerTypes
    <2>2. TimerInv'
      BY PublishStep, PostStep, QuietSteps
    <2> QED BY <2>1, <2>2
  <1>2. CASE ReactorStep
    <2>1. TypeOK' /\ Cancels'
      BY <1>2, ReactorTypes DEF TimerInv
    <2>2. TimerInv'
      <3>1. CASE \E w \in tails : Enqueue(w) \/ Claim(w)
        BY <3>1, EnqueueStep, ClaimStep
      <3>2. CASE Drain
        BY <3>2, DrainStep
      <3>3. CASE Drained
        BY <3>3, DrainedStep
      <3>4. CASE TimerWake
        BY <3>4, TimerWakeStep
      <3>5. CASE \E t \in open : Fire(t[1], t[2])
        BY <3>5, FireStep
      <3>6. CASE AsyncCb \/ TimerDisarm \/ (\E t \in closing : CloseCb(t)) \/ LoopEnds \/ Shutdown
        BY <3>6, OtherSteps
      <3> QED BY <1>2, <3>1, <3>2, <3>3, <3>4, <3>5, <3>6 DEF ReactorStep, LoopTurn
    <2> QED BY <2>1, <2>2
  <1>3. CASE UNCHANGED vars
    <2>1. TypeOK' /\ Cancels'
      BY <1>3 DEF vars, fiberVars, shared, reactorVars, TypeOK, Cancels
    <2>2. TimerInv'
      BY <1>3 DEF vars, fiberVars, shared, reactorVars, TimerInv, Callback, Stopped, Generations,
                  Old, Once, Sleeps, SlotsOwnTimers
    <2> QED BY <2>1, <2>2
  <1> QED BY <1>1, <1>2, <1>3 DEF Next, WorkerStep, ReactorStep

(* The invariant holds in every reachable state.                           *)
LEMMA ReactorInvariant == Spec => []Inv
  BY ReactorInit, ReactorNext, PTL DEF Spec

(* The handles of the reactor: no slot dangles, no timer that could still  *)
(* fire is out of reach of a cancel, and nothing is closed twice           *)
(* (start_sleep, cancel_sleep, sleep_timer_cb, reactor_close_walk_cb).     *)
THEOREM TimersAreOwned == Spec => []SlotsOwnTimers
  <1>1. Inv => SlotsOwnTimers
    BY DEF Inv, TimerInv
  <1> QED BY <1>1, ReactorInvariant, PTL

(* Worker, reactor and the requests between them keep their types.         *)
THEOREM ReactorTypeCorrect == Spec => []TypeOK
  <1>1. Inv => TypeOK
    BY DEF Inv
  <1> QED BY <1>1, ReactorInvariant, PTL
=============================================================================
