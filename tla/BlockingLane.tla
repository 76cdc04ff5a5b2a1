---------------------------- MODULE BlockingLane ----------------------------
(***************************************************************************)
(* The blocking lane of runtime/rt.c.  A fiber that executes `blocking`    *)
(* body, or a native call classified as blocking, is parked with           *)
(* blocking_armed set, and a thread of its own (a lane thread) is created  *)
(* to take the fiber over; until the region is left, a wake of the fiber   *)
(* creates another lane thread instead of using the run queue.  The thread *)
(* that parked the fiber is back in its pool before the lane thread starts *)
(* or after it: from the unlock on the two are independent.                *)
(*                                                                         *)
(* The threads that execute a fiber are counted rather than named; awaits  *)
(* and their wakes are single steps, their own races being those of module *)
(* Fibers.  An interrupt can wake a fiber in its call, and two threads     *)
(* then execute it (NotWokenInCall); what they do to each other beyond the *)
(* steps of this module is left open, and the other properties are about   *)
(* the fibers to which this has not happened.                              *)
(***************************************************************************)
EXTENDS Integers

CONSTANTS Fiber,
          Victim,    \* the fibers somebody interrupts (once)
          Ops,       \* the operations the program uses
          MaxOps     \* bound on the operations of each fiber

Kind == {"worker", "lane"}

ASSUME LaneAssumption ==
  /\ Victim \subseteq Fiber
  /\ Ops \subseteq {"blocking", "native", "await", "cede", "regionCede", "mask"}
  /\ MaxOps \in Nat

VARIABLES
  status,   \* f->status
  cur,      \* f->cur: a value, or the operation to execute
  depth,    \* f->blocking_depth
  frames,   \* the KK_BLOCKING frames of f->k
  armed,    \* fibers with blocking_armed
  masked,   \* fibers whose effective mask suppresses delivery
  pending,  \* fibers with interrupt_pending
  asked,    \* history: fibers that have been interrupted
  crossed,  \* history: fibers an interrupt has woken in a call
  poke,     \* fibers an interrupter has flagged and is about to wake
  runs,     \* how many threads of each kind execute the fiber
  at,       \* where the thread that executes it is
  spawn,    \* the kind of thread that has yet to create f's lane thread
  call,     \* the action of the request: a native call or a region's body
  fresh,    \* lane threads created by krt2i_submit_blocking, not started
  again,    \* lane threads created by krt2i_resume_blocking_lane, not started
  queued,   \* how often the fiber is in the run queue
  left      \* bound: operations the fiber may still execute

region == <<depth, frames>>
vars == <<status, cur, region, armed, masked, pending, asked, crossed, poke, runs, at, spawn, call,
          fresh, again, queued, left>>

Deliverable(f) == f \in pending /\ f \notin masked
Runs(f, k, l) == runs[f][k] > 0 /\ at[f] = l

(* One thread of kind k more, or one less, executes f.                     *)
Takes(f, k) == runs' = [runs EXCEPT ![f][k] = @ + 1]
Drops(f, k) == runs' = [runs EXCEPT ![f][k] = @ - 1]

(* deliver_interrupt; unwind crosses some of the KK_BLOCKING frames, each  *)
(* with its leave_blocking_region, on the way to the code that goes on.    *)
Delivered(f) ==
  /\ pending' = pending \ {f}
  /\ cur' = [cur EXCEPT ![f] = "pure"]
  /\ at' = [at EXCEPT ![f] = "run"]
  /\ \E n \in 0..frames[f] :
       /\ frames' = [frames EXCEPT ![f] = @ - n]
       /\ depth' = [depth EXCEPT ![f] = @ - n]

(* The program reaches operation op, or executes again the one it parked   *)
(* in, after a wake that brought no value.                                 *)
Executes(f, k, op) ==
  /\ Runs(f, k, "run") /\ ~Deliverable(f)
  /\ \/ cur[f] = op /\ UNCHANGED left
     \/ cur[f] = "pure" /\ op \in Ops /\ left[f] > 0 /\ left' = [left EXCEPT ![f] = @ - 1]

----------------------------------------------------------------------------
EnterRegion(f) == depth' = [depth EXCEPT ![f] = @ + 1]

(* OP_BLOCKING enters the region.                                          *)
Blocking(f, k) ==
  /\ Executes(f, k, "blocking")
  /\ EnterRegion(f)
  /\ frames' = [frames EXCEPT ![f] = @ + 1]
  /\ cur' = [cur EXCEPT ![f] = "blocking"]
  /\ at' = [at EXCEPT ![f] = "submit"]
  /\ UNCHANGED <<status, armed, masked, pending, asked, crossed, poke, runs, spawn, call, fresh, again,
                 queued>>

(* A blocking K_NATIVE on a pool worker.                                   *)
Native(f) ==
  /\ Executes(f, "worker", "native")
  /\ cur' = [cur EXCEPT ![f] = "native"]
  /\ at' = [at EXCEPT ![f] = "submit"]
  /\ UNCHANGED <<status, region, armed, masked, pending, asked, crossed, poke, runs, spawn, call, fresh,
                 again, queued>>

(* On a lane thread it is executed in place, without a test of the flag    *)
(* first; krun_io takes as long as it takes (Returns).                     *)
NativeInPlace(f) ==
  /\ Runs(f, "lane", "run") /\ cur[f] = "pure" /\ "native" \in Ops /\ left[f] > 0
  /\ left' = [left EXCEPT ![f] = @ - 1]
  /\ cur' = [cur EXCEPT ![f] = "native"]
  /\ UNCHANGED <<status, region, armed, masked, pending, asked, crossed, poke, runs, at, spawn, call,
                 fresh, again, queued>>

(* Mutation: F_PARKED is published and the thread goes on with the fiber.  *)
KeepsFiber(f, k) == UNCHANGED runs

(* krt2i_submit_blocking returns 1: the fiber belongs to the lane thread.  *)
LetsGo(f, k) == Drops(f, k)

(* krt2i_submit_blocking up to its unlock.                                 *)
Submit(f, k) ==
  /\ Runs(f, k, "submit")
  /\ armed' = armed \cup {f}
  /\ status' = [status EXCEPT ![f] = "Parked"]
  /\ LetsGo(f, k)
  /\ at' = [at EXCEPT ![f] = "run"]
  /\ spawn' = [spawn EXCEPT ![f] = k]
  /\ call' = [call EXCEPT ![f] = IF cur[f] = "native" THEN "native" ELSE "pure"]
  /\ UNCHANGED <<cur, region, masked, pending, asked, crossed, poke, fresh, again, queued, left>>

(* Its pthread_create.                                                     *)
Spawn(f) ==
  /\ spawn[f] # "none"
  /\ spawn' = [spawn EXCEPT ![f] = "none"]
  /\ fresh' = [fresh EXCEPT ![f] = @ + 1]
  /\ UNCHANGED <<status, cur, region, armed, masked, pending, asked, crossed, poke, runs, at, call,
                 again, queued, left>>

(* Mutation: the failed call takes its frame off, but stays in the region. *)
NoLeave(f) ==
  /\ UNCHANGED depth
  /\ frames' = IF call[f] = "native" THEN frames ELSE [frames EXCEPT ![f] = @ - 1]

(* The region a `blocking` body never began is left.                       *)
LeaveFailed(f) ==
  \/ call[f] = "native" /\ UNCHANGED region
  \/ /\ call[f] = "pure"
     /\ depth' = [depth EXCEPT ![f] = @ - 1]
     /\ frames' = [frames EXCEPT ![f] = @ - 1]

(* pthread_create fails: the thread takes the fiber back, leaves the       *)
(* region and unwinds with a typed failure.                                *)
SpawnFails(f) ==
  /\ spawn[f] # "none"
  /\ spawn' = [spawn EXCEPT ![f] = "none"]
  /\ armed' = armed \ {f}
  /\ status' = [status EXCEPT ![f] = "Running"]
  /\ Takes(f, spawn[f])
  /\ at' = [at EXCEPT ![f] = "run"]
  /\ cur' = [cur EXCEPT ![f] = "pure"]
  /\ LeaveFailed(f)
  /\ UNCHANGED <<masked, pending, asked, crossed, poke, call, fresh, again, queued, left>>

(* Mutation: the call stays armed while it executes.                       *)
StaysArmed(f) == UNCHANGED armed

Disarm(f) == armed' = armed \ {f}

(* The test of the flag when a lane thread starts.                         *)
ObservesPending(f) == Deliverable(f)

(* blocking_worker_main; the store of F_RUNNING is not a compare-and-swap. *)
LaneRuns(f, action) ==
  /\ Disarm(f)
  /\ status' = [status EXCEPT ![f] = "Running"]
  /\ Takes(f, "lane")
  /\ \/ /\ ObservesPending(f)
        /\ Delivered(f)
     \/ /\ ~ObservesPending(f)
        /\ at' = [at EXCEPT ![f] = "run"]
        /\ cur' = [cur EXCEPT ![f] = action]
        /\ UNCHANGED <<pending, region>>
  /\ UNCHANGED <<masked, asked, crossed, poke, spawn, call, queued, left>>

LaneStarts(f) ==
  /\ fresh[f] > 0
  /\ fresh' = [fresh EXCEPT ![f] = @ - 1]
  /\ LaneRuns(f, call[f])
  /\ UNCHANGED again

LaneResumes(f) ==
  /\ again[f] > 0
  /\ again' = [again EXCEPT ![f] = @ - 1]
  /\ LaneRuns(f, cur[f])
  /\ UNCHANGED fresh

(* A lane thread is inside the native call of f.                           *)
InNative(f) == Runs(f, "lane", "run") /\ cur[f] = "native"

(* Mutation: the fiber goes on with the result of its call, whatever was   *)
(* requested while the call executed.                                      *)
NoCheck(f) == FALSE

(* The test of the flag when a native call has returned.                   *)
ObservesAtReturn(f) == Deliverable(f)

(* The native call returns on a lane thread; then a pending interrupt is   *)
(* observed, else the fiber goes on with the result.                       *)
Returns(f) ==
  /\ InNative(f)
  /\ \/ /\ ObservesAtReturn(f)
        /\ Delivered(f)
     \/ /\ ~ObservesAtReturn(f)
        /\ cur' = [cur EXCEPT ![f] = "pure"]
        /\ UNCHANGED <<pending, at, region>>
  /\ UNCHANGED <<status, armed, masked, asked, crossed, poke, runs, spawn, call, fresh, again, queued,
                 left>>

(* deliver, KK_BLOCKING: the body of the region has a value.               *)
LeaveRegion(f, k) ==
  /\ Runs(f, k, "run") /\ cur[f] = "pure" /\ frames[f] > 0
  /\ frames' = [frames EXCEPT ![f] = @ - 1]
  /\ depth' = [depth EXCEPT ![f] = @ - 1]
  /\ UNCHANGED <<status, cur, armed, masked, pending, asked, crossed, poke, runs, at, spawn, call,
                 fresh, again, queued, left>>

(* An await that parks.                                                    *)
Await(f, k) ==
  /\ Executes(f, k, "await")
  /\ cur' = [cur EXCEPT ![f] = "await"]
  /\ status' = [status EXCEPT ![f] = "Parked"]
  /\ Drops(f, k)
  /\ UNCHANGED <<region, armed, masked, pending, asked, crossed, poke, at, spawn, call, fresh, again,
                 queued>>

(* OP_CEDE: krt2i_resume uses the run queue, inside a region too; the two  *)
(* places have a name each, for Ops to tell the programs apart.            *)
Cede(f, k) ==
  /\ Executes(f, k, IF depth[f] = 0 THEN "cede" ELSE "regionCede")
  /\ cur' = [cur EXCEPT ![f] = "pure"]
  /\ status' = [status EXCEPT ![f] = "Runnable"]
  /\ queued' = [queued EXCEPT ![f] = @ + 1]
  /\ Drops(f, k)
  /\ UNCHANGED <<region, armed, masked, pending, asked, crossed, poke, at, spawn, call, fresh, again>>

(* The interruption points of these operations; there is none inside a     *)
(* native call.                                                            *)
Deliver(f, k) ==
  /\ Runs(f, k, "run") /\ Deliverable(f)
  /\ k = "lane" => ~InNative(f)
  /\ Delivered(f)
  /\ UNCHANGED <<status, armed, masked, asked, crossed, poke, runs, spawn, call, fresh, again, queued,
                 left>>

(* OP_MASK and KK_POPMASK.                                                 *)
ToggleMask(f, k) ==
  /\ Runs(f, k, "run") /\ cur[f] = "pure" /\ "mask" \in Ops /\ left[f] > 0
  /\ left' = [left EXCEPT ![f] = @ - 1]
  /\ masked' = IF f \in masked THEN masked \ {f} ELSE masked \cup {f}
  /\ UNCHANGED <<status, cur, region, armed, pending, asked, crossed, poke, runs, at, spawn, call,
                 fresh, again, queued>>

Finish(f, k) ==
  /\ Runs(f, k, "run") /\ cur[f] = "pure" /\ frames[f] = 0
  /\ status' = [status EXCEPT ![f] = "Done"]
  /\ Drops(f, k)
  /\ UNCHANGED <<cur, region, armed, masked, pending, asked, crossed, poke, at, spawn, call, fresh,
                 again, queued, left>>

(* worker_main takes the fiber from the run queue.                         *)
Pop(f) ==
  /\ queued[f] > 0
  /\ queued' = [queued EXCEPT ![f] = @ - 1]
  /\ status' = [status EXCEPT ![f] = "Running"]
  /\ Takes(f, "worker")
  /\ UNCHANGED <<cur, region, armed, masked, pending, asked, crossed, poke, at, spawn, call, fresh,
                 again, left>>

(* Mutation: every wake goes to the run queue.                             *)
ToQueue(f) ==
  /\ queued' = [queued EXCEPT ![f] = @ + 1]
  /\ UNCHANGED again

(* krt2i_wake: inside a region the fiber goes on on a lane thread.         *)
Route(f) ==
  \/ /\ depth[f] > 0
     /\ again' = [again EXCEPT ![f] = @ + 1]
     /\ UNCHANGED queued
  \/ /\ depth[f] = 0
     /\ queued' = [queued EXCEPT ![f] = @ + 1]
     /\ UNCHANGED again

(* The awaited object is resolved.                                         *)
Resolve(f) ==
  /\ status[f] = "Parked" /\ cur[f] = "await"
  /\ status' = [status EXCEPT ![f] = "Runnable"]
  /\ cur' = [cur EXCEPT ![f] = "pure"]
  /\ Route(f)
  /\ UNCHANGED <<region, armed, masked, pending, asked, crossed, poke, runs, at, spawn, call, fresh,
                 left>>

(* krt2i_interrupt_request under the fiber's lock: whether to wake it is   *)
(* decided here, ...                                                       *)
Request(f) ==
  /\ f \in Victim \ asked /\ status[f] # "Done"
  /\ asked' = asked \cup {f}
  /\ pending' = pending \cup {f}
  /\ poke' = IF f \in armed THEN poke ELSE poke \cup {f}
  /\ UNCHANGED <<status, cur, region, armed, masked, crossed, runs, at, spawn, call, fresh, again,
                 queued, left>>

(* ... and done after the unlock.                                          *)
Poke(f) ==
  /\ f \in poke
  /\ poke' = poke \ {f}
  /\ \/ /\ status[f] = "Parked"
        /\ status' = [status EXCEPT ![f] = "Runnable"]
        /\ crossed' = IF f \in armed THEN crossed \cup {f} ELSE crossed
        /\ Route(f)
     \/ /\ status[f] # "Parked"
        /\ UNCHANGED <<status, crossed, again, queued>>
  /\ UNCHANGED <<cur, region, armed, masked, pending, asked, runs, at, spawn, call, fresh, left>>

----------------------------------------------------------------------------
Init ==
  /\ status = [f \in Fiber |-> "Running"]
  /\ cur = [f \in Fiber |-> "pure"]
  /\ depth = [f \in Fiber |-> 0] /\ frames = [f \in Fiber |-> 0]
  /\ armed = {} /\ masked = {} /\ pending = {} /\ asked = {} /\ crossed = {} /\ poke = {}
  /\ runs = [f \in Fiber |-> [k \in Kind |-> IF k = "worker" THEN 1 ELSE 0]]
  /\ at = [f \in Fiber |-> "run"]
  /\ spawn = [f \in Fiber |-> "none"] /\ call = [f \in Fiber |-> "pure"]
  /\ fresh = [f \in Fiber |-> 0] /\ again = [f \in Fiber |-> 0] /\ queued = [f \in Fiber |-> 0]
  /\ left = [f \in Fiber |-> MaxOps]

Step(f, k) == \/ Blocking(f, k) \/ Submit(f, k) \/ LeaveRegion(f, k) \/ Await(f, k) \/ Cede(f, k)
              \/ Deliver(f, k) \/ Finish(f, k)

Thread(f) == Native(f) \/ NativeInPlace(f) \/ Returns(f) \/ (\E k \in Kind : Step(f, k))

Created(f) == Spawn(f) \/ SpawnFails(f) \/ LaneStarts(f) \/ LaneResumes(f) \/ Pop(f)

Next == \E f \in Fiber :
  \/ Thread(f) \/ Created(f) \/ Resolve(f) \/ Request(f) \/ Poke(f)
  \/ \E k \in Kind : ToggleMask(f, k)

Spec == Init /\ [][Next]_vars

(* Created threads start, a thread goes on with its fiber, a native call   *)
(* returns; nobody has to resolve a wait.                                  *)
FairSpec == Spec /\ \A f \in Fiber : WF_vars(Thread(f)) /\ WF_vars(Created(f)) /\ WF_vars(Poke(f))

----------------------------------------------------------------------------
(* The fields keep their types; no counter is negative, but for the region *)
(* of a fiber that two threads execute (leave_blocking_region would abort: *)
(* "source blocking delimiter underflow").                                 *)
TypeOK ==
  /\ status \in [Fiber -> {"Running", "Parked", "Runnable", "Done"}]
  /\ cur \in [Fiber -> {"pure", "blocking", "native", "await"}]
  /\ depth \in [Fiber -> Int] /\ frames \in [Fiber -> Int]
  /\ \A f \in Fiber \ crossed : depth[f] >= 0 /\ frames[f] >= 0
  /\ left \in [Fiber -> 0..MaxOps]
  /\ armed \subseteq Fiber /\ masked \subseteq Fiber /\ pending \subseteq Fiber
  /\ asked \subseteq Fiber /\ crossed \subseteq Fiber /\ poke \subseteq Fiber
  /\ runs \in [Fiber -> [Kind -> Nat]]
  /\ at \in [Fiber -> {"run", "submit"}]
  /\ spawn \in [Fiber -> Kind \cup {"none"}] /\ call \in [Fiber -> {"pure", "native"}]
  /\ fresh \in [Fiber -> Nat] /\ again \in [Fiber -> Nat] /\ queued \in [Fiber -> Nat]

(* One thread at a time executes a fiber, pool worker or lane thread, and  *)
(* whoever will take it over next has it to itself.  Said of the fibers    *)
(* no interrupt has woken in a call; NotWokenInCall is about those.        *)
OneRunner ==
  \A f \in Fiber \ crossed :
    runs[f]["worker"] + runs[f]["lane"] + fresh[f] + again[f] + queued[f]
      + (IF spawn[f] = "none" THEN 0 ELSE 1) <= 1

(* The body of a blocking region never occupies a pool worker (Spec.md:    *)
(* blocking exists "to prevent blocking work from monopolizing scheduler   *)
(* resources"), not even after a suspension inside it; for the same fibers. *)
BodyOffPool ==
  \A f \in Fiber \ crossed : depth[f] > 0 /\ (runs[f]["worker"] > 0 \/ queued[f] > 0) => at[f] = "submit"

(* blocking_depth counts the KK_BLOCKING frames, on every way out of a     *)
(* region: its body has a value, an interrupt unwinds it, its thread could *)
(* not be created; for the same fibers.                                    *)
DepthCountsFrames == \A f \in Fiber \ crossed : depth[f] = frames[f]

(* A fiber in a blocking call is not woken by an interrupt request         *)
(* (DESIGN.md: "not woken until the host call returns").                   *)
NotWokenInCall ==
  [][\A f \in Fiber : f \in armed /\ status[f] = "Parked" => status'[f] # "Runnable"]_vars

(* A call handed to the lane is executed: the fiber is not left parked in  *)
(* it, whether the thread can be created or not; for the same fibers.      *)
CallsAreTaken == \A f \in Fiber : (f \in armed) ~> (f \notin armed \/ f \in crossed)

(* The call of f is under way: its lane thread has been created and has    *)
(* not started, or it executes the native.                                 *)
InCall(f) == (fresh[f] > 0 /\ status[f] = "Parked") \/ InNative(f)

(* The call is not cancelled, but a request that finds it under way,       *)
(* before its lane thread has started or while the native executes, is not *)
(* lost either: it is delivered, though the fiber may finish without       *)
(* reaching another point of interruption; for the same fibers.            *)
InterruptObserved ==
  \A f \in Fiber : (InCall(f) /\ Deliverable(f)) ~> (f \notin pending \/ f \in crossed)

=============================================================================
