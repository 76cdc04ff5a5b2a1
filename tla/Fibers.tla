------------------------------- MODULE Fibers -------------------------------
(***************************************************************************)
(* The fiber scheduler of runtime/rt.c and runtime/scope.c: a fixed pool   *)
(* of worker threads steps fibers taken from one run queue.  A fiber that  *)
(* must wait puts a waiter node on a list (the waiters of a fiber or of a  *)
(* promise, the drain waiters of a scope), publishes F_PARKED and lets its *)
(* worker go; whoever resolves the awaited object takes the list under the *)
(* object's lock and wakes each fiber AFTER the unlock, by a               *)
(* compare-and-swap of its status.  An interrupt is a flag on the target   *)
(* plus the same wake without a value.                                     *)
(*                                                                         *)
(* A critical section of the code is one step here.  What the code does    *)
(* after an unlock is another step of the same thread, so that every       *)
(* interleaving of two threads at a lock or at a compare-and-swap is a     *)
(* behaviour of this specification.  What a fiber computes between two     *)
(* scheduler operations is left out; which operation it performs next is a *)
(* free choice, bounded by MaxOps.                                         *)
(***************************************************************************)
EXTENDS Naturals, Sequences, FiniteSets

CONSTANTS Fiber,    \* every fiber the run may ever create
          Roots,    \* the fibers queued at the start, attached to no scope
          Thread,   \* the worker threads (rt->nworkers)
          Promise,  \* the promises the program has allocated
          Scope,    \* the supervision scopes the program has allocated
          Nil,      \* NULL
          Ops,      \* the scheduler operations the program uses
          MaxOps    \* bound on the operations the fibers execute

AllOps == {"await", "complete", "cede", "interrupt", "interruptFork", "mask",
           "fork", "shutdown"}

(* Fibers, promises and scopes have different KRT2_KIND_ tags.             *)
ASSUME FibersAssumption ==
  /\ Roots \subseteq Fiber /\ IsFiniteSet(Roots)
  /\ Fiber \cap Promise = {} /\ Fiber \cap Scope = {} /\ Promise \cap Scope = {}
  /\ Nil \notin Fiber \cup Promise \cup Scope
  /\ Ops \subseteq AllOps
  /\ MaxOps \in Nat

Waitable == Promise \cup Fiber \cup Scope

(* The n-th Waiter node a fiber allocates; node 0 stands for the wake of   *)
(* an interrupt request, which holds the fiber itself and no node.         *)
Node == Fiber \X Nat

VARIABLES
  status,      \* f->status; "Unborn" before fiber_new
  cur,         \* f->cur: the operation to run, or the value it resumes with
  resumed,     \* fibers whose resumed flag is set
  pending,     \* fibers whose interrupt_pending flag is set
  masked,      \* fibers whose effective mask suppresses delivery
  born,        \* fibers whose mask_base does, inherited at fork
  park,        \* f->park_owner and f->park_waiter
  parks,       \* how many waiter nodes the fiber has allocated
  att,         \* f->att_scope; a scope's children are those attached to it
  interrupted, \* history: fibers an interrupt has been delivered to
  ops,         \* bound: operations the fibers may still execute
  rq,          \* the run queue
  waiters,     \* the waiter list of each waitable object
  completed,   \* promises whose completed flag is set
  shutting,    \* scopes whose shutting flag is set
  pc,          \* where each worker thread is
  fib,         \* the fiber the thread steps, or has just parked
  todo,        \* nodes of the list being walked by the thread's wake loop
  src,         \* the object whose value those wakes deliver, Nil for none
  won,         \* fiber whose wake CAS the thread won, or that it is spawning
  ret,         \* where the thread goes on after the wake loop
  kids,        \* children shutdownScope has yet to interrupt
  reg          \* the thread's locals of a park: owner, node and park_unmasked

fiberVars  == <<status, cur, resumed, pending, masked, born, park, parks, att,
                interrupted, ops>>
objectVars == <<rq, waiters, completed, shutting>>
threadVars == <<pc, fib, todo, src, won, ret, kids, reg>>
vars == <<fiberVars, objectVars, threadVars>>

ParkOps == {"await", "interrupt", "shutdown"}
Cur == [op : ParkOps \cup {"start", "pure"}, obj : Waitable \cup {Nil}]
Waiter == [obj : Waitable \cup {Nil}, n : Nat]
Registration == [obj : Waitable \cup {Nil}, n : Nat, unmasked : BOOLEAN]

(* NULL is not the address of a node.                                      *)
ASSUME NilAssumption == Nil \notin Waiter \cup Registration

Label == {"idle", "run", "check", "park", "claim", "wake", "push", "attach",
          "kids", "detach"}

Pure(o) == [op |-> "pure", obj |-> o]
Children(s) == {f \in Fiber : att[f] = s}

(* What an awaiting fiber finds under the object's lock: the promise is    *)
(* completed, the fiber is F_DONE.                                         *)
Resolved(o) == o \in completed \/ (o \in Fiber /\ status[o] = "Done")

(* A pending request the effective mask does not suppress.                 *)
Deliverable(f) == f \in pending /\ f \notin masked

(* The interruption point at the top of fiber_step_run: only the first     *)
(* turn after the fiber was taken from the run queue is one.               *)
Gate(f) == f \in resumed /\ Deliverable(f)

(* The program holds a handle on g only once the spawn of g returned.      *)
Handle(g) == status[g] # "Unborn" /\ ~(cur[g].op = "start" /\ g \notin resumed)

(* krt2i_unlink_waiter: f's node leaves the list it was registered on, if  *)
(* it is still there (a resolver may have taken the whole list).           *)
Unlink(f, r) ==
  IF r = Nil THEN waiters ELSE [waiters EXCEPT ![r.obj] = @ \ {<<f, r.n>>}]

(* The tests and list operations the actions below are built from.  The    *)
(* operator before each is the slip a refactoring of that code could make; *)
(* the mutation runs put it in the other's place.                          *)

(* Mutation: the fiber's pointer is cleared before it is queued.           *)
RqPushNull(f) == rq' = Append(rq, Nil)

(* rq_push.                                                                *)
RqPush(f) == rq' = Append(rq, f)

(* Mutation: a plain store in place of the compare-and-swap.               *)
StoresRunnable(f) == status[f] # "Unborn"

(* The compare-and-swap that moves a fiber out of F_PARKED succeeds.       *)
CasFromParked(f) == status[f] = "Parked"

(* Mutation: the flag is not looked at again once F_PARKED is visible.     *)
NoClaimAfterPark(t) == FALSE

(* krt2i_claim_pending_after_park: park_unmasked is the local captured for *)
(* this park; the flag and the status are read now and may belong to a     *)
(* later park of the same fiber.                                           *)
ClaimsPending(t) ==
  reg[t].unmasked /\ fib[t] \in pending /\ CasFromParked(fib[t])

(* Mutation: the waiter is registered without a test under the lock.       *)
NoTestUnderLock(t) == FALSE

(* The test an awaiting fiber makes under the object's lock.               *)
FoundResolved(t) == Resolved(cur[fib[t]].obj)

(* Mutation: attach does not look at the scope's shutting flag.            *)
AttachIgnoresShutting(s) == FALSE

(* krt2i_scope_attach: the scope was already draining.                     *)
BornLate(s) == s \in shutting

(* Mutation: the count is tested before the child has left it.             *)
CountsItself(f) == att[f] # Nil /\ att[f] \in shutting /\ Children(att[f]) = {}

(* krt2i_scope_detach: the leaving child is the last one of its scope, and *)
(* a shutdown waits for it.                                                *)
LastChild(f) == att[f] # Nil /\ att[f] \in shutting /\ Children(att[f]) = {f}

----------------------------------------------------------------------------
(* deliver_interrupt: krt2i_cleanup_parked_wait unlinks the registered     *)
(* node r, the flag is cleared, and unwind either reaches a frame that     *)
(* goes on (finalizers, which run masked) or lets the fiber finish.        *)
DeliverInterrupt(f, r) ==
  /\ waiters' = Unlink(f, r)
  /\ park' = [park EXCEPT ![f] = Nil]
  /\ pending' = pending \ {f}
  /\ interrupted' = interrupted \cup {f}
  /\ resumed' = resumed \ {f}
  /\ cur' = [cur EXCEPT ![f] = Pure(Nil)]
  /\ \/ masked' = masked \cup {f}
     \/ f \notin born /\ masked' = masked \ {f}

(* The critical section of a park: the node goes on o's list, the park is  *)
(* registered, park_unmasked is captured and F_PARKED is published.        *)
ParkOn(t, f, o) ==
  /\ parks' = [parks EXCEPT ![f] = @ + 1]
  /\ waiters' = [waiters EXCEPT ![o] = @ \cup {<<f, parks[f] + 1>>}]
  /\ park' = [park EXCEPT ![f] = [obj |-> o, n |-> parks[f] + 1]]
  /\ reg' = [reg EXCEPT ![t] = [obj |-> o, n |-> parks[f] + 1, unmasked |-> f \notin masked]]
  /\ status' = [status EXCEPT ![f] = "Parked"]

(* Start walking a list that was taken under a lock; next is the label the *)
(* thread goes on from.                                                    *)
WakeAll(t, list, o, next) ==
  /\ todo' = [todo EXCEPT ![t] = list]
  /\ src' = [src EXCEPT ![t] = o]
  /\ ret' = [ret EXCEPT ![t] = next]
  /\ pc' = [pc EXCEPT ![t] = IF list = {} THEN next ELSE "wake"]

(* krt2i_interrupt_request up to its unlock; the wake follows.             *)
RequestInterrupt(t, g, next) ==
  /\ pending' = pending \cup {g}
  /\ WakeAll(t, {<<g, 0>>}, Nil, next)

(* The fiber of thread t executes operation op on o: either its program    *)
(* reaches the operation now, or a wake without a value makes it run the   *)
(* operation it parked in once more.  The bound counts both, except for an *)
(* await run again: two masked fibers that interrupt each other would do   *)
(* so for ever, while an await sends no request.                           *)
Executes(t, op, o) ==
  LET again == cur[fib[t]] = [op |-> op, obj |-> o]
  IN /\ pc[t] = "run" /\ ~Gate(fib[t])
     /\ again \/ (cur[fib[t]].op \in {"start", "pure"} /\ op \in Ops)
     /\ \/ again /\ op = "await" /\ UNCHANGED ops
        \/ ~(again /\ op = "await") /\ ops > 0 /\ ops' = ops - 1

(* An operation that does not park: the turn is consumed and the fiber     *)
(* continues with its result.                                              *)
Continues(f) ==
  /\ cur' = [cur EXCEPT ![f] = Pure(Nil)]
  /\ resumed' = resumed \ {f}

(* A parking operation: cur stays the operation's node.                    *)
Enters(f, op, o) ==
  /\ cur' = [cur EXCEPT ![f] = [op |-> op, obj |-> o]]
  /\ resumed' = resumed \ {f}

----------------------------------------------------------------------------
(* worker_main: take the head of the run queue and mark it F_RUNNING.      *)
Pop(t) ==
  /\ pc[t] = "idle" /\ rq # <<>>
  /\ rq' = Tail(rq)
  /\ status' = [status EXCEPT ![Head(rq)] = "Running"]
  /\ fib' = [fib EXCEPT ![t] = Head(rq)]
  /\ pc' = [pc EXCEPT ![t] = "run"]
  /\ UNCHANGED <<cur, resumed, pending, masked, born, park, parks, att, interrupted,
                 ops, waiters, completed, shutting, todo, src, won, ret, kids, reg>>

(* The delivery gate and the checks before a park (and OP_CEDE, OP_POLL,   *)
(* OP_RESTORE): the running fiber takes its pending interrupt.             *)
Deliver(t) ==
  /\ pc[t] \in {"run", "check"} /\ Deliverable(fib[t])
  /\ DeliverInterrupt(fib[t], park[fib[t]])
  /\ pc' = [pc EXCEPT ![t] = "run"]
  /\ UNCHANGED <<status, born, parks, att, ops, rq, completed, shutting,
                 fib, todo, src, won, ret, kids, reg>>

(* OP_AWAIT, OP_AWAIT_MONITOR, OP_AWAIT_PROMISE_EXIT up to the lock.       *)
Await(t, o) ==
  /\ Executes(t, "await", o) /\ ~Deliverable(fib[t])
  /\ o \in Promise \/ (o \in Fiber /\ Handle(o))
  /\ Enters(fib[t], "await", o)
  /\ pc' = [pc EXCEPT ![t] = "park"]
  /\ UNCHANGED <<status, pending, masked, born, park, parks, att, interrupted,
                 objectVars, fib, todo, src, won, ret, kids, reg>>

(* do_await, do_await_promise, krt2i_op_await_monitor and the waiting half *)
(* of krt2i_op_interrupt, under the object's lock.                         *)
Park(t) ==
  LET f == fib[t]
      o == cur[f].obj
  IN /\ pc[t] = "park"
     /\ \/ /\ FoundResolved(t)
           /\ cur' = [cur EXCEPT ![f] = Pure(o)]
           /\ pc' = [pc EXCEPT ![t] = "run"]
           /\ UNCHANGED <<status, park, parks, waiters, reg>>
        \/ /\ ~FoundResolved(t)
           /\ ParkOn(t, f, o)
           /\ pc' = [pc EXCEPT ![t] = "claim"]
           /\ UNCHANGED cur
     /\ UNCHANGED <<resumed, pending, masked, born, att, interrupted, ops, rq,
                    completed, shutting, fib, todo, src, won, ret, kids>>

(* krt2i_claim_pending_after_park and what its caller does on success: it  *)
(* unlinks the node of this park and steps the fiber on.                   *)
Claim(t) ==
  LET f == fib[t]
  IN /\ pc[t] = "claim"
     /\ \/ /\ ClaimsPending(t)
           /\ status' = [status EXCEPT ![f] = "Running"]
           /\ DeliverInterrupt(f, reg[t])
           /\ pc' = [pc EXCEPT ![t] = "run"]
           /\ UNCHANGED fib
        \/ /\ ~ClaimsPending(t)
           /\ pc' = [pc EXCEPT ![t] = "idle"]
           /\ fib' = [fib EXCEPT ![t] = Nil]
           /\ UNCHANGED <<status, cur, resumed, pending, masked, park, interrupted, waiters>>
     /\ reg' = [reg EXCEPT ![t] = Nil]
     /\ UNCHANGED <<born, parks, att, ops, rq, completed, shutting, todo, src, won,
                    ret, kids>>

(* krt2i_wake: the CAS from F_PARKED; losing it makes the wake a no-op.    *)
WakeCas(t) ==
  /\ pc[t] = "wake"
  /\ \E w \in todo[t] :
       /\ todo' = [todo EXCEPT ![t] = @ \ {w}]
       /\ \/ /\ CasFromParked(w[1])
             /\ status' = [status EXCEPT ![w[1]] = "Runnable"]
             /\ won' = [won EXCEPT ![t] = w[1]]
             /\ pc' = [pc EXCEPT ![t] = "push"]
          \/ /\ ~CasFromParked(w[1])
             /\ pc' = [pc EXCEPT ![t] = IF todo[t] = {w} THEN ret[t] ELSE "wake"]
             /\ UNCHANGED <<status, won>>
  /\ UNCHANGED <<cur, resumed, pending, masked, born, park, parks, att, interrupted,
                 ops, objectVars, fib, src, ret, kids, reg>>

(* The rest of krt2i_wake for the winner, and krt2i_resume of a new child: *)
(* a value becomes f->cur and drops the park registration; rq_push.        *)
Push(t) ==
  LET f == won[t]
  IN /\ pc[t] = "push"
     /\ \/ /\ src[t] # Nil
           /\ cur' = [cur EXCEPT ![f] = Pure(src[t])]
           /\ park' = [park EXCEPT ![f] = Nil]
        \/ /\ src[t] = Nil
           /\ UNCHANGED <<cur, park>>
     /\ resumed' = resumed \cup {f}
     /\ RqPush(f)
     /\ won' = [won EXCEPT ![t] = Nil]
     /\ pc' = [pc EXCEPT ![t] = IF todo[t] = {} THEN ret[t] ELSE "wake"]
     /\ UNCHANGED <<status, pending, masked, born, parks, att, interrupted, ops,
                    waiters, completed, shutting, fib, todo, src, ret, kids, reg>>

(* promise_complete: only the first completion takes the waiters.          *)
Complete(t, p) ==
  /\ Executes(t, "complete", Nil)
  /\ Continues(fib[t])
  /\ \/ /\ p \notin completed
        /\ completed' = completed \cup {p}
        /\ waiters' = [waiters EXCEPT ![p] = {}]
        /\ WakeAll(t, waiters[p], p, "run")
     \/ /\ p \in completed
        /\ UNCHANGED <<completed, waiters, todo, src, ret, pc>>
  /\ UNCHANGED <<status, pending, masked, born, park, parks, att, interrupted, rq,
                 shutting, fib, won, kids, reg>>

(* OP_CEDE: krt2i_resume of the running fiber itself.                      *)
Cede(t) ==
  /\ Executes(t, "cede", Nil) /\ ~Deliverable(fib[t])
  /\ cur' = [cur EXCEPT ![fib[t]] = Pure(Nil)]
  /\ resumed' = resumed \cup {fib[t]}
  /\ status' = [status EXCEPT ![fib[t]] = "Runnable"]
  /\ RqPush(fib[t])
  /\ pc' = [pc EXCEPT ![t] = "idle"]
  /\ fib' = [fib EXCEPT ![t] = Nil]
  /\ UNCHANGED <<pending, masked, born, park, parks, att, interrupted, waiters,
                 completed, shutting, todo, src, won, ret, kids, reg>>

(* OP_INTERRUPT_FORK: request and go on.                                   *)
InterruptFork(t, g) ==
  /\ Executes(t, "interruptFork", Nil) /\ Handle(g)
  /\ Continues(fib[t])
  /\ RequestInterrupt(t, g, "run")
  /\ UNCHANGED <<status, masked, born, park, parks, att, interrupted, objectVars,
                 fib, won, kids, reg>>

(* OP_INTERRUPT: request, then wait for the target like an await.          *)
Interrupt(t, g) ==
  /\ Executes(t, "interrupt", g) /\ Handle(g)
  /\ Enters(fib[t], "interrupt", g)
  /\ RequestInterrupt(t, g, "check")
  /\ UNCHANGED <<status, masked, born, park, parks, att, interrupted, objectVars,
                 fib, won, kids, reg>>

(* krt2i_deliver_pending_before_park found nothing to deliver.             *)
Check(t) ==
  /\ pc[t] = "check" /\ ~Deliverable(fib[t])
  /\ pc' = [pc EXCEPT ![t] = "park"]
  /\ UNCHANGED <<fiberVars, objectVars, fib, todo, src, won, ret, kids, reg>>

(* OP_MASK, OP_UNINTERRUPTIBLE: entering a mask is no interruption point,  *)
(* even as the first turn of a new fiber.                                  *)
EnterMask(t) ==
  LET f == fib[t]
  IN /\ pc[t] = "run" /\ "mask" \in Ops /\ ops > 0
     /\ cur[f].op = "start" \/ (cur[f].op = "pure" /\ ~Gate(f))
     /\ ops' = ops - 1
     /\ Continues(f)
     /\ masked' = masked \cup {f}
     /\ UNCHANGED <<status, pending, born, park, parks, att, interrupted,
                    objectVars, threadVars>>

(* KK_POPMASK: back to the mask the fiber was born with; no gate either.   *)
LeaveMask(t) ==
  LET f == fib[t]
  IN /\ pc[t] = "run" /\ f \in masked \ born /\ cur[f].op = "pure"
     /\ Continues(f)
     /\ masked' = masked \ {f}
     /\ UNCHANGED <<status, pending, born, park, parks, att, interrupted, ops,
                    objectVars, threadVars>>

(* krt2i_spawn_from up to the unlock of krt2i_scope_attach.                *)
Fork(t, c, s) ==
  /\ Executes(t, "fork", Nil) /\ status[c] = "Unborn"
  /\ Continues(fib[t])
  /\ status' = [status EXCEPT ![c] = "Runnable"]
  /\ born' = IF fib[t] \in masked THEN born \cup {c} ELSE born
  /\ masked' = IF fib[t] \in masked THEN masked \cup {c} ELSE masked
  /\ att' = [att EXCEPT ![c] = s]
  /\ won' = [won EXCEPT ![t] = c]
  /\ src' = [src EXCEPT ![t] = Nil]
  /\ ret' = [ret EXCEPT ![t] = "run"]
  /\ pc' = [pc EXCEPT ![t] = IF BornLate(s) THEN "attach" ELSE "push"]
  /\ UNCHANGED <<pending, park, parks, interrupted, objectVars, fib, todo, kids, reg>>

(* The end of krt2i_scope_attach: a child born into a draining scope is    *)
(* interrupted at once.  The wake does nothing: the child is F_RUNNABLE.   *)
BornInterrupted(t) ==
  /\ pc[t] = "attach"
  /\ pending' = pending \cup {won[t]}
  /\ pc' = [pc EXCEPT ![t] = "push"]
  /\ UNCHANGED <<status, cur, resumed, masked, born, park, parks, att, interrupted,
                 ops, objectVars, fib, todo, src, won, ret, kids, reg>>

(* krt2i_op_shutdown_scope under the scope's lock: snapshot the children   *)
(* and park unless none is left.                                           *)
Shutdown(t, s) ==
  LET f == fib[t]
  IN /\ Executes(t, "shutdown", s)
     /\ shutting' = shutting \cup {s}
     /\ kids' = [kids EXCEPT ![t] = Children(s)]
     /\ \/ /\ Children(s) # {}
           /\ Enters(f, "shutdown", s)
           /\ ParkOn(t, f, s)
           /\ pc' = [pc EXCEPT ![t] = "kids"]
        \/ /\ Children(s) = {}
           /\ Continues(f)
           /\ UNCHANGED <<status, park, parks, waiters, reg, pc>>
     /\ UNCHANGED <<pending, masked, born, att, interrupted, rq, completed, fib,
                    todo, src, won, ret>>

(* Its loop over the snapshot, outside the lock.                           *)
InterruptKid(t) ==
  /\ pc[t] = "kids"
  /\ \E k \in kids[t] :
       /\ kids' = [kids EXCEPT ![t] = @ \ {k}]
       /\ RequestInterrupt(t, k, IF kids[t] = {k} THEN "claim" ELSE "kids")
  /\ UNCHANGED <<status, cur, resumed, masked, born, park, parks, att, interrupted,
                 ops, objectVars, fib, won, reg>>

(* fiber_finish under the fiber's lock: exit, F_DONE, take the waiters.    *)
Finish(t) ==
  LET f == fib[t]
  IN /\ pc[t] = "run" /\ cur[f].op \in {"start", "pure"} /\ ~Gate(f)
     /\ status' = [status EXCEPT ![f] = "Done"]
     /\ waiters' = [waiters EXCEPT ![f] = {}]
     /\ WakeAll(t, waiters[f], f, "detach")
     /\ Continues(f)
     /\ UNCHANGED <<pending, masked, born, park, parks, att, interrupted, ops, rq,
                    completed, shutting, fib, won, kids, reg>>

(* krt2i_scope_detach: the last child of a draining scope takes the drain  *)
(* waiters; afterwards the worker is free.                                 *)
Detach(t) ==
  LET f == fib[t]
      s == att[f]
  IN /\ pc[t] = "detach"
     /\ att' = [att EXCEPT ![f] = Nil]
     /\ fib' = [fib EXCEPT ![t] = Nil]
     /\ \/ /\ LastChild(f)
           /\ waiters' = [waiters EXCEPT ![s] = {}]
           /\ WakeAll(t, waiters[s], s, "idle")
        \/ /\ ~LastChild(f)
           /\ pc' = [pc EXCEPT ![t] = "idle"]
           /\ UNCHANGED <<waiters, todo, src, ret>>
     /\ UNCHANGED <<status, cur, resumed, pending, masked, born, park, parks,
                    interrupted, ops, rq, completed, shutting, won, kids, reg>>

----------------------------------------------------------------------------
Init ==
  /\ status = [f \in Fiber |-> IF f \in Roots THEN "Runnable" ELSE "Unborn"]
  /\ cur = [f \in Fiber |-> [op |-> "start", obj |-> Nil]]
  /\ resumed = Roots
  /\ pending = {} /\ masked = {} /\ born = {} /\ interrupted = {}
  /\ park = [f \in Fiber |-> Nil]
  /\ parks = [f \in Fiber |-> 0]
  /\ att = [f \in Fiber |-> Nil]
  /\ ops = MaxOps
  /\ rq \in {s \in [1..Cardinality(Roots) -> Roots] :
               \A i, j \in 1..Cardinality(Roots) : s[i] = s[j] => i = j}
  /\ waiters = [o \in Waitable |-> {}]
  /\ completed = {}
  /\ shutting = {}
  /\ pc = [t \in Thread |-> "idle"]
  /\ fib = [t \in Thread |-> Nil]
  /\ todo = [t \in Thread |-> {}]
  /\ src = [t \in Thread |-> Nil]
  /\ won = [t \in Thread |-> Nil]
  /\ ret = [t \in Thread |-> "idle"]
  /\ kids = [t \in Thread |-> {}]
  /\ reg = [t \in Thread |-> Nil]

(* The steps the runtime takes by itself, and the ones the program asks    *)
(* for.                                                                    *)
Runtime(t) == Pop(t) \/ Park(t) \/ Claim(t) \/ WakeCas(t) \/ Push(t) \/ Check(t)
              \/ BornInterrupted(t) \/ InterruptKid(t) \/ Detach(t) \/ Deliver(t)

Program(t) ==
  \/ Cede(t) \/ EnterMask(t) \/ LeaveMask(t) \/ Finish(t)
  \/ \E o \in Promise \cup Fiber : Await(t, o)
  \/ \E p \in Promise : Complete(t, p)
  \/ \E g \in Fiber : InterruptFork(t, g) \/ Interrupt(t, g)
  \/ \E c \in Fiber, s \in Scope : Fork(t, c, s)
  \/ \E s \in Scope : Shutdown(t, s)

Next == \E t \in Thread : Runtime(t) \/ Program(t)

Spec == Init /\ [][Next]_vars

(* The operating system runs every worker, and a running fiber reaches its *)
(* next scheduler operation: a worker is never held for ever.              *)
FairSpec == Spec /\ \A t \in Thread : WF_vars(Runtime(t)) /\ WF_vars(Program(t))

----------------------------------------------------------------------------
(* The thread t executes its fiber, or is in a wake loop it returns from   *)
(* to go on executing it.                                                  *)
Stepping(t) == \/ pc[t] \in {"run", "check", "park", "attach"}
               \/ pc[t] \in {"wake", "push"} /\ ret[t] \in {"run", "check"}

(* Every field of a fiber, an object or a worker has the type of its C     *)
(* declaration; no list or queue holds NULL.                               *)
TypeOK ==
  /\ status \in [Fiber -> {"Unborn", "Runnable", "Running", "Parked", "Done"}]
  /\ cur \in [Fiber -> Cur]
  /\ resumed \subseteq Fiber /\ pending \subseteq Fiber /\ masked \subseteq Fiber
  /\ born \subseteq Fiber /\ interrupted \subseteq Fiber
  /\ park \in [Fiber -> Waiter \cup {Nil}]
  /\ parks \in [Fiber -> Nat]
  /\ att \in [Fiber -> Scope \cup {Nil}]
  /\ ops \in 0..MaxOps
  /\ rq \in Seq(Fiber)
  /\ waiters \in [Waitable -> SUBSET Node]
  /\ completed \subseteq Promise /\ shutting \subseteq Scope
  /\ pc \in [Thread -> Label] /\ ret \in [Thread -> Label]
  /\ fib \in [Thread -> Fiber \cup {Nil}] /\ won \in [Thread -> Fiber \cup {Nil}]
  /\ todo \in [Thread -> SUBSET Node]
  /\ src \in [Thread -> Waitable \cup {Nil}]
  /\ kids \in [Thread -> SUBSET Fiber]
  /\ reg \in [Thread -> Registration \cup {Nil}]

(* The locals of a worker fit the place it is at.                          *)
Shape(t) ==
  /\ pc[t] \in {"run", "check", "park", "attach", "claim", "kids", "detach"}
       => fib[t] \in Fiber
  /\ pc[t] \in {"wake", "push"} =>
       /\ ret[t] \in {"run", "check", "claim", "kids", "detach", "idle"}
       /\ ret[t] # "idle" => fib[t] \in Fiber
  /\ won[t] # Nil <=> pc[t] \in {"push", "attach"}
  /\ pc[t] = "attach" => ret[t] = "run"

ThreadShape == \A t \in Thread : Shape(t)

(* The run queue owns what it holds: each entry once, all F_RUNNABLE.      *)
QueueOwns ==
  /\ \A i, j \in 1..Len(rq) : rq[i] = rq[j] => i = j
  /\ \A i \in 1..Len(rq) : status[rq[i]] = "Runnable"

(* A waker owns the fiber whose CAS it won until it has queued it.         *)
WakerOwns ==
  \A t \in Thread : won[t] # Nil =>
    /\ status[won[t]] = "Runnable"
    /\ \A i \in 1..Len(rq) : rq[i] # won[t]
    /\ \A u \in Thread : won[u] = won[t] => u = t

(* A worker owns the fiber it executes, which is F_RUNNING.                *)
WorkerOwns ==
  \A t \in Thread : Stepping(t) =>
    /\ status[fib[t]] = "Running"
    /\ \A u \in Thread : Stepping(u) /\ fib[u] = fib[t] => u = t

(* Every fiber has at most one owner: it is in the run queue once, or a    *)
(* waker is about to put it there, or one worker executes it, and never    *)
(* two of these; a parked or finished fiber has none (krt2i_wake: "only    *)
(* the waker that wins ... may touch the fiber").                          *)
SingleOwner == QueueOwns /\ WakerOwns /\ WorkerOwns

(* No fiber is dropped: a runnable one is queued or about to be, a running *)
(* one is executed by some worker.                                         *)
NoOrphan ==
  \A f \in Fiber :
    /\ status[f] = "Runnable" =>
         (\E i \in 1..Len(rq) : rq[i] = f) \/ (\E t \in Thread : won[t] = f)
    /\ status[f] = "Running" => \E t \in Thread : Stepping(t) /\ fib[t] = f

(* No lost wakeup: the node of a fiber's current park is on the list of    *)
(* the object it waits for, and that object is still unresolved (a scope   *)
(* still has children), or a thread that resolved the object is about to   *)
(* wake it.                                                                *)
NoLostWakeup ==
  \A f \in Fiber : status[f] = "Parked" =>
    LET o == cur[f].obj
        w == <<f, parks[f]>>
    IN \/ /\ w \in waiters[o]
          /\ IF o \in Scope THEN o \in shutting /\ Children(o) # {} ELSE ~Resolved(o)
       \/ \E t \in Thread : w \in todo[t] /\ src[t] = o

(* No lost interrupt: when a request is pending on a fiber parked without  *)
(* a mask, its requester has yet to try the wake, or the thread that       *)
(* parked the fiber has yet to look at the flag ("cannot both miss").      *)
NoLostInterrupt ==
  \A f \in Fiber : status[f] = "Parked" /\ Deliverable(f) =>
    \/ \E t \in Thread : <<f, 0>> \in todo[t]
    \/ \E t \in Thread : /\ fib[t] = f /\ reg[t] # Nil /\ reg[t].unmasked
                         /\ reg[t].n = parks[f]

(* No child of a draining scope escapes interruption, whether it was there *)
(* when shutdownScope took its snapshot or is forked later.                *)
NoChildEscapes ==
  \A f \in Fiber : att[f] \in shutting /\ status[f] # "Done" =>
    \/ f \in pending \cup interrupted
    \/ \E t \in Thread : f \in kids[t] \/ (pc[t] = "attach" /\ won[t] = f)

(* A finished fiber stays finished, whatever late wakers and claimers do,  *)
(* and leaves its scope for good.                                          *)
DoneIsFinal ==
  [][\A f \in Fiber : status[f] = "Done" =>
       status'[f] = "Done" /\ (att[f] = Nil => att'[f] = Nil)]_vars

(* A fiber resumes from a wait only with the value of the object it waits  *)
(* for (internal.h: a late waker "is a safe no-op").                       *)
ResumesWithItsValue ==
  [][\A f \in Fiber :
       cur[f].op \in ParkOps /\ cur'[f].op = "pure" /\ cur'[f].obj # Nil
         => cur'[f].obj = cur[f].obj]_vars

(* An interrupt is delivered only to a fiber that is not masked.           *)
MaskedIsNotInterrupted ==
  [][\A f \in Fiber : f \in pending /\ f \notin pending' => f \notin masked]_vars

(* A fiber whose awaited object is resolved runs again.                    *)
ResolvedWaiterRuns ==
  \A f \in Fiber :
    (status[f] = "Parked" /\ Resolved(cur[f].obj)) ~> (status[f] \in {"Running", "Done"})

(* A request pending on a fiber parked without a mask is delivered, or the *)
(* fiber gets to mask itself first.                                        *)
ParkedInterruptDelivered ==
  \A f \in Fiber :
    (status[f] = "Parked" /\ Deliverable(f)) ~> (f \notin pending \/ f \in masked)

(* shutdownScope hangs only on a child that hangs: a caller that is parked *)
(* in it for ever is so because some child stays in a parking operation of *)
(* its own, a wait of its finalizer or the drain of the very same scope.   *)
DrainReturns ==
  \A f \in Fiber :
    <>[](status[f] = "Parked" /\ cur[f].op = "shutdown")
      => <>[](\E g \in Children(cur[f].obj) : cur[g].op \in ParkOps)

=============================================================================
