--------------------------------- MODULE Stm ---------------------------------
(***************************************************************************)
(* Software transactional memory, runtime/stm.c.  A transaction is a tree  *)
(* that stm_run interprets against a journal: TVars are sampled one by one *)
(* under the global lock g_stm, writes go to a log.  The commit validates  *)
(* the versions of everything read and installs the log under the lock; a  *)
(* transaction that retries parks on the watcher lists of all it has read. *)
(* Between two locked sections other fibers run.                           *)
(*                                                                         *)
(* Each fiber executes the transactions Txn[f] one after the other.  The   *)
(* scheduling of fibers is module Fibers; here a fiber has a worker        *)
(* whenever it is runnable, and none masks interruption.  newTVar inside a *)
(* transaction is left out: the TVars exist from the start.                *)
(***************************************************************************)
EXTENDS Naturals, Sequences

CONSTANTS Fiber, TVar, Value,
          Unit,       \* kunit(), what a write returns
          Tree,       \* the transactions, their parts and what they become
          Height,     \* how deep a tree is
          Txn,        \* for each fiber, the sequence of its transactions
          InitStore,  \* the initial values of the TVars
          Victim      \* the fibers somebody interrupts (once)

(* The trees of stm_run.                                                   *)
Pure(v)      == [op |-> "pure", val |-> v]
Read(tv)     == [op |-> "read", tv |-> tv]
Write(tv, v) == [op |-> "write", tv |-> tv, val |-> v]
Retry        == [op |-> "retry"]
Bind(m, k)   == [op |-> "bind", m |-> m, k |-> k]
OrElse(l, r) == [op |-> "orElse", l |-> l, r |-> r]

(* What the type checker has made sure of.                                 *)
WellTyped(m) ==
  /\ m.op \in {"pure", "read", "write", "retry", "bind", "orElse"}
  /\ m.op \in {"pure", "write"} => m.val \in Value
  /\ m.op \in {"read", "write"} => m.tv \in TVar
  /\ m.op = "bind" => m.m \in Tree /\ m.k \in [Value -> Tree]
  /\ m.op = "orElse" => m.l \in Tree /\ m.r \in Tree

ASSUME StmAssumption ==
  /\ InitStore \in [TVar -> Value]
  /\ Unit \in Value
  /\ Victim \subseteq Fiber
  /\ \A m \in Tree : WellTyped(m)
  /\ \A v \in Value : Pure(v) \in Tree
  /\ \A f \in Fiber : Txn[f] \in Seq(Tree) /\ Txn[f] # <<>>

(* Trees are finite: each part is less deep than the whole.                *)
ASSUME FiniteTrees ==
  /\ Height \in [Tree -> Nat]
  /\ \A m \in Tree :
       /\ m.op = "bind" => /\ Height[m.m] < Height[m]
                          /\ \A v \in Value : Height[m.k[v]] < Height[m]
       /\ m.op = "orElse" => Height[m.l] < Height[m] /\ Height[m.r] < Height[m]

(* How a transaction ends.                                                 *)
Committed(v) == [op |-> "committed", val |-> v]
Stopped == [op |-> "interrupted"]
Outcome == {Committed(v) : v \in Value} \cup {Stopped}

(* A frame of stm_run's stack, an entry of the read set and of the log.    *)
Frame == [kind : {"bind"}, k : [Value -> Tree]] \cup [kind : {"orElse"}, r : Tree, nw : Nat]
REnt == [tv : TVar, ver : Nat, val : Value]
WEnt == [tv : TVar, val : Value]

VARIABLES
  box,      \* tv->box: the value and the version of each TVar
  tick,     \* g_tick
  watchers, \* tv->watchers, as the set of the fibers on the list
  todo,     \* fibers the committing fiber has yet to wake
  status,   \* f->status
  at,       \* where the worker of the fiber is
  out,      \* how the fiber's transactions so far have ended
  cur,      \* stm_run's cur: the tree being interpreted, or a value
  frames,   \* stm_run's stack of FK_BIND and FK_ORELSE frames
  rset,     \* j->r: what was read, with its version (and, as history, value)
  wlog,     \* j->w: the append-only write log
  reads,    \* f->stm_reads of the fiber's retry-park
  pending,  \* fibers with interrupt_pending
  poke,     \* fibers an interrupter has flagged and has yet to wake
  past,     \* history: the versions the TVars have had together
  claims    \* workers between a park of the fiber and the claim after it

memory  == <<box, tick, watchers, past>>
journal == <<cur, frames, rset, wlog>>
control == <<status, at, out>>
signal  == <<pending, poke, claims>>
vars == <<memory, todo, control, journal, reads, signal>>

----------------------------------------------------------------------------
(* The transaction the fiber executes now.                                 *)
Current(f) == Txn[f][Len(out[f]) + 1]

(* j_read and the commit search the log from its newest entry.             *)
Logged(log, tv) == \E i \in DOMAIN log : log[i].tv = tv
NewestWrite(log, tv) ==
  log[CHOOSE i \in DOMAIN log : /\ log[i].tv = tv
                                /\ \A k \in (i + 1)..Len(log) : log[k].tv # tv].val

(* Mutation: the right branch starts from all of the log.                  *)
KeepWrites(log, n) == log

(* j_truncate_writes, which clamps its argument.                           *)
TruncateWrites(log, n) == SubSeq(log, 1, IF n > Len(log) THEN Len(log) ELSE n)

(* Mutation: the versions are not compared.                                *)
NotValidated(f) == TRUE

(* The validation loops: nothing that was read has a newer version.        *)
Valid(f) == \A r \in rset[f] : box[r.tv].ver = r.ver

(* The value j_read takes out of the box.                                  *)
Sample(tv) == box[tv].val

(* Mutation: the clock stands still.                                       *)
SameTick == tick

(* ++g_tick, the version of everything a commit writes.                    *)
NewTick == tick + 1

(* A new journal: the transaction starts, or starts again.                 *)
Restart(f) ==
  /\ at' = [at EXCEPT ![f] = "run"]
  /\ cur' = [cur EXCEPT ![f] = Current(f)]
  /\ frames' = [frames EXCEPT ![f] = <<>>]
  /\ rset' = [rset EXCEPT ![f] = {}]
  /\ wlog' = [wlog EXCEPT ![f] = <<>>]

(* Mutation: only one of the TVars gets a watcher.                         *)
WatchesOne(f) == IF rset[f] = {} THEN {} ELSE {(CHOOSE r \in rset[f] : TRUE).tv}

(* The TVars in the read set, left branches of orElse included.            *)
ReadTVars(f) == {r.tv : r \in rset[f]}

(* Mutation: the watcher nodes stay.                                       *)
LeaveWatchers(f) == UNCHANGED watchers /\ reads' = [reads EXCEPT ![f] = {}]

(* krt2i_stm_unpark: every node of f leaves the TVars it was parked on.    *)
Unpark(f) ==
  /\ watchers' = [tv \in TVar |-> IF tv \in reads[f] THEN watchers[tv] \ {f} ELSE watchers[tv]]
  /\ reads' = [reads EXCEPT ![f] = {}]

(* The fiber is through with this atomically, with outcome e, and comes to *)
(* its next one.                                                           *)
MovesOn(f, e) ==
  /\ out' = [out EXCEPT ![f] = Append(@, e)]
  /\ at' = [at EXCEPT ![f] = IF Len(out[f]) + 1 < Len(Txn[f]) THEN "enter" ELSE "done"]

----------------------------------------------------------------------------
(* krt2i_op_atomically, on entry.                                          *)
Enter(f) ==
  /\ at[f] = "enter"
  /\ Unpark(f)
  /\ Restart(f)
  /\ UNCHANGED <<box, tick, past, todo, status, out, signal>>

(* stm_run, STM_BIND and STM_ORELSE: push a frame.                         *)
PushFrame(f) ==
  /\ at[f] = "run"
  /\ \/ /\ cur[f].op = "bind"
        /\ frames' = [frames EXCEPT ![f] = <<[kind |-> "bind", k |-> cur[f].k]>> \o @]
        /\ cur' = [cur EXCEPT ![f] = @.m]
     \/ /\ cur[f].op = "orElse"
        /\ frames' = [frames EXCEPT ![f] =
                        <<[kind |-> "orElse", r |-> cur[f].r, nw |-> Len(wlog[f])]>> \o @]
        /\ cur' = [cur EXCEPT ![f] = @.l]
  /\ UNCHANGED <<memory, todo, control, rset, wlog, reads, signal>>

(* STM_READ: the newest write of this transaction, else a sample of the    *)
(* box taken under the lock and recorded with its version.                 *)
ReadTVar(f) ==
  /\ at[f] = "run" /\ cur[f].op = "read"
  /\ LET tv == cur[f].tv
     IN \/ /\ Logged(wlog[f], tv)
           /\ cur' = [cur EXCEPT ![f] = Pure(NewestWrite(wlog[f], tv))]
           /\ UNCHANGED rset
        \/ /\ ~Logged(wlog[f], tv)
           /\ cur' = [cur EXCEPT ![f] = Pure(Sample(tv))]
           /\ rset' = [rset EXCEPT ![f] =
                         @ \cup {[tv |-> tv, ver |-> box[tv].ver, val |-> Sample(tv)]}]
  /\ UNCHANGED <<memory, todo, control, frames, wlog, reads, signal>>

(* STM_WRITE: append to the log.                                           *)
WriteTVar(f) ==
  /\ at[f] = "run" /\ cur[f].op = "write"
  /\ wlog' = [wlog EXCEPT ![f] = Append(@, [tv |-> cur[f].tv, val |-> cur[f].val])]
  /\ cur' = [cur EXCEPT ![f] = Pure(Unit)]
  /\ UNCHANGED <<memory, todo, control, frames, rset, reads, signal>>

(* A value: the nearest FK_BIND goes on with it, an FK_ORELSE on the way   *)
(* is dropped, its left branch has won.                                    *)
PopFrame(f) ==
  /\ at[f] = "run" /\ cur[f].op = "pure" /\ frames[f] # <<>>
  /\ frames' = [frames EXCEPT ![f] = Tail(@)]
  /\ cur' = IF Head(frames[f]).kind = "bind"
              THEN [cur EXCEPT ![f] = Head(frames[f]).k[@.val]]
              ELSE cur
  /\ UNCHANGED <<memory, todo, control, rset, wlog, reads, signal>>

(* STM_RETRY: unwind to the nearest FK_ORELSE, whose right branch runs     *)
(* with the left one's writes taken back and its reads kept; without one   *)
(* the whole transaction retries.                                          *)
UnwindRetry(f) ==
  /\ at[f] = "run" /\ cur[f].op = "retry"
  /\ \/ /\ frames[f] = <<>>
        /\ at' = [at EXCEPT ![f] = "revalidate"]
        /\ UNCHANGED <<cur, frames, wlog>>
     \/ /\ frames[f] # <<>> /\ Head(frames[f]).kind = "bind"
        /\ frames' = [frames EXCEPT ![f] = Tail(@)]
        /\ UNCHANGED <<at, cur, wlog>>
     \/ /\ frames[f] # <<>> /\ Head(frames[f]).kind = "orElse"
        /\ frames' = [frames EXCEPT ![f] = Tail(@)]
        /\ cur' = [cur EXCEPT ![f] = Head(frames[f]).r]
        /\ wlog' = [wlog EXCEPT ![f] = TruncateWrites(@, Head(frames[f]).nw)]
        /\ UNCHANGED at
  /\ UNCHANGED <<memory, todo, status, out, rset, reads, signal>>

(* The commit under the lock: validate, install the newest write of each   *)
(* TVar with a new version and take its watchers; or run again.            *)
Commit(f) ==
  /\ at[f] = "run" /\ cur[f].op = "pure" /\ frames[f] = <<>>
  /\ \/ /\ ~Valid(f)
        /\ Restart(f)
        /\ UNCHANGED <<memory, todo>>
     \/ /\ Valid(f)
        /\ tick' = NewTick
        /\ box' = [tv \in TVar |-> IF Logged(wlog[f], tv)
                                     THEN [val |-> NewestWrite(wlog[f], tv), ver |-> NewTick]
                                     ELSE box[tv]]
        /\ past' = past \cup {[tv \in TVar |-> box'[tv].ver]}
        /\ todo' = [todo EXCEPT ![f] =
                      UNION {watchers[tv] : tv \in {x \in TVar : Logged(wlog[f], x)}}]
        /\ watchers' = [tv \in TVar |-> IF Logged(wlog[f], tv) THEN {} ELSE watchers[tv]]
        /\ at' = [at EXCEPT ![f] = "wake"]
        /\ UNCHANGED journal
  /\ UNCHANGED <<status, out, reads, signal>>

(* krt2i_wake of a watcher, after the unlock: the CAS from F_PARKED, or    *)
(* nothing.                                                                *)
Wake(f) ==
  /\ at[f] = "wake"
  /\ \E g \in todo[f] :
       /\ todo' = [todo EXCEPT ![f] = @ \ {g}]
       /\ status' = IF status[g] = "Parked" THEN [status EXCEPT ![g] = "Runnable"] ELSE status
  /\ UNCHANGED <<memory, at, out, journal, reads, signal>>

(* f->cur becomes the result of the transaction.                           *)
Return(f) ==
  /\ at[f] = "wake" /\ todo[f] = {}
  /\ MovesOn(f, Committed(cur[f].val))
  /\ UNCHANGED <<memory, todo, status, journal, reads, signal>>

(* The first validation of a retry.                                        *)
Revalidate(f) ==
  /\ at[f] = "revalidate"
  /\ \/ /\ ~Valid(f)
        /\ Restart(f)
     \/ /\ Valid(f)
        /\ at' = [at EXCEPT ![f] = "deliver"]
        /\ UNCHANGED journal
  /\ UNCHANGED <<memory, todo, status, out, reads, signal>>

(* The interrupt leaves this atomically for good.                          *)
Interrupted(f) ==
  /\ Unpark(f)
  /\ pending' = pending \ {f}
  /\ MovesOn(f, Stopped)

(* krt2i_deliver_pending_before_park.                                      *)
DeliverBeforePark(f) ==
  /\ at[f] = "deliver"
  /\ \/ /\ f \in pending
        /\ Interrupted(f)
     \/ /\ f \notin pending
        /\ at' = [at EXCEPT ![f] = "park"]
        /\ UNCHANGED <<watchers, reads, pending, out>>
  /\ UNCHANGED <<box, tick, past, todo, status, journal, poke, claims>>

(* Validate once more under the lock, join the watchers of everything read *)
(* and publish F_PARKED.                                                   *)
Park(f) ==
  /\ at[f] = "park"
  /\ \/ /\ ~Valid(f)
        /\ Restart(f)
        /\ UNCHANGED <<watchers, reads, status, claims>>
     \/ /\ Valid(f)
        /\ reads' = [reads EXCEPT ![f] = ReadTVars(f)]
        /\ watchers' = [tv \in TVar |-> IF tv \in ReadTVars(f)
                                          THEN watchers[tv] \cup {f} ELSE watchers[tv]]
        /\ status' = [status EXCEPT ![f] = "Parked"]
        /\ at' = [at EXCEPT ![f] = "parked"]
        /\ claims' = [claims EXCEPT ![f] = @ + 1]
        /\ UNCHANGED journal
  /\ UNCHANGED <<box, tick, past, todo, out, pending, poke>>

(* krt2i_claim_pending_after_park by the worker that parked the fiber.     *)
Claim(f) ==
  /\ claims[f] > 0
  /\ claims' = [claims EXCEPT ![f] = @ - 1]
  /\ \/ /\ f \in pending /\ status[f] = "Parked"
        /\ status' = [status EXCEPT ![f] = "Running"]
        /\ Interrupted(f)
     \/ /\ ~(f \in pending /\ status[f] = "Parked")
        /\ UNCHANGED <<watchers, reads, pending, out, at, status>>
  /\ UNCHANGED <<box, tick, past, todo, journal, poke>>

(* The woken fiber gets a worker: its first turn is an interruption point, *)
(* otherwise it enters the atomically once more.                           *)
Resume(f) ==
  /\ status[f] = "Runnable"
  /\ status' = [status EXCEPT ![f] = "Running"]
  /\ \/ /\ f \in pending
        /\ Interrupted(f)
     \/ /\ f \notin pending
        /\ at' = [at EXCEPT ![f] = "enter"]
        /\ UNCHANGED <<watchers, reads, pending, out>>
  /\ UNCHANGED <<box, tick, past, todo, journal, poke, claims>>

(* krt2i_interrupt_request from elsewhere: the flag, then the wake.        *)
Request(f) ==
  /\ f \in Victim /\ f \notin poke \cup pending /\ at[f] # "done" /\ out[f] = <<>>
  /\ pending' = pending \cup {f}
  /\ poke' = poke \cup {f}
  /\ UNCHANGED <<memory, todo, control, journal, reads, claims>>

Poke(f) ==
  /\ f \in poke
  /\ poke' = poke \ {f}
  /\ status' = IF status[f] = "Parked" THEN [status EXCEPT ![f] = "Runnable"] ELSE status
  /\ UNCHANGED <<memory, todo, at, out, journal, reads, pending, claims>>

----------------------------------------------------------------------------
Init ==
  /\ box = [tv \in TVar |-> [val |-> InitStore[tv], ver |-> 0]]
  /\ tick = 1
  /\ past = {[tv \in TVar |-> 0]}
  /\ watchers = [tv \in TVar |-> {}]
  /\ todo = [f \in Fiber |-> {}]
  /\ status = [f \in Fiber |-> "Running"]
  /\ at = [f \in Fiber |-> "enter"]
  /\ out = [f \in Fiber |-> <<>>]
  /\ cur = [f \in Fiber |-> Txn[f][1]]
  /\ frames = [f \in Fiber |-> <<>>]
  /\ rset = [f \in Fiber |-> {}]
  /\ wlog = [f \in Fiber |-> <<>>]
  /\ reads = [f \in Fiber |-> {}]
  /\ pending = {}
  /\ poke = {}
  /\ claims = [f \in Fiber |-> 0]

Worker(f) ==
  \/ Enter(f) \/ PushFrame(f) \/ ReadTVar(f) \/ WriteTVar(f) \/ PopFrame(f) \/ UnwindRetry(f)
  \/ Commit(f) \/ Wake(f) \/ Return(f) \/ Revalidate(f) \/ DeliverBeforePark(f) \/ Park(f)
  \/ Resume(f)

Next == \E f \in Fiber : Worker(f) \/ Claim(f) \/ Request(f) \/ Poke(f)

Spec == Init /\ [][Next]_vars

(* A worker goes on with its fiber, and every runnable fiber gets one (see *)
(* module Fibers); nobody has to interrupt.                                *)
FairSpec == Spec /\ \A f \in Fiber : WF_vars(Worker(f)) /\ WF_vars(Claim(f)) /\ WF_vars(Poke(f))

----------------------------------------------------------------------------
(* The TVars hold values with versions, the queues and lists hold fibers.  *)
TypeOK ==
  /\ box \in [TVar -> [val : Value, ver : Nat]]
  /\ tick \in Nat
  /\ watchers \in [TVar -> SUBSET Fiber]
  /\ todo \in [Fiber -> SUBSET Fiber]
  /\ status \in [Fiber -> {"Running", "Parked", "Runnable"}]
  /\ at \in [Fiber -> {"enter", "run", "wake", "revalidate", "deliver", "park", "parked", "done"}]
  /\ out \in [Fiber -> Seq(Outcome)]
  /\ cur \in [Fiber -> Tree]
  /\ frames \in [Fiber -> Seq(Frame)]
  /\ rset \in [Fiber -> SUBSET REnt]
  /\ wlog \in [Fiber -> Seq(WEnt)]
  /\ reads \in [Fiber -> SUBSET TVar]
  /\ past \subseteq [TVar -> Nat]
  /\ pending \subseteq Fiber /\ poke \subseteq Fiber
  /\ claims \in [Fiber -> Nat]

(* A version names one value for ever: whatever was read with the version  *)
(* a TVar still has was read with the value it still has.  This is what    *)
(* makes validation by versions enough.                                    *)
VersionsNameValues ==
  \A f \in Fiber : \A r \in rset[f] : box[r.tv].ver = r.ver => box[r.tv].val = r.val

(* A commit sees one consistent memory: at the instant it installs its     *)
(* writes, everything it has read is still the current value.              *)
CommitsAreAtomic ==
  [][\A f \in Fiber : at[f] = "run" /\ at'[f] = "wake" =>
       \A r \in rset[f] : box[r.tv].val = r.val]_vars

(* Every attempt, committed or not, reads one consistent memory: what it   *)
(* has read so far was in the TVars together at some instant (Spec.md,     *)
(* 32.2.9).  The code does not have this property: reads are validated     *)
(* only at the end of an attempt.                                          *)
ConsistentSnapshot ==
  \A f \in Fiber : \E m \in past : \A r \in rset[f] : m[r.tv] = r.ver

(* No lost wake-up: a retry-parked fiber watches everything it has read,   *)
(* unchanged since, or a fiber that changed some of it is about to wake    *)
(* it, or it has been woken.                                               *)
NoLostRetry ==
  \A f \in Fiber : status[f] = "Parked" =>
    \/ \A r \in rset[f] : f \in watchers[r.tv] /\ box[r.tv].ver = r.ver
    \/ \E g \in Fiber : at[g] = "wake" /\ f \in todo[g]

(* No stale watcher: a node on a watcher list belongs to a fiber that is   *)
(* still in that retry; one that committed or was interrupted has left.    *)
NoStaleWatcher ==
  \A tv \in TVar : \A f \in watchers[tv] :
    /\ tv \in reads[f]
    /\ at[f] = "parked" \/ at[f] = "enter"

(* The TVars' values, and the outcomes with the one that has committed but *)
(* has not returned to its fiber yet.                                      *)
Abstract == INSTANCE AtomicStm WITH
  store <- [tv \in TVar |-> box[tv].val],
  out <- [f \in Fiber |-> IF at[f] = "wake" THEN Append(out[f], Committed(cur[f].val))
                          ELSE out[f]]

(* stm.c is serializable: each commit has the effect and the result its    *)
(* transaction has when it runs alone at that instant.                     *)
Serializable == Abstract!Spec

(* Nor does it starve a transaction: one that can take effect and goes on  *)
(* being able to is neither left parked nor run again for ever.            *)
NotStarved == Abstract!NotStarved

(* retry and orElse: a fiber that is parked with no wake on its way is one *)
(* whose transaction, run alone now, would retry.                          *)
BlockedMeansRetry ==
  \A f \in Fiber :
    status[f] = "Parked" /\ (\A g \in Fiber : f \notin todo[g])
      => ~Abstract!Now(f).ok

=============================================================================
