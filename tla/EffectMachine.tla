---------------------------- MODULE EffectMachine ----------------------------
(***************************************************************************)
(* The control part of the machine that executes a fiber (runtime/rt.c):   *)
(* the continuation f->k, the do-scopes with their exit actions, the       *)
(* stack of mask frames, effect handlers with one-shot resumptions, and    *)
(* the drain of a captured segment whose handler clause did not resume it. *)
(* Frames are cells linked by next: perform cuts a chain and resume links  *)
(* it elsewhere in place, and a saved continuation sees both.              *)
(*                                                                         *)
(* A program is a term, with a choice where it does not matter what the    *)
(* program computes.  A step of the machine executes the term f->cur, or   *)
(* passes a value or an abnormal reason to the topmost frame.              *)
(*                                                                         *)
(* Left out: onExit and onInterrupt, and the abort of generated C code at  *)
(* a safe point.                                                           *)
(***************************************************************************)
EXTENDS Integers, Sequences, FiniteSetsExt, Functions

CONSTANTS Program,  \* terms: the programs the fiber may be given
          MaxReqs,  \* bound on the interrupts others request
          MaxScopes \* bound: no loop goes on once that many do-scopes were entered

ASSUME EffectAssumption == MaxReqs \in Nat /\ MaxScopes \in Nat

(* Terms.                                                                  *)
Pure == [op |-> "pure"]
Then(m, n) == [op |-> "then", m |-> m, n |-> n]
Throw == [op |-> "throw"]
CatchError(m, h) == [op |-> "catch", m |-> m, h |-> h]
Await == [op |-> "await"]
Poll == [op |-> "poll"]
Mask(state, m) == [op |-> "mask", state |-> state, m |-> m]
Restore(m) == [op |-> "restore", m |-> m]
DoScope(m) == [op |-> "doscope", m |-> m]
Defer(fin) == [op |-> "defer", fin |-> fin]
Return == [op |-> "return"]
RetScope(m) == [op |-> "retscope", m |-> m]
While(cond, m) == [op |-> "while", cond |-> cond, m |-> m]
Break == [op |-> "break"]
ContinueLoop == [op |-> "continue"]
Handle(label, deep, tail, clause, m) ==
  [op |-> "handle", label |-> label, deep |-> deep, tail |-> tail, clause |-> clause, m |-> m]
Perform(label) == [op |-> "perform", label |-> label]
Resume == [op |-> "resume"]
OneOf(terms) == [op |-> "oneOf", terms |-> terms]

VARIABLES
  f,        \* the fiber: see Fiber
  pending,  \* f->interrupt_pending
  ran,      \* history: how often each exit action has been started
  dead,     \* history: the cells of abandoned segments
  left,     \* history: the cells the continuation has been popped of
  raised,   \* history: number of failures and interrupts so far
  reqs      \* bound: interrupts left

vars == <<f, pending, ran, dead, left, raised, reqs>>

None == 0      \* NULL; as a continuation, g_done

(* Reasons.  The failing ones carry a Cause, the spine of Then as a        *)
(* sequence of failures and interrupts, numbered in the order they arise.  *)
Normal == [kind |-> "normal", cause |-> <<>>]
Drain == [kind |-> "drain", cause |-> <<>>]
Returned == [kind |-> "return", cause |-> <<>>]
Broken == [kind |-> "break", cause |-> <<>>]
Continued == [kind |-> "continue", cause |-> <<>>]
Raised(kind, n) == [kind |-> kind, cause |-> <<[kind |-> kind, n |-> n]>>]

(* Mutation: the cleanup's cause comes first.                              *)
CleanupFirst(primary, cleanup) ==
  IF cleanup.cause = <<>> THEN primary
  ELSE [kind |-> "reraise", cause |-> cleanup.cause \o primary.cause]

(* compose_reason_into.                                                    *)
Compose(primary, cleanup) ==
  IF cleanup.cause = <<>> THEN primary
  ELSE [kind |-> "reraise", cause |-> primary.cause \o cleanup.cause]

----------------------------------------------------------------------------
(* A closure: a term, the resumption and the mask frame it may refer to.   *)
Closure(term, env) == [term |-> term, env |-> env]
NoEnv == [res |-> None, mask |-> None]
Idle == Closure(Pure, NoEnv)

(* A fiber g: its continuation g.k in the cells g.heap, what it does next  *)
(* (g.mode, with g.cur or g.why), the dynamic state g.exits and g.mask,    *)
(* the active drain g.drain, and the structures cells refer to by number:  *)
(* mask frames, exit stacks, handlers, resumptions, FinSeqs, AbandonEnds.  *)
Fiber(action) ==
  [k |-> None, heap |-> <<>>, mode |-> "code", cur |-> Closure(action, NoEnv), why |-> Normal,
   exits |-> None, mask |-> None, drain |-> None,
   masks |-> <<>>, stacks |-> <<>>, handlers |-> <<>>, ress |-> <<>>, fins |-> <<>>,
   ends |-> <<>>]

Run(g, action) == [g EXCEPT !.mode = "code", !.cur = action, !.why = Normal]
Deliver(g) ==
  IF g.mode = "failed" THEN g ELSE [g EXCEPT !.mode = "value", !.cur = Idle, !.why = Normal]
Unwind(g, why) == [g EXCEPT !.mode = "unwind", !.cur = Idle, !.why = why]

(* apply_reason.                                                           *)
Apply(g, why) == IF why.kind = "normal" THEN Deliver(g) ELSE Unwind(g, why)

(* krt_fail: the process ends with an internal error.                      *)
Fail(g) == [g EXCEPT !.mode = "failed"]

(* capture_dynamic_state and install_dynamic_state.                        *)
Captured(g) == [exits |-> g.exits, mask |-> g.mask]
Install(g, state) == [g EXCEPT !.exits = state.exits, !.mask = state.mask]

(* cont_new2: ref and action stand for a and aux, state for aux2.          *)
Cell(kind, ref, action, state, next) ==
  [kind |-> kind, ref |-> ref, action |-> action, state |-> state, next |-> next]

Push(g, kind, ref, action, state) ==
  [g EXCEPT !.heap = Append(@, Cell(kind, ref, action, state, g.k)), !.k = Len(g.heap) + 1]

NoState == [exits |-> None, mask |-> None]
Pop(g) == [g EXCEPT !.k = g.heap[g.k].next]

(* The numbers met from start on when each is followed by next of it.      *)
Chain(next, start) ==
  LET after == [c \in 0..Len(next) |-> IF c = None THEN None ELSE next[c]]
      at[n \in 0..Len(next)] == IF n = 0 THEN start ELSE after[at[n - 1]]
  IN at

(* The cells from c on, None after the last one.                           *)
Segment(g, c) == Chain([x \in DOMAIN g.heap |-> g.heap[x].next], c)

----------------------------------------------------------------------------
(* Mask frames.  The states are ordered: Interruptible, Masked,            *)
(* Uninterruptible.                                                        *)
Interruptible == 0
Masked == 1
Uninterruptible == 2

(* The mask frames from the top down, and the ones of them in force.       *)
Frames(g) == Range(Chain([m \in DOMAIN g.masks |-> g.masks[m].prev], g.mask)) \ {None}
InForce(g) == {m \in Frames(g) : g.masks[m].active /\ ~g.masks[m].suspended}

(* recompute_mask_state.                                                   *)
Effective(g) == Max({g.masks[m].state : m \in InForce(g)} \cup {Interruptible})

(* krt2i_mask_push.                                                        *)
PushMask(g, state) ==
  [g EXCEPT !.masks = Append(@, [state |-> state, active |-> TRUE, suspended |-> FALSE,
                                 prev |-> g.mask]),
            !.mask = Len(g.masks) + 1]

(* krt2i_mask_pop with retire_mask_frame.                                  *)
PopMask(g, m) ==
  IF g.masks[m].active /\ g.mask = m
  THEN [g EXCEPT !.mask = g.masks[m].prev,
                 !.masks[m] = [@ EXCEPT !.active = FALSE, !.suspended = FALSE, !.prev = None]]
  ELSE Fail(g)

(* krt2i_mask_suspend succeeds for the topmost frame that is in force: a   *)
(* frame is younger than the ones below it.                                *)
Suspendable(g, m) == m \in InForce(g) /\ \A n \in InForce(g) : n <= m

(* discard_masks_to, from the top down to the frame below.                 *)
DiscardMasks(g, below) ==
  LET gone == {m \in Frames(g) : m > below}
      retired == [m \in DOMAIN g.masks |->
                    IF m \in gone
                    THEN [g.masks[m] EXCEPT !.active = FALSE, !.suspended = FALSE, !.prev = None]
                    ELSE g.masks[m]]
  IN IF below \in Frames(g) \cup {None} /\ \A m \in gone : g.masks[m].active
     THEN [g EXCEPT !.mask = below, !.masks = retired]
     ELSE Fail(g)

(* krt2i_mask_reinstate.                                                   *)
Reinstate(g, m) ==
  IF g.masks[m].active /\ g.masks[m].suspended
  THEN [g EXCEPT !.masks[m].suspended = FALSE]
  ELSE Fail(g)

----------------------------------------------------------------------------
(* Mutation: exit actions run in the mask state the scope is left in.      *)
NotMasked(g) == g

(* The Masked frame under which begin_finseq runs exit actions.            *)
MaskFinalizers(g) ==
  LET g1 == PushMask(g, Masked) IN Push(g1, "POPMASK", g1.mask, Idle, NoState)

(* begin_finseq: leave a do-scope for reason why, in the drain ae if any.  *)
BeginFinseq(g, xs, restore, why, ae) ==
  LET g1 == [g EXCEPT !.exits = restore]
      g2 == MaskFinalizers(g1)
      fs == [xs |-> xs, i |-> Len(g.stacks[xs].items), ae |-> ae,
             why |-> IF ae = None THEN why ELSE g.ends[ae].why]
  IN IF g.stacks[xs].items = <<>> THEN (IF ae = None THEN Apply(g1, why) ELSE Unwind(g1, Drain))
     ELSE Deliver(Push([g2 EXCEPT !.fins = Append(@, fs)], "FINSEQ", Len(g.fins) + 1, Idle,
                  NoState))

(* The terminal frame is spliced onto the tail of the segment.             *)
Spliced(heap, tail, cell) == Append([heap EXCEPT ![tail].next = Len(heap) + 1], cell)

(* begin_abandon_drain.                                                    *)
BeginDrain(g, r, why) ==
  LET res == g.ress[r]
      ae == [kont |-> g.k, state |-> Captured(g), why |-> why, prev |-> g.drain]
      e == Len(g.ends) + 1
      g1 == [g EXCEPT !.ends = Append(@, ae), !.drain = e,
                      !.heap = Spliced(@, res.tail, Cell("ABANDEND", e, Idle, NoState, g.k)),
                      !.k = res.head]
  IN Unwind(Install(g1, res.captured), Drain)

(* Mutation: the drain goes on where the clause would have gone on when    *)
(* the drain began.                                                        *)
Saved(c, ae) == ae.kont

(* The live successor of a drain's own terminal c.                         *)
Successor(c, ae) == c.next

(* Mutation: a foreign terminal leaves the dead drain active.              *)
KeepDrain(g, ae) == g

(* A foreign terminal ends its drain and every drain begun inside it.      *)
PopForeign(g, ae) == [g EXCEPT !.drain = ae.prev]

(* finish_abandon_drain at the terminal the walk has reached, with the     *)
(* reason live: the terminal of an outer drain, a nested or the only one.  *)
FinishDrain(g, live) ==
  LET c == g.heap[g.k]
      ae == g.ends[c.ref]
      out == Compose(ae.why, live)
      g1 == Install(g, ae.state)
      g2 == [g1 EXCEPT !.drain = ae.prev, !.k = Successor(c, ae)]
  IN IF c.ref # g.drain THEN Apply([PopForeign(g1, ae) EXCEPT !.k = ae.kont], out)
     ELSE IF ae.prev = None THEN Apply(g2, out)
     ELSE Unwind([g2 EXCEPT !.ends[ae.prev].why = Compose(@, out)], Drain)

----------------------------------------------------------------------------
Top == f.heap[f.k]
At(mode, kind) == f.mode = mode /\ f.k # None /\ Top.kind = kind

(* What a term leaves alone, and what passing the topmost frame does.      *)
Quiet == UNCHANGED <<pending, ran, dead, left, raised, reqs>>
Pops == left' = left \cup ({f.k} \ {f'.k})
Passes == Pops /\ UNCHANGED <<pending, ran, dead, raised, reqs>>

(* The term f->cur is op, with the environment env of its closure.         *)
Cur == f.cur.term
Env == f.cur.env
Executes(op) == f.mode = "code" /\ Cur.op = op
Body == Closure(Cur.m, Env)

ExecPure == Executes("pure") /\ f' = Deliver(f) /\ Quiet

ExecOneOf ==
  /\ Executes("oneOf")
  /\ \E t \in Cur.terms : f' = Run(f, Closure(t, Env))
  /\ Quiet

ExecThen ==
  /\ Executes("then")
  /\ f' = Run(Push(f, "THEN", None, Closure(Cur.n, Env), NoState), Body)
  /\ Quiet

ExecCatch ==
  /\ Executes("catch")
  /\ f' = Run(Push(f, "CATCH", None, Closure(Cur.h, Env), NoState), Body)
  /\ Quiet

ExecThrow ==
  /\ Executes("throw")
  /\ raised' = raised + 1
  /\ f' = Unwind(f, Raised("fail", raised'))
  /\ UNCHANGED <<pending, ran, dead, left, reqs>>

ExecReturn == Executes("return") /\ f' = Unwind(f, Returned) /\ Quiet

ExecRetScope ==
  /\ Executes("retscope")
  /\ f' = Run(Push(f, "RETSCOPE", None, Idle, NoState), Body)
  /\ Quiet

ExecBreak == Executes("break") /\ f' = Unwind(f, Broken) /\ Quiet
ExecContinue == Executes("continue") /\ f' = Unwind(f, Continued) /\ Quiet

(* OP_WHILE: the condition, then loop_branch, under a frame that stays     *)
(* until the loop is left.                                                 *)
ExecWhile ==
  /\ Executes("while")
  /\ LET iterate == Closure(Then(Cur.cond, [op |-> "branch", m |-> Cur.m]), Env)
     IN f' = Run(Push(f, "LOOP", None, iterate, NoState), iterate)
  /\ Quiet

(* loop_branch, on a condition that is true or false.                      *)
ExecBranch ==
  /\ Executes("branch")
  /\ \/ Len(f.stacks) < MaxScopes /\ f' = Run(f, Closure(DoScope(Cur.m), Env))
     \/ f' = Run(f, Closure(Break, Env))
  /\ Quiet

(* deliver_interrupt.                                                      *)
DeliverInterrupt(g) ==
  /\ pending' = FALSE
  /\ raised' = raised + 1
  /\ f' = Unwind(g, Raised("interrupt", raised'))
  /\ UNCHANGED <<ran, dead, left, reqs>>

(* A parking operation: its delivery points, or its value.                 *)
ExecAwait ==
  /\ Executes("await")
  /\ \/ pending /\ Effective(f) = Interruptible /\ DeliverInterrupt(f)
     \/ ~(pending /\ Effective(f) = Interruptible) /\ f' = Deliver(f) /\ Quiet

(* OP_POLL delivers in a Masked region too.                                *)
ExecPoll ==
  /\ Executes("poll")
  /\ \/ pending /\ Effective(f) # Uninterruptible /\ DeliverInterrupt(f)
     \/ ~(pending /\ Effective(f) # Uninterruptible) /\ f' = Deliver(f) /\ Quiet

(* OP_MASK and OP_UNINTERRUPTIBLE_MASK give the body a restore function.   *)
ExecMask ==
  /\ Executes("mask")
  /\ LET g == PushMask(f, Cur.state)
     IN f' = Run(Push(g, "POPMASK", g.mask, Idle, NoState),
                 Closure(Cur.m, [Env EXCEPT !.mask = g.mask]))
  /\ Quiet

(* OP_RESTORE: a capability that is stale or out of order does nothing; a  *)
(* suspension that leaves the fiber interruptible is a delivery point.     *)
ExecRestore ==
  /\ Executes("restore")
  /\ LET m == Env.mask
         ok == Suspendable(f, m)
         g == IF ok THEN Push([f EXCEPT !.masks[m].suspended = TRUE], "SETMASK", m, Idle, NoState)
              ELSE f
         now == ok /\ pending /\ Effective(g) = Interruptible
     IN \/ now /\ DeliverInterrupt(g)
        \/ ~now /\ f' = Run(g, Body) /\ Quiet

ExecDoScope ==
  /\ Executes("doscope")
  /\ LET g == [f EXCEPT !.stacks = Append(@, [items |-> <<>>, parent |-> f.exits]),
                        !.exits = Len(f.stacks) + 1]
     IN f' = Run(Push(g, "DOSCOPE", g.exits, Idle, Captured(f)), Body)
  /\ Quiet

(* Exit actions are numbered in the order of registration.                 *)
ExecDefer ==
  /\ Executes("defer")
  /\ f' = IF f.exits = None THEN Fail(f)
          ELSE Deliver([f EXCEPT !.stacks[f.exits].items =
                            Append(@, [n |-> Len(ran) + 1, action |-> Closure(Cur.fin, Env)])])
  /\ ran' = Append(ran, 0)
  /\ UNCHANGED <<pending, dead, left, raised, reqs>>

ExecHandle ==
  /\ Executes("handle")
  /\ LET h == [label |-> Cur.label, deep |-> Cur.deep, tail |-> Cur.deep /\ Cur.tail,
               clause |-> Closure(Cur.clause, Env)]
         g == [f EXCEPT !.handlers = Append(@, h)]
     IN f' = Run(Push(g, "HANDLER", Len(g.handlers), Idle, Captured(f)), Body)
  /\ Quiet

(* Mutation: the clause runs in the dynamic state of the operation site.   *)
StaysInside(g, prompt) == g

(* The clause runs in the dynamic state outside of the prompt.             *)
OutsidePrompt(g, prompt) == Install(g, prompt)

(* The nearest prompts for label: none or one.                             *)
Prompts(label) ==
  LET p == Segment(f, f.k)
      all == {i \in DOMAIN p : p[i] # None /\ f.heap[p[i]].kind = "HANDLER"
                                /\ f.handlers[f.heap[p[i]].ref].label = label}
  IN {[cell |-> p[i], last |-> IF i = 0 THEN None ELSE p[i - 1]] :
        i \in {j \in all : \A x \in all : j <= x}}

(* do_perform with the prompt at cell, last the frame above it.  A         *)
(* tail-resumptive clause leaves the chain as it is; else the frames above *)
(* the prompt are cut off, with a guard under the clause.                  *)
PerformAt(g, cell, last) ==
  LET c == g.heap[cell]
      h == g.handlers[c.ref]
      r == Len(g.ress) + 1
      cut == ~h.tail /\ last # None
      res == [head |-> IF h.tail \/ cut THEN g.k ELSE None, tail |-> IF cut THEN last ELSE None,
              captured |-> Captured(g), prompt |-> c.state, used |-> FALSE, tailRes |-> h.tail,
              handler |-> IF h.deep /\ ~h.tail THEN c.ref ELSE None]
      g1 == [g EXCEPT !.ress = Append(@, res), !.k = c.next,
                      !.heap = IF cut THEN [@ EXCEPT ![last].next = None] ELSE @]
      g2 == IF cut THEN Push(g1, "ABANDON", r, Idle, NoState) ELSE g1
  IN Run(OutsidePrompt(g2, c.state), Closure(h.clause.term, [h.clause.env EXCEPT !.res = r]))

(* An operation no handler is there for is an internal failure.            *)
ExecPerform ==
  /\ Executes("perform")
  /\ LET none == Prompts(Cur.label) = {}
     IN /\ raised' = IF none THEN raised + 1 ELSE raised
        /\ f' = IF none THEN Unwind(f, Raised("fail", raised'))
                ELSE LET p == CHOOSE x \in Prompts(Cur.label) : TRUE IN PerformAt(f, p.cell, p.last)
  /\ UNCHANGED <<pending, ran, dead, left, reqs>>

(* do_resume of the unused resumption r.                                   *)
ResumeWith(g, r) ==
  LET res == g.ress[r]
      g1 == [g EXCEPT !.ress[r].used = TRUE]
      g2 == Push(g1, "RESTORESTATE", None, Idle, Captured(g))
      g3 == IF res.handler = None THEN g2 ELSE Push(g2, "HANDLER", res.handler, Idle, Captured(g))
      g4 == IF res.head = None THEN g3
            ELSE [g3 EXCEPT !.heap[res.tail].next = g3.k, !.k = res.head]
  IN Deliver(Install(IF res.tailRes THEN [DiscardMasks(g1, res.prompt.mask) EXCEPT !.k = res.head]
                     ELSE g4, res.captured))

(* A resumption that has been used is an internal failure.                 *)
ExecResume ==
  /\ Executes("resume")
  /\ LET used == f.ress[Env.res].used
     IN /\ raised' = IF used THEN raised + 1 ELSE raised
        /\ f' = IF used THEN Unwind(f, Raised("fail", raised')) ELSE ResumeWith(f, Env.res)
  /\ UNCHANGED <<pending, ran, dead, left, reqs>>

----------------------------------------------------------------------------
(* deliver, by the kind of the topmost frame.                              *)
DeliverThen == At("value", "THEN") /\ f' = Run(Pop(f), Top.action) /\ Passes
DeliverCatch == At("value", "CATCH") /\ f' = Pop(f) /\ Passes
DeliverRetScope == At("value", "RETSCOPE") /\ f' = Pop(f) /\ Passes

(* unwind, by the kind of the topmost frame.                               *)
UnwindThen == At("unwind", "THEN") /\ f' = Pop(f) /\ Passes

(* A typed failure is handled here, also one that was re-raised as such.   *)
Catches(why) == why.kind = "fail" \/ (why.kind = "reraise" /\ Len(why.cause) = 1
                                        /\ why.cause[1].kind = "fail")

UnwindCatch ==
  /\ At("unwind", "CATCH")
  /\ f' = IF Catches(f.why) THEN Run(Pop(f), Top.action) ELSE Pop(f)
  /\ Passes

(* A return ends here.                                                     *)
UnwindRetScope ==
  /\ At("unwind", "RETSCOPE")
  /\ f' = IF f.why.kind = "return" THEN Deliver(Pop(f)) ELSE Pop(f)
  /\ Passes

(* The frame of a loop at the end of an iteration, by a value or continue. *)
(* It is a safe point: a request that can be delivered is; a request made  *)
(* while the fiber cedes there counts as one before it.                    *)
BackEdge ==
  /\ At("value", "LOOP") \/ (At("unwind", "LOOP") /\ f.why.kind = "continue")
  /\ \/ pending /\ Effective(f) = Interruptible /\ DeliverInterrupt(f)
     \/ ~(pending /\ Effective(f) = Interruptible) /\ f' = Run(f, Top.action) /\ Quiet

(* A break ends here, any other reason passes.                             *)
UnwindLoop ==
  /\ At("unwind", "LOOP") /\ f.why.kind # "continue"
  /\ f' = IF f.why.kind = "break" THEN Deliver(Pop(f)) ELSE Pop(f)
  /\ Passes

(* The frames that deliver and unwind treat alike.                         *)
LeaveMask ==
  /\ At("value", "POPMASK") \/ At("unwind", "POPMASK")
  /\ f' = PopMask(Pop(f), Top.ref)
  /\ Passes

LeaveRestore ==
  /\ At("value", "SETMASK") \/ At("unwind", "SETMASK")
  /\ f' = Reinstate(Pop(f), Top.ref)
  /\ Passes

RestoreState ==
  /\ At("value", "RESTORESTATE") \/ At("unwind", "RESTORESTATE")
  /\ f' = Install(Pop(f), Top.state)
  /\ Passes

(* The return clause is the identity.                                      *)
LeaveHandler ==
  /\ At("value", "HANDLER") \/ At("unwind", "HANDLER")
  /\ f' = Install(Pop(f), Top.state)
  /\ Passes

LeaveScope ==
  /\ \/ /\ At("value", "DOSCOPE")
        /\ f' = BeginFinseq(Pop(f), Top.ref, Top.state.exits, Normal, None)
     \/ /\ At("unwind", "DOSCOPE")
        /\ f' = BeginFinseq(Pop(f), Top.ref, Top.state.exits, f.why,
                            IF f.why.kind = "drain" THEN f.drain ELSE None)
  /\ Passes

(* Mutation: exit actions run in the order of registration.                *)
OldestFirst(fs) == f.stacks[fs.xs].items[Len(f.stacks[fs.xs].items) + 1 - fs.i]

(* The exit action to run next.                                            *)
NextExit(fs) == f.stacks[fs.xs].items[fs.i]

RunExit ==
  /\ At("value", "FINSEQ")
  /\ LET fs == f.fins[Top.ref]
     IN /\ fs.i > 0
        /\ f' = Run([f EXCEPT !.fins[Top.ref].i = @ - 1], NextExit(fs).action)
        /\ ran' = [ran EXCEPT ![NextExit(fs).n] = @ + 1]
  /\ UNCHANGED <<pending, dead, left, raised, reqs>>

(* Mutation: after a scope's exit actions the reason applies to what is    *)
(* left of the abandoned segment.                                          *)
AppliesReason(g, fs) == Apply(g, fs.why)

(* A drain takes over the reason and goes on.                              *)
DrainsOn(g, fs) == Unwind([g EXCEPT !.ends[fs.ae].why = fs.why], Drain)

EndExits ==
  /\ At("value", "FINSEQ")
  /\ LET fs == f.fins[Top.ref]
     IN /\ fs.i = 0
        /\ \/ fs.ae = None /\ f' = Apply(Pop(f), fs.why)
           \/ fs.ae # None /\ f' = DrainsOn(Pop(f), fs)
  /\ Passes

(* Mutation: an exit action that fails ends the sequence.                  *)
DropsRest(g) == Unwind(Pop(g), Compose(g.fins[g.heap[g.k].ref].why, g.why))

(* An exit action has failed: the reasons are composed, the sequence goes  *)
(* on.                                                                     *)
GoesOn(g) == Deliver([g EXCEPT !.fins[g.heap[g.k].ref].why = Compose(@, g.why)])

ExitFails == At("unwind", "FINSEQ") /\ f' = GoesOn(f) /\ Passes

(* The clause above this guard is over.                                    *)
LeaveClause ==
  /\ At("value", "ABANDON") \/ At("unwind", "ABANDON")
  /\ LET res == f.ress[Top.ref]
     IN \/ res.used /\ f' = Pop(f) /\ UNCHANGED dead
        \/ /\ ~res.used
           /\ f' = BeginDrain(Pop(f), Top.ref, IF f.mode = "value" THEN Normal ELSE f.why)
           /\ dead' = dead \cup (Range(Segment(f, res.head)) \ {None})
  /\ Pops
  /\ UNCHANGED <<pending, ran, raised, reqs>>

EndDrain ==
  /\ At("value", "ABANDEND") \/ At("unwind", "ABANDEND")
  /\ f' = FinishDrain(f, IF f.mode = "value" THEN Normal ELSE f.why)
  /\ Passes

(* KK_DONE.  A drain that gets here stops without finishing the fiber.     *)
Done ==
  /\ f.mode \in {"value", "unwind"} /\ f.k = None
  /\ f' = [f EXCEPT !.mode = IF f.mode = "unwind" /\ f.why.kind = "drain" THEN "stranded"
                             ELSE "done"]
  /\ Passes

(* Somebody requests an interrupt.                                         *)
Request ==
  /\ reqs > 0 /\ reqs' = reqs - 1
  /\ pending' = TRUE
  /\ UNCHANGED <<f, ran, dead, left, raised>>

----------------------------------------------------------------------------
Init ==
  /\ \E action \in Program : f = Fiber(action)
  /\ pending = FALSE /\ ran = <<>> /\ dead = {} /\ left = {} /\ raised = 0 /\ reqs = MaxReqs

Execute ==
  \/ ExecPure \/ ExecOneOf \/ ExecThen \/ ExecCatch \/ ExecThrow \/ ExecReturn \/ ExecRetScope
  \/ ExecAwait \/ ExecPoll \/ ExecMask \/ ExecRestore \/ ExecDoScope \/ ExecDefer \/ ExecHandle
  \/ ExecPerform \/ ExecResume \/ ExecWhile \/ ExecBranch \/ ExecBreak \/ ExecContinue

Continue ==
  \/ DeliverThen \/ DeliverCatch \/ DeliverRetScope \/ UnwindThen \/ UnwindCatch
  \/ UnwindRetScope \/ LeaveMask \/ LeaveRestore \/ RestoreState \/ LeaveHandler \/ LeaveScope
  \/ RunExit \/ EndExits \/ ExitFails \/ LeaveClause \/ EndDrain \/ Done \/ BackEdge \/ UnwindLoop

Next == Execute \/ Continue \/ Request

Spec == Init /\ [][Next]_vars

(* The worker goes on with the fiber, and its computation does not diverge.*)
FairSpec == Spec /\ WF_vars(Execute \/ Continue)

----------------------------------------------------------------------------
(* Every exit action runs at most once, and has run when the fiber is done,*)
(* whichever way the scope was left and however often its continuation was *)
(* cut off, resumed or abandoned (begin_finseq, begin_abandon_drain).      *)
ExitActionsRunOnce ==
  /\ \A a \in DOMAIN ran : ran[a] <= 1
  /\ f.mode = "done" => \A a \in DOMAIN ran : ran[a] = 1

(* The machine never gives up (krt_fail, an escaped operation, a used      *)
(* resumption): mask frames are popped in the order they were pushed,      *)
(* across captured segments too, and what a term refers to is there.       *)
NoInternalError ==
  /\ f.mode # "failed"
  /\ Executes("perform") => Prompts(Cur.label) # {}
  /\ Executes("resume") => ~f.ress[Env.res].used

(* The fiber is finished: no drain loops, misses its terminal or ends at   *)
(* the base of the fiber (finish_abandon_drain).                           *)
FiberEnds == <>(f.mode = "done")

(* Scope x is s or one of the scopes around it.                            *)
Around(x, s) == x \in Range(Chain([n \in DOMAIN f.stacks |-> f.stacks[n].parent], s))

(* The scope of exit action a.                                             *)
Home(a) ==
  CHOOSE x \in DOMAIN f.stacks : \E i \in DOMAIN f.stacks[x].items : f.stacks[x].items[i].n = a

(* Exit actions run last in, first out: when one is started, those         *)
(* registered later in its scope and those of the scopes inside have been  *)
(* started, in an abandoned segment as on an ordinary exit.                *)
InnerFirst ==
  [][\A a, b \in DOMAIN ran :
       ran'[a] > ran[a] /\ ran[b] = 0 /\ b # a /\ Around(Home(a), Home(b)) =>
         Home(b) = Home(a) /\ b < a]_vars

(* A composed cause lists failures in the order in which they arose: the   *)
(* primary first, then those of the exit actions, also when a drain        *)
(* composes them with the clause's (compose_reason_into).                  *)
CausesInOrder == \A i, j \in DOMAIN f.why.cause : i < j => f.why.cause[i].n < f.why.cause[j].n

(* An exit action's own code is never interruptible, in any mask state the *)
(* scope is left in (begin_finseq).                                        *)
FinalizersMasked ==
  f.mode = "code" =>
    LET p == Segment(f, f.k)
        Own(i) == \A j \in 0..(i - 1) :
                    f.heap[p[j]].kind \notin {"ABANDON", "HANDLER", "RESTORESTATE", "SETMASK"}
    IN \A i \in DOMAIN p :
         p[i] # None /\ f.heap[p[i]].kind = "FINSEQ" /\ Own(i) => Effective(f) # Interruptible

(* What follows an operation whose clause has not resumed is not executed: *)
(* of an abandoned segment only the exit actions run.                      *)
AbandonedIsNotRun == [][At("value", "THEN") => f.k \notin dead]_vars

(* Nothing is forgotten: when the fiber is done, each frame that holds     *)
(* code, a handler of errors, a scope or a mask has been passed, so a      *)
(* resumption or a drain never loses the continuation it is spliced into.  *)
NoFrameIsLost ==
  f.mode = "done" =>
    \A c \in DOMAIN f.heap :
      f.heap[c].kind \in {"THEN", "CATCH", "DOSCOPE", "POPMASK", "SETMASK", "RETSCOPE", "LOOP"}
        => c \in left
=============================================================================
