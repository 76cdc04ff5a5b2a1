---------------------------- MODULE EffectProofs ----------------------------
(***************************************************************************)
(* Proofs about EffectMachine for every program without effect handlers,   *)
(* however its sequencing, error handling, masks, restored regions,        *)
(* do-scopes, exit actions, loops and returns are nested, and wherever it  *)
(* is interrupted.                                                         *)
(***************************************************************************)
EXTENDS EffectMachine, SequenceTheorems, NaturalsInduction, WellFoundedInduction, TLAPS

(* The terms of T may run anywhere, those of S inside a do-scope: both are *)
(* closed under what the machine makes of a term, an exit action runs in   *)
(* the scope around its own, and nothing is deferred outside of scopes.    *)
PlainOps ==
  {"pure", "then", "throw", "catch", "await", "poll", "mask", "restore", "doscope", "defer",
   "return", "retscope", "while", "branch", "break", "continue", "oneOf"}

ClosedIn(t, X, T, S) ==
  /\ t.op \in PlainOps
  /\ t.op = "oneOf" => t.terms \subseteq X
  /\ t.op = "then" => t.m \in X /\ t.n \in X
  /\ t.op = "catch" => t.m \in X /\ t.h \in X
  /\ t.op \in {"restore", "retscope", "mask"} => t.m \in X
  /\ t.op = "mask" => t.state \in {Masked, Uninterruptible}
  /\ t.op = "doscope" => t.m \in S
  /\ t.op = "defer" => t.fin \in T
  /\ t.op = "while" => Then(t.cond, [op |-> "branch", m |-> t.m]) \in X
  /\ t.op = "branch" => DoScope(t.m) \in X

Plain(T, S) ==
  /\ Pure \in T /\ Break \in T /\ T \subseteq S
  /\ \A t \in T : ClosedIn(t, T, T, S) /\ t.op # "defer"
  /\ \A t \in S : ClosedIn(t, S, T, S)

Allowed(T, S, exits) == IF exits = None THEN T ELSE S

(* What the fields of a fiber and of its frames hold.                      *)
Closures(X, masks) == [term : X, env : [res : {None}, mask : masks \cup {None}]]
FrameKinds ==
  {"THEN", "CATCH", "RETSCOPE", "LOOP", "POPMASK", "SETMASK", "DOSCOPE", "FINSEQ"}

Cells(S) ==
  [kind : FrameKinds, ref : Nat, action : Closures(S, Nat), state : [exits : Nat, mask : Nat],
   next : Nat]
MaskFrames == [state : 0..2, active : BOOLEAN, suspended : BOOLEAN, prev : Nat]
Stacks(S) == [items : Seq([n : Nat, action : Closures(S, Nat)]), parent : Nat]
Reasons ==
  [kind : {"normal", "return", "break", "continue", "fail", "interrupt", "reraise"},
   cause : Seq([kind : {"fail", "interrupt"}, n : Nat])]
Sequences == [xs : Nat, i : Nat, ae : {None}, why : Reasons]

Fields ==
  {"k", "heap", "mode", "cur", "why", "exits", "mask", "drain", "masks", "stacks", "handlers",
   "ress", "fins", "ends"}

(* The continuation as a stack: position i of 1..n holds the cell st[i]    *)
(* with the frame fr[i], and when it is the topmost one, ms[i] is the top  *)
(* of the mask stack and xs[i] the current scope.  Of the exit actions of  *)
(* scope x the first todo[x] have not been started, and user are the mask  *)
(* frames a restore function may name.                                     *)
Numbers == [Nat -> Nat]
Shadows(S) ==
  [n : Nat, st : Numbers, fr : [Nat -> Cells(S)], ms : Numbers, xs : Numbers, todo : Numbers,
   user : SUBSET Nat]

(* The cells from g.k on are the stack, every other cell has been left.    *)
Links(S, w, g, l) ==
  /\ g.heap \in Seq(Cells(S))
  /\ w.st[0] = None /\ g.k = w.st[w.n]
  /\ \A i \in 1..w.n :
       /\ w.st[i] \in 1..Len(g.heap) /\ g.heap[w.st[i]] = w.fr[i]
       /\ w.fr[i].next = w.st[i - 1] /\ w.st[i - 1] < w.st[i]
       /\ w.fr[i].kind \in FrameKinds
  /\ \A c \in 1..Len(g.heap) : c \in l \/ \E i \in 1..w.n : w.st[i] = c

Kind(w, i) == w.fr[i].kind
Ref(w, i) == w.fr[i].ref

(* Each POPMASK is for the mask frame that is on top when it is, and the   *)
(* frames of the POPMASKs are the mask stack.                              *)
MaskStack(w, g) ==
  /\ g.masks \in Seq(MaskFrames)
  /\ w.ms[0] = None /\ g.mask = w.ms[w.n]
  /\ \A i \in 0..w.n : w.ms[i] <= Len(g.masks)
  /\ \A i, j \in 0..w.n : i <= j => w.ms[i] <= w.ms[j]
  /\ \A i \in 1..w.n : Kind(w, i) # "POPMASK" => w.ms[i] = w.ms[i - 1]
  /\ \A i \in 1..w.n : Kind(w, i) = "POPMASK" =>
       /\ w.ms[i - 1] < w.ms[i] /\ Ref(w, i) = w.ms[i]
       /\ g.masks[w.ms[i]].prev = w.ms[i - 1] /\ g.masks[w.ms[i]].active

(* Each SETMASK is for a suspended frame below it, of its own.             *)
Suspensions(w, g) ==
  /\ \A i \in 1..w.n : Kind(w, i) = "SETMASK" =>
       /\ Ref(w, i) \in 1..w.ms[i]
       /\ g.masks[Ref(w, i)].active /\ g.masks[Ref(w, i)].suspended
  /\ \A i, j \in 1..w.n :
       i < j /\ Kind(w, i) = "SETMASK" /\ Kind(w, j) = "SETMASK" => Ref(w, i) # Ref(w, j)

(* Exit actions run under a Masked frame that no restore function names.   *)
Finalizers(w, g) ==
  /\ w.user \subseteq 1..Len(g.masks)
  /\ \A i \in 1..w.n : Kind(w, i) = "FINSEQ" =>
       /\ i > 1 /\ Kind(w, i - 1) = "POPMASK"
       /\ g.masks[w.ms[i]].state = Masked /\ ~g.masks[w.ms[i]].suspended
       /\ w.ms[i] \notin w.user

(* Each DOSCOPE is for the scope that is current when it is on top.        *)
Scopes(T, w, g) ==
  /\ g.stacks \in Seq(Stacks(T))
  /\ \A x \in 1..Len(g.stacks) : g.stacks[x].parent < x /\ w.todo[x] <= Len(g.stacks[x].items)
  /\ w.xs[0] = None /\ g.exits = w.xs[w.n]
  /\ \A i \in 1..w.n : Kind(w, i) # "DOSCOPE" => w.xs[i] = w.xs[i - 1]
  /\ \A i \in 1..w.n : Kind(w, i) = "DOSCOPE" =>
       /\ w.xs[i] \in 1..Len(g.stacks) /\ Ref(w, i) = w.xs[i]
       /\ w.fr[i].state.exits = w.xs[i - 1]
       /\ w.todo[w.xs[i]] = Len(g.stacks[w.xs[i]].items)
  /\ \A i \in 0..w.n : w.xs[i] # None =>
       \E j \in 1..i : Kind(w, j) = "DOSCOPE" /\ w.xs[j] = w.xs[i]

(* Frame i has the exit actions of scope Own(w, g, i) to run.              *)
Owns(w, i) == Kind(w, i) \in {"DOSCOPE", "FINSEQ"}
Own(w, g, i) == IF Kind(w, i) = "DOSCOPE" THEN Ref(w, i) ELSE g.fins[Ref(w, i)].xs

(* Each scope with exit actions to run has one frame, inner scopes higher. *)
Owners(w, g) ==
  /\ g.fins \in Seq(Sequences)
  /\ \A i \in 1..w.n : Kind(w, i) = "FINSEQ" =>
       /\ Ref(w, i) \in 1..Len(g.fins)
       /\ g.fins[Ref(w, i)].xs \in 1..Len(g.stacks)
       /\ g.fins[Ref(w, i)].i = w.todo[g.fins[Ref(w, i)].xs]
  /\ \A i, j \in 1..w.n : i < j /\ Owns(w, i) /\ Owns(w, j) => Own(w, g, i) < Own(w, g, j)
  /\ \A x \in 1..Len(g.stacks) :
       w.todo[x] > 0 => \E i \in 1..w.n : Owns(w, i) /\ Own(w, g, i) = x

(* Exit action a is one item of one scope and has been started once unless *)
(* it is among those to run.                                               *)
Items(g, x) == g.stacks[x].items

ExitActions(w, g, r) ==
  /\ r \in Seq(0..1)
  /\ \A x \in 1..Len(g.stacks) : \A j \in 1..Len(Items(g, x)) :
       /\ Items(g, x)[j].n \in 1..Len(r)
       /\ r[Items(g, x)[j].n] = IF j <= w.todo[x] THEN 0 ELSE 1
  /\ \A x \in 1..Len(g.stacks) : \A i, j \in 1..Len(Items(g, x)) :
       i < j => Items(g, x)[i].n < Items(g, x)[j].n
  /\ \A x, y \in 1..Len(g.stacks) : \A i \in 1..Len(Items(g, x)), j \in 1..Len(Items(g, y)) :
       Items(g, x)[i].n = Items(g, y)[j].n => x = y
  /\ \A a \in 1..Len(r) : \E x \in 1..Len(g.stacks) : \E j \in 1..Len(Items(g, x)) :
       Items(g, x)[j].n = a

(* The causes that wait in the stack are older the lower they are, and the *)
(* reason of the moment is the newest.                                     *)
Ordered(why) == \A i, j \in 1..Len(why.cause) : i < j => why.cause[i].n < why.cause[j].n
Newer(p, q) ==
  \A i \in 1..Len(p.cause), j \in 1..Len(q.cause) : p.cause[i].n < q.cause[j].n
UpTo(why, n) == \A i \in 1..Len(why.cause) : why.cause[i].n <= n

Waiting(w, g, i) == g.fins[Ref(w, i)].why

Causes(w, g, last) ==
  /\ last \in Nat
  /\ g.why \in Reasons /\ Ordered(g.why) /\ UpTo(g.why, last)
  /\ \A i \in 1..w.n : Kind(w, i) = "FINSEQ" =>
       /\ Ordered(Waiting(w, g, i)) /\ UpTo(Waiting(w, g, i), last)
       /\ Newer(Waiting(w, g, i), g.why)
  /\ \A i, j \in 1..w.n : i < j /\ Kind(w, i) = "FINSEQ" /\ Kind(w, j) = "FINSEQ" =>
       Newer(Waiting(w, g, i), Waiting(w, g, j))

(* What runs, and what will, is allowed in the scope it will run in.       *)
Running(T, S, w, g) == g.mode = "code" => g.cur \in Closures(Allowed(T, S, g.exits), w.user)

Actions(T, S, w, g) ==
  /\ \A i \in 1..w.n : Kind(w, i) \in {"THEN", "CATCH", "LOOP"} =>
       w.fr[i].action \in Closures(Allowed(T, S, w.xs[i]), w.user)
  /\ \A x \in 1..Len(g.stacks) : \A j \in 1..Len(Items(g, x)) :
       Items(g, x)[j].action \in Closures(T, w.user)

Control(w, g) ==
  /\ g = [x \in Fields |-> g[x]]
  /\ g.mode \in {"code", "value", "unwind", "done"} /\ g.drain = None
  /\ g.mode = "done" => w.n = 0

Frame(T, S, w, g, l, r) ==
  /\ Links(S, w, g, l) /\ MaskStack(w, g) /\ Suspensions(w, g) /\ Finalizers(w, g)
  /\ Scopes(T, w, g) /\ Owners(w, g) /\ ExitActions(w, g, r) /\ Actions(T, S, w, g)

Shape(T, S, w, g, l, r, last) ==
  Control(w, g) /\ Frame(T, S, w, g, l, r) /\ Causes(w, g, last) /\ Running(T, S, w, g)

Inv(T, S) == \E w \in Shadows(S) : Shape(T, S, w, f, left, ran, raised)

----------------------------------------------------------------------------
(* The stack with a cell more, or with the topmost one gone.               *)
Grown(w, c, cell, m, x, todo, user) ==
  [n |-> w.n + 1, st |-> [w.st EXCEPT ![w.n + 1] = c], fr |-> [w.fr EXCEPT ![w.n + 1] = cell],
   ms |-> [w.ms EXCEPT ![w.n + 1] = m], xs |-> [w.xs EXCEPT ![w.n + 1] = x],
   todo |-> todo, user |-> user]

Shrunk(w) == [w EXCEPT !.n = @ - 1]

SameBelow(w, v, n) ==
  \A i \in 0..n : v.st[i] = w.st[i] /\ v.fr[i] = w.fr[i] /\ v.ms[i] = w.ms[i] /\ v.xs[i] = w.xs[i]

(* The parts of a stack with a cell more.                                  *)
LEMMA GrownStack ==
  ASSUME NEW S, NEW w \in Shadows(S), NEW c \in Nat, NEW cell \in Cells(S), NEW m \in Nat,
         NEW x \in Nat, NEW todo \in Numbers, NEW user \in SUBSET Nat,
         NEW v, v = Grown(w, c, cell, m, x, todo, user)
  PROVE  /\ v \in Shadows(S) /\ v.n = w.n + 1 /\ w.n \in Nat /\ v.n \in Nat
         /\ SameBelow(w, v, w.n)
         /\ v.st[v.n] = c /\ v.fr[v.n] = cell /\ v.ms[v.n] = m /\ v.xs[v.n] = x
         /\ v.todo = todo /\ v.user = user
<1>1. w.n \in Nat /\ w.n + 1 \in Nat /\ \A i \in 0..w.n : i \in Nat /\ i # w.n + 1
  BY DEF Shadows
<1>2. DOMAIN w.st = Nat /\ DOMAIN w.fr = Nat /\ DOMAIN w.ms = Nat /\ DOMAIN w.xs = Nat
  BY DEF Shadows, Numbers
<1>3. /\ v.n = w.n + 1 /\ v.st = [w.st EXCEPT ![w.n + 1] = c]
      /\ v.fr = [w.fr EXCEPT ![w.n + 1] = cell] /\ v.ms = [w.ms EXCEPT ![w.n + 1] = m]
      /\ v.xs = [w.xs EXCEPT ![w.n + 1] = x] /\ v.todo = todo /\ v.user = user
  BY DEF Grown
<1>4. v \in Shadows(S)
  BY DEF Shadows, Grown, Numbers
<1>5. SameBelow(w, v, w.n)
  BY <1>1, <1>2, <1>3 DEF SameBelow
<1>6. v.st[v.n] = c /\ v.fr[v.n] = cell /\ v.ms[v.n] = m /\ v.xs[v.n] = x
  BY <1>1, <1>2, <1>3
<1> QED
  BY <1>1, <1>3, <1>4, <1>5, <1>6

(* The parts of a stack with the topmost cell gone.                        *)
LEMMA ShrunkStack ==
  ASSUME NEW S, NEW w \in Shadows(S), w.n > 0, NEW v, v = Shrunk(w)
  PROVE  /\ v \in Shadows(S) /\ v.n = w.n - 1 /\ w.n \in Nat /\ v.n \in Nat
         /\ v.st = w.st /\ v.fr = w.fr /\ v.ms = w.ms /\ v.xs = w.xs
         /\ v.todo = w.todo /\ v.user = w.user
  BY DEF Shadows, Shrunk

(* The fiber h is g with cell pushed, or with the topmost one popped, and   *)
(* the stack v is w after that.                                            *)
Pushes(g, h, cell) ==
  /\ cell.next = g.k
  /\ h.heap = Append(g.heap, cell) /\ h.k = Len(g.heap) + 1

Extends(w, v, c, cell) ==
  v.n = w.n + 1 /\ SameBelow(w, v, w.n) /\ v.st[v.n] = c /\ v.fr[v.n] = cell

PopsTop(g, h) == h.heap = g.heap /\ h.k = g.heap[g.k].next
Cuts(w, v) ==
  v.n = w.n - 1 /\ v.st = w.st /\ v.fr = w.fr /\ v.ms = w.ms /\ v.xs = w.xs /\ v.user = w.user

(* A cell that is pushed is the new top.                                   *)
LEMMA LinksPush ==
  ASSUME NEW S, NEW w \in Shadows(S), NEW v \in Shadows(S), NEW g, NEW h, NEW l,
         NEW cell \in Cells(S), Links(S, w, g, l), cell.kind \in FrameKinds,
         Pushes(g, h, cell), Extends(w, v, h.k, cell)
  PROVE  Links(S, v, h, l)
<1>1. w.n \in Nat /\ v.n \in Nat
  BY DEF Shadows
<1>2. v.n = w.n + 1 /\ v.st[v.n] = h.k /\ v.fr[v.n] = cell
  BY DEF Extends
<1>s. g.heap \in Seq(Cells(S))
  BY DEF Links
<1>3. w.st[0] = None /\ g.k = w.st[w.n]
  BY DEF Links
<1>4. \A i \in 1..w.n :
        /\ w.st[i] \in 1..Len(g.heap) /\ g.heap[w.st[i]] = w.fr[i]
        /\ w.fr[i].next = w.st[i - 1] /\ w.st[i - 1] < w.st[i]
        /\ w.fr[i].kind \in FrameKinds
  BY DEF Links
<1>5. \A c \in 1..Len(g.heap) : c \in l \/ \E i \in 1..w.n : w.st[i] = c
  BY DEF Links
<1>t. h.heap \in Seq(Cells(S))
  BY <1>s DEF Pushes
<1>6. Len(h.heap) = Len(g.heap) + 1 /\ Len(g.heap) \in Nat /\ h.k = Len(g.heap) + 1
  BY <1>s DEF Pushes
<1>7. /\ \A c \in 1..Len(g.heap) : h.heap[c] = g.heap[c]
      /\ h.heap[Len(g.heap) + 1] = cell
  BY <1>s DEF Pushes
<1>8. \A i \in 0..w.n : v.st[i] = w.st[i] /\ v.fr[i] = w.fr[i]
  BY DEF Extends, SameBelow
<1>9. cell.next = g.k
  BY DEF Pushes
<1>10. ASSUME NEW i \in 1..v.n
       PROVE  /\ v.st[i] \in 1..Len(h.heap) /\ h.heap[v.st[i]] = v.fr[i]
              /\ v.fr[i].next = v.st[i - 1] /\ v.st[i - 1] < v.st[i]
              /\ v.fr[i].kind \in FrameKinds
  <2>1. CASE i <= w.n
    <3>1. i \in 1..w.n /\ i \in 0..w.n /\ i - 1 \in 0..w.n
      BY <1>1, <2>1
    <3>2. v.st[i] = w.st[i] /\ v.fr[i] = w.fr[i] /\ v.st[i - 1] = w.st[i - 1]
      BY <1>8, <3>1
    <3>3. /\ w.st[i] \in 1..Len(g.heap) /\ g.heap[w.st[i]] = w.fr[i]
          /\ w.fr[i].next = w.st[i - 1] /\ w.st[i - 1] < w.st[i]
          /\ w.fr[i].kind \in FrameKinds
      BY <1>4, <3>1
    <3>4. h.heap[w.st[i]] = g.heap[w.st[i]] /\ w.st[i] \in 1..Len(h.heap)
      BY <1>6, <1>7, <3>3
    <3> QED
      BY <3>2, <3>3, <3>4
  <2>2. CASE i = v.n
    <3>1. i - 1 = w.n /\ w.n \in 0..w.n
      BY <1>1, <1>2, <2>2
    <3>2. v.st[i - 1] = g.k
      BY <1>3, <1>8, <3>1
    <3>3. g.k < h.k
      <4>1. CASE w.n = 0
        BY <1>3, <1>6, <4>1 DEF None
      <4>2. CASE w.n # 0
        BY <1>1, <1>3, <1>4, <1>6, <4>2
      <4> QED
        BY <4>1, <4>2
    <3> QED
      BY <1>2, <1>6, <1>7, <1>9, <2>2, <3>2, <3>3
  <2> QED
    BY <1>1, <1>2, <2>1, <2>2
<1>11. ASSUME NEW c \in 1..Len(h.heap)
       PROVE  c \in l \/ \E i \in 1..v.n : v.st[i] = c
  <2>1. CASE c \in 1..Len(g.heap)
    BY <1>1, <1>2, <1>5, <1>8, <2>1
  <2>2. CASE c = Len(g.heap) + 1
    BY <1>1, <1>2, <1>6, <2>2
  <2> QED
    BY <1>6, <2>1, <2>2
<1>12. v.st[0] = None /\ h.k = v.st[v.n]
  BY <1>1, <1>2, <1>3, <1>8
<1> QED
  BY <1>t, <1>10, <1>11, <1>12 DEF Links

(* The topmost cell, and what is left when it is popped.                   *)
LEMMA LinksTop ==
  ASSUME NEW S, NEW w \in Shadows(S), NEW g, NEW l, Links(S, w, g, l)
  PROVE  /\ g.k \in Nat /\ (g.k # None <=> w.n > 0)
         /\ w.n > 0 => g.k \in 1..Len(g.heap) /\ g.heap[g.k] = w.fr[w.n]
                        /\ g.heap[g.k].next = w.st[w.n - 1] /\ w.st[w.n - 1] < g.k
                        /\ w.st[w.n - 1] \in Nat /\ g.heap[g.k] \in Cells(S)
                        /\ g.heap[g.k].kind \in FrameKinds
<1>1. w.n \in Nat /\ \A i \in Nat : w.st[i] \in Nat /\ w.fr[i] \in Cells(S)
  BY DEF Shadows, Numbers
<1>2. g.heap \in Seq(Cells(S)) /\ w.st[0] = None /\ g.k = w.st[w.n]
  BY DEF Links
<1>3. CASE w.n = 0
  BY <1>1, <1>2, <1>3 DEF None
<1>4. CASE w.n > 0
  <2>1. w.n \in 1..w.n /\ w.n - 1 \in Nat
    BY <1>1, <1>4
  <2>2. /\ w.st[w.n] \in 1..Len(g.heap) /\ g.heap[w.st[w.n]] = w.fr[w.n]
        /\ w.fr[w.n].next = w.st[w.n - 1] /\ w.st[w.n - 1] < w.st[w.n]
        /\ w.fr[w.n].kind \in FrameKinds
    BY <2>1 DEF Links
  <2>3. w.st[w.n - 1] \in Nat /\ w.fr[w.n] \in Cells(S)
    BY <1>1, <2>1
  <2>4. g.k # None /\ g.k \in Nat
    BY <1>2, <2>2 DEF None
  <2> QED
    BY <1>2, <1>4, <2>2, <2>3, <2>4
<1> QED
  BY <1>1, <1>3, <1>4

(* A cell that is popped counts as left, the others stay the stack.        *)
LEMMA LinksPop ==
  ASSUME NEW S, NEW w \in Shadows(S), NEW v \in Shadows(S), NEW g, NEW h, NEW l, NEW p,
         Links(S, w, g, l), w.n > 0, Cuts(w, v), PopsTop(g, h), l \cup {g.k} \subseteq p
  PROVE  Links(S, v, h, p)
<1>1. w.n \in Nat /\ v.n \in Nat
  BY DEF Shadows
<1>2. v.n = w.n - 1 /\ v.st = w.st /\ v.fr = w.fr
  BY DEF Cuts
<1>3. ASSUME NEW c \in 1..Len(g.heap)
      PROVE  c \in p \/ \E i \in 1..v.n : v.st[i] = c
  <2>1. c \in l \/ \E i \in 1..w.n : w.st[i] = c
    BY DEF Links
  <2>2. g.k = w.st[w.n]
    BY DEF Links
  <2>3. ASSUME NEW i \in 1..w.n, w.st[i] = c
        PROVE  c \in p \/ \E j \in 1..v.n : v.st[j] = c
    <3>1. CASE i = w.n
      BY <2>2, <2>3, <3>1
    <3>2. CASE i # w.n
      <4>1. i \in 1..v.n /\ v.st[i] = c
        BY <1>1, <1>2, <2>3, <3>2
      <4> QED
        BY <4>1
    <3> QED
      BY <3>1, <3>2
  <2> QED
    BY <2>1, <2>3
<1>4. h.heap = g.heap /\ h.k = v.st[v.n]
  BY LinksTop, <1>2 DEF PopsTop
<1>5. 1..v.n \subseteq 1..w.n
  BY <1>1, <1>2
<1>6. \A i \in 1..v.n :
        /\ v.st[i] \in 1..Len(h.heap) /\ h.heap[v.st[i]] = v.fr[i]
        /\ v.fr[i].next = v.st[i - 1] /\ v.st[i - 1] < v.st[i]
        /\ v.fr[i].kind \in FrameKinds
  BY <1>2, <1>4, <1>5 DEF Links
<1>7. h.heap \in Seq(Cells(S)) /\ v.st[0] = None
  BY <1>2, <1>4 DEF Links
<1> QED
  BY <1>3, <1>4, <1>6, <1>7 DEF Links

----------------------------------------------------------------------------
(* A frame that is not about masks is pushed or popped: the mask stack     *)
(* stays as it is.                                                         *)
Masking(w, g) == MaskStack(w, g) /\ Suspensions(w, g) /\ Finalizers(w, g)
SameMasks(g, h) == h.masks = g.masks /\ h.mask = g.mask

(* Pushing a frame of another kind keeps what holds of masks.              *)
LEMMA MaskingPush ==
  ASSUME NEW S, NEW w \in Shadows(S), NEW v \in Shadows(S), NEW g, NEW h, NEW c, NEW cell,
         Masking(w, g), SameMasks(g, h), Extends(w, v, c, cell), v.ms[v.n] = w.ms[w.n],
         cell.kind \notin {"POPMASK", "SETMASK", "FINSEQ"}, v.user = w.user
  PROVE  Masking(v, h)
<1>1. w.n \in Nat /\ v.n \in Nat /\ v.n = w.n + 1 /\ v.fr[v.n] = cell
  BY DEF Shadows, Extends
<1>2. \A i \in 0..w.n : v.fr[i] = w.fr[i] /\ v.ms[i] = w.ms[i]
  BY DEF Extends, SameBelow
<1>3. h.masks = g.masks /\ h.mask = g.mask
  BY DEF SameMasks
<1>4. \A i \in 1..v.n : i = v.n \/ (i \in 1..w.n /\ i \in 0..w.n /\ i - 1 \in 0..w.n)
  BY <1>1
<1>5. v.n - 1 = w.n /\ w.n \in 0..w.n /\ 0 \in 0..w.n
  BY <1>1
<1>6. \A i \in 0..v.n : i = v.n \/ i \in 0..w.n
  BY <1>1
<1>7. MaskStack(v, h)
  <2>1. MaskStack(w, g)
    BY DEF Masking
  <2>2. h.masks \in Seq(MaskFrames)
    BY <1>3, <2>1 DEF MaskStack
  <2>3. v.ms[0] = None /\ h.mask = v.ms[v.n]
    BY <1>2, <1>3, <1>5, <2>1 DEF MaskStack
  <2>4. \A i \in 0..v.n : v.ms[i] <= Len(h.masks)
    BY <1>2, <1>3, <1>5, <1>6, <2>1 DEF MaskStack
  <2>5. ASSUME NEW i \in 0..v.n, NEW j \in 0..v.n, i <= j
        PROVE  v.ms[i] <= v.ms[j]
    <3>1. \A a, b \in 0..w.n : a <= b => w.ms[a] <= w.ms[b]
      BY <2>1 DEF MaskStack
    <3>2. CASE j = v.n
      BY <1>1, <1>2, <1>5, <1>6, <2>5, <3>1, <3>2
    <3>3. CASE j # v.n
      BY <1>1, <1>2, <1>6, <2>5, <3>1, <3>3
    <3> QED
      BY <3>2, <3>3
  <2>6. ASSUME NEW i \in 1..v.n, Kind(v, i) # "POPMASK"
        PROVE  v.ms[i] = v.ms[i - 1]
    BY <1>1, <1>2, <1>4, <1>5, <2>1, <2>6 DEF MaskStack, Kind
  <2>7. ASSUME NEW i \in 1..v.n, Kind(v, i) = "POPMASK"
        PROVE  /\ v.ms[i - 1] < v.ms[i] /\ Ref(v, i) = v.ms[i]
               /\ h.masks[v.ms[i]].prev = v.ms[i - 1] /\ h.masks[v.ms[i]].active
    BY <1>1, <1>2, <1>3, <1>4, <2>1, <2>7 DEF MaskStack, Kind, Ref
  <2> QED
    BY <2>2, <2>3, <2>4, <2>5, <2>6, <2>7 DEF MaskStack
<1>8. Suspensions(v, h)
  BY <1>1, <1>2, <1>3, <1>4 DEF Masking, Suspensions, Kind, Ref
<1>9. Finalizers(v, h)
  <2>1. ASSUME NEW i \in 1..v.n, Kind(v, i) = "FINSEQ"
        PROVE  /\ i > 1 /\ Kind(v, i - 1) = "POPMASK"
               /\ h.masks[v.ms[i]].state = Masked /\ ~h.masks[v.ms[i]].suspended
               /\ v.ms[i] \notin v.user
    BY <1>1, <1>2, <1>3, <1>4, <2>1 DEF Masking, Finalizers, Kind
  <2> QED
    BY <1>3, <2>1 DEF Masking, Finalizers
<1> QED
  BY <1>7, <1>8, <1>9 DEF Masking

(* Popping a frame other than a POPMASK keeps what holds of masks.         *)
LEMMA MaskingPop ==
  ASSUME NEW S, NEW w \in Shadows(S), NEW v \in Shadows(S), NEW g, NEW h,
         Masking(w, g), SameMasks(g, h), w.n > 0, Cuts(w, v), Kind(w, w.n) # "POPMASK"
  PROVE  Masking(v, h)
<1>1. w.n \in Nat /\ v.n \in Nat /\ v.n = w.n - 1
  BY DEF Shadows, Cuts
<1>2. v.fr = w.fr /\ v.ms = w.ms /\ v.user = w.user
  BY DEF Cuts
<1>3. h.masks = g.masks /\ h.mask = g.mask
  BY DEF SameMasks
<1>4. 0..v.n \subseteq 0..w.n /\ 1..v.n \subseteq 1..w.n /\ w.n \in 1..w.n
  BY <1>1
<1>5. MaskStack(v, h)
  BY <1>1, <1>2, <1>3, <1>4 DEF Masking, MaskStack, Kind, Ref
<1>6. Suspensions(v, h)
  BY <1>2, <1>3, <1>4 DEF Masking, Suspensions, Kind, Ref
<1>7. Finalizers(v, h)
  BY <1>2, <1>3, <1>4 DEF Masking, Finalizers, Kind, Ref
<1> QED
  BY <1>5, <1>6, <1>7 DEF Masking

(* A mask frame is pushed, with the frame that pops it.                    *)
NewMask(g, h, state) ==
  /\ h.mask = Len(g.masks) + 1
  /\ h.masks = Append(g.masks, [state |-> state, active |-> TRUE, suspended |-> FALSE,
                                prev |-> g.mask])

(* A mask frame that is pushed is the newest; the others are as before.    *)
LEMMA NewMaskFrames ==
  ASSUME NEW w, NEW g, NEW h, NEW state \in 0..2, MaskStack(w, g), NewMask(g, h, state),
         g.mask \in Nat
  PROVE  /\ Len(g.masks) \in Nat
         /\ Len(h.masks) = Len(g.masks) + 1 /\ h.mask = Len(g.masks) + 1
         /\ \A m \in 1..Len(g.masks) : h.masks[m] = g.masks[m]
         /\ h.masks[h.mask].prev = g.mask /\ h.masks[h.mask].active
         /\ h.masks[h.mask].state = state /\ ~h.masks[h.mask].suspended
<1>1. g.masks \in Seq(MaskFrames)
  BY DEF MaskStack
<1>2. PICK x : x = [state |-> state, active |-> TRUE, suspended |-> FALSE, prev |-> g.mask]
  OBVIOUS
<1>3. x \in MaskFrames /\ x.prev = g.mask /\ x.active /\ x.state = state /\ ~x.suspended
  BY <1>2 DEF MaskFrames
<1>4. h.masks = Append(g.masks, x) /\ h.mask = Len(g.masks) + 1
  BY <1>2 DEF NewMask
<1>5. /\ Len(h.masks) = Len(g.masks) + 1 /\ Len(g.masks) \in Nat
      /\ \A m \in 1..Len(g.masks) : h.masks[m] = g.masks[m]
      /\ h.masks[Len(g.masks) + 1] = x
  BY <1>1, <1>3, <1>4
<1> QED
  BY <1>3, <1>4, <1>5

(* The mask frames keep their type when one is pushed.                     *)
LEMMA NewMaskTyped ==
  ASSUME NEW w, NEW g, NEW h, NEW state \in 0..2, MaskStack(w, g), NewMask(g, h, state),
         g.mask \in Nat
  PROVE  h.masks \in Seq(MaskFrames)
  BY DEF MaskStack, NewMask, MaskFrames

(* Pushing a mask frame with its POPMASK keeps what holds of masks; only   *)
(* the new frame may be named by a further restore function.               *)
LEMMA MaskingMask ==
  ASSUME NEW S, NEW w \in Shadows(S), NEW v \in Shadows(S), NEW g, NEW h, NEW state \in 0..2,
         NEW c, NEW cell, Masking(w, g), NewMask(g, h, state), Extends(w, v, c, cell),
         v.ms[v.n] = h.mask, cell.kind = "POPMASK", cell.ref = h.mask,
         v.user \subseteq w.user \cup {h.mask}
  PROVE  Masking(v, h)
<1>1. w.n \in Nat /\ v.n \in Nat /\ v.n = w.n + 1 /\ v.fr[v.n] = cell
  BY DEF Shadows, Extends
<1>2. \A i \in 0..w.n : v.fr[i] = w.fr[i] /\ v.ms[i] = w.ms[i]
  BY DEF Extends, SameBelow
<1>n. \A i \in Nat : w.ms[i] \in Nat
  BY DEF Shadows, Numbers
<1>a. MaskStack(w, g)
  BY DEF Masking
<1>b. g.mask = w.ms[w.n] /\ g.mask \in Nat
  BY <1>1, <1>n, <1>a DEF MaskStack
<1>s. h.masks \in Seq(MaskFrames)
  BY <1>a, <1>b, NewMaskTyped
<1>3. /\ Len(g.masks) \in Nat
      /\ Len(h.masks) = Len(g.masks) + 1 /\ h.mask = Len(g.masks) + 1
      /\ \A m \in 1..Len(g.masks) : h.masks[m] = g.masks[m]
      /\ h.masks[h.mask].prev = g.mask /\ h.masks[h.mask].active
      /\ h.masks[h.mask].state = state /\ ~h.masks[h.mask].suspended
  <2>1. MaskStack(w, g) /\ NewMask(g, h, state) /\ g.mask \in Nat
    BY <1>a, <1>b
  <2> QED
    BY <2>1, NewMaskFrames, ZenonT(30)
<1>4. \A i \in 1..v.n : i = v.n \/ (i \in 1..w.n /\ i \in 0..w.n /\ i - 1 \in 0..w.n)
  BY <1>1
<1>5. v.n - 1 = w.n /\ w.n \in 0..w.n /\ 0 \in 0..w.n
  BY <1>1
<1>6. \A i \in 0..v.n : i = v.n \/ i \in 0..w.n
  BY <1>1
<1>7. \A i \in 0..w.n : w.ms[i] \in Nat /\ w.ms[i] <= Len(g.masks)
  BY <1>n, <1>a DEF MaskStack
<1>8. MaskStack(v, h)
  <2>1. v.ms[0] = None /\ h.mask = v.ms[v.n]
    BY <1>2, <1>5, <1>a DEF MaskStack
  <2>2. \A i \in 0..v.n : v.ms[i] <= Len(h.masks)
    BY <1>2, <1>3, <1>6, <1>7
  <2>3. ASSUME NEW i \in 0..v.n, NEW j \in 0..v.n, i <= j
        PROVE  v.ms[i] <= v.ms[j]
    <3>1. CASE j = v.n
      BY <1>2, <1>3, <1>6, <1>7, <3>1
    <3>2. CASE j # v.n
      <4>1. i \in 0..w.n /\ j \in 0..w.n
        BY <1>1, <2>3, <3>2
      <4> QED
        BY <1>2, <1>a, <2>3, <4>1 DEF MaskStack
    <3> QED
      BY <3>1, <3>2
  <2>4. ASSUME NEW i \in 1..v.n, Kind(v, i) # "POPMASK"
        PROVE  v.ms[i] = v.ms[i - 1]
    BY <1>1, <1>2, <1>4, <1>a, <2>4 DEF MaskStack, Kind
  <2>5. ASSUME NEW i \in 1..v.n, Kind(v, i) = "POPMASK"
        PROVE  /\ v.ms[i - 1] < v.ms[i] /\ Ref(v, i) = v.ms[i]
               /\ h.masks[v.ms[i]].prev = v.ms[i - 1] /\ h.masks[v.ms[i]].active
    <3>1. CASE i = v.n
      <4>1. i - 1 = w.n /\ v.ms[i - 1] = g.mask /\ v.ms[i] = h.mask /\ Ref(v, i) = h.mask
        BY <1>1, <1>2, <1>5, <1>b, <3>1 DEF Ref
      <4>2. g.mask < h.mask
        BY <1>3, <1>5, <1>7, <1>b
      <4> QED
        BY <1>3, <4>1, <4>2
    <3>2. CASE i # v.n
      <4>1. i \in 1..w.n /\ i \in 0..w.n /\ i - 1 \in 0..w.n
        BY <1>4, <3>2
      <4>2. /\ w.ms[i - 1] < w.ms[i] /\ Ref(w, i) = w.ms[i]
            /\ g.masks[w.ms[i]].prev = w.ms[i - 1] /\ g.masks[w.ms[i]].active
        BY <1>2, <1>a, <2>5, <4>1 DEF MaskStack, Kind
      <4>3. w.ms[i] \in 1..Len(g.masks)
        BY <1>7, <4>1, <4>2
      <4> QED
        BY <1>2, <1>3, <4>1, <4>2, <4>3 DEF Ref
    <3> QED
      BY <3>1, <3>2
  <2> QED
    BY <1>s, <2>1, <2>2, <2>3, <2>4, <2>5 DEF MaskStack
<1>9. Suspensions(v, h)
  <2>1. ASSUME NEW i \in 1..v.n, Kind(v, i) = "SETMASK"
        PROVE  /\ Ref(v, i) \in 1..v.ms[i]
               /\ h.masks[Ref(v, i)].active /\ h.masks[Ref(v, i)].suspended
    <3>1. i \in 1..w.n /\ i \in 0..w.n
      BY <1>1, <1>4, <2>1 DEF Kind
    <3>2. /\ Ref(w, i) \in 1..w.ms[i]
          /\ g.masks[Ref(w, i)].active /\ g.masks[Ref(w, i)].suspended
      BY <1>2, <2>1, <3>1 DEF Masking, Suspensions, Kind
    <3>3. Ref(w, i) \in 1..Len(g.masks)
      BY <1>3, <1>7, <3>1, <3>2
    <3> QED
      BY <1>2, <1>3, <3>1, <3>2, <3>3 DEF Ref
  <2>2. ASSUME NEW i \in 1..v.n, NEW j \in 1..v.n, i < j, Kind(v, i) = "SETMASK",
               Kind(v, j) = "SETMASK"
        PROVE  Ref(v, i) # Ref(v, j)
    BY <1>1, <1>2, <1>4, <2>2 DEF Masking, Suspensions, Kind, Ref
  <2> QED
    BY <2>1, <2>2 DEF Suspensions
<1>10. Finalizers(v, h)
  <2>1. ASSUME NEW i \in 1..v.n, Kind(v, i) = "FINSEQ"
        PROVE  /\ i > 1 /\ Kind(v, i - 1) = "POPMASK"
               /\ h.masks[v.ms[i]].state = Masked /\ ~h.masks[v.ms[i]].suspended
               /\ v.ms[i] \notin v.user
    <3>1. i \in 1..w.n /\ i \in 0..w.n /\ i - 1 \in 0..w.n
      BY <1>1, <1>4, <2>1 DEF Kind
    <3>2. /\ i > 1 /\ Kind(w, i - 1) = "POPMASK"
          /\ g.masks[w.ms[i]].state = Masked /\ ~g.masks[w.ms[i]].suspended
          /\ w.ms[i] \notin w.user
      BY <1>2, <2>1, <3>1 DEF Masking, Finalizers, Kind
    <3>3. i - 1 \in 1..w.n /\ Kind(w, i) # "POPMASK"
      BY <1>1, <1>2, <2>1, <3>1, <3>2 DEF Kind
    <3>4. w.ms[i - 1] < w.ms[i] \/ w.ms[i] = w.ms[i - 1]
      BY <1>a, <3>1, <3>3 DEF MaskStack
    <3>5. w.ms[i - 1 - 1] < w.ms[i - 1] /\ w.ms[i - 1 - 1] \in Nat
      BY <1>1, <1>7, <1>a, <3>2, <3>3 DEF MaskStack
    <3>6. w.ms[i] \in 1..Len(g.masks)
      BY <1>7, <3>1, <3>4, <3>5
    <3>7. h.masks[w.ms[i]] = g.masks[w.ms[i]] /\ w.ms[i] # h.mask
      BY <1>3, <3>6
    <3>8. v.ms[i] = w.ms[i] /\ Kind(v, i - 1) = Kind(w, i - 1)
      BY <1>2, <3>1 DEF Kind
    <3> QED
      BY <3>2, <3>7, <3>8
  <2>2. v.user \subseteq 1..Len(h.masks)
    BY <1>3 DEF Masking, Finalizers
  <2> QED
    BY <2>1, <2>2 DEF Finalizers
<1> QED
  BY <1>8, <1>9, <1>10 DEF Masking

(* The topmost mask frame is popped, with the frame that does it.          *)
OldMask(g, h) ==
  /\ h.mask = g.masks[g.mask].prev
  /\ h.masks = [g.masks EXCEPT ![g.mask] = [@ EXCEPT !.active = FALSE, !.suspended = FALSE,
                                                     !.prev = None]]

(* Popping the topmost mask frame leaves the others as they are.           *)
LEMMA OldMaskFrames ==
  ASSUME NEW w, NEW g, NEW h, MaskStack(w, g), OldMask(g, h)
  PROVE  /\ Len(h.masks) = Len(g.masks)
         /\ \A m \in 1..Len(g.masks) : m # g.mask => h.masks[m] = g.masks[m]
<1>1. g.masks \in Seq(MaskFrames)
  BY DEF MaskStack
<1>2. PICK x : x = [g.masks[g.mask] EXCEPT !.active = FALSE, !.suspended = FALSE, !.prev = None]
  OBVIOUS
<1>3. h.masks = [g.masks EXCEPT ![g.mask] = x]
  BY <1>2 DEF OldMask
<1> QED
  BY <1>1, <1>3

(* The mask frames keep their type when one is popped.                     *)
LEMMA OldMaskTyped ==
  ASSUME NEW w, NEW g, NEW h, MaskStack(w, g), OldMask(g, h), g.mask \in 1..Len(g.masks)
  PROVE  h.masks \in Seq(MaskFrames)
<1>1. g.masks \in Seq(MaskFrames)
  BY DEF MaskStack
<1>2. PICK x : x = [g.masks[g.mask] EXCEPT !.active = FALSE, !.suspended = FALSE, !.prev = None]
  OBVIOUS
<1>3. h.masks = [g.masks EXCEPT ![g.mask] = x]
  BY <1>2 DEF OldMask
<1>4. g.masks[g.mask] \in MaskFrames
  BY <1>1
<1>5. x \in MaskFrames
  BY <1>2, <1>4 DEF MaskFrames, None
<1> QED
  BY <1>1, <1>3, <1>5

(* A POPMASK on top is for the topmost mask frame, which is active:        *)
(* popping both keeps what holds of masks.                                 *)
LEMMA MaskingUnmask ==
  ASSUME NEW S, NEW w \in Shadows(S), NEW v \in Shadows(S), NEW g, NEW h,
         Masking(w, g), w.n > 0, Cuts(w, v), Kind(w, w.n) = "POPMASK", OldMask(g, h)
  PROVE  /\ Masking(v, h)
         /\ Ref(w, w.n) = g.mask /\ g.masks[g.mask].active
<1>1. w.n \in Nat /\ v.n \in Nat /\ v.n = w.n - 1 /\ \A i \in Nat : w.ms[i] \in Nat
  BY DEF Shadows, Numbers, Cuts
<1>2. v.fr = w.fr /\ v.ms = w.ms /\ v.user = w.user
  BY DEF Cuts
<1>a. MaskStack(w, g)
  BY DEF Masking
<1>3. 0..v.n \subseteq 0..w.n /\ 1..v.n \subseteq 1..w.n /\ w.n \in 1..w.n /\ w.n \in 0..w.n
  BY <1>1
<1>4. /\ w.ms[w.n - 1] < w.ms[w.n] /\ Ref(w, w.n) = w.ms[w.n] /\ g.mask = w.ms[w.n]
      /\ g.masks[w.ms[w.n]].prev = w.ms[w.n - 1] /\ g.masks[w.ms[w.n]].active
  BY <1>3, <1>a DEF MaskStack
<1>5. g.mask \in 1..Len(g.masks)
  <2>1. w.ms[w.n] <= Len(g.masks) /\ w.ms[w.n - 1] \in Nat /\ w.ms[w.n] \in Nat
    BY <1>1, <1>3, <1>a DEF MaskStack
  <2> QED
    BY <1>4, <2>1, SMT
<1>s. h.masks \in Seq(MaskFrames)
  BY <1>a, <1>5, OldMaskTyped
<1>6. /\ Len(h.masks) = Len(g.masks)
      /\ \A m \in 1..Len(g.masks) : m # g.mask => h.masks[m] = g.masks[m]
  <2>1. MaskStack(w, g) /\ OldMask(g, h)
    BY <1>a
  <2> QED
    BY <2>1, OldMaskFrames
<1>7. h.mask = v.ms[v.n]
  BY <1>1, <1>2, <1>4 DEF OldMask
<1>8. \A i \in 0..v.n : w.ms[i] \in Nat /\ w.ms[i] <= Len(g.masks) /\ w.ms[i] < g.mask
  <2>1. \A i \in 0..v.n : w.ms[i] <= w.ms[w.n - 1]
    <3>1. w.n - 1 \in 0..w.n /\ \A i \in 0..v.n : i <= w.n - 1
      BY <1>1, <1>3
    <3> QED
      BY <1>3, <1>a, <3>1 DEF MaskStack
  <2>2. w.ms[w.n - 1] \in Nat /\ g.mask \in Nat /\ w.ms[w.n - 1] < g.mask
    BY <1>1, <1>3, <1>4
  <2>3. \A i \in 0..v.n : w.ms[i] \in Nat /\ w.ms[i] <= Len(g.masks)
    BY <1>1, <1>3, <1>a DEF MaskStack
  <2> QED
    BY <2>1, <2>2, <2>3
<1>9. MaskStack(v, h)
  <2>1. ASSUME NEW i \in 1..v.n, Kind(v, i) = "POPMASK"
        PROVE  /\ v.ms[i - 1] < v.ms[i] /\ Ref(v, i) = v.ms[i]
               /\ h.masks[v.ms[i]].prev = v.ms[i - 1] /\ h.masks[v.ms[i]].active
    <3>1. /\ w.ms[i - 1] < w.ms[i] /\ Ref(w, i) = w.ms[i]
          /\ g.masks[w.ms[i]].prev = w.ms[i - 1] /\ g.masks[w.ms[i]].active
      BY <1>2, <1>3, <1>a, <2>1 DEF MaskStack, Kind
    <3>2. w.ms[i] \in 1..Len(g.masks) /\ w.ms[i] # g.mask
      <4>1. i \in 0..v.n /\ i - 1 \in 0..v.n
        BY <1>1
      <4> QED
        BY <1>5, <1>8, <3>1, <4>1
    <3> QED
      BY <1>2, <1>6, <3>1, <3>2 DEF Ref
  <2>2. v.ms[0] = None
    BY <1>2, <1>a DEF MaskStack
  <2>3. \A i \in 0..v.n : v.ms[i] <= Len(h.masks)
    BY <1>2, <1>6, <1>8
  <2>4. \A i, j \in 0..v.n : i <= j => v.ms[i] <= v.ms[j]
    BY <1>2, <1>3, <1>a DEF MaskStack
  <2>5. \A i \in 1..v.n : Kind(v, i) # "POPMASK" => v.ms[i] = v.ms[i - 1]
    BY <1>2, <1>3, <1>a DEF MaskStack, Kind
  <2> QED
    BY <1>s, <1>7, <2>1, <2>2, <2>3, <2>4, <2>5 DEF MaskStack
<1>10. Suspensions(v, h)
  <2>1. ASSUME NEW i \in 1..v.n, Kind(v, i) = "SETMASK"
        PROVE  /\ Ref(v, i) \in 1..v.ms[i]
               /\ h.masks[Ref(v, i)].active /\ h.masks[Ref(v, i)].suspended
    <3>1. /\ Ref(w, i) \in 1..w.ms[i]
          /\ g.masks[Ref(w, i)].active /\ g.masks[Ref(w, i)].suspended
      BY <1>2, <1>3, <2>1 DEF Masking, Suspensions, Kind
    <3>2. i \in 0..v.n
      BY <1>1
    <3>3. Ref(w, i) \in 1..Len(g.masks) /\ Ref(w, i) # g.mask
      BY <1>5, <1>8, <3>1, <3>2
    <3> QED
      BY <1>2, <1>6, <3>1, <3>3 DEF Ref
  <2>2. \A i, j \in 1..v.n :
          i < j /\ Kind(v, i) = "SETMASK" /\ Kind(v, j) = "SETMASK" => Ref(v, i) # Ref(v, j)
    BY <1>2, <1>3 DEF Masking, Suspensions, Kind, Ref
  <2> QED
    BY <2>1, <2>2 DEF Suspensions
<1>11. Finalizers(v, h)
  <2>1. ASSUME NEW i \in 1..v.n, Kind(v, i) = "FINSEQ"
        PROVE  /\ i > 1 /\ Kind(v, i - 1) = "POPMASK"
               /\ h.masks[v.ms[i]].state = Masked /\ ~h.masks[v.ms[i]].suspended
               /\ v.ms[i] \notin v.user
    <3>1. /\ i > 1 /\ Kind(w, i - 1) = "POPMASK"
          /\ g.masks[w.ms[i]].state = Masked /\ ~g.masks[w.ms[i]].suspended
          /\ w.ms[i] \notin w.user
      BY <1>2, <1>3, <2>1 DEF Masking, Finalizers, Kind
    <3>2. w.ms[i] = w.ms[i - 1] /\ w.ms[i - 1 - 1] < w.ms[i - 1]
      <4>1. i - 1 \in 1..w.n /\ i \in 1..w.n
        BY <1>1, <3>1
      <4> QED
        BY <1>2, <1>a, <2>1, <3>1, <4>1 DEF MaskStack, Kind
    <3>3. w.ms[i] \in 1..Len(g.masks) /\ w.ms[i] # g.mask
      <4>1. i \in 0..v.n /\ i - 1 - 1 \in 0..v.n
        BY <1>1, <3>1
      <4> QED
        BY <1>5, <1>8, <3>2, <4>1
    <3> QED
      BY <1>2, <1>6, <3>1, <3>3 DEF Kind
  <2> QED
    BY <1>2, <1>6, <2>1 DEF Masking, Finalizers
<1> QED
  BY <1>4, <1>9, <1>10, <1>11 DEF Masking

(* A mask frame is suspended or reinstated.                                *)
SetSuspended(g, h, m, b) ==
  h.mask = g.mask /\ h.masks = [g.masks EXCEPT ![m].suspended = b]

(* Suspending or reinstating a frame changes nothing else.                 *)
LEMMA SuspendedFrames ==
  ASSUME NEW w, NEW g, NEW h, NEW m, NEW b \in BOOLEAN, MaskStack(w, g), SetSuspended(g, h, m, b),
         m \in 1..Len(g.masks)
  PROVE  /\ Len(h.masks) = Len(g.masks) /\ h.mask = g.mask
         /\ \A x \in 1..Len(g.masks) :
              /\ h.masks[x].prev = g.masks[x].prev
              /\ h.masks[x].active = g.masks[x].active
              /\ h.masks[x].state = g.masks[x].state
              /\ x # m => h.masks[x].suspended = g.masks[x].suspended
         /\ h.masks[m].suspended = b
<1>1. g.masks \in Seq(MaskFrames)
  BY DEF MaskStack
<1>2. \A x \in 1..Len(g.masks) : g.masks[x] \in MaskFrames
  BY <1>1
<1>3. PICK y : y = [g.masks[m] EXCEPT !.suspended = b]
  OBVIOUS
<1>4. h.masks = [g.masks EXCEPT ![m] = y]
  BY <1>3 DEF SetSuspended
<1>5. /\ y.prev = g.masks[m].prev /\ y.active = g.masks[m].active
      /\ y.state = g.masks[m].state /\ y.suspended = b
  BY <1>2, <1>3 DEF MaskFrames
<1>6. /\ Len(h.masks) = Len(g.masks) /\ h.masks[m] = y
      /\ \A x \in 1..Len(g.masks) : x # m => h.masks[x] = g.masks[x]
  BY <1>1, <1>4
<1>7. ASSUME NEW x \in 1..Len(g.masks)
      PROVE  /\ h.masks[x].prev = g.masks[x].prev
             /\ h.masks[x].active = g.masks[x].active
             /\ h.masks[x].state = g.masks[x].state
             /\ x # m => h.masks[x].suspended = g.masks[x].suspended
  <2>1. CASE x = m
    BY <1>5, <1>6, <2>1, Zenon
  <2>2. CASE x # m
    BY <1>6, <2>2, Zenon
  <2> QED
    BY <2>1, <2>2
<1>8. h.masks[m].suspended = b
  BY <1>5, <1>6, Zenon
<1> QED
  BY <1>6, <1>7, <1>8, Zenon DEF SetSuspended

(* The mask frames keep their type when one is suspended or reinstated.    *)
LEMMA SuspendedTyped ==
  ASSUME NEW w, NEW g, NEW h, NEW m, NEW b \in BOOLEAN, MaskStack(w, g), SetSuspended(g, h, m, b),
         m \in 1..Len(g.masks)
  PROVE  h.masks \in Seq(MaskFrames)
<1>1. g.masks \in Seq(MaskFrames)
  BY DEF MaskStack
<1>2. g.masks[m] \in MaskFrames
  BY <1>1
<1>3. PICK y : y = [g.masks[m] EXCEPT !.suspended = b]
  OBVIOUS
<1>4. h.masks = [g.masks EXCEPT ![m] = y]
  BY <1>3 DEF SetSuspended
<1>5. y \in MaskFrames
  BY <1>2, <1>3 DEF MaskFrames
<1> QED
  BY <1>1, <1>4, <1>5

(* Suspending a frame in force that a restore function names, with its     *)
(* SETMASK, keeps what holds of masks.                                     *)
LEMMA MaskingSuspend ==
  ASSUME NEW S, NEW w \in Shadows(S), NEW v \in Shadows(S), NEW g, NEW h, NEW m, NEW c, NEW cell,
         Masking(w, g), SetSuspended(g, h, m, TRUE), Extends(w, v, c, cell),
         v.ms[v.n] = w.ms[w.n], cell.kind = "SETMASK", cell.ref = m, v.user = w.user,
         m \in w.user, m \in 1..w.ms[w.n], g.masks[m].active, ~g.masks[m].suspended
  PROVE  Masking(v, h)
<1>1. w.n \in Nat /\ v.n \in Nat /\ v.n = w.n + 1 /\ v.fr[v.n] = cell
  BY DEF Shadows, Extends
<1>2. \A i \in 0..w.n : v.fr[i] = w.fr[i] /\ v.ms[i] = w.ms[i]
  BY DEF Extends, SameBelow
<1>n. \A i \in Nat : w.ms[i] \in Nat
  BY DEF Shadows, Numbers
<1>a. MaskStack(w, g)
  BY DEF Masking
<1>l. Len(g.masks) \in Nat
  BY DEF Masking, MaskStack
<1>4. \A i \in 1..v.n : i = v.n \/ (i \in 1..w.n /\ i \in 0..w.n /\ i - 1 \in 0..w.n)
  BY <1>1
<1>5. v.n - 1 = w.n /\ w.n \in 0..w.n /\ 0 \in 0..w.n
  BY <1>1
<1>6. \A i \in 0..v.n : i = v.n \/ i \in 0..w.n
  BY <1>1
<1>7. \A i \in 0..w.n : w.ms[i] \in Nat /\ w.ms[i] <= Len(g.masks)
  BY <1>n, <1>a DEF MaskStack
<1>m. m \in 1..Len(g.masks)
  BY <1>l, <1>5, <1>7
<1>s. h.masks \in Seq(MaskFrames)
  BY <1>a, <1>m, SuspendedTyped
<1>3. /\ Len(h.masks) = Len(g.masks) /\ h.mask = g.mask
      /\ \A x \in 1..Len(g.masks) :
           /\ h.masks[x].prev = g.masks[x].prev
           /\ h.masks[x].active = g.masks[x].active
           /\ h.masks[x].state = g.masks[x].state
           /\ x # m => h.masks[x].suspended = g.masks[x].suspended
      /\ h.masks[m].suspended <=> TRUE
  <2>1. PICK b \in BOOLEAN : b = TRUE
    OBVIOUS
  <2>2. MaskStack(w, g) /\ SetSuspended(g, h, m, b)
    BY <1>a, <2>1
  <2>3. /\ Len(h.masks) = Len(g.masks) /\ h.mask = g.mask
        /\ \A x \in 1..Len(g.masks) :
             /\ h.masks[x].prev = g.masks[x].prev
             /\ h.masks[x].active = g.masks[x].active
             /\ h.masks[x].state = g.masks[x].state
             /\ x # m => h.masks[x].suspended = g.masks[x].suspended
        /\ h.masks[m].suspended = b
    BY <1>m, <2>2, SuspendedFrames
  <2> QED
    BY <2>1, <2>3
<1>8. ASSUME NEW i \in 1..w.n, Kind(w, i) = "POPMASK"
      PROVE  /\ w.ms[i - 1] < w.ms[i] /\ Ref(w, i) = w.ms[i] /\ w.ms[i] \in 1..Len(g.masks)
             /\ g.masks[w.ms[i]].prev = w.ms[i - 1] /\ g.masks[w.ms[i]].active
  <2>1. /\ w.ms[i - 1] < w.ms[i] /\ Ref(w, i) = w.ms[i]
        /\ g.masks[w.ms[i]].prev = w.ms[i - 1] /\ g.masks[w.ms[i]].active
    BY <1>a, <1>8 DEF MaskStack
  <2>2. w.ms[i] \in 1..Len(g.masks)
    <3>1. i \in 0..w.n /\ i - 1 \in 0..w.n
      BY <1>1
    <3> QED
      BY <1>7, <1>l, <2>1, <3>1
  <2> QED
    BY <2>1, <2>2
<1>9. MaskStack(v, h)
  <2>1. v.ms[0] = None /\ h.mask = v.ms[v.n]
    BY <1>2, <1>3, <1>5, <1>a DEF MaskStack
  <2>2. \A i \in 0..v.n : v.ms[i] <= Len(h.masks)
    BY <1>2, <1>3, <1>5, <1>6, <1>7
  <2>3. ASSUME NEW i \in 0..v.n, NEW j \in 0..v.n, i <= j
        PROVE  v.ms[i] <= v.ms[j]
    <3>1. \A a, b \in 0..w.n : a <= b => w.ms[a] <= w.ms[b]
      BY <1>a DEF MaskStack
    <3>2. CASE j = v.n
      BY <1>1, <1>2, <1>5, <1>6, <2>3, <3>1, <3>2
    <3>3. CASE j # v.n
      BY <1>1, <1>2, <1>6, <2>3, <3>1, <3>3
    <3> QED
      BY <3>2, <3>3
  <2>4. ASSUME NEW i \in 1..v.n, Kind(v, i) # "POPMASK"
        PROVE  v.ms[i] = v.ms[i - 1]
    BY <1>1, <1>2, <1>4, <1>5, <1>a, <2>4 DEF MaskStack, Kind
  <2>5. ASSUME NEW i \in 1..v.n, Kind(v, i) = "POPMASK"
        PROVE  /\ v.ms[i - 1] < v.ms[i] /\ Ref(v, i) = v.ms[i]
               /\ h.masks[v.ms[i]].prev = v.ms[i - 1] /\ h.masks[v.ms[i]].active
    <3>1. i \in 1..w.n /\ i \in 0..w.n /\ i - 1 \in 0..w.n /\ Kind(w, i) = "POPMASK"
      BY <1>1, <1>2, <1>4, <2>5 DEF Kind
    <3>2. /\ w.ms[i - 1] < w.ms[i] /\ Ref(w, i) = w.ms[i] /\ w.ms[i] \in 1..Len(g.masks)
          /\ g.masks[w.ms[i]].prev = w.ms[i - 1] /\ g.masks[w.ms[i]].active
      BY <1>8, <3>1
    <3>3. v.ms[i] = w.ms[i] /\ v.ms[i - 1] = w.ms[i - 1] /\ Ref(v, i) = Ref(w, i)
      BY <1>2, <3>1 DEF Ref
    <3> QED
      BY <1>3, <3>2, <3>3
  <2> QED
    BY <1>s, <2>1, <2>2, <2>3, <2>4, <2>5 DEF MaskStack
<1>10. ASSUME NEW i \in 1..w.n, Kind(w, i) = "SETMASK"
       PROVE  /\ Ref(w, i) \in 1..w.ms[i] /\ Ref(w, i) \in 1..Len(g.masks) /\ Ref(w, i) # m
              /\ g.masks[Ref(w, i)].active /\ g.masks[Ref(w, i)].suspended
  <2>1. /\ Ref(w, i) \in 1..w.ms[i]
        /\ g.masks[Ref(w, i)].active /\ g.masks[Ref(w, i)].suspended
    BY <1>10 DEF Masking, Suspensions
  <2>2. i \in 0..w.n
    BY <1>1
  <2> QED
    BY <1>7, <1>l, <2>1, <2>2
<1>11. Suspensions(v, h)
  <2>1. ASSUME NEW i \in 1..v.n, Kind(v, i) = "SETMASK"
        PROVE  /\ Ref(v, i) \in 1..v.ms[i]
               /\ h.masks[Ref(v, i)].active /\ h.masks[Ref(v, i)].suspended
    <3>1. CASE i = v.n
      <4>1. Ref(v, i) = m
        BY <1>1, <3>1 DEF Ref
      <4> QED
        BY <1>2, <1>3, <1>5, <1>m, <3>1, <4>1
    <3>2. CASE i # v.n
      <4>1. i \in 1..w.n /\ i \in 0..w.n
        BY <1>4, <3>2
      <4>2. Kind(w, i) = "SETMASK" /\ Ref(v, i) = Ref(w, i) /\ v.ms[i] = w.ms[i]
        BY <1>2, <2>1, <4>1 DEF Kind, Ref
      <4> QED
        BY <1>3, <1>10, <4>1, <4>2
    <3> QED
      BY <3>1, <3>2
  <2>2. ASSUME NEW i \in 1..v.n, NEW j \in 1..v.n, i < j, Kind(v, i) = "SETMASK",
               Kind(v, j) = "SETMASK"
        PROVE  Ref(v, i) # Ref(v, j)
    <3>1. i \in 1..w.n /\ i \in 0..w.n /\ Kind(w, i) = "SETMASK" /\ Ref(v, i) = Ref(w, i)
      BY <1>1, <1>2, <1>4, <2>2 DEF Kind, Ref
    <3>2. CASE j = v.n
      BY <1>1, <1>10, <3>1, <3>2 DEF Ref
    <3>3. CASE j # v.n
      <4>1. j \in 1..w.n /\ Kind(w, j) = "SETMASK" /\ Ref(v, j) = Ref(w, j)
        BY <1>2, <1>4, <2>2, <3>3 DEF Kind, Ref
      <4> QED
        BY <2>2, <3>1, <4>1 DEF Masking, Suspensions
    <3> QED
      BY <3>2, <3>3
  <2> QED
    BY <2>1, <2>2 DEF Suspensions
<1>12. Finalizers(v, h)
  <2>1. ASSUME NEW i \in 1..v.n, Kind(v, i) = "FINSEQ"
        PROVE  /\ i > 1 /\ Kind(v, i - 1) = "POPMASK"
               /\ h.masks[v.ms[i]].state = Masked /\ ~h.masks[v.ms[i]].suspended
               /\ v.ms[i] \notin v.user
    <3>1. i \in 1..w.n /\ i \in 0..w.n /\ i - 1 \in 0..w.n /\ Kind(w, i) = "FINSEQ"
      BY <1>1, <1>2, <1>4, <2>1 DEF Kind
    <3>2. /\ i > 1 /\ Kind(w, i - 1) = "POPMASK"
          /\ g.masks[w.ms[i]].state = Masked /\ ~g.masks[w.ms[i]].suspended
          /\ w.ms[i] \notin w.user
      BY <3>1 DEF Masking, Finalizers
    <3>3. i - 1 \in 1..w.n /\ Kind(w, i) # "POPMASK"
      BY <1>1, <3>1, <3>2
    <3>4. w.ms[i] = w.ms[i - 1] /\ w.ms[i] \in 1..Len(g.masks) /\ w.ms[i] # m
      BY <1>8, <1>a, <3>1, <3>2, <3>3 DEF MaskStack
    <3>5. v.ms[i] = w.ms[i] /\ Kind(v, i - 1) = Kind(w, i - 1)
      BY <1>2, <3>1 DEF Kind
    <3> QED
      BY <1>3, <3>2, <3>4, <3>5
  <2>2. v.user \subseteq 1..Len(h.masks)
    BY <1>3 DEF Masking, Finalizers
  <2> QED
    BY <2>1, <2>2 DEF Finalizers
<1> QED
  BY <1>9, <1>11, <1>12 DEF Masking

(* A SETMASK on top is for a suspended frame: reinstating it keeps what    *)
(* holds of masks.                                                         *)
LEMMA MaskingReinstate ==
  ASSUME NEW S, NEW w \in Shadows(S), NEW v \in Shadows(S), NEW g, NEW h, NEW m,
         Masking(w, g), w.n > 0, Cuts(w, v), Kind(w, w.n) = "SETMASK", m = Ref(w, w.n),
         SetSuspended(g, h, m, FALSE)
  PROVE  Masking(v, h)
<1>1. w.n \in Nat /\ v.n \in Nat /\ v.n = w.n - 1 /\ \A i \in Nat : w.ms[i] \in Nat
  BY DEF Shadows, Numbers, Cuts
<1>2. v.fr = w.fr /\ v.ms = w.ms /\ v.user = w.user
  BY DEF Cuts
<1>a. MaskStack(w, g)
  BY DEF Masking
<1>l. Len(g.masks) \in Nat
  BY DEF Masking, MaskStack
<1>3. /\ 0..v.n \subseteq 0..w.n /\ 1..v.n \subseteq 1..w.n /\ w.n \in 1..w.n /\ w.n \in 0..w.n
      /\ w.n - 1 \in 0..w.n /\ v.n \in 0..v.n
  BY <1>1
<1>4. \A i \in 0..w.n : w.ms[i] \in Nat /\ w.ms[i] <= Len(g.masks)
  BY <1>1, <1>a DEF MaskStack
<1>5. w.ms[w.n] = w.ms[w.n - 1] /\ m \in 1..w.ms[w.n]
  <2>1. w.ms[w.n] = w.ms[w.n - 1]
    BY <1>3, <1>a DEF MaskStack
  <2>2. m \in 1..w.ms[w.n]
    BY <1>3 DEF Masking, Suspensions
  <2> QED
    BY <2>1, <2>2
<1>m. m \in 1..Len(g.masks)
  BY <1>l, <1>3, <1>4, <1>5
<1>s. h.masks \in Seq(MaskFrames)
  BY <1>a, <1>m, SuspendedTyped
<1>6. /\ Len(h.masks) = Len(g.masks) /\ h.mask = g.mask
      /\ \A x \in 1..Len(g.masks) :
           /\ h.masks[x].prev = g.masks[x].prev
           /\ h.masks[x].active = g.masks[x].active
           /\ h.masks[x].state = g.masks[x].state
           /\ x # m => h.masks[x].suspended = g.masks[x].suspended
      /\ h.masks[m].suspended = FALSE
  <2>1. PICK b \in BOOLEAN : b = FALSE
    OBVIOUS
  <2>2. MaskStack(w, g) /\ SetSuspended(g, h, m, b)
    BY <1>a, <2>1
  <2>3. /\ Len(h.masks) = Len(g.masks) /\ h.mask = g.mask
        /\ \A x \in 1..Len(g.masks) :
             /\ h.masks[x].prev = g.masks[x].prev
             /\ h.masks[x].active = g.masks[x].active
             /\ h.masks[x].state = g.masks[x].state
             /\ x # m => h.masks[x].suspended = g.masks[x].suspended
        /\ h.masks[m].suspended = b
    BY <1>m, <2>2, SuspendedFrames
  <2> QED
    BY <2>1, <2>3
<1>7. h.mask = v.ms[v.n]
  BY <1>1, <1>2, <1>5, <1>6, <1>a DEF MaskStack
<1>8. MaskStack(v, h)
  <2>1. ASSUME NEW i \in 1..v.n, Kind(v, i) = "POPMASK"
        PROVE  /\ v.ms[i - 1] < v.ms[i] /\ Ref(v, i) = v.ms[i]
               /\ h.masks[v.ms[i]].prev = v.ms[i - 1] /\ h.masks[v.ms[i]].active
    <3>1. /\ w.ms[i - 1] < w.ms[i] /\ Ref(w, i) = w.ms[i]
          /\ g.masks[w.ms[i]].prev = w.ms[i - 1] /\ g.masks[w.ms[i]].active
      BY <1>2, <1>3, <1>a, <2>1 DEF MaskStack, Kind
    <3>2. w.ms[i] \in 1..Len(g.masks)
      <4>1. i \in 0..w.n /\ i - 1 \in 0..w.n
        BY <1>1
      <4> QED
        BY <1>4, <1>l, <3>1, <4>1
    <3> QED
      BY <1>2, <1>6, <3>1, <3>2 DEF Ref
  <2>2. v.ms[0] = None
    BY <1>2, <1>a DEF MaskStack
  <2>3. \A i \in 0..v.n : v.ms[i] <= Len(h.masks)
    BY <1>2, <1>3, <1>4, <1>6
  <2>4. \A i, j \in 0..v.n : i <= j => v.ms[i] <= v.ms[j]
    BY <1>2, <1>3, <1>a DEF MaskStack
  <2>5. \A i \in 1..v.n : Kind(v, i) # "POPMASK" => v.ms[i] = v.ms[i - 1]
    BY <1>2, <1>3, <1>a DEF MaskStack, Kind
  <2> QED
    BY <1>s, <1>7, <2>1, <2>2, <2>3, <2>4, <2>5 DEF MaskStack
<1>9. Suspensions(v, h)
  <2>1. ASSUME NEW i \in 1..v.n, Kind(v, i) = "SETMASK"
        PROVE  /\ Ref(v, i) \in 1..v.ms[i]
               /\ h.masks[Ref(v, i)].active /\ h.masks[Ref(v, i)].suspended
    <3>1. /\ Ref(w, i) \in 1..w.ms[i]
          /\ g.masks[Ref(w, i)].active /\ g.masks[Ref(w, i)].suspended
      BY <1>2, <1>3, <2>1 DEF Masking, Suspensions, Kind
    <3>2. i \in 0..w.n /\ i \in 1..w.n /\ i < w.n /\ Kind(w, i) = "SETMASK"
      BY <1>1, <1>2, <2>1 DEF Kind
    <3>3. Ref(w, i) # m
      BY <1>3, <3>2 DEF Masking, Suspensions
    <3>4. Ref(w, i) \in 1..Len(g.masks)
      BY <1>4, <1>l, <3>1, <3>2
    <3> QED
      BY <1>2, <1>6, <3>1, <3>3, <3>4 DEF Ref
  <2>2. \A i, j \in 1..v.n :
          i < j /\ Kind(v, i) = "SETMASK" /\ Kind(v, j) = "SETMASK" => Ref(v, i) # Ref(v, j)
    BY <1>2, <1>3 DEF Masking, Suspensions, Kind, Ref
  <2> QED
    BY <2>1, <2>2 DEF Suspensions
<1>10. Finalizers(v, h)
  <2>1. ASSUME NEW i \in 1..v.n, Kind(v, i) = "FINSEQ"
        PROVE  /\ i > 1 /\ Kind(v, i - 1) = "POPMASK"
               /\ h.masks[v.ms[i]].state = Masked /\ ~h.masks[v.ms[i]].suspended
               /\ v.ms[i] \notin v.user
    <3>1. /\ i > 1 /\ Kind(w, i - 1) = "POPMASK"
          /\ g.masks[w.ms[i]].state = Masked /\ ~g.masks[w.ms[i]].suspended
          /\ w.ms[i] \notin w.user
      BY <1>2, <1>3, <2>1 DEF Masking, Finalizers, Kind
    <3>2. w.ms[i] = w.ms[i - 1] /\ w.ms[i - 1 - 1] < w.ms[i - 1]
      <4>1. i - 1 \in 1..w.n /\ i \in 1..w.n
        BY <1>1, <3>1
      <4> QED
        BY <1>2, <1>a, <2>1, <3>1, <4>1 DEF MaskStack, Kind
    <3>3. w.ms[i] \in 1..Len(g.masks)
      <4>1. i \in 0..w.n /\ i - 1 - 1 \in 0..w.n
        BY <1>1, <3>1
      <4> QED
        BY <1>4, <1>l, <3>2, <4>1
    <3>4. ~h.masks[w.ms[i]].suspended
      BY <1>6, <3>1, <3>3
    <3> QED
      BY <1>2, <1>6, <3>1, <3>3, <3>4 DEF Kind
  <2> QED
    BY <1>2, <1>6, <2>1 DEF Masking, Finalizers
<1> QED
  BY <1>8, <1>9, <1>10 DEF Masking

(* The frame of a scope's exit actions is pushed on that of their mask.    *)
LEMMA MaskingFinseq ==
  ASSUME NEW S, NEW w \in Shadows(S), NEW v \in Shadows(S), NEW g, NEW h, NEW c, NEW cell,
         Masking(w, g), SameMasks(g, h), Extends(w, v, c, cell), v.ms[v.n] = w.ms[w.n],
         cell.kind = "FINSEQ", v.user = w.user, w.n > 0, Kind(w, w.n) = "POPMASK",
         g.masks[g.mask].state = Masked, ~g.masks[g.mask].suspended, g.mask \notin w.user
  PROVE  Masking(v, h)
<1>1. w.n \in Nat /\ v.n \in Nat /\ v.n = w.n + 1 /\ v.fr[v.n] = cell
  BY DEF Shadows, Extends
<1>2. \A i \in 0..w.n : v.fr[i] = w.fr[i] /\ v.ms[i] = w.ms[i]
  BY DEF Extends, SameBelow
<1>3. h.masks = g.masks /\ h.mask = g.mask
  BY DEF SameMasks
<1>4. \A i \in 1..v.n : i = v.n \/ (i \in 1..w.n /\ i \in 0..w.n /\ i - 1 \in 0..w.n)
  BY <1>1
<1>5. v.n - 1 = w.n /\ w.n \in 0..w.n /\ 0 \in 0..w.n
  BY <1>1
<1>6. \A i \in 0..v.n : i = v.n \/ i \in 0..w.n
  BY <1>1
<1>7. MaskStack(v, h)
  <2>1. MaskStack(w, g)
    BY DEF Masking
  <2>2. h.masks \in Seq(MaskFrames)
    BY <1>3, <2>1 DEF MaskStack
  <2>3. v.ms[0] = None /\ h.mask = v.ms[v.n]
    BY <1>2, <1>3, <1>5, <2>1 DEF MaskStack
  <2>4. \A i \in 0..v.n : v.ms[i] <= Len(h.masks)
    BY <1>2, <1>3, <1>5, <1>6, <2>1 DEF MaskStack
  <2>5. ASSUME NEW i \in 0..v.n, NEW j \in 0..v.n, i <= j
        PROVE  v.ms[i] <= v.ms[j]
    <3>1. \A a, b \in 0..w.n : a <= b => w.ms[a] <= w.ms[b]
      BY <2>1 DEF MaskStack
    <3>2. CASE j = v.n
      BY <1>1, <1>2, <1>5, <1>6, <2>5, <3>1, <3>2
    <3>3. CASE j # v.n
      BY <1>1, <1>2, <1>6, <2>5, <3>1, <3>3
    <3> QED
      BY <3>2, <3>3
  <2>6. ASSUME NEW i \in 1..v.n, Kind(v, i) # "POPMASK"
        PROVE  v.ms[i] = v.ms[i - 1]
    BY <1>1, <1>2, <1>4, <1>5, <2>1, <2>6 DEF MaskStack, Kind
  <2>7. ASSUME NEW i \in 1..v.n, Kind(v, i) = "POPMASK"
        PROVE  /\ v.ms[i - 1] < v.ms[i] /\ Ref(v, i) = v.ms[i]
               /\ h.masks[v.ms[i]].prev = v.ms[i - 1] /\ h.masks[v.ms[i]].active
    BY <1>1, <1>2, <1>3, <1>4, <2>1, <2>7 DEF MaskStack, Kind, Ref
  <2> QED
    BY <2>2, <2>3, <2>4, <2>5, <2>6, <2>7 DEF MaskStack
<1>8. Suspensions(v, h)
  BY <1>1, <1>2, <1>3, <1>4 DEF Masking, Suspensions, Kind, Ref
<1>9. Finalizers(v, h)
  <2>1. ASSUME NEW i \in 1..v.n, Kind(v, i) = "FINSEQ"
        PROVE  /\ i > 1 /\ Kind(v, i - 1) = "POPMASK"
               /\ h.masks[v.ms[i]].state = Masked /\ ~h.masks[v.ms[i]].suspended
               /\ v.ms[i] \notin v.user
    <3>1. CASE i = v.n
      <4>1. i > 1 /\ i - 1 = w.n /\ v.fr[w.n] = w.fr[w.n]
        BY <1>1, <1>2, <1>5, <3>1
      <4>2. v.ms[i] = g.mask
        BY <3>1 DEF Masking, MaskStack
      <4> QED
        BY <1>3, <4>1, <4>2 DEF Kind
    <3>2. CASE i # v.n
      BY <1>1, <1>2, <1>3, <1>4, <2>1, <3>2 DEF Masking, Finalizers, Kind
    <3> QED
      BY <3>1, <3>2
  <2> QED
    BY <1>3, <2>1 DEF Masking, Finalizers
<1> QED
  BY <1>7, <1>8, <1>9 DEF Masking

----------------------------------------------------------------------------
(* A frame that owns no exit actions is pushed or popped.                  *)
Scoping(T, w, g, r) == Scopes(T, w, g) /\ Owners(w, g) /\ ExitActions(w, g, r)
SameScopes(g, h) == h.stacks = g.stacks /\ h.fins = g.fins /\ h.exits = g.exits

(* Exit actions depend on the scopes and on what is left to do only.       *)
LEMMA ExitActionsSame ==
  ASSUME NEW w, NEW v, NEW g, NEW h, NEW r, ExitActions(w, g, r), h.stacks = g.stacks,
         v.todo = w.todo
  PROVE  ExitActions(v, h, r)
<1>1. \A x : Items(h, x) = Items(g, x)
  BY DEF Items
<1>2. r \in Seq(0..1)
  BY DEF ExitActions
<1>3. \A x \in 1..Len(h.stacks) : \A j \in 1..Len(Items(h, x)) :
        /\ Items(h, x)[j].n \in 1..Len(r)
        /\ r[Items(h, x)[j].n] = IF j <= v.todo[x] THEN 0 ELSE 1
  BY <1>1 DEF ExitActions
<1>4. \A x \in 1..Len(h.stacks) : \A i, j \in 1..Len(Items(h, x)) :
        i < j => Items(h, x)[i].n < Items(h, x)[j].n
  BY <1>1, Zenon DEF ExitActions
<1>5. \A x, y \in 1..Len(h.stacks) : \A i \in 1..Len(Items(h, x)), j \in 1..Len(Items(h, y)) :
        Items(h, x)[i].n = Items(h, y)[j].n => x = y
  BY <1>1 DEF ExitActions
<1>6. ASSUME NEW a \in 1..Len(r)
      PROVE  \E x \in 1..Len(h.stacks) : \E j \in 1..Len(Items(h, x)) : Items(h, x)[j].n = a
  <2>1. \E x \in 1..Len(g.stacks) : \E j \in 1..Len(Items(g, x)) : Items(g, x)[j].n = a
    BY DEF ExitActions
  <2>2. PICK x \in 1..Len(g.stacks) : \E j \in 1..Len(Items(g, x)) : Items(g, x)[j].n = a
    BY <2>1, Zenon
  <2>3. PICK j \in 1..Len(Items(g, x)) : Items(g, x)[j].n = a
    BY <2>2, Zenon
  <2>4. x \in 1..Len(h.stacks) /\ j \in 1..Len(Items(h, x)) /\ Items(h, x)[j].n = a
    BY <1>1, <2>3
  <2> QED
    BY <2>4, Zenon
<1> QED
  BY <1>2, <1>3, <1>4, <1>5, <1>6, Zenon DEF ExitActions

(* Pushing a frame that is not about scopes keeps what holds of them.      *)
LEMMA ScopingPush ==
  ASSUME NEW T, NEW S, NEW w \in Shadows(S), NEW v \in Shadows(S), NEW g, NEW h, NEW r, NEW c,
         NEW cell, Scoping(T, w, g, r), SameScopes(g, h), Extends(w, v, c, cell),
         v.xs[v.n] = w.xs[w.n], cell.kind \notin {"DOSCOPE", "FINSEQ"}, v.todo = w.todo
  PROVE  Scoping(T, v, h, r)
<1>1. w.n \in Nat /\ v.n \in Nat /\ v.n = w.n + 1 /\ v.fr[v.n] = cell
  BY DEF Shadows, Extends
<1>2. \A i \in 0..w.n : v.fr[i] = w.fr[i] /\ v.xs[i] = w.xs[i]
  BY DEF Extends, SameBelow
<1>3. h.stacks = g.stacks /\ h.fins = g.fins /\ h.exits = g.exits
  BY DEF SameScopes
<1>4. \A i \in 1..v.n : i = v.n \/ (i \in 1..w.n /\ i \in 0..w.n /\ i - 1 \in 0..w.n)
  BY <1>1
<1>5. v.n - 1 = w.n /\ w.n \in 0..w.n /\ 0 \in 0..w.n /\ 1..w.n \subseteq 1..v.n
  BY <1>1
<1>6. \A i \in 0..v.n : i = v.n \/ i \in 0..w.n
  BY <1>1
<1>a. Scopes(T, w, g) /\ Owners(w, g) /\ ExitActions(w, g, r)
  BY DEF Scoping
<1>b. \A i \in 1..v.n : Owns(v, i) => i \in 1..w.n /\ Owns(w, i) /\ Own(v, h, i) = Own(w, g, i)
  BY <1>1, <1>2, <1>3, <1>4 DEF Owns, Own, Kind, Ref
<1>c. \A i \in 1..w.n : Owns(w, i) => Owns(v, i) /\ Own(v, h, i) = Own(w, g, i)
  <2>1. 1..w.n \subseteq 0..w.n
    BY <1>1
  <2> QED
    BY <1>2, <1>3, <2>1 DEF Owns, Own, Kind, Ref
<1>7. Scopes(T, v, h)
  <2>1. h.stacks \in Seq(Stacks(T))
    BY <1>3, <1>a DEF Scopes
  <2>2. \A x \in 1..Len(h.stacks) :
          h.stacks[x].parent < x /\ v.todo[x] <= Len(h.stacks[x].items)
    BY <1>3, <1>a DEF Scopes
  <2>3. v.xs[0] = None /\ h.exits = v.xs[v.n]
    BY <1>2, <1>3, <1>5, <1>a DEF Scopes
  <2>4. ASSUME NEW i \in 1..v.n, Kind(v, i) # "DOSCOPE"
        PROVE  v.xs[i] = v.xs[i - 1]
    BY <1>1, <1>2, <1>4, <1>5, <1>a, <2>4 DEF Scopes, Kind
  <2>5. ASSUME NEW i \in 1..v.n, Kind(v, i) = "DOSCOPE"
        PROVE  /\ v.xs[i] \in 1..Len(h.stacks) /\ Ref(v, i) = v.xs[i]
               /\ v.fr[i].state.exits = v.xs[i - 1]
               /\ v.todo[v.xs[i]] = Len(h.stacks[v.xs[i]].items)
    <3>1. i \in 1..w.n /\ i \in 0..w.n /\ i - 1 \in 0..w.n /\ Kind(w, i) = "DOSCOPE"
      BY <1>1, <1>2, <1>4, <2>5 DEF Kind
    <3>2. /\ w.xs[i] \in 1..Len(g.stacks) /\ Ref(w, i) = w.xs[i]
          /\ w.fr[i].state.exits = w.xs[i - 1]
          /\ w.todo[w.xs[i]] = Len(g.stacks[w.xs[i]].items)
      BY <1>a, <3>1 DEF Scopes
    <3> QED
      BY <1>2, <1>3, <3>1, <3>2 DEF Ref
  <2>6. ASSUME NEW i \in 0..v.n, v.xs[i] # None
        PROVE  \E j \in 1..i : Kind(v, j) = "DOSCOPE" /\ v.xs[j] = v.xs[i]
    <3>1. PICK k \in 0..w.n : k <= i /\ v.xs[i] = w.xs[k]
      BY <1>1, <1>2, <1>5, <1>6
    <3>2. PICK j \in 1..k : Kind(w, j) = "DOSCOPE" /\ w.xs[j] = w.xs[k]
      BY <1>a, <2>6, <3>1 DEF Scopes
    <3>3. j \in 1..i /\ j \in 0..w.n
      BY <1>1, <3>1
    <3> QED
      BY <1>2, <3>1, <3>2, <3>3 DEF Kind
  <2> QED
    BY <2>1, <2>2, <2>3, <2>4, <2>5, <2>6 DEF Scopes
<1>8. Owners(v, h)
  <2>1. h.fins \in Seq(Sequences)
    BY <1>3, <1>a DEF Owners
  <2>2. ASSUME NEW i \in 1..v.n, Kind(v, i) = "FINSEQ"
        PROVE  /\ Ref(v, i) \in 1..Len(h.fins)
               /\ h.fins[Ref(v, i)].xs \in 1..Len(h.stacks)
               /\ h.fins[Ref(v, i)].i = v.todo[h.fins[Ref(v, i)].xs]
    BY <1>1, <1>2, <1>3, <1>4, <1>a, <2>2 DEF Owners, Kind, Ref
  <2>3. ASSUME NEW i \in 1..v.n, NEW j \in 1..v.n, i < j, Owns(v, i), Owns(v, j)
        PROVE  Own(v, h, i) < Own(v, h, j)
    BY <1>a, <1>b, <2>3 DEF Owners
  <2>4. ASSUME NEW x \in 1..Len(h.stacks), v.todo[x] > 0
        PROVE  \E i \in 1..v.n : Owns(v, i) /\ Own(v, h, i) = x
    BY <1>3, <1>5, <1>a, <1>c, <2>4 DEF Owners
  <2> QED
    BY <2>1, <2>2, <2>3, <2>4 DEF Owners
<1>9. ExitActions(v, h, r)
  BY <1>3, <1>a, ExitActionsSame
<1> QED
  BY <1>7, <1>8, <1>9 DEF Scoping

SameActions(g, h) == h.stacks = g.stacks /\ h.fins = g.fins

(* Popping a frame that has no exit actions left to run keeps what holds   *)
(* of scopes.                                                              *)
LEMMA ScopingPop ==
  ASSUME NEW T, NEW S, NEW w \in Shadows(S), NEW v \in Shadows(S), NEW g, NEW h, NEW r,
         Scoping(T, w, g, r), SameActions(g, h), h.exits = w.xs[w.n - 1], w.n > 0, Cuts(w, v),
         v.todo = w.todo, Owns(w, w.n) => w.todo[Own(w, g, w.n)] = 0
  PROVE  Scoping(T, v, h, r)
<1>1. w.n \in Nat /\ v.n \in Nat /\ v.n = w.n - 1
  BY DEF Shadows, Cuts
<1>2. v.fr = w.fr /\ v.xs = w.xs
  BY DEF Cuts
<1>3. h.stacks = g.stacks /\ h.fins = g.fins
  BY DEF SameActions
<1>4. 0..v.n \subseteq 0..w.n /\ 1..v.n \subseteq 1..w.n /\ w.n \in 1..w.n
  BY <1>1
<1>5. \A i \in 1..w.n : i = w.n \/ i \in 1..v.n
  BY <1>1
<1>a. Scopes(T, w, g) /\ Owners(w, g) /\ ExitActions(w, g, r)
  BY DEF Scoping
<1>b. \A i : Owns(v, i) = Owns(w, i) /\ Own(v, h, i) = Own(w, g, i)
  BY <1>2, <1>3 DEF Owns, Own, Kind, Ref
<1>c. \A x : w.todo[x] > 0 => ~(Owns(w, w.n) /\ Own(w, g, w.n) = x)
  OBVIOUS
<1>6. Scopes(T, v, h)
  <2>1. h.stacks \in Seq(Stacks(T))
    BY <1>3, <1>a DEF Scopes
  <2>2. \A x \in 1..Len(h.stacks) :
          h.stacks[x].parent < x /\ v.todo[x] <= Len(h.stacks[x].items)
    BY <1>3, <1>a DEF Scopes
  <2>3. v.xs[0] = None /\ h.exits = v.xs[v.n]
    BY <1>1, <1>2, <1>3, <1>4, <1>a DEF Scopes
  <2>4. \A i \in 1..v.n : Kind(v, i) # "DOSCOPE" => v.xs[i] = v.xs[i - 1]
    BY <1>2, <1>4, <1>a DEF Scopes, Kind
  <2>5. \A i \in 1..v.n : Kind(v, i) = "DOSCOPE" =>
          /\ v.xs[i] \in 1..Len(h.stacks) /\ Ref(v, i) = v.xs[i]
          /\ v.fr[i].state.exits = v.xs[i - 1]
          /\ v.todo[v.xs[i]] = Len(h.stacks[v.xs[i]].items)
    BY <1>2, <1>3, <1>4, <1>a DEF Scopes, Kind, Ref
  <2>6. \A i \in 0..v.n : v.xs[i] # None =>
          \E j \in 1..i : Kind(v, j) = "DOSCOPE" /\ v.xs[j] = v.xs[i]
    BY <1>2, <1>4, <1>a DEF Scopes, Kind
  <2> QED
    BY <2>1, <2>2, <2>3, <2>4, <2>5, <2>6 DEF Scopes
<1>7. Owners(v, h)
  <2>1. h.fins \in Seq(Sequences)
    BY <1>3, <1>a DEF Owners
  <2>2. \A i \in 1..v.n : Kind(v, i) = "FINSEQ" =>
          /\ Ref(v, i) \in 1..Len(h.fins)
          /\ h.fins[Ref(v, i)].xs \in 1..Len(h.stacks)
          /\ h.fins[Ref(v, i)].i = v.todo[h.fins[Ref(v, i)].xs]
    BY <1>2, <1>3, <1>4, <1>a DEF Owners, Kind, Ref
  <2>3. \A i, j \in 1..v.n : i < j /\ Owns(v, i) /\ Owns(v, j) => Own(v, h, i) < Own(v, h, j)
    BY <1>4, <1>a, <1>b DEF Owners
  <2>4. ASSUME NEW x \in 1..Len(h.stacks), v.todo[x] > 0
        PROVE  \E i \in 1..v.n : Owns(v, i) /\ Own(v, h, i) = x
    BY <1>3, <1>5, <1>a, <1>b, <1>c, <2>4 DEF Owners
  <2> QED
    BY <2>1, <2>2, <2>3, <2>4 DEF Owners
<1>8. ExitActions(v, h, r)
  BY <1>3, <1>a, ExitActionsSame
<1> QED
  BY <1>6, <1>7, <1>8 DEF Scoping

(* The scopes of the frames exist.                                         *)
LEMMA OwnBound ==
  ASSUME NEW T, NEW w, NEW g, Scopes(T, w, g), Owners(w, g), NEW i \in 1..w.n, Owns(w, i)
  PROVE  Own(w, g, i) \in 1..Len(g.stacks)
  BY DEF Scopes, Owners, Owns, Own

(* A do-scope is entered.                                                  *)
NewScope(g, h) ==
  /\ h.exits = Len(g.stacks) + 1 /\ h.fins = g.fins
  /\ h.stacks = Append(g.stacks, [items |-> <<>>, parent |-> g.exits])

(* The scopes keep their type when one is entered.                         *)
LEMMA NewScopeTyped ==
  ASSUME NEW T, NEW w, NEW g, NEW h, Scopes(T, w, g), NewScope(g, h), g.exits \in Nat
  PROVE  h.stacks \in Seq(Stacks(T))
<1>1. g.stacks \in Seq(Stacks(T))
  BY DEF Scopes
<1>2. PICK x : x = [items |-> <<>>, parent |-> g.exits]
  OBVIOUS
<1>3. x \in Stacks(T)
  BY <1>2 DEF Stacks
<1> QED
  BY <1>1, <1>2, <1>3 DEF NewScope

(* A scope that is entered is the newest, and has no exit actions yet.     *)
LEMMA NewScopeFrames ==
  ASSUME NEW T, NEW w, NEW g, NEW h, Scopes(T, w, g), NewScope(g, h)
  PROVE  /\ Len(g.stacks) \in Nat /\ Len(h.stacks) = Len(g.stacks) + 1
         /\ h.exits = Len(g.stacks) + 1 /\ h.fins = g.fins
         /\ \A x \in 1..Len(g.stacks) : h.stacks[x] = g.stacks[x]
         /\ h.stacks[h.exits].parent = g.exits /\ Len(h.stacks[h.exits].items) = 0
<1>1. g.stacks \in Seq(Stacks(T))
  BY DEF Scopes
<1>2. PICK x : x = [items |-> <<>>, parent |-> g.exits]
  OBVIOUS
<1>3. x.parent = g.exits /\ Len(x.items) = 0
  BY <1>2
<1>4. h.stacks = Append(g.stacks, x) /\ h.exits = Len(g.stacks) + 1 /\ h.fins = g.fins
  BY <1>2 DEF NewScope
<1>5. /\ Len(g.stacks) \in Nat /\ Len(h.stacks) = Len(g.stacks) + 1
      /\ \A y \in 1..Len(g.stacks) : h.stacks[y] = g.stacks[y]
      /\ h.stacks[Len(g.stacks) + 1] = x
  BY <1>1, <1>4
<1> QED
  BY <1>3, <1>4, <1>5

(* A scope without exit actions adds none.                                 *)
LEMMA ExitActionsNew ==
  ASSUME NEW w, NEW v, NEW g, NEW h, NEW r, NEW e, ExitActions(w, g, r),
         1..Len(g.stacks) \subseteq 1..Len(h.stacks),
         \A x \in 1..Len(h.stacks) : x = e \/ x \in 1..Len(g.stacks),
         \A x \in 1..Len(g.stacks) : Items(h, x) = Items(g, x) /\ v.todo[x] = w.todo[x],
         1..Len(Items(h, e)) = {}
  PROVE  ExitActions(v, h, r)
<1>1. \A x \in 1..Len(h.stacks) : \A j \in 1..Len(Items(h, x)) :
        x \in 1..Len(g.stacks) /\ j \in 1..Len(Items(g, x))
  OBVIOUS
<1>2. r \in Seq(0..1)
  BY DEF ExitActions
<1>3. ASSUME NEW x \in 1..Len(h.stacks), NEW j \in 1..Len(Items(h, x))
      PROVE  /\ Items(h, x)[j].n \in 1..Len(r)
             /\ r[Items(h, x)[j].n] = IF j <= v.todo[x] THEN 0 ELSE 1
  <2>1. x \in 1..Len(g.stacks) /\ j \in 1..Len(Items(g, x))
    BY <1>1
  <2>2. /\ Items(g, x)[j].n \in 1..Len(r)
        /\ r[Items(g, x)[j].n] = IF j <= w.todo[x] THEN 0 ELSE 1
    BY <2>1 DEF ExitActions
  <2>3. Items(h, x) = Items(g, x) /\ v.todo[x] = w.todo[x]
    BY <2>1
  <2> QED
    BY <2>2, <2>3, Zenon
<1>4. ASSUME NEW x \in 1..Len(h.stacks), NEW i \in 1..Len(Items(h, x)),
             NEW j \in 1..Len(Items(h, x)), i < j
      PROVE  Items(h, x)[i].n < Items(h, x)[j].n
  BY <1>1, <1>4 DEF ExitActions
<1>5. ASSUME NEW x \in 1..Len(h.stacks), NEW y \in 1..Len(h.stacks),
             NEW i \in 1..Len(Items(h, x)), NEW j \in 1..Len(Items(h, y)),
             Items(h, x)[i].n = Items(h, y)[j].n
      PROVE  x = y
  BY <1>1, <1>5 DEF ExitActions
<1>6. ASSUME NEW a \in 1..Len(r)
      PROVE  \E x \in 1..Len(h.stacks) : \E j \in 1..Len(Items(h, x)) : Items(h, x)[j].n = a
  <2>1. \E x \in 1..Len(g.stacks) : \E j \in 1..Len(Items(g, x)) : Items(g, x)[j].n = a
    BY DEF ExitActions
  <2>2. PICK x \in 1..Len(g.stacks) : \E j \in 1..Len(Items(g, x)) : Items(g, x)[j].n = a
    BY <2>1, Zenon
  <2>3. PICK j \in 1..Len(Items(g, x)) : Items(g, x)[j].n = a
    BY <2>2, Zenon
  <2>4. x \in 1..Len(h.stacks) /\ j \in 1..Len(Items(h, x)) /\ Items(h, x)[j].n = a
    BY <2>3
  <2> QED
    BY <2>4, Zenon
<1> QED
  BY <1>2, <1>3, <1>4, <1>5, <1>6, Zenon DEF ExitActions

(* Entering a scope with its DOSCOPE keeps what holds of scopes.           *)
LEMMA ScopingEnter ==
  ASSUME NEW T, NEW S, NEW w \in Shadows(S), NEW v \in Shadows(S), NEW g, NEW h, NEW r, NEW c,
         NEW cell, Scoping(T, w, g, r), NewScope(g, h), Extends(w, v, c, cell),
         v.xs[v.n] = h.exits, cell.kind = "DOSCOPE", cell.ref = h.exits,
         cell.state.exits = g.exits, v.todo = [w.todo EXCEPT ![h.exits] = 0]
  PROVE  Scoping(T, v, h, r)
<1>1. w.n \in Nat /\ v.n \in Nat /\ v.n = w.n + 1 /\ v.fr[v.n] = cell
  BY DEF Shadows, Extends
<1>2. \A i \in 0..w.n : v.fr[i] = w.fr[i] /\ v.xs[i] = w.xs[i]
  BY DEF Extends, SameBelow
<1>4. \A i \in 1..v.n : i = v.n \/ (i \in 1..w.n /\ i \in 0..w.n /\ i - 1 \in 0..w.n)
  BY <1>1
<1>5. v.n - 1 = w.n /\ w.n \in 0..w.n /\ 0 \in 0..w.n /\ 1..w.n \subseteq 1..v.n /\ v.n \in 1..v.n
  BY <1>1
<1>6. \A i \in 0..v.n : i = v.n \/ i \in 0..w.n
  BY <1>1
<1>a. Scopes(T, w, g) /\ Owners(w, g) /\ ExitActions(w, g, r)
  BY DEF Scoping
<1>n. \A i \in Nat : w.xs[i] \in Nat
  BY DEF Shadows, Numbers
<1>e. g.exits = w.xs[w.n] /\ g.exits \in Nat
  BY <1>1, <1>n, <1>a DEF Scopes
<1>s. h.stacks \in Seq(Stacks(T))
  BY <1>a, <1>e, NewScopeTyped
<1>3. /\ Len(g.stacks) \in Nat /\ Len(h.stacks) = Len(g.stacks) + 1
      /\ h.exits = Len(g.stacks) + 1 /\ h.fins = g.fins
      /\ \A x \in 1..Len(g.stacks) : h.stacks[x] = g.stacks[x]
      /\ h.stacks[h.exits].parent = g.exits /\ Len(h.stacks[h.exits].items) = 0
  BY <1>a, NewScopeFrames
<1>t. v.todo[h.exits] = 0 /\ \A x \in 1..Len(g.stacks) : v.todo[x] = w.todo[x]
  <2>1. DOMAIN w.todo = Nat
    BY DEF Shadows, Numbers
  <2>2. h.exits \in Nat /\ \A x \in 1..Len(g.stacks) : x # h.exits /\ x \in Nat
    BY <1>3
  <2> QED
    BY <2>1, <2>2
<1>x. g.exits < h.exits
  <2>1. CASE g.exits = None
    BY <1>3, <2>1 DEF None
  <2>2. CASE g.exits # None
    <3>1. PICK j \in 1..w.n : Kind(w, j) = "DOSCOPE" /\ w.xs[j] = g.exits
      BY <1>5, <1>a, <1>e, <2>2 DEF Scopes
    <3>2. g.exits \in 1..Len(g.stacks)
      BY <1>a, <3>1 DEF Scopes
    <3> QED
      BY <1>3, <3>2
  <2> QED
    BY <2>1, <2>2
<1>y. \A x \in 1..Len(h.stacks) : x = h.exits \/ x \in 1..Len(g.stacks)
  BY <1>3
<1>b. \A i \in 1..w.n : (Owns(v, i) <=> Owns(w, i)) /\ Own(v, h, i) = Own(w, g, i)
  BY <1>2, <1>3, <1>4, <1>5 DEF Owns, Own, Kind, Ref
<1>c. Owns(v, v.n) /\ Own(v, h, v.n) = h.exits
  BY <1>1 DEF Owns, Own, Kind, Ref
<1>7. Scopes(T, v, h)
  <2>2. ASSUME NEW x \in 1..Len(h.stacks)
        PROVE  h.stacks[x].parent < x /\ v.todo[x] <= Len(h.stacks[x].items)
    <3>1. CASE x = h.exits
      BY <1>3, <1>t, <1>x, <3>1
    <3>2. CASE x \in 1..Len(g.stacks)
      BY <1>3, <1>t, <1>a, <3>2 DEF Scopes
    <3> QED
      BY <1>y, <3>1, <3>2
  <2>3. v.xs[0] = None /\ h.exits = v.xs[v.n]
    BY <1>2, <1>5, <1>a DEF Scopes
  <2>4. ASSUME NEW i \in 1..v.n, Kind(v, i) # "DOSCOPE"
        PROVE  v.xs[i] = v.xs[i - 1]
    BY <1>1, <1>2, <1>4, <1>a, <2>4 DEF Scopes, Kind
  <2>5. ASSUME NEW i \in 1..v.n, Kind(v, i) = "DOSCOPE"
        PROVE  /\ v.xs[i] \in 1..Len(h.stacks) /\ Ref(v, i) = v.xs[i]
               /\ v.fr[i].state.exits = v.xs[i - 1]
               /\ v.todo[v.xs[i]] = Len(h.stacks[v.xs[i]].items)
    <3>1. CASE i = v.n
      <4>1. Ref(v, i) = h.exits /\ v.xs[i] = h.exits /\ v.xs[i - 1] = g.exits
        BY <1>1, <1>2, <1>5, <1>e, <3>1 DEF Ref
      <4>2. h.exits \in 1..Len(h.stacks)
        BY <1>3
      <4> QED
        BY <1>1, <1>3, <1>t, <3>1, <4>1, <4>2
    <3>2. CASE i # v.n
      <4>1. i \in 1..w.n /\ i \in 0..w.n /\ i - 1 \in 0..w.n /\ Kind(w, i) = "DOSCOPE"
        BY <1>2, <1>4, <2>5, <3>2 DEF Kind
      <4>2. /\ w.xs[i] \in 1..Len(g.stacks) /\ Ref(w, i) = w.xs[i]
            /\ w.fr[i].state.exits = w.xs[i - 1]
            /\ w.todo[w.xs[i]] = Len(g.stacks[w.xs[i]].items)
        BY <1>a, <4>1 DEF Scopes
      <4>3. w.xs[i] \in 1..Len(h.stacks)
        BY <1>3, <4>2
      <4> QED
        BY <1>2, <1>3, <1>t, <4>1, <4>2, <4>3 DEF Ref
    <3> QED
      BY <3>1, <3>2
  <2>6. ASSUME NEW i \in 0..v.n, v.xs[i] # None
        PROVE  \E j \in 1..i : Kind(v, j) = "DOSCOPE" /\ v.xs[j] = v.xs[i]
    <3>1. CASE i = v.n
      BY <1>1, <1>5, <3>1 DEF Kind
    <3>2. CASE i # v.n
      <4>1. i \in 0..w.n /\ v.xs[i] = w.xs[i]
        BY <1>2, <1>6, <3>2
      <4>2. PICK j \in 1..i : Kind(w, j) = "DOSCOPE" /\ w.xs[j] = w.xs[i]
        BY <1>a, <2>6, <4>1 DEF Scopes
      <4>3. j \in 0..w.n
        BY <1>1, <4>1
      <4> QED
        BY <1>2, <4>1, <4>2, <4>3 DEF Kind
    <3> QED
      BY <3>1, <3>2
  <2> QED
    BY <1>s, <2>2, <2>3, <2>4, <2>5, <2>6 DEF Scopes
<1>8. Owners(v, h)
  <2>1. h.fins \in Seq(Sequences)
    BY <1>3, <1>a DEF Owners
  <2>2. ASSUME NEW i \in 1..v.n, Kind(v, i) = "FINSEQ"
        PROVE  /\ Ref(v, i) \in 1..Len(h.fins)
               /\ h.fins[Ref(v, i)].xs \in 1..Len(h.stacks)
               /\ h.fins[Ref(v, i)].i = v.todo[h.fins[Ref(v, i)].xs]
    <3>1. i \in 1..w.n /\ i \in 0..w.n /\ Kind(w, i) = "FINSEQ" /\ Ref(v, i) = Ref(w, i)
      BY <1>1, <1>2, <1>4, <2>2 DEF Kind, Ref
    <3>2. /\ Ref(w, i) \in 1..Len(g.fins)
          /\ g.fins[Ref(w, i)].xs \in 1..Len(g.stacks)
          /\ g.fins[Ref(w, i)].i = w.todo[g.fins[Ref(w, i)].xs]
      BY <1>a, <3>1 DEF Owners
    <3>3. g.fins[Ref(w, i)].xs \in 1..Len(h.stacks)
      BY <1>3, <3>2
    <3> QED
      BY <1>3, <1>t, <3>1, <3>2, <3>3
  <2>3. ASSUME NEW i \in 1..v.n, NEW j \in 1..v.n, i < j, Owns(v, i), Owns(v, j)
        PROVE  Own(v, h, i) < Own(v, h, j)
    <3>1. i \in 1..w.n /\ Owns(w, i) /\ Own(v, h, i) = Own(w, g, i)
      BY <1>1, <1>4, <1>b, <2>3
    <3>2. CASE j = v.n
      BY <1>3, <1>a, <1>c, <3>1, <3>2, OwnBound
    <3>3. CASE j # v.n
      BY <1>4, <1>a, <1>b, <2>3, <3>1, <3>3 DEF Owners
    <3> QED
      BY <3>2, <3>3
  <2>4. ASSUME NEW x \in 1..Len(h.stacks), v.todo[x] > 0
        PROVE  \E i \in 1..v.n : Owns(v, i) /\ Own(v, h, i) = x
    <3>1. CASE x = h.exits
      BY <1>5, <1>c, <3>1
    <3>2. CASE x \in 1..Len(g.stacks)
      BY <1>5, <1>a, <1>b, <1>t, <2>4, <3>2 DEF Owners
    <3> QED
      BY <1>y, <3>1, <3>2
  <2> QED
    BY <2>1, <2>2, <2>3, <2>4 DEF Owners
<1>9. ExitActions(v, h, r)
  <2>1. \A x \in 1..Len(g.stacks) : Items(h, x) = Items(g, x) /\ v.todo[x] = w.todo[x]
    BY <1>3, <1>t DEF Items
  <2>2. Len(Items(h, h.exits)) = 0
    BY <1>3 DEF Items
  <2> QED
    <3>1. 1..Len(g.stacks) \subseteq 1..Len(h.stacks) /\ 1..Len(Items(h, h.exits)) = {}
      BY <1>3, <2>2
    <3> QED
      BY <1>a, <1>y, <2>1, <3>1, ExitActionsNew
<1> QED
  BY <1>7, <1>8, <1>9 DEF Scoping

(* A scope with exit actions is left: the sequence that runs them takes    *)
(* the place of its frame, on the mask frame they run under.               *)
Leaves(w, v, ref) ==
  /\ v.n = w.n + 1 /\ SameBelow(w, v, w.n - 1)
  /\ v.fr[w.n].kind = "POPMASK" /\ v.fr[v.n].kind = "FINSEQ" /\ v.fr[v.n].ref = ref
  /\ v.xs[w.n] = w.xs[w.n - 1] /\ v.xs[v.n] = w.xs[w.n - 1]

NewSequence(g, h, fs) == h.stacks = g.stacks /\ h.fins = Append(g.fins, fs)

(* A sequence of exit actions that begins is the newest.                   *)
LEMMA NewSequenceFrames ==
  ASSUME NEW w, NEW g, NEW h, NEW fs \in Sequences, Owners(w, g), NewSequence(g, h, fs)
  PROVE  /\ Len(g.fins) \in Nat /\ Len(h.fins) = Len(g.fins) + 1
         /\ \A i \in 1..Len(g.fins) : h.fins[i] = g.fins[i]
         /\ h.fins[Len(g.fins) + 1] = fs
<1>1. g.fins \in Seq(Sequences)
  BY DEF Owners
<1>2. h.fins = Append(g.fins, fs)
  BY DEF NewSequence
<1> QED
  BY <1>1, <1>2

(* The sequences keep their type when one begins.                          *)
LEMMA NewSequenceTyped ==
  ASSUME NEW w, NEW g, NEW h, NEW fs \in Sequences, Owners(w, g), NewSequence(g, h, fs)
  PROVE  h.fins \in Seq(Sequences)
<1>1. g.fins \in Seq(Sequences)
  BY DEF Owners
<1>2. h.fins = Append(g.fins, fs)
  BY DEF NewSequence
<1> QED
  BY <1>1, <1>2

(* When a DOSCOPE is replaced by a sequence for its scope, the scope still *)
(* has one frame to run its exit actions.                                  *)
LEMMA ScopingLeave ==
  ASSUME NEW T, NEW S, NEW w \in Shadows(S), NEW v \in Shadows(S), NEW g, NEW h, NEW r,
         NEW fs \in Sequences, NEW ref, Scoping(T, w, g, r), w.n > 0, Kind(w, w.n) = "DOSCOPE",
         NewSequence(g, h, fs), fs.xs = Ref(w, w.n), fs.i = Len(g.stacks[fs.xs].items),
         ref = Len(g.fins) + 1, Leaves(w, v, ref), h.exits = w.xs[w.n - 1], v.todo = w.todo
  PROVE  Scoping(T, v, h, r)
<1>1. w.n \in Nat /\ v.n \in Nat /\ v.n = w.n + 1
  BY DEF Shadows, Leaves
<1>2. \A i \in 0..(w.n - 1) : v.fr[i] = w.fr[i] /\ v.xs[i] = w.xs[i]
  BY DEF Leaves, SameBelow
<1>3. h.stacks = g.stacks
  BY DEF NewSequence
<1>p. /\ Kind(v, w.n) = "POPMASK" /\ Kind(v, v.n) = "FINSEQ" /\ Ref(v, v.n) = ref
      /\ v.xs[w.n] = w.xs[w.n - 1] /\ v.xs[v.n] = w.xs[w.n - 1]
  BY DEF Leaves, Kind, Ref
<1>4. \A i \in 1..v.n :
        i = v.n \/ i = w.n \/ (i \in 1..(w.n - 1) /\ i \in 0..(w.n - 1) /\ i - 1 \in 0..(w.n - 1))
  BY <1>1
<1>5. /\ v.n - 1 = w.n /\ w.n - 1 \in 0..(w.n - 1) /\ 0 \in 0..(w.n - 1)
      /\ 1..(w.n - 1) \subseteq 1..w.n /\ 0..(w.n - 1) \subseteq 0..w.n
      /\ w.n \in 1..w.n /\ v.n \in 1..v.n /\ 1..w.n \subseteq 1..v.n
  BY <1>1
<1>6. \A i \in 0..v.n : i = v.n \/ i = w.n \/ i \in 0..(w.n - 1)
  BY <1>1
<1>a. Scopes(T, w, g) /\ Owners(w, g) /\ ExitActions(w, g, r)
  BY DEF Scoping
<1>f. /\ Len(g.fins) \in Nat /\ Len(h.fins) = Len(g.fins) + 1
      /\ \A i \in 1..Len(g.fins) : h.fins[i] = g.fins[i]
      /\ h.fins[Len(g.fins) + 1] = fs
  BY <1>a, NewSequenceFrames
<1>o. /\ w.xs[w.n] \in 1..Len(g.stacks) /\ Ref(w, w.n) = w.xs[w.n]
      /\ w.todo[w.xs[w.n]] = Len(g.stacks[w.xs[w.n]].items)
      /\ Owns(w, w.n) /\ Own(w, g, w.n) = w.xs[w.n]
  BY <1>5, <1>a DEF Scopes, Owns, Own
<1>b. ASSUME NEW i \in 1..(w.n - 1)
      PROVE  (Owns(v, i) <=> Owns(w, i)) /\ (Owns(w, i) => Own(v, h, i) = Own(w, g, i))
  <2>1. Kind(v, i) = Kind(w, i) /\ Ref(v, i) = Ref(w, i) /\ i \in 1..w.n
    BY <1>1, <1>2 DEF Kind, Ref
  <2>2. Kind(w, i) = "FINSEQ" => Ref(w, i) \in 1..Len(g.fins)
    BY <1>a, <2>1 DEF Owners
  <2> QED
    BY <1>f, <2>1, <2>2 DEF Owns, Own
<1>c. Owns(v, v.n) /\ Own(v, h, v.n) = w.xs[w.n] /\ ~Owns(v, w.n)
  BY <1>p, <1>f, <1>o DEF Owns, Own
<1>7. Scopes(T, v, h)
  <2>1. h.stacks \in Seq(Stacks(T))
    BY <1>3, <1>a DEF Scopes
  <2>2. \A x \in 1..Len(h.stacks) :
          h.stacks[x].parent < x /\ v.todo[x] <= Len(h.stacks[x].items)
    BY <1>3, <1>a DEF Scopes
  <2>3. v.xs[0] = None /\ h.exits = v.xs[v.n]
    BY <1>2, <1>5, <1>p, <1>a DEF Scopes
  <2>4. ASSUME NEW i \in 1..v.n, Kind(v, i) # "DOSCOPE"
        PROVE  v.xs[i] = v.xs[i - 1]
    <3>1. CASE i = v.n \/ i = w.n
      BY <1>1, <1>2, <1>5, <1>p, <3>1
    <3>2. CASE i # v.n /\ i # w.n
      <4>1. i \in 1..w.n /\ i \in 0..(w.n - 1) /\ i - 1 \in 0..(w.n - 1)
        BY <1>4, <1>5, <3>2
      <4> QED
        BY <1>2, <1>a, <2>4, <4>1 DEF Scopes, Kind
    <3> QED
      BY <3>1, <3>2
  <2>5. ASSUME NEW i \in 1..v.n, Kind(v, i) = "DOSCOPE"
        PROVE  /\ v.xs[i] \in 1..Len(h.stacks) /\ Ref(v, i) = v.xs[i]
               /\ v.fr[i].state.exits = v.xs[i - 1]
               /\ v.todo[v.xs[i]] = Len(h.stacks[v.xs[i]].items)
    <3>1. i \in 1..w.n /\ i \in 0..(w.n - 1) /\ i - 1 \in 0..(w.n - 1)
      BY <1>4, <1>5, <1>p, <2>5
    <3>2. Kind(w, i) = "DOSCOPE"
      BY <1>2, <2>5, <3>1 DEF Kind
    <3>3. /\ w.xs[i] \in 1..Len(g.stacks) /\ Ref(w, i) = w.xs[i]
          /\ w.fr[i].state.exits = w.xs[i - 1]
          /\ w.todo[w.xs[i]] = Len(g.stacks[w.xs[i]].items)
      BY <1>a, <3>1, <3>2 DEF Scopes
    <3> QED
      BY <1>2, <1>3, <3>1, <3>3 DEF Ref
  <2>6. ASSUME NEW i \in 0..v.n, v.xs[i] # None
        PROVE  \E j \in 1..i : Kind(v, j) = "DOSCOPE" /\ v.xs[j] = v.xs[i]
    <3>1. PICK k \in 0..(w.n - 1) : k <= i /\ v.xs[i] = w.xs[k]
      BY <1>1, <1>2, <1>5, <1>6, <1>p
    <3>2. k \in 0..w.n /\ w.xs[k] # None
      BY <1>5, <2>6, <3>1
    <3>3. PICK j \in 1..k : Kind(w, j) = "DOSCOPE" /\ w.xs[j] = w.xs[k]
      BY <1>a, <3>2 DEF Scopes
    <3>4. j \in 1..i /\ j \in 0..(w.n - 1)
      BY <1>1, <3>1
    <3> QED
      BY <1>2, <3>1, <3>3, <3>4 DEF Kind
  <2> QED
    BY <2>1, <2>2, <2>3, <2>4, <2>5, <2>6 DEF Scopes
<1>8. Owners(v, h)
  <2>1. h.fins \in Seq(Sequences)
    BY <1>a, NewSequenceTyped
  <2>2. ASSUME NEW i \in 1..v.n, Kind(v, i) = "FINSEQ"
        PROVE  /\ Ref(v, i) \in 1..Len(h.fins)
               /\ h.fins[Ref(v, i)].xs \in 1..Len(h.stacks)
               /\ h.fins[Ref(v, i)].i = v.todo[h.fins[Ref(v, i)].xs]
    <3>1. CASE i = v.n
      <4>1. Ref(v, i) = Len(g.fins) + 1 /\ Ref(v, i) \in 1..Len(h.fins)
        BY <1>f, <1>p, <3>1
      <4> QED
        BY <1>3, <1>f, <1>o, <4>1
    <3>2. CASE i # v.n
      <4>1. i \in 1..w.n /\ i \in 0..(w.n - 1)
        BY <1>4, <1>5, <1>p, <2>2, <3>2
      <4>2. Kind(w, i) = "FINSEQ" /\ Ref(v, i) = Ref(w, i)
        BY <1>2, <2>2, <4>1 DEF Kind, Ref
      <4>3. /\ Ref(w, i) \in 1..Len(g.fins)
            /\ g.fins[Ref(w, i)].xs \in 1..Len(g.stacks)
            /\ g.fins[Ref(w, i)].i = w.todo[g.fins[Ref(w, i)].xs]
        BY <1>a, <4>1, <4>2 DEF Owners
      <4> QED
        BY <1>3, <1>f, <4>2, <4>3
    <3> QED
      BY <3>1, <3>2
  <2>3. ASSUME NEW i \in 1..v.n, NEW j \in 1..v.n, i < j, Owns(v, i), Owns(v, j)
        PROVE  Own(v, h, i) < Own(v, h, j)
    <3>1. i \in 1..(w.n - 1) /\ i \in 1..w.n
      BY <1>1, <1>4, <1>5, <1>c, <2>3
    <3>2. Owns(w, i) /\ Own(v, h, i) = Own(w, g, i)
      BY <1>b, <2>3, <3>1
    <3>3. CASE j = v.n
      <4>1. i < w.n
        BY <1>1, <3>1
      <4>2. Own(w, g, i) < Own(w, g, w.n)
        BY <1>5, <1>a, <1>o, <3>1, <3>2, <4>1 DEF Owners
      <4> QED
        BY <1>c, <1>o, <3>2, <3>3, <4>2
    <3>4. CASE j # v.n
      <4>1. j \in 1..(w.n - 1) /\ j \in 1..w.n
        BY <1>1, <1>4, <1>5, <1>c, <2>3, <3>4
      <4>2. Owns(w, j) /\ Own(v, h, j) = Own(w, g, j)
        BY <1>b, <2>3, <4>1
      <4> QED
        BY <1>a, <2>3, <3>1, <3>2, <4>1, <4>2 DEF Owners
    <3> QED
      BY <3>3, <3>4
  <2>4. ASSUME NEW x \in 1..Len(h.stacks), v.todo[x] > 0
        PROVE  \E i \in 1..v.n : Owns(v, i) /\ Own(v, h, i) = x
    <3>1. PICK i \in 1..w.n : Owns(w, i) /\ Own(w, g, i) = x
      BY <1>3, <1>a, <2>4 DEF Owners
    <3>2. CASE i = w.n
      BY <1>5, <1>c, <1>o, <3>1, <3>2
    <3>3. CASE i # w.n
      <4>1. i \in 1..(w.n - 1) /\ i \in 1..v.n
        BY <1>1, <1>5, <3>3
      <4> QED
        BY <1>b, <3>1, <4>1
    <3> QED
      BY <3>2, <3>3
  <2> QED
    BY <2>1, <2>2, <2>3, <2>4 DEF Owners
<1>9. ExitActions(v, h, r)
  BY <1>3, <1>a, ExitActionsSame
<1> QED
  BY <1>7, <1>8, <1>9 DEF Scoping

(* An exit action is registered, started, or has failed: the stack stays.  *)
SameStack(w, v) ==
  v.n = w.n /\ v.st = w.st /\ v.fr = w.fr /\ v.ms = w.ms /\ v.xs = w.xs /\ v.user = w.user

(* The current scope still has all its exit actions to run.                *)
LEMMA CurrentScope ==
  ASSUME NEW T, NEW S, NEW w \in Shadows(S), NEW g, Scopes(T, w, g), g.exits # None
  PROVE  /\ g.exits \in 1..Len(g.stacks)
         /\ w.todo[g.exits] = Len(g.stacks[g.exits].items)
         /\ \E j \in 1..w.n : Kind(w, j) = "DOSCOPE" /\ w.xs[j] = g.exits
<1>1. w.n \in Nat /\ w.n \in 0..w.n
  BY DEF Shadows
<1>2. g.exits = w.xs[w.n]
  BY DEF Scopes
<1>3. PICK j \in 1..w.n : Kind(w, j) = "DOSCOPE" /\ w.xs[j] = g.exits
  BY <1>1, <1>2 DEF Scopes
<1> QED
  BY <1>3 DEF Scopes

NewItem(g, h, item) ==
  /\ h.exits = g.exits /\ h.fins = g.fins
  /\ h.stacks = [g.stacks EXCEPT ![g.exits].items = Append(@, item)]

ItemTypes(S) == [n : Nat, action : Closures(S, Nat)]

(* An exit action that is registered is the last item of its scope.        *)
LEMMA NewItemFrames ==
  ASSUME NEW T, NEW w, NEW g, NEW h, NEW item \in ItemTypes(T), Scopes(T, w, g),
         NewItem(g, h, item), g.exits \in 1..Len(g.stacks)
  PROVE  /\ Len(h.stacks) = Len(g.stacks)
         /\ \A x \in 1..Len(g.stacks) : h.stacks[x].parent = g.stacks[x].parent
         /\ \A x \in 1..Len(g.stacks) : x # g.exits => Items(h, x) = Items(g, x)
         /\ Len(Items(g, g.exits)) \in Nat
         /\ Len(Items(h, g.exits)) = Len(Items(g, g.exits)) + 1
         /\ \A j \in 1..Len(Items(g, g.exits)) : Items(h, g.exits)[j] = Items(g, g.exits)[j]
         /\ Items(h, g.exits)[Len(Items(g, g.exits)) + 1] = item
<1>1. g.stacks \in Seq(Stacks(T))
  BY DEF Scopes
<1>2. PICK e : e = g.exits
  OBVIOUS
<1>3. PICK xs : xs = g.stacks[e].items
  OBVIOUS
<1>4. g.stacks[e] \in Stacks(T)
  BY <1>1, <1>2
<1>5. xs \in Seq(ItemTypes(T))
  BY <1>3, <1>4 DEF Stacks, ItemTypes
<1>6. PICK y : y = [g.stacks[e] EXCEPT !.items = Append(xs, item)]
  OBVIOUS
<1>7. h.stacks = [g.stacks EXCEPT ![e] = y]
  BY <1>2, <1>3, <1>6 DEF NewItem
<1>8. y.parent = g.stacks[e].parent /\ y.items = Append(xs, item)
  BY <1>4, <1>6 DEF Stacks
<1>9. /\ Len(h.stacks) = Len(g.stacks) /\ h.stacks[e] = y
      /\ \A x \in 1..Len(g.stacks) : x # e => h.stacks[x] = g.stacks[x]
  BY <1>1, <1>2, <1>7
<1>10. /\ Len(xs) \in Nat /\ Len(Append(xs, item)) = Len(xs) + 1
       /\ \A j \in 1..Len(xs) : Append(xs, item)[j] = xs[j]
       /\ Append(xs, item)[Len(xs) + 1] = item
  BY <1>5
<1>11. Items(g, e) = xs /\ Items(h, e) = Append(xs, item)
  BY <1>3, <1>8, <1>9 DEF Items
<1>12. /\ \A x \in 1..Len(g.stacks) : h.stacks[x].parent = g.stacks[x].parent
       /\ \A x \in 1..Len(g.stacks) : x # e => Items(h, x) = Items(g, x)
  BY <1>8, <1>9, Zenon DEF Items
<1> QED
  BY <1>2, <1>9, <1>10, <1>11, <1>12

(* The scopes keep their type when an exit action is registered.           *)
LEMMA NewItemTyped ==
  ASSUME NEW T, NEW w, NEW g, NEW h, NEW item \in ItemTypes(T), Scopes(T, w, g),
         NewItem(g, h, item), g.exits \in 1..Len(g.stacks)
  PROVE  h.stacks \in Seq(Stacks(T))
<1>1. g.stacks \in Seq(Stacks(T))
  BY DEF Scopes
<1>2. PICK e : e = g.exits
  OBVIOUS
<1>3. g.stacks[e] \in Stacks(T)
  BY <1>1, <1>2
<1>4. g.stacks[e].items \in Seq(ItemTypes(T))
  BY <1>3 DEF Stacks, ItemTypes
<1>5. PICK y : y = [g.stacks[e] EXCEPT !.items = Append(g.stacks[e].items, item)]
  OBVIOUS
<1>6. Append(g.stacks[e].items, item) \in Seq(ItemTypes(T))
  BY <1>4
<1>7. y \in Stacks(T)
  BY <1>3, <1>5, <1>6 DEF Stacks, ItemTypes
<1>8. h.stacks = [g.stacks EXCEPT ![e] = y]
  BY <1>2, <1>5 DEF NewItem
<1> QED
  BY <1>1, <1>2, <1>7, <1>8

(* Registering an exit action in the current scope keeps what holds of     *)
(* scopes: the frame that owns it is still its DOSCOPE.                    *)
LEMMA ScopingDefer ==
  ASSUME NEW T, NEW S, NEW w \in Shadows(S), NEW v \in Shadows(S), NEW g, NEW h, NEW r, NEW q,
         NEW item \in ItemTypes(T), Scoping(T, w, g, r), g.exits # None, NewItem(g, h, item),
         item.n = Len(r) + 1, q = Append(r, 0), SameStack(w, v),
         v.todo = [w.todo EXCEPT ![g.exits] = @ + 1]
  PROVE  Scoping(T, v, h, q)
<1>a. Scopes(T, w, g) /\ Owners(w, g) /\ ExitActions(w, g, r)
  BY DEF Scoping
<1>1. /\ g.exits \in 1..Len(g.stacks) /\ w.todo[g.exits] = Len(Items(g, g.exits))
      /\ \E j \in 1..w.n : Kind(w, j) = "DOSCOPE" /\ w.xs[j] = g.exits
  BY <1>a, CurrentScope DEF Items
<1>2. PICK e : e = g.exits
  OBVIOUS
<1>s. h.stacks \in Seq(Stacks(T))
  BY <1>a, <1>1, NewItemTyped
<1>3. /\ Len(h.stacks) = Len(g.stacks)
      /\ \A x \in 1..Len(g.stacks) : h.stacks[x].parent = g.stacks[x].parent
      /\ \A x \in 1..Len(g.stacks) : x # e => Items(h, x) = Items(g, x)
      /\ Len(Items(g, e)) \in Nat
      /\ Len(Items(h, e)) = Len(Items(g, e)) + 1
      /\ \A j \in 1..Len(Items(g, e)) : Items(h, e)[j] = Items(g, e)[j]
      /\ Items(h, e)[Len(Items(g, e)) + 1] = item
  BY <1>a, <1>1, <1>2, NewItemFrames
<1>4. h.exits = g.exits /\ h.fins = g.fins
  BY DEF NewItem
<1>5. v.n = w.n /\ v.fr = w.fr /\ v.xs = w.xs
  BY DEF SameStack
<1>t. v.todo[e] = w.todo[e] + 1 /\ \A x \in 1..Len(g.stacks) : x # e => v.todo[x] = w.todo[x]
  <2>1. DOMAIN w.todo = Nat
    BY DEF Shadows, Numbers
  <2>2. e \in Nat /\ \A x \in 1..Len(g.stacks) : x \in Nat
    BY <1>1, <1>2
  <2> QED
    BY <1>2, <2>1, <2>2
<1>o. \A i : Owns(v, i) = Owns(w, i) /\ Own(v, h, i) = Own(w, g, i)
  BY <1>4, <1>5 DEF Owns, Own, Kind, Ref
<1>b. PICK j \in 1..w.n : Kind(w, j) = "DOSCOPE" /\ w.xs[j] = e
  BY <1>1, <1>2
<1>c. Owns(w, j) /\ Own(w, g, j) = e
  BY <1>a, <1>b DEF Scopes, Owns, Own
(* A sequence never runs the exit actions of the current scope.            *)
<1>d. ASSUME NEW i \in 1..w.n, Kind(w, i) = "FINSEQ"
      PROVE  g.fins[Ref(w, i)].xs # e
  <2>1. Owns(w, i) /\ Own(w, g, i) = g.fins[Ref(w, i)].xs /\ i # j
    BY <1>b, <1>d DEF Owns, Own
  <2>2. Own(w, g, i) \in 1..Len(g.stacks) /\ Own(w, g, j) \in 1..Len(g.stacks)
    BY <1>a, <1>b, <1>c, <2>1, OwnBound
  <2>3. i < j \/ j < i
    BY <2>1
  <2> QED
    BY <1>a, <1>c, <2>1, <2>2, <2>3 DEF Owners
<1>6. Scopes(T, v, h)
  <2>1. ASSUME NEW x \in 1..Len(h.stacks)
        PROVE  h.stacks[x].parent < x /\ v.todo[x] <= Len(Items(h, x))
    <3>1. x \in 1..Len(g.stacks) /\ g.stacks[x].parent < x /\ w.todo[x] <= Len(Items(g, x))
      BY <1>3, <1>a DEF Scopes, Items
    <3>2. CASE x = e
      BY <1>1, <1>2, <1>3, <1>t, <3>1, <3>2
    <3>3. CASE x # e
      BY <1>3, <1>t, <3>1, <3>3
    <3> QED
      BY <3>2, <3>3
  <2>2. v.xs[0] = None /\ h.exits = v.xs[v.n]
    BY <1>4, <1>5, <1>a DEF Scopes
  <2>3. \A i \in 1..v.n : Kind(v, i) # "DOSCOPE" => v.xs[i] = v.xs[i - 1]
    BY <1>5, <1>a DEF Scopes, Kind
  <2>4. ASSUME NEW i \in 1..v.n, Kind(v, i) = "DOSCOPE"
        PROVE  /\ v.xs[i] \in 1..Len(h.stacks) /\ Ref(v, i) = v.xs[i]
               /\ v.fr[i].state.exits = v.xs[i - 1]
               /\ v.todo[v.xs[i]] = Len(Items(h, v.xs[i]))
    <3>1. /\ w.xs[i] \in 1..Len(g.stacks) /\ Ref(w, i) = w.xs[i]
          /\ w.fr[i].state.exits = w.xs[i - 1]
          /\ w.todo[w.xs[i]] = Len(Items(g, w.xs[i]))
      BY <1>5, <1>a, <2>4 DEF Scopes, Kind, Items
    <3>2. CASE w.xs[i] = e
      <4>1. v.todo[e] = Len(Items(h, e))
        BY <1>1, <1>2, <1>3, <1>t
      <4> QED
        BY <1>3, <1>5, <3>1, <3>2, <4>1 DEF Ref
    <3>3. CASE w.xs[i] # e
      BY <1>3, <1>5, <1>t, <3>1, <3>3 DEF Ref
    <3> QED
      BY <3>2, <3>3
  <2>5. ASSUME NEW i \in 0..v.n, v.xs[i] # None
        PROVE  \E k \in 1..i : Kind(v, k) = "DOSCOPE" /\ v.xs[k] = v.xs[i]
    <3>1. i \in 0..w.n /\ w.xs[i] # None
      BY <1>5, <2>5
    <3>2. PICK k \in 1..i : Kind(w, k) = "DOSCOPE" /\ w.xs[k] = w.xs[i]
      BY <1>a, <3>1 DEF Scopes
    <3> QED
      BY <1>5, <3>2 DEF Kind
  <2> QED
    BY <1>s, <2>1, <2>2, <2>3, <2>4, <2>5 DEF Scopes, Items
<1>7. Owners(v, h)
  <2>1. h.fins \in Seq(Sequences)
    BY <1>4, <1>a DEF Owners
  <2>2. ASSUME NEW i \in 1..v.n, Kind(v, i) = "FINSEQ"
        PROVE  /\ Ref(v, i) \in 1..Len(h.fins)
               /\ h.fins[Ref(v, i)].xs \in 1..Len(h.stacks)
               /\ h.fins[Ref(v, i)].i = v.todo[h.fins[Ref(v, i)].xs]
    <3>1. Kind(w, i) = "FINSEQ" /\ Ref(v, i) = Ref(w, i) /\ i \in 1..w.n
      BY <1>5, <2>2 DEF Kind, Ref
    <3>2. /\ Ref(w, i) \in 1..Len(g.fins)
          /\ g.fins[Ref(w, i)].xs \in 1..Len(g.stacks)
          /\ g.fins[Ref(w, i)].i = w.todo[g.fins[Ref(w, i)].xs]
      BY <1>a, <3>1 DEF Owners
    <3> QED
      BY <1>3, <1>4, <1>d, <1>t, <3>1, <3>2
  <2>3. \A i, k \in 1..v.n : i < k /\ Owns(v, i) /\ Owns(v, k) => Own(v, h, i) < Own(v, h, k)
    BY <1>5, <1>a, <1>o DEF Owners
  <2>4. ASSUME NEW x \in 1..Len(h.stacks), v.todo[x] > 0
        PROVE  \E i \in 1..v.n : Owns(v, i) /\ Own(v, h, i) = x
    <3>1. CASE x = e
      BY <1>5, <1>b, <1>c, <1>o, <3>1
    <3>2. CASE x # e
      <4>1. x \in 1..Len(g.stacks) /\ w.todo[x] > 0
        BY <1>3, <1>t, <2>4, <3>2
      <4> QED
        BY <1>5, <1>a, <1>o, <4>1 DEF Owners
    <3> QED
      BY <3>1, <3>2
  <2> QED
    BY <2>1, <2>2, <2>3, <2>4 DEF Owners
<1>q. /\ q \in Seq(0..1) /\ Len(q) = Len(r) + 1 /\ Len(r) \in Nat
      /\ q[Len(r) + 1] = 0 /\ \A a \in 1..Len(r) : q[a] = r[a]
  BY <1>a DEF ExitActions
<1>8. ExitActions(v, h, q)
  <2>0. q \in Seq(0..1)
    BY <1>q
  <2>q. /\ Len(q) = Len(r) + 1 /\ Len(r) \in Nat
        /\ q[Len(r) + 1] = 0 /\ \A a \in 1..Len(r) : q[a] = r[a]
    BY <1>q
  <2>l. PICK k \in Nat : k = Len(Items(g, e))
    BY <1>3
  (* An item is an old one or the new one.                                 *)
  <2>1. ASSUME NEW x \in 1..Len(h.stacks), NEW i \in 1..Len(Items(h, x))
        PROVE  \/ /\ i \in 1..Len(Items(g, x)) /\ Items(h, x)[i] = Items(g, x)[i]
               \/ x = e /\ i = k + 1 /\ Items(h, x)[i] = item
    <3>1. CASE x = e
      <4>1. i \in 1..k \/ i = k + 1
        BY <1>3, <2>l, <3>1
      <4> QED
        BY <1>3, <2>l, <3>1, <4>1
    <3>2. CASE x # e
      BY <1>3, <3>2
    <3> QED
      BY <3>1, <3>2
  <2>2. ASSUME NEW x \in 1..Len(h.stacks), NEW i \in 1..Len(Items(g, x))
        PROVE  /\ Items(g, x)[i].n \in 1..Len(r)
               /\ r[Items(g, x)[i].n] = IF i <= w.todo[x] THEN 0 ELSE 1
    <3>1. x \in 1..Len(g.stacks)
      BY <1>3
    <3> QED
      BY <1>a, <3>1 DEF ExitActions
  <2>3. ASSUME NEW x \in 1..Len(h.stacks), NEW i \in 1..Len(Items(h, x))
        PROVE  /\ Items(h, x)[i].n \in 1..Len(q)
               /\ q[Items(h, x)[i].n] = IF i <= v.todo[x] THEN 0 ELSE 1
    <3>1. CASE x = e /\ i = k + 1 /\ Items(h, x)[i] = item
      BY <1>1, <1>2, <1>t, <2>l, <2>q, <3>1
    <3>2. CASE i \in 1..Len(Items(g, x)) /\ Items(h, x)[i] = Items(g, x)[i]
      <4>1. /\ Items(g, x)[i].n \in 1..Len(r)
            /\ r[Items(g, x)[i].n] = IF i <= w.todo[x] THEN 0 ELSE 1
        BY <2>2, <3>2
      <4>2. i <= w.todo[x] <=> i <= v.todo[x]
        <5>1. CASE x = e
          BY <1>1, <1>2, <1>t, <2>l, <3>2, <5>1
        <5>2. CASE x # e
          BY <1>3, <1>t, <5>2
        <5> QED
          BY <5>1, <5>2
      <4> QED
        BY <2>q, <3>2, <4>1, <4>2
    <3> QED
      BY <2>1, <3>1, <3>2
  <2>4. ASSUME NEW x \in 1..Len(h.stacks), NEW i \in 1..Len(Items(h, x)),
               NEW j2 \in 1..Len(Items(h, x)), i < j2
        PROVE  Items(h, x)[i].n < Items(h, x)[j2].n
    <3>1. x \in 1..Len(g.stacks)
      BY <1>3
    <3>2. /\ i \in 1..Len(Items(g, x)) /\ Items(h, x)[i] = Items(g, x)[i]
          /\ Items(g, x)[i].n \in 1..Len(r)
      <4>1. ~(x = e /\ i = k + 1)
        BY <1>3, <2>4, <2>l
      <4> QED
        BY <2>1, <2>2, <4>1
    <3>3. CASE x = e /\ j2 = k + 1 /\ Items(h, x)[j2] = item
      BY <2>q, <3>2, <3>3
    <3>4. CASE j2 \in 1..Len(Items(g, x)) /\ Items(h, x)[j2] = Items(g, x)[j2]
      <4>1. Items(g, x)[i].n < Items(g, x)[j2].n
        BY <1>a, <2>4, <3>1, <3>2, <3>4 DEF ExitActions
      <4> QED
        BY <3>2, <3>4, <4>1
    <3> QED
      BY <2>1, <3>3, <3>4
  <2>5. ASSUME NEW x \in 1..Len(h.stacks), NEW y \in 1..Len(h.stacks),
               NEW i \in 1..Len(Items(h, x)), NEW j2 \in 1..Len(Items(h, y)),
               Items(h, x)[i].n = Items(h, y)[j2].n
        PROVE  x = y
    <3>1. x \in 1..Len(g.stacks) /\ y \in 1..Len(g.stacks)
      BY <1>3
    <3>2. CASE x = e /\ i = k + 1 /\ Items(h, x)[i] = item
      <4>1. Items(h, y)[j2].n = Len(r) + 1
        BY <2>5, <3>2
      <4>2. ~(j2 \in 1..Len(Items(g, y)) /\ Items(h, y)[j2] = Items(g, y)[j2])
        BY <2>2, <2>q, <4>1
      <4> QED
        BY <2>1, <3>2, <4>2
    <3>3. CASE y = e /\ j2 = k + 1 /\ Items(h, y)[j2] = item
      <4>1. Items(h, x)[i].n = Len(r) + 1
        BY <2>5, <3>3
      <4>2. ~(i \in 1..Len(Items(g, x)) /\ Items(h, x)[i] = Items(g, x)[i])
        BY <2>2, <2>q, <4>1
      <4> QED
        BY <2>1, <3>3, <4>2
    <3>4. CASE /\ i \in 1..Len(Items(g, x)) /\ Items(h, x)[i] = Items(g, x)[i]
               /\ j2 \in 1..Len(Items(g, y)) /\ Items(h, y)[j2] = Items(g, y)[j2]
      <4>1. Items(g, x)[i].n = Items(g, y)[j2].n
        BY <2>5, <3>4
      <4> QED
        BY <1>a, <3>1, <3>4, <4>1 DEF ExitActions
    <3> QED
      BY <2>1, <3>2, <3>3, <3>4
  <2>6. ASSUME NEW a \in 1..Len(q)
        PROVE  \E x \in 1..Len(h.stacks) : \E i \in 1..Len(Items(h, x)) : Items(h, x)[i].n = a
    <3>1. CASE a = Len(r) + 1
      <4>1. e \in 1..Len(h.stacks) /\ k + 1 \in 1..Len(Items(h, e)) /\ Items(h, e)[k + 1].n = a
        BY <1>1, <1>2, <1>3, <2>l, <3>1
      <4> QED
        BY <4>1
    <3>2. CASE a \in 1..Len(r)
      <4>1. \E x \in 1..Len(g.stacks) : \E i \in 1..Len(Items(g, x)) : Items(g, x)[i].n = a
        BY <1>a, <3>2 DEF ExitActions
      <4>2. PICK x \in 1..Len(g.stacks) : \E i \in 1..Len(Items(g, x)) : Items(g, x)[i].n = a
        BY <4>1, Zenon
      <4>3. PICK i \in 1..Len(Items(g, x)) : Items(g, x)[i].n = a
        BY <4>2, Zenon
      <4>4. i \in 1..Len(Items(h, x)) /\ Items(h, x)[i] = Items(g, x)[i]
        <5>1. CASE x = e
          BY <1>3, <5>1
        <5>2. CASE x # e
          BY <1>3, <5>2
        <5> QED
          BY <5>1, <5>2
      <4>5. x \in 1..Len(h.stacks) /\ Items(h, x)[i].n = a
        BY <1>3, <4>3, <4>4
      <4> QED
        BY <4>4, <4>5, Zenon
    <3> QED
      BY <2>q, <3>1, <3>2
  <2> QED
    BY <2>0, <2>3, <2>4, <2>5, <2>6, Zenon DEF ExitActions
<1> QED
  BY <1>6, <1>7, <1>8 DEF Scoping

(* The sequence on top changes, and starts an exit action or not.          *)
ChangedSequence(g, h, ref, fs) ==
  h.stacks = g.stacks /\ h.exits = g.exits /\ h.fins = [g.fins EXCEPT ![ref] = fs]

(* Changing one sequence leaves the others as they are.                    *)
LEMMA ChangedSequenceFrames ==
  ASSUME NEW w, NEW g, NEW h, NEW ref, NEW fs \in Sequences, Owners(w, g),
         ChangedSequence(g, h, ref, fs), ref \in 1..Len(g.fins)
  PROVE  /\ Len(h.fins) = Len(g.fins) /\ h.fins[ref] = fs
         /\ \A i \in 1..Len(g.fins) : i # ref => h.fins[i] = g.fins[i]
<1>1. g.fins \in Seq(Sequences)
  BY DEF Owners
<1>2. h.fins = [g.fins EXCEPT ![ref] = fs]
  BY DEF ChangedSequence
<1> QED
  BY <1>1, <1>2

(* The sequences keep their type when one changes.                         *)
LEMMA ChangedSequenceTyped ==
  ASSUME NEW w, NEW g, NEW h, NEW ref, NEW fs \in Sequences, Owners(w, g),
         ChangedSequence(g, h, ref, fs), ref \in 1..Len(g.fins)
  PROVE  h.fins \in Seq(Sequences)
<1>1. g.fins \in Seq(Sequences)
  BY DEF Owners
<1>2. h.fins = [g.fins EXCEPT ![ref] = fs]
  BY DEF ChangedSequence
<1> QED
  BY <1>1, <1>2

(* Only the frame on top has the exit actions of its scope to run.         *)
LEMMA OwnsAlone ==
  ASSUME NEW T, NEW S, NEW w \in Shadows(S), NEW g, Scopes(T, w, g), Owners(w, g), w.n > 0,
         Owns(w, w.n), NEW i \in 1..w.n, Owns(w, i), Own(w, g, i) = Own(w, g, w.n)
  PROVE  i = w.n
<1>1. w.n \in 1..w.n /\ w.n \in Nat
  BY DEF Shadows
<1>2. Own(w, g, i) \in 1..Len(g.stacks) /\ Own(w, g, w.n) \in 1..Len(g.stacks)
  BY <1>1, OwnBound
<1>3. i < w.n => Own(w, g, i) < Own(w, g, w.n)
  BY <1>1 DEF Owners
<1> QED
  BY <1>1, <1>2, <1>3

(* The sequence on top may have fewer exit actions to run.                 *)
LEMMA ScopingChange ==
  ASSUME NEW T, NEW S, NEW w \in Shadows(S), NEW v \in Shadows(S), NEW g, NEW h, NEW ref,
         NEW fs \in Sequences, NEW e, Scopes(T, w, g), Owners(w, g), w.n > 0,
         Kind(w, w.n) = "FINSEQ", ref = Ref(w, w.n), ChangedSequence(g, h, ref, fs),
         e = g.fins[ref].xs, fs.xs = e, fs.i <= g.fins[ref].i, SameStack(w, v),
         v.todo = [w.todo EXCEPT ![e] = fs.i]
  PROVE  Scopes(T, v, h) /\ Owners(v, h)
<1>1. w.n \in 1..w.n /\ w.n \in Nat
  BY DEF Shadows
<1>2. /\ ref \in 1..Len(g.fins) /\ e \in 1..Len(g.stacks) /\ g.fins[ref].i = w.todo[e]
      /\ Owns(w, w.n) /\ Own(w, g, w.n) = e
  BY <1>1 DEF Owners, Owns, Own
<1>s. h.fins \in Seq(Sequences)
  BY <1>2, ChangedSequenceTyped
<1>3. /\ Len(h.fins) = Len(g.fins) /\ h.fins[ref] = fs
      /\ \A i \in 1..Len(g.fins) : i # ref => h.fins[i] = g.fins[i]
  BY <1>2, ChangedSequenceFrames
<1>4. h.stacks = g.stacks /\ h.exits = g.exits
  BY DEF ChangedSequence
<1>5. v.n = w.n /\ v.fr = w.fr /\ v.xs = w.xs
  BY DEF SameStack
<1>t. v.todo[e] = fs.i /\ \A x \in 1..Len(g.stacks) : x # e => v.todo[x] = w.todo[x]
  <2>1. DOMAIN w.todo = Nat
    BY DEF Shadows, Numbers
  <2>2. e \in Nat /\ \A x \in 1..Len(g.stacks) : x \in Nat
    BY <1>2
  <2> QED
    BY <2>1, <2>2
<1>u. fs.i \in Nat /\ \A x \in 1..Len(g.stacks) : w.todo[x] \in Nat
  <2>1. \A x \in 1..Len(g.stacks) : x \in Nat
    OBVIOUS
  <2> QED
    BY <2>1 DEF Sequences, Shadows, Numbers
(* The other frames have other scopes, and are for other sequences.        *)
<1>b. ASSUME NEW i \in 1..w.n, i # w.n, Owns(w, i)
      PROVE  Own(w, g, i) # e
  BY <1>2, <1>b, OwnsAlone
<1>c. ASSUME NEW i \in 1..w.n, i # w.n, Kind(w, i) = "FINSEQ"
      PROVE  Ref(w, i) \in 1..Len(g.fins) /\ Ref(w, i) # ref
  <2>1. Owns(w, i) /\ Own(w, g, i) = g.fins[Ref(w, i)].xs
    BY <1>c DEF Owns, Own
  <2> QED
    BY <1>b, <1>c, <2>1 DEF Owners
<1>o. ASSUME NEW i \in 1..w.n, Owns(w, i)
      PROVE  Owns(v, i) /\ Own(v, h, i) = Own(w, g, i)
  <2>1. CASE i = w.n
    BY <1>3, <1>5, <1>o, <2>1 DEF Owns, Own, Kind, Ref
  <2>2. CASE i # w.n
    BY <1>3, <1>5, <1>c, <1>o, <2>2 DEF Owns, Own, Kind, Ref
  <2> QED
    BY <2>1, <2>2
<1>p. \A i \in 1..v.n : Owns(v, i) => i \in 1..w.n /\ Owns(w, i)
  BY <1>5 DEF Owns, Kind
<1>6. Scopes(T, v, h)
  <2>1. h.stacks \in Seq(Stacks(T))
    BY <1>4 DEF Scopes
  <2>2. ASSUME NEW x \in 1..Len(h.stacks)
        PROVE  h.stacks[x].parent < x /\ v.todo[x] <= Len(h.stacks[x].items)
    <3>1. x \in 1..Len(g.stacks) /\ g.stacks[x].parent < x /\ w.todo[x] <= Len(g.stacks[x].items)
      BY <1>4 DEF Scopes
    <3>2. Len(g.stacks[x].items) \in Nat
      BY <3>1 DEF Scopes, Stacks
    <3>3. CASE x = e
      <4>1. v.todo[x] = fs.i /\ w.todo[x] = g.fins[ref].i /\ fs.i <= g.fins[ref].i
        BY <1>2, <1>t, <3>3
      <4>2. fs.i \in Nat /\ w.todo[x] \in Nat
        BY <1>u, <3>1
      <4>3. v.todo[x] <= Len(g.stacks[x].items)
        <5>1. PICK a \in Nat, b \in Nat, c \in Nat :
                a = v.todo[x] /\ b = w.todo[x] /\ c = Len(g.stacks[x].items)
          BY <3>2, <4>1, <4>2, Zenon
        <5>2. a <= b /\ b <= c
          BY <3>1, <4>1, <5>1, Zenon
        <5>3. a <= c
          BY <5>2
        <5> QED
          BY <5>1, <5>3, Zenon
      <4> QED
        BY <1>4, <3>1, <4>3, Zenon
    <3>4. CASE x # e
      BY <1>4, <1>t, <3>1, <3>4
    <3> QED
      BY <3>3, <3>4
  <2>3. v.xs[0] = None /\ h.exits = v.xs[v.n]
    BY <1>4, <1>5 DEF Scopes
  <2>4. \A i \in 1..v.n : Kind(v, i) # "DOSCOPE" => v.xs[i] = v.xs[i - 1]
    BY <1>5 DEF Scopes, Kind
  <2>5. ASSUME NEW i \in 1..v.n, Kind(v, i) = "DOSCOPE"
        PROVE  /\ v.xs[i] \in 1..Len(h.stacks) /\ Ref(v, i) = v.xs[i]
               /\ v.fr[i].state.exits = v.xs[i - 1]
               /\ v.todo[v.xs[i]] = Len(h.stacks[v.xs[i]].items)
    <3>1. i \in 1..w.n /\ i # w.n /\ Owns(w, i)
      BY <1>5, <2>5 DEF Kind, Owns
    <3>2. /\ w.xs[i] \in 1..Len(g.stacks) /\ Ref(w, i) = w.xs[i]
          /\ w.fr[i].state.exits = w.xs[i - 1]
          /\ w.todo[w.xs[i]] = Len(g.stacks[w.xs[i]].items)
      BY <1>5, <2>5, <3>1 DEF Scopes, Kind
    <3>3. w.xs[i] # e
      BY <1>5, <1>b, <2>5, <3>1, <3>2 DEF Own, Kind
    <3> QED
      BY <1>4, <1>5, <1>t, <3>2, <3>3 DEF Ref
  <2>6. ASSUME NEW i \in 0..v.n, v.xs[i] # None
        PROVE  \E k \in 1..i : Kind(v, k) = "DOSCOPE" /\ v.xs[k] = v.xs[i]
    <3>1. i \in 0..w.n /\ w.xs[i] # None
      BY <1>5, <2>6
    <3>2. PICK k \in 1..i : Kind(w, k) = "DOSCOPE" /\ w.xs[k] = w.xs[i]
      BY <3>1 DEF Scopes
    <3> QED
      BY <1>5, <3>2 DEF Kind
  <2> QED
    BY <2>1, <2>2, <2>3, <2>4, <2>5, <2>6 DEF Scopes
<1>7. Owners(v, h)
  <2>2. ASSUME NEW i \in 1..v.n, Kind(v, i) = "FINSEQ"
        PROVE  /\ Ref(v, i) \in 1..Len(h.fins)
               /\ h.fins[Ref(v, i)].xs \in 1..Len(h.stacks)
               /\ h.fins[Ref(v, i)].i = v.todo[h.fins[Ref(v, i)].xs]
    <3>1. i \in 1..w.n /\ Kind(w, i) = "FINSEQ" /\ Ref(v, i) = Ref(w, i)
      BY <1>5, <2>2 DEF Kind, Ref
    <3>2. CASE i = w.n
      BY <1>2, <1>3, <1>4, <1>t, <3>1, <3>2
    <3>3. CASE i # w.n
      <4>1. /\ Ref(w, i) \in 1..Len(g.fins)
            /\ g.fins[Ref(w, i)].xs \in 1..Len(g.stacks)
            /\ g.fins[Ref(w, i)].i = w.todo[g.fins[Ref(w, i)].xs]
        BY <3>1 DEF Owners
      <4>2. Ref(w, i) # ref
        BY <1>c, <3>1, <3>3
      <4>3. g.fins[Ref(w, i)].xs # e
        <5>1. Owns(w, i) /\ Own(w, g, i) = g.fins[Ref(w, i)].xs
          BY <3>1 DEF Owns, Own
        <5> QED
          BY <1>b, <3>1, <3>3, <5>1
      <4> QED
        BY <1>3, <1>4, <1>t, <3>1, <4>1, <4>2, <4>3
    <3> QED
      BY <3>2, <3>3
  <2>3. ASSUME NEW i \in 1..v.n, NEW k \in 1..v.n, i < k, Owns(v, i), Owns(v, k)
        PROVE  Own(v, h, i) < Own(v, h, k)
    <3>1. i \in 1..w.n /\ k \in 1..w.n /\ Owns(w, i) /\ Owns(w, k)
      BY <1>p, <2>3
    <3> QED
      BY <1>o, <2>3, <3>1 DEF Owners
  <2>4. ASSUME NEW x \in 1..Len(h.stacks), v.todo[x] > 0
        PROVE  \E i \in 1..v.n : Owns(v, i) /\ Own(v, h, i) = x
    <3>1. x \in 1..Len(g.stacks)
      BY <1>4
    <3>2. w.todo[x] > 0
      <4>1. CASE x = e
        BY <1>2, <1>t, <1>u, <2>4, <4>1
      <4>2. CASE x # e
        BY <1>t, <2>4, <3>1, <4>2
      <4> QED
        BY <4>1, <4>2
    <3>3. PICK i \in 1..w.n : Owns(w, i) /\ Own(w, g, i) = x
      BY <3>1, <3>2 DEF Owners
    <3>4. Owns(v, i) /\ Own(v, h, i) = x /\ i \in 1..v.n
      BY <1>5, <1>o, <3>3
    <3> QED
      BY <3>4
  <2> QED
    BY <1>s, <2>2, <2>3, <2>4 DEF Owners
<1> QED
  BY <1>6, <1>7

(* An exit action that is started is no longer among those to run: it had  *)
(* not been started, and it is the last one of its scope that had not.     *)
Begins(w, v, g, h, r, q, e, k, a) ==
  /\ e \in 1..Len(g.stacks) /\ k \in 1..Len(Items(g, e)) /\ w.todo[e] = k
  /\ a = Items(g, e)[k].n /\ h.stacks = g.stacks
  /\ v.todo = [w.todo EXCEPT ![e] = k - 1] /\ q = [r EXCEPT ![a] = @ + 1]

(* The exit action that is started had not been before.                    *)
LEMMA ExitActionsRun ==
  ASSUME NEW S, NEW w \in Shadows(S), NEW v, NEW g, NEW h, NEW r, NEW q, NEW e, NEW k \in Nat,
         NEW a, ExitActions(w, g, r), Begins(w, v, g, h, r, q, e, k, a)
  PROVE  ExitActions(v, h, q) /\ a \in 1..Len(r) /\ r[a] = 0
<1>h. /\ e \in 1..Len(g.stacks) /\ k \in 1..Len(Items(g, e)) /\ w.todo[e] = k
      /\ a = Items(g, e)[k].n /\ h.stacks = g.stacks
  BY DEF Begins
<1>1. a \in 1..Len(r) /\ r[a] = 0
  BY <1>h DEF ExitActions
<1>q. q = [r EXCEPT ![a] = @ + 1]
  BY DEF Begins
<1>2. r \in Seq(0..1)
  BY DEF ExitActions
<1>3. q \in Seq(0..1)
  BY <1>1, <1>2, <1>q
<1>4. Len(q) = Len(r) /\ q[a] = 1 /\ \A b \in 1..Len(r) : b # a => q[b] = r[b]
  BY <1>1, <1>2, <1>q
<1>t. v.todo[e] = k - 1 /\ \A x \in 1..Len(g.stacks) : x # e => v.todo[x] = w.todo[x]
  <2>1. DOMAIN w.todo = Nat
    BY DEF Shadows, Numbers
  <2>2. e \in Nat /\ \A x \in 1..Len(g.stacks) : x \in Nat
    BY <1>h
  <2>3. v.todo = [w.todo EXCEPT ![e] = k - 1]
    BY DEF Begins
  <2> QED
    BY <2>1, <2>2, <2>3
<1>5. h.stacks = g.stacks /\ \A x \in 1..Len(g.stacks) : Items(h, x) = Items(g, x)
  BY <1>h DEF Items
<1>6. ASSUME NEW x \in 1..Len(h.stacks), NEW j \in 1..Len(Items(h, x))
      PROVE  /\ Items(h, x)[j].n \in 1..Len(q)
             /\ q[Items(h, x)[j].n] = IF j <= v.todo[x] THEN 0 ELSE 1
  <2>1. x \in 1..Len(g.stacks) /\ j \in 1..Len(Items(g, x)) /\ Items(h, x) = Items(g, x)
    BY <1>5
  <2>2. /\ Items(g, x)[j].n \in 1..Len(r)
        /\ r[Items(g, x)[j].n] = IF j <= w.todo[x] THEN 0 ELSE 1
    BY <2>1 DEF ExitActions
  <2>3. CASE x = e /\ j = k
    BY <1>h, <1>1, <1>4, <1>t, <2>1, <2>2, <2>3
  <2>4. CASE x = e /\ j # k
    <3>1. Items(g, x)[j].n # a
      <4>1. k \in 1..Len(Items(g, x)) /\ a = Items(g, x)[k].n
        BY <1>h, <2>4
      <4>2. j < k => Items(g, x)[j].n < Items(g, x)[k].n
        BY <2>1, <4>1 DEF ExitActions
      <4>3. k < j => Items(g, x)[k].n < Items(g, x)[j].n
        BY <2>1, <4>1 DEF ExitActions
      <4>4. j < k \/ k < j
        BY <2>1, <2>4
      <4> QED
        BY <1>1, <2>2, <4>1, <4>2, <4>3, <4>4
    <3>2. (j <= w.todo[x]) = (j <= v.todo[x])
      BY <1>h, <1>t, <2>1, <2>4
    <3> QED
      BY <1>4, <2>1, <2>2, <3>1, <3>2
  <2>5. CASE x # e
    <3>1. Items(g, x)[j].n # a
      BY <1>h, <2>1, <2>5 DEF ExitActions
    <3> QED
      BY <1>4, <1>t, <2>1, <2>2, <2>5, <3>1
  <2> QED
    BY <2>3, <2>4, <2>5
<1>7. /\ \A x \in 1..Len(h.stacks) : \A i, j \in 1..Len(Items(h, x)) :
           i < j => Items(h, x)[i].n < Items(h, x)[j].n
      /\ \A x, y \in 1..Len(h.stacks) : \A i \in 1..Len(Items(h, x)), j \in 1..Len(Items(h, y)) :
           Items(h, x)[i].n = Items(h, y)[j].n => x = y
  <2>1. ASSUME NEW x \in 1..Len(h.stacks), NEW i \in 1..Len(Items(h, x)),
               NEW j \in 1..Len(Items(h, x)), i < j
        PROVE  Items(h, x)[i].n < Items(h, x)[j].n
    BY <1>5, <2>1, Zenon DEF ExitActions
  <2>2. ASSUME NEW x \in 1..Len(h.stacks), NEW y \in 1..Len(h.stacks),
               NEW i \in 1..Len(Items(h, x)), NEW j \in 1..Len(Items(h, y)),
               Items(h, x)[i].n = Items(h, y)[j].n
        PROVE  x = y
    <3>1. Items(h, x) = Items(g, x) /\ Items(h, y) = Items(g, y)
      BY <1>5
    <3>2. i \in 1..Len(Items(g, x)) /\ j \in 1..Len(Items(g, y))
      BY <3>1, Zenon
    <3>3. Items(g, x)[i].n = Items(g, y)[j].n
      BY <2>2, <3>1, Zenon
    <3>4. x \in 1..Len(g.stacks) /\ y \in 1..Len(g.stacks)
      BY <1>5, Zenon
    <3> QED
      BY <3>2, <3>3, <3>4, Zenon DEF ExitActions
  <2> QED
    BY <2>1, <2>2, Zenon
<1>8. ASSUME NEW b \in 1..Len(q)
      PROVE  \E x \in 1..Len(h.stacks) : \E j \in 1..Len(Items(h, x)) : Items(h, x)[j].n = b
  <2>1. PICK x \in 1..Len(g.stacks) : \E j \in 1..Len(Items(g, x)) : Items(g, x)[j].n = b
    BY <1>4, <1>8, Zenon DEF ExitActions
  <2> QED
    BY <1>5, <2>1
<1> QED
  BY <1>1, <1>3, <1>6, <1>7, <1>8 DEF ExitActions

----------------------------------------------------------------------------
(* What the operations on a fiber do to its fields.                        *)
Whole(g) == g = [x \in Fields |-> g[x]]

(* The continuation, the masks and the scopes are the same.                *)
SameParts(g, h) ==
  h.k = g.k /\ h.heap = g.heap /\ SameMasks(g, h) /\ SameScopes(g, h)

(* What is next is decided elsewhere.                                      *)
SameControl(g, h) ==
  h.mode = g.mode /\ h.cur = g.cur /\ h.why = g.why /\ h.drain = g.drain

(* Steps that leave the control part alone compose.                        *)
LEMMA ControlKept ==
  ASSUME NEW g, NEW h, NEW i, SameControl(g, h), SameControl(h, i)
  PROVE  SameControl(g, i)
BY DEF SameControl

(* What Run changes.                                                       *)
LEMMA RunFields ==
  ASSUME NEW g, Whole(g), NEW action, NEW h, h = Run(g, action)
  PROVE  /\ Whole(h) /\ SameParts(g, h) /\ h.drain = g.drain
         /\ h.mode = "code" /\ h.cur = action /\ h.why = Normal
BY DEF Whole, Fields, Run, SameParts, SameMasks, SameScopes

(* What Push changes.                                                      *)
LEMMA PushFields ==
  ASSUME NEW g, Whole(g), NEW kind, NEW ref, NEW action, NEW state, NEW h,
         h = Push(g, kind, ref, action, state)
  PROVE  /\ Whole(h) /\ SameControl(g, h) /\ SameMasks(g, h) /\ SameScopes(g, h)
         /\ Pushes(g, h, Cell(kind, ref, action, state, g.k))
BY DEF Whole, Fields, Push, Pushes, Cell, SameControl, SameMasks, SameScopes

(* What Deliver changes.                                                   *)
LEMMA DeliverFields ==
  ASSUME NEW g, Whole(g), g.mode # "failed", NEW h, h = Deliver(g)
  PROVE  /\ Whole(h) /\ SameParts(g, h) /\ h.drain = g.drain
         /\ h.mode = "value" /\ h.why = Normal
BY DEF Whole, Fields, Deliver, SameParts, SameMasks, SameScopes

(* What Unwind changes.                                                    *)
LEMMA UnwindFields ==
  ASSUME NEW g, Whole(g), NEW why, NEW h, h = Unwind(g, why)
  PROVE  /\ Whole(h) /\ SameParts(g, h) /\ h.drain = g.drain
         /\ h.mode = "unwind" /\ h.why = why
BY DEF Whole, Fields, Unwind, SameParts, SameMasks, SameScopes

(* What Pop changes.                                                       *)
LEMMA PopFields ==
  ASSUME NEW g, Whole(g), NEW h, h = Pop(g)
  PROVE  /\ Whole(h) /\ SameControl(g, h) /\ SameMasks(g, h) /\ SameScopes(g, h)
         /\ PopsTop(g, h)
BY DEF Whole, Fields, Pop, PopsTop, SameControl, SameMasks, SameScopes

(* What PushMask changes.                                                  *)
LEMMA PushMaskFields ==
  ASSUME NEW g, Whole(g), NEW state, NEW h, h = PushMask(g, state)
  PROVE  /\ Whole(h) /\ SameControl(g, h) /\ SameScopes(g, h) /\ NewMask(g, h, state)
         /\ h.k = g.k /\ h.heap = g.heap
BY DEF Whole, Fields, PushMask, NewMask, SameControl, SameScopes

(* What PopMask changes when it does not fail.                             *)
LEMMA PopMaskFields ==
  ASSUME NEW g, Whole(g), NEW m, m = g.mask, g.masks[m].active, NEW h, h = PopMask(g, m)
  PROVE  /\ Whole(h) /\ SameControl(g, h) /\ SameScopes(g, h) /\ OldMask(g, h)
         /\ h.k = g.k /\ h.heap = g.heap
BY DEF Whole, Fields, PopMask, OldMask, SameControl, SameScopes

(* What suspending a mask frame changes.                                   *)
LEMMA SuspendFields ==
  ASSUME NEW g, Whole(g), NEW m, NEW h, h = [g EXCEPT !.masks[m].suspended = TRUE]
  PROVE  /\ Whole(h) /\ SameControl(g, h) /\ SameScopes(g, h) /\ SetSuspended(g, h, m, TRUE)
         /\ h.k = g.k /\ h.heap = g.heap
BY DEF Whole, Fields, SetSuspended, SameControl, SameScopes

(* What Reinstate changes when it does not fail.                           *)
LEMMA ReinstateFields ==
  ASSUME NEW g, Whole(g), NEW m, g.masks[m].active, g.masks[m].suspended,
         NEW h, h = Reinstate(g, m)
  PROVE  /\ Whole(h) /\ SameControl(g, h) /\ SameScopes(g, h) /\ SetSuspended(g, h, m, FALSE)
         /\ h.k = g.k /\ h.heap = g.heap
BY DEF Whole, Fields, Reinstate, SetSuspended, SameControl, SameScopes

Entered(g) ==
  [g EXCEPT !.stacks = Append(@, [items |-> <<>>, parent |-> g.exits]),
            !.exits = Len(g.stacks) + 1]

(* What entering a scope changes.                                          *)
LEMMA EnterFields ==
  ASSUME NEW g, Whole(g), NEW h, h = Entered(g)
  PROVE  /\ Whole(h) /\ SameControl(g, h) /\ SameMasks(g, h) /\ NewScope(g, h)
         /\ h.k = g.k /\ h.heap = g.heap
BY DEF Whole, Fields, Entered, NewScope, SameControl, SameMasks

Deferred(g, item) == [g EXCEPT !.stacks[g.exits].items = Append(@, item)]

(* What registering an exit action changes.                                *)
LEMMA DeferFields ==
  ASSUME NEW g, Whole(g), NEW item, NEW h, h = Deferred(g, item)
  PROVE  /\ Whole(h) /\ SameControl(g, h) /\ SameMasks(g, h) /\ NewItem(g, h, item)
         /\ h.k = g.k /\ h.heap = g.heap
BY DEF Whole, Fields, Deferred, NewItem, SameControl, SameMasks

Outside(g, exits) == [g EXCEPT !.exits = exits]

(* What leaving a scope for the one around it changes.                     *)
LEMMA ExitsFields ==
  ASSUME NEW g, Whole(g), NEW exits, NEW h, h = Outside(g, exits)
  PROVE  /\ Whole(h) /\ SameControl(g, h) /\ SameMasks(g, h) /\ SameActions(g, h)
         /\ h.exits = exits /\ h.k = g.k /\ h.heap = g.heap
BY DEF Whole, Fields, Outside, SameActions, SameControl, SameMasks

Sequenced(g, fs) == [g EXCEPT !.fins = Append(@, fs)]

(* What beginning a sequence of exit actions changes.                      *)
LEMMA SequenceFields ==
  ASSUME NEW g, Whole(g), NEW fs, NEW h, h = Sequenced(g, fs)
  PROVE  /\ Whole(h) /\ SameControl(g, h) /\ SameMasks(g, h) /\ NewSequence(g, h, fs)
         /\ h.exits = g.exits /\ h.k = g.k /\ h.heap = g.heap
BY DEF Whole, Fields, Sequenced, NewSequence, SameControl, SameMasks

Started(g, ref) == [g EXCEPT !.fins[ref].i = @ - 1]

(* What starting the next exit action of a sequence changes.               *)
LEMMA StartFields ==
  ASSUME NEW g, Whole(g), NEW ref, NEW fs, fs = [g.fins[ref] EXCEPT !.i = @ - 1],
         NEW h, h = Started(g, ref)
  PROVE  /\ Whole(h) /\ SameControl(g, h) /\ SameMasks(g, h) /\ ChangedSequence(g, h, ref, fs)
         /\ h.k = g.k /\ h.heap = g.heap
BY DEF Whole, Fields, Started, ChangedSequence, SameControl, SameMasks

Composed(g, ref) == [g EXCEPT !.fins[ref].why = Compose(@, g.why)]

(* What the failure of an exit action changes.                             *)
LEMMA FailFields ==
  ASSUME NEW g, Whole(g), NEW ref, NEW fs, fs = [g.fins[ref] EXCEPT !.why = Compose(@, g.why)],
         NEW h, h = Composed(g, ref)
  PROVE  /\ Whole(h) /\ SameControl(g, h) /\ SameMasks(g, h) /\ ChangedSequence(g, h, ref, fs)
         /\ h.k = g.k /\ h.heap = g.heap
BY DEF Whole, Fields, Composed, ChangedSequence, SameControl, SameMasks

----------------------------------------------------------------------------
(* What a fiber may execute stays so when there are more mask frames.      *)
LEMMA MoreClosures ==
  ASSUME NEW X, NEW Y, X \subseteq Y, NEW m, NEW n, m \subseteq n
  PROVE  Closures(X, m) \subseteq Closures(Y, n)
BY DEF Closures

CodeKinds == {"THEN", "CATCH", "LOOP"}

(* Code on the stack and in scopes stays allowed if each piece of it is an *)
(* old one or is allowed.                                                  *)
LEMMA ActionsKept ==
  ASSUME NEW T, NEW S, NEW w, NEW v, NEW g, NEW h, Actions(T, S, w, g), w.user \subseteq v.user,
         \A i \in 1..v.n : Kind(v, i) \in CodeKinds =>
           \/ i \in 1..w.n /\ v.fr[i] = w.fr[i] /\ v.xs[i] = w.xs[i]
           \/ v.fr[i].action \in Closures(Allowed(T, S, v.xs[i]), v.user),
         \A x \in 1..Len(h.stacks) : \A j \in 1..Len(Items(h, x)) :
           \/ /\ x \in 1..Len(g.stacks) /\ j \in 1..Len(Items(g, x))
              /\ Items(h, x)[j] = Items(g, x)[j]
           \/ Items(h, x)[j].action \in Closures(T, v.user)
  PROVE  Actions(T, S, v, h)
<1>1. \A X : Closures(X, w.user) \subseteq Closures(X, v.user)
  BY MoreClosures
<1>2. ASSUME NEW i \in 1..v.n, Kind(v, i) \in CodeKinds
      PROVE  v.fr[i].action \in Closures(Allowed(T, S, v.xs[i]), v.user)
  <2>1. CASE i \in 1..w.n /\ v.fr[i] = w.fr[i] /\ v.xs[i] = w.xs[i]
    <3>1. w.fr[i].action \in Closures(Allowed(T, S, w.xs[i]), w.user)
      BY <1>2, <2>1 DEF Actions, Kind, CodeKinds
    <3> QED
      BY <1>1, <2>1, <3>1, Zenon
  <2> QED
    BY <1>2, <2>1
<1>3. ASSUME NEW x \in 1..Len(h.stacks), NEW j \in 1..Len(Items(h, x))
      PROVE  Items(h, x)[j].action \in Closures(T, v.user)
  <2>1. CASE /\ x \in 1..Len(g.stacks) /\ j \in 1..Len(Items(g, x))
             /\ Items(h, x)[j] = Items(g, x)[j]
    <3>1. Items(g, x)[j].action \in Closures(T, w.user)
      BY <2>1 DEF Actions
    <3> QED
      BY <1>1, <2>1, <3>1, Zenon
  <2> QED
    BY <1>3, <2>1
<1> QED
  BY <1>2, <1>3 DEF Actions, CodeKinds

(* A frame with code may be pushed in the scope it is allowed in.          *)
LEMMA ActionsPush ==
  ASSUME NEW T, NEW S, NEW w \in Shadows(S), NEW v, NEW g, NEW h, NEW c, NEW cell,
         Actions(T, S, w, g), h.stacks = g.stacks, Extends(w, v, c, cell),
         w.user \subseteq v.user,
         cell.kind \in CodeKinds =>
           cell.action \in Closures(Allowed(T, S, v.xs[v.n]), v.user)
  PROVE  Actions(T, S, v, h)
<1>1. w.n \in Nat
  BY DEF Shadows
<1>2. /\ v.n = w.n + 1 /\ v.fr[v.n] = cell
      /\ \A i \in 0..w.n : v.fr[i] = w.fr[i] /\ v.xs[i] = w.xs[i]
  BY DEF Extends, SameBelow
<1>3. \A i \in 1..v.n : i = v.n \/ (i \in 1..w.n /\ i \in 0..w.n)
  BY <1>1, <1>2
<1>4. ASSUME NEW i \in 1..v.n, Kind(v, i) \in CodeKinds
      PROVE  \/ i \in 1..w.n /\ v.fr[i] = w.fr[i] /\ v.xs[i] = w.xs[i]
             \/ v.fr[i].action \in Closures(Allowed(T, S, v.xs[i]), v.user)
  <2>1. CASE i = v.n
    BY <1>2, <1>4, <2>1, Zenon DEF Kind
  <2>2. CASE i \in 1..w.n /\ i \in 0..w.n
    BY <1>2, <2>2
  <2> QED
    BY <1>3, <2>1, <2>2
<1>5. \A x \in 1..Len(h.stacks) : \A j \in 1..Len(Items(h, x)) :
        /\ x \in 1..Len(g.stacks) /\ j \in 1..Len(Items(g, x))
        /\ Items(h, x)[j] = Items(g, x)[j]
  BY DEF Items
<1> QED
  BY <1>4, <1>5, ActionsKept, Zenon

(* The code below the top stays allowed.                                   *)
LEMMA ActionsBelow ==
  ASSUME NEW T, NEW S, NEW w, NEW v, NEW g, NEW h, Actions(T, S, w, g), h.stacks = g.stacks,
         w.n \in Nat, v.n \in Nat, v.n <= w.n, v.fr = w.fr, v.xs = w.xs, v.user = w.user
  PROVE  Actions(T, S, v, h)
<1>1. \A i \in 1..v.n : i \in 1..w.n /\ v.fr[i] = w.fr[i] /\ v.xs[i] = w.xs[i]
  OBVIOUS
<1>2. \A x \in 1..Len(h.stacks) : \A j \in 1..Len(Items(h, x)) :
        /\ x \in 1..Len(g.stacks) /\ j \in 1..Len(Items(g, x))
        /\ Items(h, x)[j] = Items(g, x)[j]
  BY DEF Items
<1>3. w.user \subseteq v.user
  OBVIOUS
<1> QED
  BY <1>1, <1>2, <1>3, ActionsKept, Zenon

(* Entering a scope keeps the code of the others allowed.                  *)
LEMMA ActionsEnter ==
  ASSUME NEW T, NEW S, NEW w \in Shadows(S), NEW v, NEW g, NEW h, NEW c, NEW cell,
         Actions(T, S, w, g), Scopes(T, w, g), NewScope(g, h), Extends(w, v, c, cell),
         v.user = w.user, cell.kind = "DOSCOPE"
  PROVE  Actions(T, S, v, h)
<1>1. w.n \in Nat
  BY DEF Shadows
<1>2. /\ v.n = w.n + 1 /\ v.fr[v.n] = cell
      /\ \A i \in 0..w.n : v.fr[i] = w.fr[i] /\ v.xs[i] = w.xs[i]
  BY DEF Extends, SameBelow
<1>3. \A i \in 1..v.n : i = v.n \/ (i \in 1..w.n /\ i \in 0..w.n)
  BY <1>1, <1>2
<1>4. ASSUME NEW i \in 1..v.n, Kind(v, i) \in CodeKinds
      PROVE  i \in 1..w.n /\ v.fr[i] = w.fr[i] /\ v.xs[i] = w.xs[i]
  BY <1>2, <1>3, <1>4 DEF Kind, CodeKinds
<1>5. /\ Len(g.stacks) \in Nat /\ Len(h.stacks) = Len(g.stacks) + 1
      /\ h.exits = Len(g.stacks) + 1
      /\ \A x \in 1..Len(g.stacks) : h.stacks[x] = g.stacks[x]
      /\ Len(h.stacks[h.exits].items) = 0
  BY NewScopeFrames
<1>6. ASSUME NEW x \in 1..Len(h.stacks), NEW j \in 1..Len(Items(h, x))
      PROVE  /\ x \in 1..Len(g.stacks) /\ j \in 1..Len(Items(g, x))
             /\ Items(h, x)[j] = Items(g, x)[j]
  <2>1. x # h.exits
    BY <1>5 DEF Items
  <2>2. x \in 1..Len(g.stacks)
    BY <1>5, <2>1
  <2> QED
    BY <1>5, <2>2 DEF Items
<1>7. w.user \subseteq v.user
  OBVIOUS
<1> QED
  BY <1>4, <1>6, <1>7, ActionsKept, Zenon

(* An exit action that is allowed may be registered.                       *)
LEMMA ActionsDefer ==
  ASSUME NEW T, NEW S, NEW w \in Shadows(S), NEW v, NEW g, NEW h, NEW item \in ItemTypes(T),
         Actions(T, S, w, g), Scopes(T, w, g), NewItem(g, h, item), SameStack(w, v),
         g.exits \in 1..Len(g.stacks), item.action \in Closures(T, w.user)
  PROVE  Actions(T, S, v, h)
<1>1. v.n = w.n /\ v.fr = w.fr /\ v.xs = w.xs /\ v.user = w.user
  BY DEF SameStack
<1>2. /\ Len(h.stacks) = Len(g.stacks)
      /\ \A x \in 1..Len(g.stacks) : x # g.exits => Items(h, x) = Items(g, x)
      /\ Len(Items(g, g.exits)) \in Nat
      /\ Len(Items(h, g.exits)) = Len(Items(g, g.exits)) + 1
      /\ \A j \in 1..Len(Items(g, g.exits)) : Items(h, g.exits)[j] = Items(g, g.exits)[j]
      /\ Items(h, g.exits)[Len(Items(g, g.exits)) + 1] = item
  BY NewItemFrames
<1>3. \A i \in 1..v.n : i \in 1..w.n /\ v.fr[i] = w.fr[i] /\ v.xs[i] = w.xs[i]
  BY <1>1
<1>4. ASSUME NEW x \in 1..Len(h.stacks), NEW j \in 1..Len(Items(h, x))
      PROVE  \/ /\ x \in 1..Len(g.stacks) /\ j \in 1..Len(Items(g, x))
                /\ Items(h, x)[j] = Items(g, x)[j]
             \/ Items(h, x)[j].action \in Closures(T, v.user)
  <2>1. CASE x # g.exits
    BY <1>2, <2>1
  <2>2. CASE x = g.exits /\ j \in 1..Len(Items(g, g.exits))
    BY <1>2, <2>2
  <2>3. CASE x = g.exits /\ j = Len(Items(g, g.exits)) + 1
    BY <1>1, <1>2, <2>3
  <2> QED
    BY <1>2, <2>1, <2>2, <2>3
<1>5. w.user \subseteq v.user
  BY <1>1
<1> QED
  BY <1>3, <1>4, <1>5, ActionsKept, Zenon

----------------------------------------------------------------------------
(* The parts together, for each change of the stack.                       *)
CanExtend(T, S, w, h, l, r, cell, user) ==
  \E v \in Shadows(S) :
    Frame(T, S, v, h, l, r) /\ Extends(w, v, h.k, cell) /\ v.user = user

CanCut(T, S, w, h, l, r) == \E v \in Shadows(S) : Frame(T, S, v, h, l, r) /\ Cuts(w, v)

(* The four parts of Frame.                                                *)
LEMMA FrameParts ==
  ASSUME NEW T, NEW S, NEW w, NEW g, NEW l, NEW r
  PROVE  Frame(T, S, w, g, l, r) =
           (Links(S, w, g, l) /\ Masking(w, g) /\ Scoping(T, w, g, r) /\ Actions(T, S, w, g))
BY DEF Frame, Masking, Scoping

(* Frame is about these fields only.                                       *)
LEMMA FrameStays ==
  ASSUME NEW T, NEW S, NEW w, NEW g, NEW h, NEW l, NEW r, Frame(T, S, w, g, l, r),
         SameParts(g, h)
  PROVE  Frame(T, S, w, h, l, r)
<1>1. /\ h.k = g.k /\ h.heap = g.heap /\ h.masks = g.masks /\ h.mask = g.mask
      /\ h.stacks = g.stacks /\ h.fins = g.fins /\ h.exits = g.exits
  BY DEF SameParts, SameMasks, SameScopes
<1>2. Links(S, w, h, l)
  BY <1>1 DEF Frame, Links
<1>3. MaskStack(w, h) /\ Suspensions(w, h) /\ Finalizers(w, h)
  <2>1. MaskStack(w, h)
    BY <1>1, Zenon DEF Frame, MaskStack
  <2>2. Suspensions(w, h)
    BY <1>1, Zenon DEF Frame, Suspensions
  <2>3. Finalizers(w, h)
    BY <1>1, Zenon DEF Frame, Finalizers
  <2> QED
    BY <2>1, <2>2, <2>3
<1>4. Scopes(T, w, h)
  BY <1>1, Zenon DEF Frame, Scopes
<1>5. Owners(w, h)
  BY <1>1, Zenon DEF Frame, Owners, Own
<1>6. ExitActions(w, h, r)
  BY <1>1, ExitActionsSame DEF Frame
<1>7. Actions(T, S, w, h)
  <2>1. \A x \in 1..Len(h.stacks) : \A j \in 1..Len(Items(h, x)) :
          /\ x \in 1..Len(g.stacks) /\ j \in 1..Len(Items(g, x))
          /\ Items(h, x)[j] = Items(g, x)[j]
    BY <1>1 DEF Items
  <2>2. w.user \subseteq w.user /\ Actions(T, S, w, g)
    BY DEF Frame
  <2> QED
    BY <2>1, <2>2, ActionsKept, Zenon
<1> QED
  BY <1>2, <1>3, <1>4, <1>5, <1>6, <1>7 DEF Frame

(* The frames that are about neither masks nor exit actions.               *)
NeutralKinds == {"THEN", "CATCH", "RETSCOPE", "LOOP"}

(* Frame is kept when a frame that is neither about masks nor about scopes *)
(* is pushed.                                                              *)
LEMMA FramePush ==
  ASSUME NEW T, NEW S, NEW w \in Shadows(S), NEW g, NEW h, NEW l, NEW r, NEW cell \in Cells(S),
         Frame(T, S, w, g, l, r), cell.kind \in NeutralKinds,
         Pushes(g, h, cell), SameMasks(g, h), SameScopes(g, h),
         cell.kind \in CodeKinds =>
           cell.action \in Closures(Allowed(T, S, g.exits), w.user)
  PROVE  CanExtend(T, S, w, h, l, r, cell, w.user)
<1>1. Links(S, w, g, l) /\ Masking(w, g) /\ Scoping(T, w, g, r) /\ Actions(T, S, w, g)
  BY FrameParts
<1>2. g.heap \in Seq(Cells(S))
  BY <1>1 DEF Links
<1>3. h.k \in Nat
  BY <1>2 DEF Pushes
<1>4. w.n \in Nat /\ w.ms[w.n] \in Nat /\ w.xs[w.n] \in Nat /\ w.todo \in Numbers
      /\ w.user \in SUBSET Nat
  BY DEF Shadows, Numbers
<1>5. PICK v : v = Grown(w, h.k, cell, w.ms[w.n], w.xs[w.n], w.todo, w.user)
  OBVIOUS
<1>6. /\ v \in Shadows(S) /\ v.n = w.n + 1 /\ SameBelow(w, v, w.n)
      /\ v.st[v.n] = h.k /\ v.fr[v.n] = cell /\ v.ms[v.n] = w.ms[w.n] /\ v.xs[v.n] = w.xs[w.n]
      /\ v.todo = w.todo /\ v.user = w.user
  BY <1>3, <1>4, <1>5, GrownStack
<1>7. Extends(w, v, h.k, cell)
  BY <1>6 DEF Extends
<1>8. cell.kind \in FrameKinds /\ cell.kind \notin {"POPMASK", "SETMASK", "FINSEQ"}
      /\ cell.kind \notin {"DOSCOPE", "FINSEQ"}
  BY DEF FrameKinds, NeutralKinds
<1>9. Links(S, v, h, l)
  BY <1>1, <1>6, <1>7, <1>8, LinksPush, Zenon
<1>10. Masking(v, h)
  BY <1>1, <1>6, <1>7, <1>8, MaskingPush, Zenon
<1>11. Scoping(T, v, h, r)
  BY <1>1, <1>6, <1>7, <1>8, ScopingPush, Zenon
<1>12. g.exits = v.xs[v.n] /\ h.stacks = g.stacks
  BY <1>1, <1>6 DEF Scoping, Scopes, SameScopes
<1>13. Actions(T, S, v, h)
  <2>1. cell.kind \in CodeKinds => cell.action \in Closures(Allowed(T, S, v.xs[v.n]), v.user)
    BY <1>6, <1>12
  <2>2. w.user \subseteq v.user
    BY <1>6
  <2> QED
    BY <1>1, <1>7, <1>12, <2>1, <2>2, ActionsPush, Zenon
<1> QED
  BY <1>6, <1>7, <1>9, <1>10, <1>11, <1>13, FrameParts, Zenon DEF CanExtend

CanGrow(S, w, c, cell, m, x, todo, user) ==
  \E v \in Shadows(S) :
    /\ Extends(w, v, c, cell) /\ v.ms[v.n] = m /\ v.xs[v.n] = x
    /\ v.todo = todo /\ v.user = user

(* There is a stack with a cell more.                                      *)
LEMMA StackGrows ==
  ASSUME NEW S, NEW w \in Shadows(S), NEW c \in Nat, NEW cell \in Cells(S), NEW m \in Nat,
         NEW x \in Nat, NEW todo \in Numbers, NEW user, user \subseteq Nat
  PROVE  CanGrow(S, w, c, cell, m, x, todo, user)
<1>1. PICK v : v = Grown(w, c, cell, m, x, todo, user)
  OBVIOUS
<1>2. /\ v \in Shadows(S) /\ v.n = w.n + 1 /\ SameBelow(w, v, w.n)
      /\ v.st[v.n] = c /\ v.fr[v.n] = cell /\ v.ms[v.n] = m /\ v.xs[v.n] = x
      /\ v.todo = todo /\ v.user = user
  BY <1>1, GrownStack
<1> QED
  BY <1>2, Zenon DEF Extends, CanGrow

(* There is a stack with the topmost cell gone.                            *)
LEMMA StackShrinks ==
  ASSUME NEW S, NEW w \in Shadows(S), w.n > 0
  PROVE  \E v \in Shadows(S) : Cuts(w, v) /\ v.todo = w.todo
<1>1. PICK v : v = Shrunk(w)
  OBVIOUS
<1>2. /\ v \in Shadows(S) /\ v.n = w.n - 1
      /\ v.st = w.st /\ v.fr = w.fr /\ v.ms = w.ms /\ v.xs = w.xs
      /\ v.todo = w.todo /\ v.user = w.user
  BY <1>1, ShrunkStack
<1> QED
  BY <1>2, Zenon DEF Cuts

(* There is a stack with other numbers of exit actions to run.             *)
LEMMA StackStays ==
  ASSUME NEW S, NEW w \in Shadows(S), NEW todo \in Numbers
  PROVE  \E v \in Shadows(S) : SameStack(w, v) /\ v.todo = todo
<1>1. PICK v : v = [w EXCEPT !.todo = todo]
  OBVIOUS
<1>2. v \in Shadows(S) /\ v.todo = todo
  BY <1>1 DEF Shadows
<1>3. SameStack(w, v)
  BY <1>1 DEF Shadows, SameStack
<1> QED
  BY <1>2, <1>3

(* What the stack of frames says of the fiber.                             *)
LEMMA FrameTypes ==
  ASSUME NEW T, NEW S, NEW w \in Shadows(S), NEW g, NEW l, NEW r, Frame(T, S, w, g, l, r)
  PROVE  /\ w.n \in Nat /\ w.todo \in Numbers /\ w.user \subseteq Nat
         /\ g.mask = w.ms[w.n] /\ g.mask \in Nat /\ g.exits = w.xs[w.n] /\ g.exits \in Nat
         /\ \A i \in Nat : w.ms[i] \in Nat /\ w.xs[i] \in Nat
         /\ Len(g.heap) \in Nat /\ Len(g.masks) \in Nat /\ Len(g.stacks) \in Nat
         /\ Len(g.fins) \in Nat
<1>1. /\ w.n \in Nat /\ w.todo \in Numbers /\ w.user \subseteq Nat
      /\ \A i \in Nat : w.ms[i] \in Nat /\ w.xs[i] \in Nat
  BY DEF Shadows, Numbers
<1>2. g.mask = w.ms[w.n] /\ g.exits = w.xs[w.n]
  BY DEF Frame, MaskStack, Scopes
<1>3. Len(g.heap) \in Nat
  BY DEF Frame, Links
<1>4. Len(g.masks) \in Nat
  BY DEF Frame, MaskStack
<1>5. Len(g.stacks) \in Nat
  BY DEF Frame, Scopes
<1>6. Len(g.fins) \in Nat
  BY DEF Frame, Owners
<1> QED
  BY <1>1, <1>2, <1>3, <1>4, <1>5, <1>6

(* Frame is kept when a neutral frame is popped.                           *)
LEMMA FramePop ==
  ASSUME NEW T, NEW S, NEW w \in Shadows(S), NEW g, NEW h, NEW l, NEW r, NEW p,
         Frame(T, S, w, g, l, r), w.n > 0,
         Kind(w, w.n) \in NeutralKinds,
         PopsTop(g, h), SameMasks(g, h), SameScopes(g, h), l \cup {g.k} \subseteq p
  PROVE  CanCut(T, S, w, h, p, r)
<1>1. Links(S, w, g, l) /\ Masking(w, g) /\ Scoping(T, w, g, r) /\ Actions(T, S, w, g)
  BY FrameParts
<1>2. PICK v \in Shadows(S) : Cuts(w, v) /\ v.todo = w.todo
  BY StackShrinks
<1>3. Links(S, v, h, p)
  BY <1>1, <1>2, LinksPop, Zenon
<1>4. Masking(v, h)
  BY <1>1, <1>2, MaskingPop DEF NeutralKinds
<1>5. w.n \in 1..w.n /\ w.n \in Nat /\ v.n \in Nat /\ v.n <= w.n
  BY <1>2 DEF Shadows, Cuts
<1>6. h.exits = w.xs[w.n - 1] /\ SameActions(g, h) /\ ~Owns(w, w.n)
  BY <1>1, <1>5 DEF Scoping, Scopes, SameScopes, SameActions, Owns, NeutralKinds
<1>7. Scoping(T, v, h, r)
  BY <1>1, <1>2, <1>6, ScopingPop, Zenon
<1>8. Actions(T, S, v, h)
  BY <1>1, <1>2, <1>5, ActionsBelow DEF SameScopes, Cuts
<1> QED
  BY <1>2, <1>3, <1>4, <1>7, <1>8, FrameParts, Zenon DEF CanCut

(* Frame is kept when a mask frame and its POPMASK are pushed.             *)
LEMMA FrameMask ==
  ASSUME NEW T, NEW S, NEW w \in Shadows(S), NEW g, NEW h, NEW l, NEW r, NEW state \in 0..2,
         NEW cell \in Cells(S), NEW user, user \subseteq Nat, Frame(T, S, w, g, l, r),
         cell.kind = "POPMASK", cell.ref = h.mask, Pushes(g, h, cell), NewMask(g, h, state),
         SameScopes(g, h), w.user \subseteq user, user \subseteq w.user \cup {h.mask}
  PROVE  CanExtend(T, S, w, h, l, r, cell, user)
<1>1. Links(S, w, g, l) /\ Masking(w, g) /\ Scoping(T, w, g, r) /\ Actions(T, S, w, g)
  BY FrameParts
<1>2. /\ w.n \in Nat /\ w.todo \in Numbers /\ g.exits = w.xs[w.n] /\ g.exits \in Nat
      /\ Len(g.heap) \in Nat /\ Len(g.masks) \in Nat
  BY FrameTypes
<1>3. h.k \in Nat /\ h.mask \in Nat
  BY <1>2 DEF Pushes, NewMask
<1>4. PICK v \in Shadows(S) :
        /\ Extends(w, v, h.k, cell) /\ v.ms[v.n] = h.mask /\ v.xs[v.n] = g.exits
        /\ v.todo = w.todo /\ v.user = user
  <2>1. CanGrow(S, w, h.k, cell, h.mask, g.exits, w.todo, user)
    BY <1>2, <1>3, StackGrows
  <2> QED
    BY <2>1 DEF CanGrow
<1>5. Links(S, v, h, l)
  BY <1>1, <1>4, LinksPush DEF FrameKinds
<1>6. Masking(v, h)
  <2>1. v.user \subseteq w.user \cup {h.mask}
    BY <1>4
  <2> QED
    BY <1>1, <1>4, <2>1, MaskingMask, Zenon
<1>7. Scoping(T, v, h, r)
  <2>1. cell.kind \notin {"DOSCOPE", "FINSEQ"} /\ v.xs[v.n] = w.xs[w.n]
    BY <1>2, <1>4
  <2> QED
    BY <1>1, <1>4, <2>1, ScopingPush, Zenon
<1>8. Actions(T, S, v, h)
  <2>1. cell.kind \notin CodeKinds /\ h.stacks = g.stacks /\ w.user \subseteq v.user
    BY <1>4 DEF CodeKinds, SameScopes
  <2> QED
    BY <1>1, <1>4, <2>1, ActionsPush, Zenon
<1> QED
  BY <1>4, <1>5, <1>6, <1>7, <1>8, FrameParts, Zenon DEF CanExtend

(* Frame is kept when a POPMASK and its mask frame are popped.             *)
LEMMA FrameUnmask ==
  ASSUME NEW T, NEW S, NEW w \in Shadows(S), NEW g, NEW h, NEW l, NEW r, NEW p,
         Frame(T, S, w, g, l, r), w.n > 0, Kind(w, w.n) = "POPMASK",
         PopsTop(g, h), OldMask(g, h), SameScopes(g, h), l \cup {g.k} \subseteq p
  PROVE  CanCut(T, S, w, h, p, r)
<1>1. Links(S, w, g, l) /\ Masking(w, g) /\ Scoping(T, w, g, r) /\ Actions(T, S, w, g)
  BY FrameParts
<1>2. PICK v \in Shadows(S) : Cuts(w, v) /\ v.todo = w.todo
  BY StackShrinks
<1>3. Links(S, v, h, p)
  BY <1>1, <1>2, LinksPop, Zenon
<1>4. Masking(v, h)
  BY <1>1, <1>2, MaskingUnmask
<1>5. w.n \in 1..w.n /\ w.n \in Nat /\ v.n \in Nat /\ v.n <= w.n
  BY <1>2 DEF Shadows, Cuts
<1>6. h.exits = w.xs[w.n - 1] /\ SameActions(g, h) /\ ~Owns(w, w.n)
  BY <1>1, <1>5 DEF Scoping, Scopes, SameScopes, SameActions, Owns
<1>7. Scoping(T, v, h, r)
  BY <1>1, <1>2, <1>6, ScopingPop, Zenon
<1>8. Actions(T, S, v, h)
  BY <1>1, <1>2, <1>5, ActionsBelow DEF SameScopes, Cuts
<1> QED
  BY <1>2, <1>3, <1>4, <1>7, <1>8, FrameParts, Zenon DEF CanCut

(* Frame is kept when a mask frame is suspended under a SETMASK.           *)
LEMMA FrameSuspend ==
  ASSUME NEW T, NEW S, NEW w \in Shadows(S), NEW g, NEW h, NEW l, NEW r, NEW m,
         NEW cell \in Cells(S), Frame(T, S, w, g, l, r),
         cell.kind = "SETMASK", cell.ref = m, Pushes(g, h, cell), SetSuspended(g, h, m, TRUE),
         SameScopes(g, h), m \in w.user, m \in 1..g.mask, g.masks[m].active,
         ~g.masks[m].suspended
  PROVE  CanExtend(T, S, w, h, l, r, cell, w.user)
<1>1. Links(S, w, g, l) /\ Masking(w, g) /\ Scoping(T, w, g, r) /\ Actions(T, S, w, g)
  BY FrameParts
<1>2. /\ w.n \in Nat /\ w.todo \in Numbers /\ g.exits = w.xs[w.n] /\ g.exits \in Nat
      /\ w.user \subseteq Nat /\ g.mask = w.ms[w.n] /\ g.mask \in Nat /\ Len(g.heap) \in Nat
  BY FrameTypes
<1>3. h.k \in Nat
  BY <1>2 DEF Pushes
<1>4. PICK v \in Shadows(S) :
        /\ Extends(w, v, h.k, cell) /\ v.ms[v.n] = g.mask /\ v.xs[v.n] = g.exits
        /\ v.todo = w.todo /\ v.user = w.user
  <2>1. CanGrow(S, w, h.k, cell, g.mask, g.exits, w.todo, w.user)
    BY <1>2, <1>3, StackGrows
  <2> QED
    BY <2>1 DEF CanGrow
<1>5. Links(S, v, h, l)
  BY <1>1, <1>4, LinksPush DEF FrameKinds
<1>6. Masking(v, h)
  <2>1. v.ms[v.n] = w.ms[w.n] /\ m \in 1..w.ms[w.n]
    BY <1>2, <1>4
  <2> QED
    BY <1>1, <1>4, <2>1, MaskingSuspend, Zenon
<1>7. Scoping(T, v, h, r)
  <2>1. cell.kind \notin {"DOSCOPE", "FINSEQ"} /\ v.xs[v.n] = w.xs[w.n]
    BY <1>2, <1>4
  <2> QED
    BY <1>1, <1>4, <2>1, ScopingPush, Zenon
<1>8. Actions(T, S, v, h)
  <2>1. cell.kind \notin CodeKinds /\ h.stacks = g.stacks /\ w.user \subseteq v.user
    BY <1>4 DEF CodeKinds, SameScopes
  <2> QED
    BY <1>1, <1>4, <2>1, ActionsPush, Zenon
<1> QED
  BY <1>4, <1>5, <1>6, <1>7, <1>8, FrameParts, Zenon DEF CanExtend

(* Frame is kept when a SETMASK is popped and its frame reinstated.        *)
LEMMA FrameReinstate ==
  ASSUME NEW T, NEW S, NEW w \in Shadows(S), NEW g, NEW h, NEW l, NEW r, NEW p,
         Frame(T, S, w, g, l, r), w.n > 0, Kind(w, w.n) = "SETMASK", PopsTop(g, h),
         SetSuspended(g, h, Ref(w, w.n), FALSE), SameScopes(g, h), l \cup {g.k} \subseteq p
  PROVE  CanCut(T, S, w, h, p, r)
<1>1. Links(S, w, g, l) /\ Masking(w, g) /\ Scoping(T, w, g, r) /\ Actions(T, S, w, g)
  BY FrameParts
<1>2. PICK v \in Shadows(S) : Cuts(w, v) /\ v.todo = w.todo
  BY StackShrinks
<1>3. Links(S, v, h, p)
  BY <1>1, <1>2, LinksPop, Zenon
<1>4. Masking(v, h)
  BY <1>1, <1>2, MaskingReinstate
<1>5. w.n \in 1..w.n /\ w.n \in Nat /\ v.n \in Nat /\ v.n <= w.n
  BY <1>2 DEF Shadows, Cuts
<1>6. h.exits = w.xs[w.n - 1] /\ SameActions(g, h) /\ ~Owns(w, w.n)
  BY <1>1, <1>5 DEF Scoping, Scopes, SameScopes, SameActions, Owns
<1>7. Scoping(T, v, h, r)
  BY <1>1, <1>2, <1>6, ScopingPop, Zenon
<1>8. Actions(T, S, v, h)
  BY <1>1, <1>2, <1>5, ActionsBelow DEF SameScopes, Cuts
<1> QED
  BY <1>2, <1>3, <1>4, <1>7, <1>8, FrameParts, Zenon DEF CanCut

(* Frame is kept when a scope is entered.                                  *)
LEMMA FrameEnter ==
  ASSUME NEW T, NEW S, NEW w \in Shadows(S), NEW g, NEW h, NEW l, NEW r,
         NEW cell \in Cells(S), Frame(T, S, w, g, l, r),
         cell.kind = "DOSCOPE", cell.ref = h.exits, cell.state.exits = g.exits,
         Pushes(g, h, cell), SameMasks(g, h), NewScope(g, h)
  PROVE  CanExtend(T, S, w, h, l, r, cell, w.user)
<1>1. Links(S, w, g, l) /\ Masking(w, g) /\ Scoping(T, w, g, r) /\ Actions(T, S, w, g)
  BY FrameParts
<1>2. /\ w.n \in Nat /\ w.todo \in Numbers /\ Len(g.stacks) \in Nat
      /\ w.user \subseteq Nat /\ g.mask = w.ms[w.n] /\ g.mask \in Nat /\ Len(g.heap) \in Nat
  <2>1. /\ w.n \in Nat /\ w.todo \in Numbers /\ w.user \subseteq Nat
        /\ g.mask = w.ms[w.n] /\ g.mask \in Nat /\ g.exits = w.xs[w.n] /\ g.exits \in Nat
        /\ \A i \in Nat : w.ms[i] \in Nat /\ w.xs[i] \in Nat
        /\ Len(g.heap) \in Nat /\ Len(g.masks) \in Nat /\ Len(g.stacks) \in Nat
        /\ Len(g.fins) \in Nat
    BY FrameTypes, Zenon
  <2> QED
    BY <2>1, Zenon
<1>3. h.k \in Nat /\ h.exits \in Nat
  BY <1>2 DEF Pushes, NewScope
<1>4. PICK todo \in Numbers : todo = [w.todo EXCEPT ![h.exits] = 0]
  BY <1>2 DEF Numbers
<1>5. PICK v \in Shadows(S) :
        /\ Extends(w, v, h.k, cell) /\ v.ms[v.n] = g.mask /\ v.xs[v.n] = h.exits
        /\ v.todo = todo /\ v.user = w.user
  <2>1. CanGrow(S, w, h.k, cell, g.mask, h.exits, todo, w.user)
    BY <1>2, <1>3, StackGrows
  <2> QED
    BY <2>1 DEF CanGrow
<1>6. Links(S, v, h, l)
  BY <1>1, <1>5, LinksPush DEF FrameKinds
<1>7. Masking(v, h)
  <2>1. v.ms[v.n] = w.ms[w.n] /\ cell.kind \notin {"POPMASK", "SETMASK", "FINSEQ"}
    BY <1>2, <1>5
  <2> QED
    BY <1>1, <1>5, <2>1, MaskingPush, Zenon
<1>8. Scoping(T, v, h, r)
  BY <1>1, <1>4, <1>5, ScopingEnter, Zenon
<1>9. Actions(T, S, v, h)
  BY <1>1, <1>5, ActionsEnter DEF Scoping
<1> QED
  BY <1>5, <1>6, <1>7, <1>8, <1>9, FrameParts, Zenon DEF CanExtend

(* Frame is kept when a DOSCOPE or FINSEQ without exit actions to run is   *)
(* popped.                                                                 *)
LEMMA FrameDrop ==
  ASSUME NEW T, NEW S, NEW w \in Shadows(S), NEW g, NEW h, NEW l, NEW r, NEW p,
         Frame(T, S, w, g, l, r), w.n > 0, Owns(w, w.n), w.todo[Own(w, g, w.n)] = 0,
         PopsTop(g, h), SameMasks(g, h), SameActions(g, h), h.exits = w.xs[w.n - 1],
         l \cup {g.k} \subseteq p
  PROVE  CanCut(T, S, w, h, p, r)
<1>1. Links(S, w, g, l) /\ Masking(w, g) /\ Scoping(T, w, g, r) /\ Actions(T, S, w, g)
  BY FrameParts
<1>2. PICK v \in Shadows(S) : Cuts(w, v) /\ v.todo = w.todo
  BY StackShrinks
<1>3. Links(S, v, h, p)
  BY <1>1, <1>2, LinksPop, Zenon
<1>4. Masking(v, h)
  BY <1>1, <1>2, MaskingPop DEF Owns
<1>5. w.n \in 1..w.n /\ w.n \in Nat /\ v.n \in Nat /\ v.n <= w.n
  BY <1>2 DEF Shadows, Cuts
<1>7. Scoping(T, v, h, r)
  BY <1>1, <1>2, ScopingPop, Zenon
<1>8. Actions(T, S, v, h)
  BY <1>1, <1>2, <1>5, ActionsBelow DEF SameActions, Cuts
<1> QED
  BY <1>2, <1>3, <1>4, <1>7, <1>8, FrameParts, Zenon DEF CanCut

LeftFrame(T, S, w, g, d, e, h, l, r, p, c1, c2, fs) ==
  /\ Frame(T, S, w, g, l, r) /\ w.n > 0 /\ Kind(w, w.n) = "DOSCOPE"
  /\ PopsTop(g, d) /\ SameMasks(g, d) /\ SameActions(g, d) /\ d.exits = w.xs[w.n - 1]
  /\ l \cup {g.k} \subseteq p
  /\ Pushes(d, e, c1) /\ NewMask(d, e, Masked) /\ SameScopes(d, e)
  /\ c1.kind = "POPMASK" /\ c1.ref = e.mask
  /\ Pushes(e, h, c2) /\ SameMasks(e, h) /\ NewSequence(e, h, fs) /\ h.exits = e.exits
  /\ c2.kind = "FINSEQ" /\ c2.ref = Len(g.fins) + 1
  /\ fs.xs = Ref(w, w.n) /\ fs.i = Len(g.stacks[fs.xs].items)

CanLeave(T, S, w, h, p, r, ref) ==
  \E v \in Shadows(S) : Frame(T, S, v, h, p, r) /\ Leaves(w, v, ref) /\ v.user = w.user

(* Frame is kept when a DOSCOPE is replaced by a POPMASK and the FINSEQ of *)
(* its exit actions.                                                       *)
LEMMA FrameLeave ==
  ASSUME NEW T, NEW S, NEW w \in Shadows(S), NEW g, NEW d, NEW e, NEW h, NEW l, NEW r, NEW p,
         NEW c1 \in Cells(S), NEW c2 \in Cells(S), NEW fs \in Sequences,
         LeftFrame(T, S, w, g, d, e, h, l, r, p, c1, c2, fs)
  PROVE  CanLeave(T, S, w, h, p, r, c2.ref)
<1> SUFFICES ASSUME
         Frame(T, S, w, g, l, r), w.n > 0, Kind(w, w.n) = "DOSCOPE",
         PopsTop(g, d), SameMasks(g, d), SameActions(g, d), d.exits = w.xs[w.n - 1],
         l \cup {g.k} \subseteq p,
         Pushes(d, e, c1), NewMask(d, e, Masked), SameScopes(d, e),
         c1.kind = "POPMASK", c1.ref = e.mask,
         Pushes(e, h, c2), SameMasks(e, h), NewSequence(e, h, fs), h.exits = e.exits,
         c2.kind = "FINSEQ", c2.ref = Len(g.fins) + 1,
         fs.xs = Ref(w, w.n), fs.i = Len(g.stacks[fs.xs].items)
       PROVE  CanLeave(T, S, w, h, p, r, c2.ref)
  BY Zenon DEF LeftFrame
<1>1. Links(S, w, g, l) /\ Masking(w, g) /\ Scoping(T, w, g, r) /\ Actions(T, S, w, g)
  BY FrameParts
<1>2. /\ w.n \in Nat /\ w.todo \in Numbers /\ w.user \subseteq Nat
      /\ g.mask = w.ms[w.n] /\ g.mask \in Nat /\ g.exits = w.xs[w.n] /\ g.exits \in Nat
      /\ \A i \in Nat : w.ms[i] \in Nat /\ w.xs[i] \in Nat
      /\ Len(g.heap) \in Nat /\ Len(g.masks) \in Nat /\ Len(g.stacks) \in Nat
      /\ Len(g.fins) \in Nat
  BY FrameTypes, Zenon
<1>3. PICK u \in Shadows(S) : Cuts(w, u) /\ u.todo = w.todo
  BY StackShrinks
<1>4. /\ u.n = w.n - 1 /\ u.st = w.st /\ u.fr = w.fr /\ u.ms = w.ms /\ u.xs = w.xs
      /\ u.user = w.user /\ u.n \in Nat
  BY <1>2, <1>3 DEF Cuts
<1>5. Links(S, u, d, p)
  BY <1>1, <1>3, LinksPop, Zenon
<1>6. Masking(u, d)
  BY <1>1, <1>3, MaskingPop
<1>7. Actions(T, S, u, d)
  BY <1>1, <1>2, <1>4, ActionsBelow DEF SameActions
(* The Masked frame.                                                       *)
<1>8. /\ e.mask = Len(g.masks) + 1 /\ e.k = Len(g.heap) + 1 /\ d.mask = g.mask
      /\ d.masks = g.masks /\ d.heap = g.heap
  BY DEF NewMask, Pushes, SameMasks, PopsTop
<1>9. /\ e.mask \in Nat /\ e.k \in Nat /\ w.xs[w.n - 1] \in Nat
  BY <1>2, <1>4, <1>8
<1>10. PICK x \in Shadows(S) :
         /\ Extends(u, x, e.k, c1) /\ x.ms[x.n] = e.mask /\ x.xs[x.n] = w.xs[w.n - 1]
         /\ x.todo = w.todo /\ x.user = w.user
  <2>1. CanGrow(S, u, e.k, c1, e.mask, w.xs[w.n - 1], w.todo, w.user)
    BY <1>2, <1>9, StackGrows
  <2> QED
    BY <2>1 DEF CanGrow
<1>11. x.n = w.n /\ x.fr[x.n] = c1 /\ SameBelow(u, x, w.n - 1)
  BY <1>2, <1>4, <1>10 DEF Extends
<1>12. Links(S, x, e, p)
  BY <1>5, <1>10, LinksPush DEF FrameKinds
<1>13. Masking(x, e)
  <2>1. x.user \subseteq u.user \cup {e.mask} /\ Masked \in 0..2
    BY <1>4, <1>10 DEF Masked
  <2> QED
    BY <1>6, <1>10, <2>1, MaskingMask, Zenon
<1>14. Actions(T, S, x, e)
  <2>1. c1.kind \notin CodeKinds /\ e.stacks = d.stacks /\ u.user \subseteq x.user
    BY <1>4, <1>10 DEF CodeKinds, SameScopes
  <2> QED
    BY <1>7, <1>10, <2>1, ActionsPush, Zenon
(* The frame of the exit actions.                                          *)
<1>15. h.k \in Nat
  <2>1. e.heap \in Seq(Cells(S))
    BY <1>12 DEF Links
  <2> QED
    BY <2>1 DEF Pushes
<1>16. PICK v \in Shadows(S) :
         /\ Extends(x, v, h.k, c2) /\ v.ms[v.n] = e.mask /\ v.xs[v.n] = w.xs[w.n - 1]
         /\ v.todo = w.todo /\ v.user = w.user
  <2>1. CanGrow(S, x, h.k, c2, e.mask, w.xs[w.n - 1], w.todo, w.user)
    BY <1>2, <1>9, <1>15, StackGrows
  <2> QED
    BY <2>1 DEF CanGrow
<1>17. v.n = w.n + 1 /\ v.fr[v.n] = c2 /\ SameBelow(x, v, w.n)
  BY <1>11, <1>16 DEF Extends
<1>18. Links(S, v, h, p)
  BY <1>12, <1>16, LinksPush DEF FrameKinds
<1>19. Masking(v, h)
  <2>1. Kind(x, x.n) = "POPMASK" /\ x.n > 0 /\ v.ms[v.n] = x.ms[x.n]
    BY <1>10, <1>11, <1>16 DEF Kind
  <2>2. e.masks[e.mask].state = Masked /\ ~e.masks[e.mask].suspended
    <3>1. MaskStack(u, d) /\ d.mask \in Nat
      BY <1>2, <1>6, <1>8 DEF Masking
    <3>2. PICK state \in 0..2 : state = Masked
      BY DEF Masked
    <3>3. NewMask(d, e, state)
      BY <3>2
    <3>4. /\ Len(d.masks) \in Nat
          /\ Len(e.masks) = Len(d.masks) + 1 /\ e.mask = Len(d.masks) + 1
          /\ \A m \in 1..Len(d.masks) : e.masks[m] = d.masks[m]
          /\ e.masks[e.mask].prev = d.mask /\ e.masks[e.mask].active
          /\ e.masks[e.mask].state = state /\ ~e.masks[e.mask].suspended
      BY <3>1, <3>3, NewMaskFrames, Zenon
    <3> QED
      BY <3>2, <3>4
  <2>3. e.mask \notin x.user
    BY <1>1, <1>2, <1>8, <1>10 DEF Masking, Finalizers
  <2>4. v.user = x.user
    BY <1>10, <1>16
  <2> QED
    BY <1>13, <1>16, <2>1, <2>2, <2>3, <2>4, MaskingFinseq, Zenon
<1>20. Actions(T, S, v, h)
  <2>1. c2.kind \notin CodeKinds /\ h.stacks = e.stacks /\ x.user \subseteq v.user
    BY <1>10, <1>16 DEF CodeKinds, NewSequence
  <2> QED
    BY <1>14, <1>16, <2>1, ActionsPush, Zenon
(* The two in the place of the do-scope's.                                 *)
<1>21. Leaves(w, v, c2.ref)
  <2>1. SameBelow(w, v, w.n - 1)
    <3>1. \A i \in 0..(w.n - 1) : i \in 0..w.n
      BY <1>2
    <3> QED
      BY <1>4, <1>11, <1>17, <3>1 DEF SameBelow
  <2>2. v.fr[w.n] = c1 /\ v.xs[w.n] = w.xs[w.n - 1]
    <3>1. w.n \in 0..w.n
      BY <1>2
    <3> QED
      BY <1>10, <1>11, <1>17, <3>1 DEF SameBelow
  <2> QED
    BY <1>16, <1>17, <2>1, <2>2 DEF Leaves
<1>22. Scoping(T, v, h, r)
  <2>1. NewSequence(g, h, fs) /\ h.exits = w.xs[w.n - 1]
    BY DEF NewSequence, SameScopes, SameActions
  <2> QED
    BY <1>1, <1>16, <1>21, <2>1, ScopingLeave, Zenon
<1> QED
  BY <1>16, <1>18, <1>19, <1>20, <1>21, <1>22, FrameParts, Zenon DEF CanLeave

(* Frame is kept when the stack stays and only scopes change.              *)
LEMMA StackKept ==
  ASSUME NEW T, NEW S, NEW w, NEW v, NEW g, NEW h, NEW l, Links(S, w, g, l), Masking(w, g),
         SameStack(w, v), h.k = g.k, h.heap = g.heap, SameMasks(g, h)
  PROVE  Links(S, v, h, l) /\ Masking(v, h)
<1>1. v.n = w.n /\ v.st = w.st /\ v.fr = w.fr /\ v.ms = w.ms /\ v.xs = w.xs /\ v.user = w.user
  BY DEF SameStack
<1>2. Links(S, v, h, l)
  BY <1>1 DEF Links
<1>3. h.masks = g.masks /\ h.mask = g.mask
  BY DEF SameMasks
<1>4. MaskStack(v, h)
  BY <1>1, <1>3 DEF Masking, MaskStack, Kind, Ref
<1>5. Suspensions(v, h)
  BY <1>1, <1>3 DEF Masking, Suspensions, Kind, Ref
<1>6. Finalizers(v, h)
  BY <1>1, <1>3, Zenon DEF Masking, Finalizers, Kind, Ref
<1> QED
  BY <1>2, <1>4, <1>5, <1>6 DEF Masking

(* Frame is kept when an exit action is registered.                        *)
LEMMA FrameDefer ==
  ASSUME NEW T, NEW S, NEW w \in Shadows(S), NEW g, NEW h, NEW l, NEW r, NEW q,
         NEW item \in ItemTypes(T), Frame(T, S, w, g, l, r), h.k = g.k, h.heap = g.heap,
         SameMasks(g, h), NewItem(g, h, item), g.exits # None, item.n = Len(r) + 1,
         q = Append(r, 0), item.action \in Closures(T, w.user)
  PROVE  \E v \in Shadows(S) : Frame(T, S, v, h, l, q) /\ SameStack(w, v)
<1>1. Links(S, w, g, l) /\ Masking(w, g) /\ Scoping(T, w, g, r) /\ Actions(T, S, w, g)
  BY FrameParts
<1>2. w.todo \in Numbers
  BY DEF Shadows
<1>3. g.exits \in 1..Len(g.stacks) /\ w.todo[g.exits] = Len(g.stacks[g.exits].items)
  BY <1>1, CurrentScope DEF Scoping
<1>4. Len(g.stacks[g.exits].items) \in Nat
  <2>1. g.stacks[g.exits] \in Stacks(T)
    BY <1>1, <1>3 DEF Scoping, Scopes
  <2> QED
    BY <2>1 DEF Stacks
<1>5. PICK todo \in Numbers : todo = [w.todo EXCEPT ![g.exits] = @ + 1]
  <2>1. w.todo[g.exits] + 1 \in Nat
    BY <1>3, <1>4
  <2> QED
    BY <1>2, <2>1 DEF Numbers
<1>6. PICK v \in Shadows(S) : SameStack(w, v) /\ v.todo = todo
  BY StackStays
<1>7. Links(S, v, h, l) /\ Masking(v, h)
  BY <1>1, <1>6, StackKept
<1>8. Scoping(T, v, h, q)
  BY <1>1, <1>5, <1>6, ScopingDefer, Zenon
<1>9. Actions(T, S, v, h)
  BY <1>1, <1>3, <1>6, ActionsDefer DEF Scoping
<1> QED
  BY <1>6, <1>7, <1>8, <1>9, FrameParts, Zenon

(* The sequence whose frame is on top.                                     *)
LEMMA TopSequence ==
  ASSUME NEW T, NEW S, NEW w \in Shadows(S), NEW g, NEW l, NEW r, Frame(T, S, w, g, l, r),
         w.n > 0, Kind(w, w.n) = "FINSEQ", NEW ref, ref = Ref(w, w.n)
  PROVE  /\ ref \in 1..Len(g.fins) /\ g.fins[ref] \in Sequences
         /\ g.fins[ref].xs \in 1..Len(g.stacks)
         /\ g.fins[ref].i = w.todo[g.fins[ref].xs] /\ g.fins[ref].i \in Nat
         /\ g.fins[ref].i <= Len(Items(g, g.fins[ref].xs))
         /\ Len(Items(g, g.fins[ref].xs)) \in Nat
         /\ Owns(w, w.n) /\ Own(w, g, w.n) = g.fins[ref].xs
<1>1. w.n \in 1..w.n
  BY DEF Shadows
<1>2. /\ ref \in 1..Len(g.fins) /\ g.fins[ref].xs \in 1..Len(g.stacks)
      /\ g.fins[ref].i = w.todo[g.fins[ref].xs]
  BY <1>1 DEF Frame, Owners
<1>3. g.fins[ref] \in Sequences
  BY <1>2 DEF Frame, Owners
<1>4. g.fins[ref].i \in Nat
  BY <1>3 DEF Sequences
<1>5. w.todo[g.fins[ref].xs] <= Len(Items(g, g.fins[ref].xs))
  BY <1>2 DEF Frame, Scopes, Items
<1>6. Len(Items(g, g.fins[ref].xs)) \in Nat
  <2>1. g.stacks[g.fins[ref].xs] \in Stacks(T)
    BY <1>2 DEF Frame, Scopes
  <2> QED
    BY <2>1 DEF Stacks, Items
<1> QED
  BY <1>2, <1>3, <1>4, <1>5, <1>6 DEF Owns, Own

(* An exit action is started: the next of the sequence, and its number.    *)
Starts(g, ref, fs) == g.fins[ref].i > 0 /\ fs = [g.fins[ref] EXCEPT !.i = @ - 1]
NextNumber(g, ref) == g.stacks[g.fins[ref].xs].items[g.fins[ref].i].n
Counts(g, ref, r, q) == q = [r EXCEPT ![NextNumber(g, ref)] = @ + 1]

(* Frame is kept when the FINSEQ on top starts an exit action.             *)
LEMMA FrameStart ==
  ASSUME NEW T, NEW S, NEW w \in Shadows(S), NEW g, NEW h, NEW l, NEW r, NEW q,
         NEW ref, NEW fs, Frame(T, S, w, g, l, r), w.n > 0, Kind(w, w.n) = "FINSEQ",
         ref = Ref(w, w.n), Starts(g, ref, fs), Counts(g, ref, r, q),
         h.k = g.k, h.heap = g.heap, SameMasks(g, h), ChangedSequence(g, h, ref, fs)
  PROVE  \E v \in Shadows(S) : Frame(T, S, v, h, l, q) /\ SameStack(w, v)
<1>1. Links(S, w, g, l) /\ Masking(w, g) /\ Scoping(T, w, g, r) /\ Actions(T, S, w, g)
  BY FrameParts
<1>2. /\ ref \in 1..Len(g.fins) /\ g.fins[ref] \in Sequences
      /\ g.fins[ref].xs \in 1..Len(g.stacks)
      /\ g.fins[ref].i = w.todo[g.fins[ref].xs] /\ g.fins[ref].i \in Nat
      /\ g.fins[ref].i <= Len(Items(g, g.fins[ref].xs))
      /\ Len(Items(g, g.fins[ref].xs)) \in Nat
  BY TopSequence
<1>3. PICK e : e = g.fins[ref].xs
  OBVIOUS
<1>4. PICK k \in Nat : k = g.fins[ref].i
  BY <1>2
<1>5. fs \in Sequences /\ fs.xs = e /\ fs.i = k - 1 /\ k > 0 /\ k - 1 \in Nat
  BY <1>2, <1>3, <1>4 DEF Sequences, Starts
<1>6. PICK todo \in Numbers : todo = [w.todo EXCEPT ![e] = fs.i]
  <2>1. w.todo \in Numbers
    BY DEF Shadows
  <2> QED
    BY <1>5, <2>1 DEF Numbers
<1>7. PICK v \in Shadows(S) : SameStack(w, v) /\ v.todo = todo
  BY StackStays
<1>8. Links(S, v, h, l) /\ Masking(v, h)
  BY <1>1, <1>7, StackKept
<1>9. Scopes(T, v, h) /\ Owners(v, h)
  <2>1. fs.i <= g.fins[ref].i
    BY <1>4, <1>5
  <2>2. v.todo = [w.todo EXCEPT ![e] = fs.i]
    BY <1>6, <1>7
  <2> QED
    BY <1>1, <1>3, <1>5, <1>7, <2>1, <2>2, ScopingChange, Zenon DEF Scoping
<1>10. ExitActions(v, h, q)
  <2>1. /\ e \in 1..Len(g.stacks) /\ k \in 1..Len(Items(g, e)) /\ w.todo[e] = k
    BY <1>2, <1>3, <1>4, <1>5
  <2>2. v.todo = [w.todo EXCEPT ![e] = k - 1] /\ h.stacks = g.stacks /\ ExitActions(w, g, r)
    BY <1>1, <1>5, <1>6, <1>7 DEF ChangedSequence, Scoping
  <2>3. PICK a : a = Items(g, e)[k].n
    OBVIOUS
  <2>4. q = [r EXCEPT ![a] = @ + 1]
    BY <1>3, <1>4, <2>3, Zenon DEF Counts, NextNumber, Items
  <2>5. Begins(w, v, g, h, r, q, e, k, a)
    BY <2>1, <2>2, <2>3, <2>4, Zenon DEF Begins
  <2> QED
    BY <2>2, <2>5, ExitActionsRun, Zenon
<1>11. Actions(T, S, v, h)
  <2>1. h.stacks = g.stacks
    BY DEF ChangedSequence
  <2>2. w.n \in Nat /\ v.n = w.n /\ v.fr = w.fr /\ v.xs = w.xs /\ v.user = w.user
    BY <1>7 DEF Shadows, SameStack
  <2> QED
    BY <1>1, <2>1, <2>2, ActionsBelow
<1> QED
  BY <1>7, <1>8, <1>9, <1>10, <1>11, FrameParts, Zenon DEF Scoping

(* Frame is kept when the FINSEQ on top takes over a failure.              *)
LEMMA FrameFails ==
  ASSUME NEW T, NEW S, NEW w \in Shadows(S), NEW g, NEW h, NEW l, NEW r,
         NEW ref, NEW fs \in Sequences, Frame(T, S, w, g, l, r), w.n > 0,
         Kind(w, w.n) = "FINSEQ", ref = Ref(w, w.n), fs.xs = g.fins[ref].xs,
         fs.i = g.fins[ref].i,
         h.k = g.k, h.heap = g.heap, SameMasks(g, h), ChangedSequence(g, h, ref, fs)
  PROVE  Frame(T, S, w, h, l, r)
<1>1. Links(S, w, g, l) /\ Masking(w, g) /\ Scoping(T, w, g, r) /\ Actions(T, S, w, g)
  BY FrameParts
<1>2. /\ g.fins[ref].xs \in 1..Len(g.stacks) /\ g.fins[ref].i \in Nat
      /\ g.fins[ref].i = w.todo[g.fins[ref].xs]
  BY TopSequence
<1>3. PICK e : e = g.fins[ref].xs
  OBVIOUS
<1>4. SameStack(w, w) /\ h.stacks = g.stacks
  BY DEF SameStack, ChangedSequence
<1>5. w.todo = [w.todo EXCEPT ![e] = fs.i]
  <2>1. w.todo \in Numbers
    BY DEF Shadows
  <2> QED
    BY <1>2, <1>3, <2>1 DEF Numbers
<1>6. Links(S, w, h, l) /\ Masking(w, h)
  BY <1>1, <1>4, StackKept
<1>7. Scopes(T, w, h) /\ Owners(w, h)
  <2>1. fs.i <= g.fins[ref].i
    BY <1>2
  <2> QED
    BY <1>1, <1>3, <1>4, <1>5, <2>1, ScopingChange, Zenon DEF Scoping
<1>8. ExitActions(w, h, r)
  BY <1>1, <1>4, ExitActionsSame DEF Scoping
<1>9. Actions(T, S, w, h)
  <2>1. w.n \in Nat
    BY DEF Shadows
  <2> QED
    BY <1>1, <1>4, <2>1, ActionsBelow
<1> QED
  BY <1>6, <1>7, <1>8, <1>9, FrameParts, Zenon DEF Scoping

----------------------------------------------------------------------------
(* Causes: a reason without one is in order with every other.              *)
Quietly(why) == why \in Reasons /\ Len(why.cause) = 0

(* The reasons without a cause.                                            *)
LEMMA QuietReasons ==
  Quietly(Normal) /\ Quietly(Returned) /\ Quietly(Broken) /\ Quietly(Continued)
BY DEF Quietly, Reasons, Normal, Returned, Broken, Continued

(* A reason without a cause is in any order.                               *)
LEMMA QuietOrder ==
  ASSUME NEW why, Quietly(why), NEW n, NEW other
  PROVE  Ordered(why) /\ UpTo(why, n) /\ Newer(other, why) /\ Newer(why, other)
BY DEF Quietly, Ordered, UpTo, Newer

(* A new failure or interrupt is newer than every other.                   *)
CauseItems == [kind : {"fail", "interrupt"}, n : Nat]

(* The cause of a reason is a sequence.                                    *)
LEMMA ReasonTypes ==
  ASSUME NEW why \in Reasons
  PROVE  /\ why.cause \in Seq(CauseItems) /\ Len(why.cause) \in Nat
         /\ \A i \in 1..Len(why.cause) : why.cause[i].n \in Nat
<1>1. why.cause \in Seq(CauseItems)
  BY DEF Reasons, CauseItems
<1>2. \A i \in 1..Len(why.cause) : why.cause[i] \in CauseItems
  BY <1>1
<1> QED
  BY <1>1, <1>2 DEF CauseItems

(* A new failure or interrupt is newer than every earlier one.             *)
LEMMA NewestOrder ==
  ASSUME NEW other \in Reasons, NEW why, NEW last \in Nat, UpTo(other, last),
         Len(why.cause) = 1, why.cause[1].n = last + 1
  PROVE  Newer(other, why)
<1>1. ASSUME NEW i \in 1..Len(other.cause), NEW j \in 1..Len(why.cause)
      PROVE  other.cause[i].n < why.cause[j].n
  <2>1. other.cause[i].n <= last
    BY DEF UpTo
  <2>2. other.cause[i].n \in Nat
    BY ReasonTypes
  <2>3. j = 1
    OBVIOUS
  <2> QED
    BY <2>1, <2>2, <2>3
<1> QED
  BY <1>1 DEF Newer

(* The reason of a new failure or interrupt.                               *)
LEMMA RaisedOrder ==
  ASSUME NEW kind \in {"fail", "interrupt"}, NEW last \in Nat, NEW why,
         why = Raised(kind, last + 1)
  PROVE  /\ why \in Reasons /\ Ordered(why) /\ UpTo(why, last + 1)
         /\ \A other \in Reasons : UpTo(other, last) => Newer(other, why)
<1>1. PICK c : c = [kind |-> kind, n |-> last + 1]
  OBVIOUS
<1>2. c \in [kind : {"fail", "interrupt"}, n : Nat] /\ c.n = last + 1
  <2>1. last + 1 \in Nat
    OBVIOUS
  <2>2. [kind |-> kind, n |-> last + 1] \in [kind : {"fail", "interrupt"}, n : Nat]
    BY <2>1, Zenon
  <2>3. c.n = last + 1
    BY <1>1, Zenon
  <2> QED
    BY <1>1, <2>2, <2>3, Zenon
<1>3. why = [kind |-> kind, cause |-> <<c>>]
  BY <1>1 DEF Raised
<1>4. why.cause = <<c>> /\ why.kind = kind
  BY <1>3
<1>5. Len(why.cause) = 1 /\ why.cause[1].n = last + 1
  <2>1. Len(<<c>>) = 1 /\ <<c>>[1] = c
    OBVIOUS
  <2> QED
    BY <1>2, <1>4, <2>1, Zenon
<1>6. why \in Reasons
  <2>1. <<c>> \in Seq([kind : {"fail", "interrupt"}, n : Nat])
    BY <1>2
  <2>2. kind \in {"normal", "return", "break", "continue", "fail", "interrupt", "reraise"}
    OBVIOUS
  <2>3. [kind |-> kind, cause |-> <<c>>] \in Reasons
    BY <2>1, <2>2, Zenon DEF Reasons
  <2> QED
    BY <1>3, <2>3, Zenon
<1>7. Ordered(why) /\ UpTo(why, last + 1)
  <2>1. 1..1 = {1}
    OBVIOUS
  <2>2. 1..Len(why.cause) = {1}
    BY <1>5, <2>1, Zenon
  <2>3. ~(1 < 1) /\ last + 1 <= last + 1
    OBVIOUS
  <2>4. Ordered(why)
    BY <2>2, <2>3, Zenon DEF Ordered
  <2>5. UpTo(why, last + 1)
    BY <1>5, <2>2, <2>3, Zenon DEF UpTo
  <2> QED
    BY <2>4, <2>5
<1> QED
  BY <1>5, <1>6, <1>7, NewestOrder, Zenon

(* A composed reason: the primary's causes, then the cleanup's.            *)
Concatenates(a, b, q) ==
  /\ Len(a) \in Nat /\ Len(b) \in Nat /\ Len(q) = Len(a) + Len(b)
  /\ \A i \in 1..Len(a) : q[i] = a[i]
  /\ \A i \in 1..Len(q) : i > Len(a) => i - Len(a) \in 1..Len(b) /\ q[i] = b[i - Len(a)]

(* The items of a concatenation.                                           *)
LEMMA Concatenation ==
  ASSUME NEW X, NEW a \in Seq(X), NEW b \in Seq(X), NEW q, q = a \o b
  PROVE  q \in Seq(X) /\ Concatenates(a, b, q)
<1>1. q \in Seq(X) /\ Len(q) = Len(a) + Len(b) /\ Len(a) \in Nat /\ Len(b) \in Nat
  BY ConcatProperties
<1>2. \A i \in 1..(Len(a) + Len(b)) : q[i] = IF i <= Len(a) THEN a[i] ELSE b[i - Len(a)]
  BY ConcatProperties
<1>3. ASSUME NEW i \in 1..Len(a)
      PROVE  q[i] = a[i]
  <2>1. i \in 1..(Len(a) + Len(b)) /\ i <= Len(a)
    BY <1>1
  <2> QED
    BY <1>2, <2>1
<1>4. ASSUME NEW i \in 1..Len(q), i > Len(a)
      PROVE  i - Len(a) \in 1..Len(b) /\ q[i] = b[i - Len(a)]
  <2>1. i \in 1..(Len(a) + Len(b)) /\ ~(i <= Len(a)) /\ i - Len(a) \in 1..Len(b)
    BY <1>1, <1>4
  <2> QED
    BY <1>2, <2>1
<1> QED
  BY <1>1, <1>3, <1>4 DEF Concatenates

(* A cause followed by a newer one is in order.                            *)
LEMMA ConcatenatedOrder ==
  ASSUME NEW p \in Reasons, NEW c \in Reasons, NEW q,
         Concatenates(p.cause, c.cause, q.cause)
  PROVE  /\ Ordered(p) /\ Ordered(c) /\ Newer(p, c) => Ordered(q)
         /\ \A n : UpTo(p, n) /\ UpTo(c, n) => UpTo(q, n)
         /\ \A other : Newer(other, p) /\ Newer(other, c) => Newer(other, q)
<1>1. PICK a \in Nat, b \in Nat : a = Len(p.cause) /\ b = Len(c.cause)
  BY ReasonTypes
<1>2. /\ Len(q.cause) = a + b
      /\ \A i \in 1..a : q.cause[i] = p.cause[i]
      /\ \A i \in 1..(a + b) : i > a => i - a \in 1..b /\ q.cause[i] = c.cause[i - a]
  BY <1>1 DEF Concatenates
<1>3. \A i \in 1..(a + b) :
        \/ i \in 1..a /\ i <= a
        \/ i > a /\ i - a \in 1..b
  OBVIOUS
<1>4. ASSUME Ordered(p), Ordered(c), Newer(p, c)
      PROVE  Ordered(q)
  <2>1. ASSUME NEW i \in 1..(a + b), NEW j \in 1..(a + b), i < j
        PROVE  q.cause[i].n < q.cause[j].n
    <3>1. CASE i \in 1..a /\ j \in 1..a
      BY <1>1, <1>2, <1>4, <2>1, <3>1 DEF Ordered
    <3>2. CASE i \in 1..a /\ j > a /\ j - a \in 1..b
      BY <1>1, <1>2, <1>4, <3>2 DEF Newer
    <3>3. CASE i > a /\ j > a
      <4>1. i - a \in 1..b /\ j - a \in 1..b /\ i - a < j - a
        BY <2>1, <3>3
      <4>2. c.cause[i - a].n < c.cause[j - a].n
        BY <1>1, <1>4, <4>1 DEF Ordered
      <4> QED
        BY <1>2, <3>3, <4>2
    <3>4. i > a => j > a
      BY <2>1
    <3> QED
      BY <1>3, <3>1, <3>2, <3>3, <3>4
  <2> QED
    BY <1>2, <2>1 DEF Ordered
<1>5. ASSUME NEW n, UpTo(p, n), UpTo(c, n)
      PROVE  UpTo(q, n)
  <2>1. ASSUME NEW i \in 1..(a + b)
        PROVE  q.cause[i].n <= n
    BY <1>1, <1>2, <1>3, <1>5 DEF UpTo
  <2> QED
    BY <1>2, <2>1 DEF UpTo
<1>6. ASSUME NEW other, Newer(other, p), Newer(other, c)
      PROVE  Newer(other, q)
  <2>1. ASSUME NEW i \in 1..Len(other.cause), NEW j \in 1..(a + b)
        PROVE  other.cause[i].n < q.cause[j].n
    BY <1>1, <1>2, <1>3, <1>6 DEF Newer
  <2> QED
    BY <1>2, <2>1 DEF Newer
<1> QED
  BY <1>4, <1>5, <1>6

(* A composed reason is in order if the cleanup's cause is newer.          *)
LEMMA ComposeOrder ==
  ASSUME NEW p \in Reasons, NEW c \in Reasons, NEW n, Ordered(p), Ordered(c), Newer(p, c),
         UpTo(p, n), UpTo(c, n), NEW q, q = Compose(p, c)
  PROVE  /\ q \in Reasons /\ Ordered(q) /\ UpTo(q, n)
         /\ \A other : Newer(other, p) /\ Newer(other, c) => Newer(other, q)
<1>1. CASE c.cause = <<>>
  BY <1>1 DEF Compose
<1>2. CASE c.cause # <<>>
  <2>0. PICK both : both = p.cause \o c.cause
    OBVIOUS
  <2>1. q = [kind |-> "reraise", cause |-> both]
    BY <1>2, <2>0 DEF Compose
  <2>2. q.cause = p.cause \o c.cause
    <3>1. q.cause = both
      BY <2>1
    <3> QED
      BY <2>0, <3>1, Zenon
  <2>3. p.cause \in Seq(CauseItems) /\ c.cause \in Seq(CauseItems)
    BY ReasonTypes
  <2>4. q.cause \in Seq(CauseItems) /\ Concatenates(p.cause, c.cause, q.cause)
    BY <2>2, <2>3, Concatenation
  <2>5. q \in Reasons
    <3>1. both \in Seq([kind : {"fail", "interrupt"}, n : Nat])
      BY <2>0, <2>2, <2>4, Zenon DEF CauseItems
    <3> QED
      BY <2>1, <3>1 DEF Reasons
  <2> QED
    BY <2>4, <2>5, ConcatenatedOrder, Zenon
<1> QED
  BY <1>1, <1>2

(* The sequences that wait are those that waited.                          *)
LEMMA CausesKept ==
  ASSUME NEW w, NEW v, NEW g, NEW h, NEW last, NEW next \in Nat, Causes(w, g, last),
         h.why \in Reasons, Ordered(h.why), UpTo(h.why, next),
         \A i \in 1..v.n : Kind(v, i) = "FINSEQ" =>
           /\ i \in 1..w.n /\ Kind(w, i) = "FINSEQ" /\ Waiting(v, h, i) = Waiting(w, g, i)
           /\ Newer(Waiting(w, g, i), h.why) /\ UpTo(Waiting(w, g, i), next)
  PROVE  Causes(v, h, next)
<1>1. ASSUME NEW i \in 1..v.n, Kind(v, i) = "FINSEQ"
      PROVE  /\ Ordered(Waiting(v, h, i)) /\ UpTo(Waiting(v, h, i), next)
             /\ Newer(Waiting(v, h, i), h.why)
  <2>1. /\ i \in 1..w.n /\ Kind(w, i) = "FINSEQ" /\ Waiting(v, h, i) = Waiting(w, g, i)
        /\ Newer(Waiting(w, g, i), h.why) /\ UpTo(Waiting(w, g, i), next)
    BY <1>1
  <2>2. Ordered(Waiting(w, g, i))
    BY <2>1, Zenon DEF Causes
  <2> QED
    BY <2>1, <2>2, Zenon
<1>2. ASSUME NEW i \in 1..v.n, NEW j \in 1..v.n, i < j, Kind(v, i) = "FINSEQ",
             Kind(v, j) = "FINSEQ"
      PROVE  Newer(Waiting(v, h, i), Waiting(v, h, j))
  <2>1. /\ i \in 1..w.n /\ Kind(w, i) = "FINSEQ" /\ Waiting(v, h, i) = Waiting(w, g, i)
        /\ j \in 1..w.n /\ Kind(w, j) = "FINSEQ" /\ Waiting(v, h, j) = Waiting(w, g, j)
    BY <1>2
  <2>2. Newer(Waiting(w, g, i), Waiting(w, g, j))
    BY <1>2, <2>1, Zenon DEF Causes
  <2> QED
    BY <2>1, <2>2, Zenon
<1> QED
  BY <1>1, <1>2, Zenon DEF Causes

(* The reason of h: none, that of g, or a new failure or interrupt.        *)
NextReason(g, h, last, next) ==
  \/ Quietly(h.why) /\ next = last
  \/ h.why = g.why /\ next = last
  \/ \E kind \in {"fail", "interrupt"} : h.why = Raised(kind, last + 1) /\ next = last + 1

(* What a sequence of exit actions on the stack keeps is a reason.         *)
LEMMA WaitingTypes ==
  ASSUME NEW w, NEW g, Owners(w, g), NEW i \in 1..w.n, Kind(w, i) = "FINSEQ"
  PROVE  Ref(w, i) \in 1..Len(g.fins) /\ Waiting(w, g, i) \in Reasons
<1>1. Ref(w, i) \in 1..Len(g.fins) /\ g.fins \in Seq(Sequences)
  BY DEF Owners
<1>2. g.fins[Ref(w, i)] \in Sequences
  BY <1>1
<1> QED
  BY <1>1, <1>2 DEF Waiting, Sequences

(* The reason of the moment, and when it goes, arises or stays, is newer   *)
(* than what waits in the stack.                                           *)
LEMMA ReasonOrder ==
  ASSUME NEW w, NEW g, NEW h, NEW last, NEW next, Owners(w, g), Causes(w, g, last),
         NextReason(g, h, last, next)
  PROVE  /\ next \in Nat /\ h.why \in Reasons /\ Ordered(h.why) /\ UpTo(h.why, next)
         /\ \A i \in 1..w.n : Kind(w, i) = "FINSEQ" =>
              Newer(Waiting(w, g, i), h.why) /\ UpTo(Waiting(w, g, i), next)
<1>1. /\ last \in Nat /\ g.why \in Reasons /\ Ordered(g.why) /\ UpTo(g.why, last)
      /\ \A i \in 1..w.n : Kind(w, i) = "FINSEQ" =>
           UpTo(Waiting(w, g, i), last) /\ Newer(Waiting(w, g, i), g.why)
  BY Zenon DEF Causes
<1>2. CASE Quietly(h.why) /\ next = last
  <2>1. h.why \in Reasons
    BY <1>2 DEF Quietly
  <2> QED
    BY <1>1, <1>2, <2>1, QuietOrder, Zenon
<1>3. CASE h.why = g.why /\ next = last
  BY <1>1, <1>3, Zenon
<1>4. ASSUME NEW kind \in {"fail", "interrupt"}, h.why = Raised(kind, last + 1), next = last + 1
      PROVE  /\ next \in Nat /\ h.why \in Reasons /\ Ordered(h.why) /\ UpTo(h.why, next)
             /\ \A i \in 1..w.n : Kind(w, i) = "FINSEQ" =>
                  Newer(Waiting(w, g, i), h.why) /\ UpTo(Waiting(w, g, i), next)
  <2>1. /\ h.why \in Reasons /\ Ordered(h.why) /\ UpTo(h.why, last + 1)
        /\ \A other \in Reasons : UpTo(other, last) => Newer(other, h.why)
    BY <1>1, <1>4, RaisedOrder, Zenon
  <2>2. next \in Nat
    BY <1>1, <1>4
  <2>3. ASSUME NEW i \in 1..w.n, Kind(w, i) = "FINSEQ"
        PROVE  Newer(Waiting(w, g, i), h.why) /\ UpTo(Waiting(w, g, i), next)
    <3>1. Waiting(w, g, i) \in Reasons
      BY <2>3, WaitingTypes
    <3>2. UpTo(Waiting(w, g, i), last)
      BY <1>1, <2>3
    <3>3. \A j \in 1..Len(Waiting(w, g, i).cause) : Waiting(w, g, i).cause[j].n \in Nat
      BY <3>1, ReasonTypes
    <3>4. UpTo(Waiting(w, g, i), next)
      BY <1>1, <1>4, <3>2, <3>3 DEF UpTo
    <3> QED
      BY <2>1, <3>1, <3>2, <3>4
  <2> QED
    BY <1>4, <2>1, <2>2, <2>3, Zenon
<1> QED
  BY <1>2, <1>3, <1>4, Zenon DEF NextReason

(* Causes stay in order when frames are popped.                            *)
LEMMA CausesBelow ==
  ASSUME NEW w, NEW v, NEW g, NEW h, NEW last, NEW next, Owners(w, g), Causes(w, g, last),
         NextReason(g, h, last, next), w.n \in Nat, v.n \in Nat, v.n <= w.n, v.fr = w.fr,
         h.fins = g.fins
  PROVE  Causes(v, h, next)
<1>1. /\ next \in Nat /\ h.why \in Reasons /\ Ordered(h.why) /\ UpTo(h.why, next)
      /\ \A i \in 1..w.n : Kind(w, i) = "FINSEQ" =>
           Newer(Waiting(w, g, i), h.why) /\ UpTo(Waiting(w, g, i), next)
  BY ReasonOrder, Zenon
<1>2. ASSUME NEW i \in 1..v.n, Kind(v, i) = "FINSEQ"
      PROVE  /\ i \in 1..w.n /\ Kind(w, i) = "FINSEQ" /\ Waiting(v, h, i) = Waiting(w, g, i)
             /\ Newer(Waiting(w, g, i), h.why) /\ UpTo(Waiting(w, g, i), next)
  <2>1. i \in 1..w.n
    OBVIOUS
  <2>2. Kind(w, i) = "FINSEQ" /\ Waiting(v, h, i) = Waiting(w, g, i)
    BY <1>2 DEF Kind, Ref, Waiting
  <2> QED
    BY <1>1, <2>1, <2>2, Zenon
<1> QED
  BY <1>1, <1>2, CausesKept, Zenon

(* Causes stay in order when a frame other than a FINSEQ is pushed.        *)
LEMMA CausesPush ==
  ASSUME NEW S, NEW w \in Shadows(S), NEW v, NEW g, NEW h, NEW last, NEW next, NEW c, NEW cell,
         Owners(w, g), Causes(w, g, last), NextReason(g, h, last, next), Extends(w, v, c, cell),
         cell.kind # "FINSEQ", h.fins = g.fins
  PROVE  Causes(v, h, next)
<1>1. /\ next \in Nat /\ h.why \in Reasons /\ Ordered(h.why) /\ UpTo(h.why, next)
      /\ \A i \in 1..w.n : Kind(w, i) = "FINSEQ" =>
           Newer(Waiting(w, g, i), h.why) /\ UpTo(Waiting(w, g, i), next)
  BY ReasonOrder, Zenon
<1>2. w.n \in Nat /\ v.n = w.n + 1 /\ v.fr[v.n] = cell /\ \A i \in 0..w.n : v.fr[i] = w.fr[i]
  BY DEF Shadows, Extends, SameBelow
<1>3. ASSUME NEW i \in 1..v.n, Kind(v, i) = "FINSEQ"
      PROVE  /\ i \in 1..w.n /\ Kind(w, i) = "FINSEQ" /\ Waiting(v, h, i) = Waiting(w, g, i)
             /\ Newer(Waiting(w, g, i), h.why) /\ UpTo(Waiting(w, g, i), next)
  <2>1. i # v.n
    BY <1>2, <1>3 DEF Kind
  <2>2. i \in 1..w.n /\ i \in 0..w.n
    BY <1>2, <2>1
  <2>3. Kind(w, i) = "FINSEQ" /\ Waiting(v, h, i) = Waiting(w, g, i)
    BY <1>2, <1>3, <2>2 DEF Kind, Ref, Waiting
  <2> QED
    BY <1>1, <2>2, <2>3, Zenon
<1> QED
  BY <1>1, <1>3, CausesKept, Zenon

(* A sequence has run its exit actions: its reason goes on.                *)
LEMMA CausesEnd ==
  ASSUME NEW S, NEW w \in Shadows(S), NEW v, NEW g, NEW h, NEW last,
         Owners(w, g), Causes(w, g, last), w.n > 0, Kind(w, w.n) = "FINSEQ",
         v.n = w.n - 1, v.fr = w.fr, h.fins = g.fins,
         h.why = Waiting(w, g, w.n) \/ Quietly(h.why)
  PROVE  Causes(v, h, last)
<1>1. w.n \in 1..w.n /\ w.n \in Nat /\ v.n \in Nat /\ v.n <= w.n
  BY DEF Shadows
<1>2. CASE Quietly(h.why)
  <2>1. NextReason(g, h, last, last)
    BY <1>2 DEF NextReason
  <2> QED
    BY <1>1, <2>1, CausesBelow, Zenon
<1>3. CASE h.why = Waiting(w, g, w.n)
  <2>1. h.why \in Reasons
    BY <1>1, <1>3, WaitingTypes
  <2>2. last \in Nat /\ Ordered(h.why) /\ UpTo(h.why, last)
    BY <1>1, <1>3, Zenon DEF Causes
  <2>3. ASSUME NEW i \in 1..v.n, Kind(v, i) = "FINSEQ"
        PROVE  /\ i \in 1..w.n /\ Kind(w, i) = "FINSEQ" /\ Waiting(v, h, i) = Waiting(w, g, i)
               /\ Newer(Waiting(w, g, i), h.why) /\ UpTo(Waiting(w, g, i), last)
    <3>1. i \in 1..w.n /\ i < w.n
      BY <1>1
    <3>2. Kind(w, i) = "FINSEQ" /\ Waiting(v, h, i) = Waiting(w, g, i)
      BY <2>3 DEF Kind, Ref, Waiting
    <3>3. Newer(Waiting(w, g, i), h.why) /\ UpTo(Waiting(w, g, i), last)
      BY <1>1, <1>3, <3>1, <3>2, Zenon DEF Causes
    <3> QED
      BY <3>1, <3>2, <3>3
  <2> QED
    BY <2>1, <2>2, <2>3, CausesKept, Zenon
<1> QED
  BY <1>2, <1>3

(* A scope is left: the reason waits for its exit actions.                 *)
LEMMA CausesLeave ==
  ASSUME NEW S, NEW w \in Shadows(S), NEW v, NEW g, NEW h, NEW last, NEW fs \in Sequences,
         NEW ref, Owners(w, g), Causes(w, g, last), w.n > 0, Kind(w, w.n) = "DOSCOPE",
         Leaves(w, v, ref), ref = Len(g.fins) + 1, NewSequence(g, h, fs),
         fs.why = g.why \/ Quietly(fs.why), Quietly(h.why)
  PROVE  Causes(v, h, last)
<1>1. w.n \in Nat /\ w.n \in 1..w.n
  BY DEF Shadows
<1>2. /\ v.n = w.n + 1 /\ v.fr[w.n].kind = "POPMASK" /\ v.fr[v.n].kind = "FINSEQ"
      /\ v.fr[v.n].ref = ref /\ \A i \in 0..(w.n - 1) : v.fr[i] = w.fr[i]
  BY DEF Leaves, SameBelow
<1>3. /\ Len(g.fins) \in Nat /\ \A i \in 1..Len(g.fins) : h.fins[i] = g.fins[i]
      /\ h.fins[ref] = fs
  BY NewSequenceFrames
<1>4. /\ last \in Nat /\ g.why \in Reasons /\ Ordered(g.why) /\ UpTo(g.why, last)
      /\ \A i \in 1..w.n : Kind(w, i) = "FINSEQ" =>
           /\ Ordered(Waiting(w, g, i)) /\ UpTo(Waiting(w, g, i), last)
           /\ Newer(Waiting(w, g, i), g.why)
      /\ \A i, j \in 1..w.n : i < j /\ Kind(w, i) = "FINSEQ" /\ Kind(w, j) = "FINSEQ" =>
           Newer(Waiting(w, g, i), Waiting(w, g, j))
  BY Zenon DEF Causes
<1>5. /\ fs.why \in Reasons /\ Ordered(fs.why) /\ UpTo(fs.why, last)
      /\ \A other : Newer(other, g.why) => Newer(other, fs.why)
  BY <1>4, QuietOrder DEF Quietly
<1>6. /\ h.why \in Reasons /\ Ordered(h.why) /\ UpTo(h.why, last)
      /\ \A other : Newer(other, h.why)
  <2>1. h.why \in Reasons
    BY DEF Quietly
  <2> QED
    BY <2>1, QuietOrder, Zenon
<1>8. ASSUME NEW i \in 1..v.n, Kind(v, i) = "FINSEQ", i # v.n
      PROVE  /\ i \in 1..w.n /\ Kind(w, i) = "FINSEQ" /\ Waiting(v, h, i) = Waiting(w, g, i)
             /\ i < v.n
  <2>1. i # w.n
    BY <1>2, <1>8 DEF Kind
  <2>2. i \in 0..(w.n - 1) /\ i \in 1..w.n /\ i < v.n
    BY <1>1, <1>2, <1>8, <2>1
  <2>3. Kind(w, i) = "FINSEQ" /\ Ref(v, i) = Ref(w, i)
    BY <1>2, <1>8, <2>2 DEF Kind, Ref
  <2>4. Ref(w, i) \in 1..Len(g.fins)
    BY <2>2, <2>3, WaitingTypes
  <2> QED
    BY <1>3, <2>2, <2>3, <2>4 DEF Waiting
<1>9. ASSUME NEW i \in 1..v.n, Kind(v, i) = "FINSEQ"
      PROVE  /\ Ordered(Waiting(v, h, i)) /\ UpTo(Waiting(v, h, i), last)
             /\ Newer(Waiting(v, h, i), h.why)
  <2>1. CASE i = v.n
    BY <1>2, <1>3, <1>5, <1>6, <2>1 DEF Waiting, Ref
  <2>2. CASE i # v.n
    BY <1>4, <1>6, <1>8, <1>9, <2>2, Zenon
  <2> QED
    BY <2>1, <2>2
<1>10. ASSUME NEW i \in 1..v.n, NEW j \in 1..v.n, i < j, Kind(v, i) = "FINSEQ",
              Kind(v, j) = "FINSEQ"
       PROVE  Newer(Waiting(v, h, i), Waiting(v, h, j))
  <2>1. i # v.n
    BY <1>1, <1>2, <1>10
  <2>2. i \in 1..w.n /\ Kind(w, i) = "FINSEQ" /\ Waiting(v, h, i) = Waiting(w, g, i)
    BY <1>8, <1>10, <2>1
  <2>3. CASE j = v.n
    <3>1. Waiting(v, h, j) = fs.why
      BY <1>2, <1>3, <2>3 DEF Waiting, Ref
    <3> QED
      BY <1>4, <1>5, <2>2, <3>1, Zenon
  <2>4. CASE j # v.n
    BY <1>4, <1>8, <1>10, <2>2, <2>4, Zenon
  <2> QED
    BY <2>3, <2>4
<1> QED
  BY <1>4, <1>6, <1>9, <1>10, Zenon DEF Causes

(* Different frames have different sequences.                              *)
LEMMA SequencesDiffer ==
  ASSUME NEW T, NEW S, NEW w \in Shadows(S), NEW g, Scopes(T, w, g), Owners(w, g), w.n > 0,
         Kind(w, w.n) = "FINSEQ", NEW i \in 1..w.n, Kind(w, i) = "FINSEQ",
         Ref(w, i) = Ref(w, w.n)
  PROVE  i = w.n
<1>1. Owns(w, i) /\ Owns(w, w.n) /\ Own(w, g, i) = Own(w, g, w.n)
  BY DEF Owns, Own
<1> QED
  BY <1>1, OwnsAlone

(* The sequence on top changes: its reason waits, composed with that of an *)
(* exit action that has failed.                                            *)
LEMMA CausesChange ==
  ASSUME NEW T, NEW S, NEW w \in Shadows(S), NEW v, NEW g, NEW h, NEW last, NEW ref,
         NEW fs \in Sequences, Scopes(T, w, g), Owners(w, g), Causes(w, g, last), w.n > 0,
         Kind(w, w.n) = "FINSEQ", ref = Ref(w, w.n), ChangedSequence(g, h, ref, fs),
         SameStack(w, v), Quietly(h.why),
         fs.why = Waiting(w, g, w.n) \/ fs.why = Compose(Waiting(w, g, w.n), g.why)
  PROVE  Causes(v, h, last)
<1>1. w.n \in Nat /\ w.n \in 1..w.n /\ v.n = w.n /\ v.fr = w.fr
  BY DEF Shadows, SameStack
<1>2. ref \in 1..Len(g.fins) /\ Waiting(w, g, w.n) \in Reasons
  BY <1>1, WaitingTypes
<1>3. h.fins[ref] = fs /\ \A i \in 1..Len(g.fins) : i # ref => h.fins[i] = g.fins[i]
  BY <1>2, ChangedSequenceFrames
<1>4. /\ last \in Nat /\ g.why \in Reasons /\ Ordered(g.why) /\ UpTo(g.why, last)
      /\ \A i \in 1..w.n : Kind(w, i) = "FINSEQ" =>
           /\ Ordered(Waiting(w, g, i)) /\ UpTo(Waiting(w, g, i), last)
           /\ Newer(Waiting(w, g, i), g.why)
      /\ \A i, j \in 1..w.n : i < j /\ Kind(w, i) = "FINSEQ" /\ Kind(w, j) = "FINSEQ" =>
           Newer(Waiting(w, g, i), Waiting(w, g, j))
  BY Zenon DEF Causes
<1>5. /\ Ordered(fs.why) /\ UpTo(fs.why, last)
      /\ \A other : Newer(other, Waiting(w, g, w.n)) /\ Newer(other, g.why) =>
           Newer(other, fs.why)
  <2>1. /\ Ordered(Waiting(w, g, w.n)) /\ UpTo(Waiting(w, g, w.n), last)
        /\ Newer(Waiting(w, g, w.n), g.why)
    BY <1>1, <1>4, Zenon
  <2>2. CASE fs.why = Waiting(w, g, w.n)
    BY <2>1, <2>2, Zenon
  <2>3. CASE fs.why = Compose(Waiting(w, g, w.n), g.why)
    <3>1. /\ fs.why \in Reasons /\ Ordered(fs.why) /\ UpTo(fs.why, last)
          /\ \A other : Newer(other, Waiting(w, g, w.n)) /\ Newer(other, g.why) =>
               Newer(other, fs.why)
      BY <1>2, <1>4, <2>1, <2>3, ComposeOrder, Zenon
    <3> QED
      BY <3>1
  <2> QED
    BY <2>2, <2>3, Zenon
<1>6. /\ h.why \in Reasons /\ Ordered(h.why) /\ UpTo(h.why, last)
      /\ \A other : Newer(other, h.why)
  <2>1. h.why \in Reasons
    BY DEF Quietly
  <2> QED
    BY <2>1, QuietOrder, Zenon
<1>7. Kind(v, w.n) = "FINSEQ" /\ Waiting(v, h, w.n) = fs.why
  BY <1>1, <1>3 DEF Kind, Waiting, Ref
<1>8. ASSUME NEW i \in 1..v.n, Kind(v, i) = "FINSEQ", i # w.n
      PROVE  /\ i \in 1..w.n /\ Kind(w, i) = "FINSEQ" /\ Waiting(v, h, i) = Waiting(w, g, i)
             /\ i < w.n
  <2>1. i \in 1..w.n /\ Kind(w, i) = "FINSEQ" /\ Ref(v, i) = Ref(w, i) /\ i < w.n
    BY <1>1, <1>8 DEF Kind, Ref
  <2>2. Ref(w, i) \in 1..Len(g.fins)
    BY <2>1, WaitingTypes
  <2>3. Ref(w, i) # ref
    BY <1>8, <2>1, SequencesDiffer
  <2> QED
    BY <1>3, <2>1, <2>2, <2>3 DEF Waiting
<1>9. ASSUME NEW i \in 1..v.n, Kind(v, i) = "FINSEQ"
      PROVE  /\ Ordered(Waiting(v, h, i)) /\ UpTo(Waiting(v, h, i), last)
             /\ Newer(Waiting(v, h, i), h.why)
  <2>1. CASE i = w.n
    BY <1>5, <1>6, <1>7, <2>1, Zenon
  <2>2. CASE i # w.n
    BY <1>4, <1>6, <1>8, <1>9, <2>2, Zenon
  <2> QED
    BY <2>1, <2>2
<1>10. ASSUME NEW i \in 1..v.n, NEW j \in 1..v.n, i < j, Kind(v, i) = "FINSEQ",
              Kind(v, j) = "FINSEQ"
       PROVE  Newer(Waiting(v, h, i), Waiting(v, h, j))
  <2>1. i # w.n
    BY <1>1, <1>10
  <2>2. /\ i \in 1..w.n /\ Kind(w, i) = "FINSEQ" /\ Waiting(v, h, i) = Waiting(w, g, i)
        /\ i < w.n
    BY <1>8, <1>10, <2>1
  <2>3. CASE j = w.n
    <3>1. Newer(Waiting(w, g, i), Waiting(w, g, w.n)) /\ Newer(Waiting(w, g, i), g.why)
      BY <1>1, <1>4, <2>2, Zenon
    <3> QED
      BY <1>5, <1>7, <2>2, <2>3, <3>1, Zenon
  <2>4. CASE j # w.n
    BY <1>4, <1>8, <1>10, <2>2, <2>4, Zenon
  <2> QED
    BY <2>3, <2>4
<1> QED
  BY <1>4, <1>6, <1>9, <1>10, Zenon DEF Causes

----------------------------------------------------------------------------
(* The operations on a fiber keep its shape.                               *)
LEMMA NewCell ==
  ASSUME NEW S, NEW kind \in FrameKinds, NEW ref \in Nat, NEW action \in Closures(S, Nat),
         NEW state \in [exits : Nat, mask : Nat], NEW next \in Nat,
         NEW cell, cell = Cell(kind, ref, action, state, next)
  PROVE  /\ cell \in Cells(S) /\ cell.kind = kind /\ cell.ref = ref /\ cell.action = action
         /\ cell.state = state /\ cell.next = next
BY DEF Cell, Cells

(* What the shape says of the control part, and its parts.                 *)
LEMMA ShapeControl ==
  ASSUME NEW T, NEW S, NEW w \in Shadows(S), NEW g, NEW l, NEW r, NEW last,
         Shape(T, S, w, g, l, r, last)
  PROVE  /\ Whole(g) /\ g.mode \in {"code", "value", "unwind", "done"} /\ g.mode # "failed"
         /\ g.drain = None /\ (g.mode = "done" => w.n = 0)
         /\ Frame(T, S, w, g, l, r) /\ Causes(w, g, last)
         /\ (g.mode = "code" => g.cur \in Closures(Allowed(T, S, g.exits), w.user))
         /\ Scopes(T, w, g) /\ Owners(w, g) /\ w.n \in Nat /\ last \in Nat
<1>1. Control(w, g) /\ Frame(T, S, w, g, l, r) /\ Causes(w, g, last) /\ Running(T, S, w, g)
  BY DEF Shape
<1>2. w.n \in Nat
  BY DEF Shadows
<1>3. Whole(g)
  BY <1>1, Zenon DEF Control, Whole
<1>4. /\ g.mode \in {"code", "value", "unwind", "done"} /\ g.drain = None
      /\ (g.mode = "done" => w.n = 0)
  BY <1>1, Zenon DEF Control
<1>5. g.mode # "failed"
  BY <1>4
<1>6. last \in Nat
  BY <1>1, Zenon DEF Causes
<1>7. Scopes(T, w, g) /\ Owners(w, g)
  BY <1>1, Zenon DEF Frame
<1> QED
  BY <1>1, <1>2, <1>3, <1>4, <1>5, <1>6, <1>7, Zenon DEF Running

(* What makes up the shape.                                                *)
LEMMA ShapeFormed ==
  ASSUME NEW T, NEW S, NEW v, NEW h, NEW l, NEW r, NEW last,
         Frame(T, S, v, h, l, r), Causes(v, h, last), Whole(h), h.drain = None,
         \/ h.mode = "code" /\ h.cur \in Closures(Allowed(T, S, h.exits), v.user)
         \/ h.mode \in {"value", "unwind"}
         \/ h.mode = "done" /\ v.n = 0
  PROVE  Shape(T, S, v, h, l, r, last)
<1>1. h.mode \in {"code", "value", "unwind", "done"}
  OBVIOUS
<1>2. (h.mode = "done" => v.n = 0)
      /\ (h.mode = "code" => h.cur \in Closures(Allowed(T, S, h.exits), v.user))
  OBVIOUS
<1> QED
  BY <1>1, <1>2, Zenon DEF Shape, Control, Running, Whole

(* The shape is kept when a closure that is allowed is run.                *)
LEMMA ShapeRun ==
  ASSUME NEW T, NEW S, NEW w \in Shadows(S), NEW g, NEW h, NEW l, NEW r, NEW last,
         Shape(T, S, w, g, l, r, last),
         NEW action \in Closures(Allowed(T, S, g.exits), w.user), h = Run(g, action)
  PROVE  Shape(T, S, w, h, l, r, last)
<1>1. /\ Whole(g) /\ g.drain = None /\ Frame(T, S, w, g, l, r) /\ Causes(w, g, last)
      /\ Owners(w, g) /\ w.n \in Nat
  BY ShapeControl, Zenon
<1>2. /\ Whole(h) /\ SameParts(g, h) /\ h.drain = g.drain
      /\ h.mode = "code" /\ h.cur = action /\ h.why = Normal
  BY <1>1, RunFields
<1>3. Frame(T, S, w, h, l, r)
  BY <1>1, <1>2, FrameStays, Zenon
<1>4. Causes(w, h, last)
  <2>1. NextReason(g, h, last, last)
    BY <1>2, QuietReasons, Zenon DEF NextReason
  <2>2. h.fins = g.fins /\ w.n <= w.n
    BY <1>1, <1>2 DEF SameParts, SameScopes
  <2> QED
    BY <1>1, <2>1, <2>2, CausesBelow, Zenon
<1>5. h.cur \in Closures(Allowed(T, S, h.exits), w.user)
  BY <1>2, Zenon DEF SameParts, SameScopes
<1> QED
  BY <1>1, <1>2, <1>3, <1>4, <1>5, ShapeFormed, Zenon

(* The shape is kept when a value is passed.                               *)
LEMMA ShapeDeliver ==
  ASSUME NEW T, NEW S, NEW w \in Shadows(S), NEW g, NEW h, NEW l, NEW r, NEW last,
         Shape(T, S, w, g, l, r, last), h = Deliver(g)
  PROVE  Shape(T, S, w, h, l, r, last)
<1>1. /\ Whole(g) /\ g.drain = None /\ Frame(T, S, w, g, l, r) /\ Causes(w, g, last)
      /\ Owners(w, g) /\ w.n \in Nat /\ g.mode # "failed"
  BY ShapeControl, Zenon
<1>2. /\ Whole(h) /\ SameParts(g, h) /\ h.drain = g.drain
      /\ h.mode = "value" /\ h.why = Normal
  BY <1>1, DeliverFields
<1>3. Frame(T, S, w, h, l, r)
  BY <1>1, <1>2, FrameStays, Zenon
<1>4. Causes(w, h, last)
  <2>1. NextReason(g, h, last, last)
    BY <1>2, QuietReasons, Zenon DEF NextReason
  <2>2. h.fins = g.fins /\ w.n <= w.n
    BY <1>1, <1>2 DEF SameParts, SameScopes
  <2> QED
    BY <1>1, <2>1, <2>2, CausesBelow, Zenon
<1>5. h.mode \in {"value", "unwind"} /\ h.drain = None
  BY <1>1, <1>2
<1> QED
  BY <1>2, <1>3, <1>4, <1>5, ShapeFormed, Zenon

(* The shape is kept when a reason is passed that is the old one or new.   *)
LEMMA ShapeUnwind ==
  ASSUME NEW T, NEW S, NEW w \in Shadows(S), NEW g, NEW h, NEW l, NEW r, NEW last, NEW next,
         Shape(T, S, w, g, l, r, last), NEW why, h = Unwind(g, why),
         NextReason(g, h, last, next)
  PROVE  Shape(T, S, w, h, l, r, next)
<1>1. /\ Whole(g) /\ g.drain = None /\ Frame(T, S, w, g, l, r) /\ Causes(w, g, last)
      /\ Owners(w, g) /\ w.n \in Nat
  BY ShapeControl, Zenon
<1>2. /\ Whole(h) /\ SameParts(g, h) /\ h.drain = g.drain /\ h.mode = "unwind"
  BY <1>1, UnwindFields
<1>3. Frame(T, S, w, h, l, r)
  BY <1>1, <1>2, FrameStays, Zenon
<1>4. Causes(w, h, next)
  <2>2. h.fins = g.fins /\ w.n <= w.n
    BY <1>1, <1>2 DEF SameParts, SameScopes
  <2> QED
    BY <1>1, <2>2, CausesBelow, Zenon
<1>5. h.mode \in {"value", "unwind"} /\ h.drain = None
  BY <1>1, <1>2
<1> QED
  BY <1>2, <1>3, <1>4, <1>5, ShapeFormed, Zenon

(* Types of what is pushed.                                                *)
LEMMA IdleTyped ==
  ASSUME NEW T, NEW S, Plain(T, S)
  PROVE  Idle \in Closures(S, Nat) /\ NoState \in [exits : Nat, mask : Nat]
<1>1. Pure \in S
  BY DEF Plain
<1>2. NoEnv \in [res : {None}, mask : Nat \cup {None}]
  BY DEF NoEnv, None
<1>3. Idle \in Closures(S, Nat)
  BY <1>1, <1>2 DEF Idle, Closure, Closures
<1> QED
  BY <1>3 DEF NoState, None

(* What is allowed in a scope is closed under what it makes.               *)
LEMMA AllowedTerms ==
  ASSUME NEW T, NEW S, Plain(T, S), NEW exits
  PROVE  /\ Allowed(T, S, exits) \subseteq S /\ T \subseteq Allowed(T, S, exits)
         /\ \A t \in Allowed(T, S, exits) :
              ClosedIn(t, Allowed(T, S, exits), T, S) /\ (exits = None => t.op # "defer")
BY DEF Plain, Allowed

(* What is allowed in a scope has the type of the closures in cells.       *)
LEMMA AllowedClosures ==
  ASSUME NEW T, NEW S, Plain(T, S), NEW w \in Shadows(S), NEW exits
  PROVE  Closures(Allowed(T, S, exits), w.user) \subseteq Closures(S, Nat)
<1>1. Allowed(T, S, exits) \subseteq S
  BY AllowedTerms
<1>2. w.user \subseteq Nat
  BY DEF Shadows
<1> QED
  BY <1>1, <1>2, MoreClosures

(* In the shape of a stack, the topmost frame.                             *)
LEMMA ShapeTop ==
  ASSUME NEW T, NEW S, NEW w \in Shadows(S), NEW g, NEW l, NEW r, NEW last,
         Shape(T, S, w, g, l, r, last)
  PROVE  /\ g.k \in Nat /\ (g.k # None <=> w.n > 0)
         /\ w.n > 0 => g.heap[g.k] = w.fr[w.n] /\ g.heap[g.k].kind \in FrameKinds
                        /\ g.heap[g.k].next < g.k /\ g.heap[g.k].next \in Nat
<1>1. Links(S, w, g, l)
  BY ShapeControl DEF Frame
<1> QED
  BY <1>1, LinksTop

(* The code of the topmost frame is allowed in the current scope.          *)
LEMMA TopAction ==
  ASSUME NEW T, NEW S, NEW w \in Shadows(S), NEW g, NEW l, NEW r, NEW last,
         Shape(T, S, w, g, l, r, last), w.n > 0, Kind(w, w.n) \in CodeKinds
  PROVE  w.fr[w.n].action \in Closures(Allowed(T, S, g.exits), w.user)
<1>1. w.n \in 1..w.n
  BY DEF Shadows
<1>f. Frame(T, S, w, g, l, r)
  BY DEF Shape
<1>2. Actions(T, S, w, g) /\ g.exits = w.xs[w.n]
  BY <1>f DEF Frame, Scopes
<1> QED
  BY <1>1, <1>2 DEF Actions, CodeKinds

(* A fiber of the shape, the frames user being those code may name.        *)
HasShape(T, S, h, l, r, last, user) ==
  \E v \in Shadows(S) : Shape(T, S, v, h, l, r, last) /\ v.user = user

(* The shape is kept when a neutral frame is pushed.                       *)
LEMMA ShapePush ==
  ASSUME NEW T, NEW S, Plain(T, S), NEW w \in Shadows(S), NEW g, NEW h, NEW l, NEW r, NEW last,
         NEW kind \in NeutralKinds, NEW action, g.mode = "code",
         Shape(T, S, w, g, l, r, last), h = Push(g, kind, None, action, NoState),
         \/ action \in Closures(Allowed(T, S, g.exits), w.user)
         \/ kind = "RETSCOPE" /\ action = Idle
  PROVE  HasShape(T, S, h, l, r, last, w.user) /\ h.exits = g.exits
<1>1. /\ Whole(g) /\ g.drain = None /\ Frame(T, S, w, g, l, r) /\ Causes(w, g, last)
      /\ Owners(w, g) /\ g.cur \in Closures(Allowed(T, S, g.exits), w.user)
      /\ Shape(T, S, w, g, l, r, last)
  BY ShapeControl
<1>2. PICK cell : cell = Cell(kind, None, action, NoState, g.k)
  OBVIOUS
<1>3. /\ Whole(h) /\ SameControl(g, h) /\ SameMasks(g, h) /\ SameScopes(g, h)
      /\ Pushes(g, h, cell)
  BY <1>1, <1>2, PushFields
<1>4. action \in Closures(S, Nat) /\ NoState \in [exits : Nat, mask : Nat]
  BY AllowedClosures, IdleTyped
<1>5. kind \in FrameKinds /\ g.k \in Nat /\ None \in Nat
  BY <1>1, ShapeTop DEF FrameKinds, NeutralKinds, None
<1>6. cell \in Cells(S) /\ cell.kind = kind /\ cell.action = action
  BY <1>2, <1>4, <1>5, NewCell
<1>7. PICK v \in Shadows(S) :
        Frame(T, S, v, h, l, r) /\ Extends(w, v, h.k, cell) /\ v.user = w.user
  <2>1. cell.kind \in CodeKinds =>
          cell.action \in Closures(Allowed(T, S, g.exits), w.user)
    BY <1>6 DEF CodeKinds
  <2>2. cell.kind \in NeutralKinds
    BY <1>6
  <2>3. CanExtend(T, S, w, h, l, r, cell, w.user)
    BY <1>1, <1>3, <1>6, <2>1, <2>2, FramePush, Zenon
  <2> QED
    BY <2>3, Zenon DEF CanExtend
<1>8. Causes(v, h, last)
  <2>1. NextReason(g, h, last, last) /\ h.fins = g.fins /\ cell.kind # "FINSEQ"
    BY <1>3, <1>6 DEF NextReason, SameControl, SameScopes, NeutralKinds
  <2> QED
    BY <1>1, <1>7, <2>1, CausesPush, Zenon
<1>9. /\ h.mode = "code" /\ h.cur = g.cur /\ h.drain = None /\ h.exits = g.exits
  BY <1>1, <1>3 DEF SameControl, SameScopes
<1>10. h.cur \in Closures(Allowed(T, S, h.exits), v.user)
  BY <1>1, <1>7, <1>9
<1>11. Shape(T, S, v, h, l, r, last)
  BY <1>3, <1>7, <1>8, <1>9, <1>10, ShapeFormed
<1> QED
  BY <1>7, <1>9, <1>11, Zenon DEF HasShape

(* The shape is kept when a masked region is entered.                      *)
LEMMA ShapeMask ==
  ASSUME NEW T, NEW S, Plain(T, S), NEW w \in Shadows(S), NEW g, NEW d, NEW h, NEW l, NEW r,
         NEW last, NEW state \in 0..2, g.mode = "code",
         Shape(T, S, w, g, l, r, last), d = PushMask(g, state),
         h = Push(d, "POPMASK", d.mask, Idle, NoState)
  PROVE  /\ HasShape(T, S, h, l, r, last, w.user \cup {d.mask})
         /\ h.exits = g.exits /\ d.mask \in Nat
<1>1. /\ Whole(g) /\ g.drain = None /\ Frame(T, S, w, g, l, r) /\ Causes(w, g, last)
      /\ Owners(w, g) /\ g.cur \in Closures(Allowed(T, S, g.exits), w.user)
      /\ Shape(T, S, w, g, l, r, last)
  BY ShapeControl
<1>2. /\ Whole(d) /\ SameControl(g, d) /\ SameScopes(g, d) /\ NewMask(g, d, state)
      /\ d.k = g.k /\ d.heap = g.heap
  BY <1>1, PushMaskFields
<1>3. PICK cell : cell = Cell("POPMASK", d.mask, Idle, NoState, d.k)
  OBVIOUS
<1>4. /\ Whole(h) /\ SameControl(d, h) /\ SameMasks(d, h) /\ SameScopes(d, h)
      /\ Pushes(d, h, cell)
  BY <1>2, <1>3, PushFields
<1>5. /\ Pushes(g, h, cell) /\ NewMask(g, h, state) /\ SameScopes(g, h) /\ SameControl(g, h)
      /\ h.mask = d.mask
  BY <1>2, <1>4 DEF Pushes, NewMask, SameScopes, SameControl, SameMasks
<1>6. Len(g.masks) \in Nat /\ w.user \subseteq Nat
  BY <1>1, FrameTypes
<1>7. d.mask \in Nat /\ d.k \in Nat
  <2>1. d.mask = Len(g.masks) + 1
    BY <1>2 DEF NewMask
  <2>2. g.k \in Nat
    BY <1>1, ShapeTop
  <2> QED
    BY <1>2, <1>6, <2>1, <2>2
<1>8. cell \in Cells(S) /\ cell.kind = "POPMASK" /\ cell.ref = d.mask
  <2>1. PICK kind \in FrameKinds : kind = "POPMASK"
    BY DEF FrameKinds
  <2>2. Idle \in Closures(S, Nat) /\ NoState \in [exits : Nat, mask : Nat]
    BY IdleTyped
  <2> QED
    BY <1>3, <1>7, <2>1, <2>2, NewCell
<1>9. PICK user : user = w.user \cup {d.mask}
  OBVIOUS
<1>10. PICK v \in Shadows(S) :
         Frame(T, S, v, h, l, r) /\ Extends(w, v, h.k, cell) /\ v.user = user
  <2>1. user \subseteq Nat /\ w.user \subseteq user /\ user \subseteq w.user \cup {h.mask}
    BY <1>5, <1>6, <1>7, <1>9
  <2>2. cell.ref = h.mask
    BY <1>5, <1>8
  <2>3. CanExtend(T, S, w, h, l, r, cell, user)
    BY <1>1, <1>5, <1>8, <2>1, <2>2, FrameMask, Zenon
  <2> QED
    BY <2>3, Zenon DEF CanExtend
<1>11. Causes(v, h, last)
  <2>1. NextReason(g, h, last, last) /\ h.fins = g.fins /\ cell.kind # "FINSEQ"
    BY <1>5, <1>8 DEF NextReason, SameControl, SameScopes
  <2> QED
    BY <1>1, <1>10, <2>1, CausesPush, Zenon
<1>12. /\ h.mode = "code" /\ h.cur = g.cur /\ h.drain = None /\ h.exits = g.exits
  BY <1>1, <1>5 DEF SameControl, SameScopes
<1>13. h.cur \in Closures(Allowed(T, S, h.exits), v.user)
  <2>1. w.user \subseteq v.user
    BY <1>9, <1>10
  <2>2. Closures(Allowed(T, S, h.exits), w.user) \subseteq Closures(Allowed(T, S, h.exits), v.user)
    BY <2>1, MoreClosures
  <2> QED
    BY <1>1, <1>12, <2>2, Zenon
<1>14. Shape(T, S, v, h, l, r, last)
  BY <1>4, <1>10, <1>11, <1>12, <1>13, ShapeFormed
<1> QED
  BY <1>7, <1>9, <1>10, <1>12, <1>14, Zenon DEF HasShape

(* The shape is kept when a region is restored.                            *)
LEMMA ShapeSuspend ==
  ASSUME NEW T, NEW S, Plain(T, S), NEW w \in Shadows(S), NEW g, NEW d, NEW h, NEW l, NEW r,
         NEW last, NEW m, g.mode = "code", Shape(T, S, w, g, l, r, last),
         d = [g EXCEPT !.masks[m].suspended = TRUE],
         h = Push(d, "SETMASK", m, Idle, NoState),
         m \in w.user, m \in 1..g.mask, g.masks[m].active, ~g.masks[m].suspended
  PROVE  HasShape(T, S, h, l, r, last, w.user) /\ h.exits = g.exits
<1>1. /\ Whole(g) /\ g.drain = None /\ Frame(T, S, w, g, l, r) /\ Causes(w, g, last)
      /\ Owners(w, g) /\ g.cur \in Closures(Allowed(T, S, g.exits), w.user)
      /\ Shape(T, S, w, g, l, r, last)
  BY ShapeControl
<1>2. /\ Whole(d) /\ SameControl(g, d) /\ SameScopes(g, d) /\ SetSuspended(g, d, m, TRUE)
      /\ d.k = g.k /\ d.heap = g.heap
  BY <1>1, SuspendFields
<1>3. PICK cell : cell = Cell("SETMASK", m, Idle, NoState, d.k)
  OBVIOUS
<1>4. /\ Whole(h) /\ SameControl(d, h) /\ SameMasks(d, h) /\ SameScopes(d, h)
      /\ Pushes(d, h, cell)
  BY <1>2, <1>3, PushFields
<1>5. /\ Pushes(g, h, cell) /\ SetSuspended(g, h, m, TRUE) /\ SameScopes(g, h)
      /\ SameControl(g, h)
  BY <1>2, <1>4 DEF Pushes, SetSuspended, SameScopes, SameControl, SameMasks
<1>6. w.user \subseteq Nat
  BY <1>1, FrameTypes
<1>7. m \in Nat /\ d.k \in Nat
  BY <1>1, <1>2, <1>6, ShapeTop
<1>8. cell \in Cells(S) /\ cell.kind = "SETMASK" /\ cell.ref = m
  <2>1. PICK kind \in FrameKinds : kind = "SETMASK"
    BY DEF FrameKinds
  <2>2. Idle \in Closures(S, Nat) /\ NoState \in [exits : Nat, mask : Nat]
    BY IdleTyped
  <2> QED
    BY <1>3, <1>7, <2>1, <2>2, NewCell
<1>10. PICK v \in Shadows(S) :
         Frame(T, S, v, h, l, r) /\ Extends(w, v, h.k, cell) /\ v.user = w.user
  <2>1. CanExtend(T, S, w, h, l, r, cell, w.user)
    BY <1>1, <1>5, <1>8, FrameSuspend, Zenon
  <2> QED
    BY <2>1, Zenon DEF CanExtend
<1>11. Causes(v, h, last)
  <2>1. NextReason(g, h, last, last) /\ h.fins = g.fins /\ cell.kind # "FINSEQ"
    BY <1>5, <1>8 DEF NextReason, SameControl, SameScopes
  <2> QED
    BY <1>1, <1>10, <2>1, CausesPush, Zenon
<1>12. /\ h.mode = "code" /\ h.cur = g.cur /\ h.drain = None /\ h.exits = g.exits
  BY <1>1, <1>5 DEF SameControl, SameScopes
<1>13. h.cur \in Closures(Allowed(T, S, h.exits), v.user)
  BY <1>1, <1>10, <1>12
<1>14. Shape(T, S, v, h, l, r, last)
  BY <1>4, <1>10, <1>11, <1>12, <1>13, ShapeFormed
<1> QED
  BY <1>10, <1>12, <1>14, Zenon DEF HasShape

(* The shape is kept when a scope is entered.                              *)
LEMMA ShapeEnter ==
  ASSUME NEW T, NEW S, Plain(T, S), NEW w \in Shadows(S), NEW g, NEW d, NEW h, NEW l, NEW r,
         NEW last, g.mode = "code", Shape(T, S, w, g, l, r, last),
         d = Entered(g),
         h = Push(d, "DOSCOPE", d.exits, Idle, Captured(g))
  PROVE  HasShape(T, S, h, l, r, last, w.user) /\ h.exits # None
<1>1. /\ Whole(g) /\ g.drain = None /\ Frame(T, S, w, g, l, r) /\ Causes(w, g, last)
      /\ Owners(w, g) /\ g.cur \in Closures(Allowed(T, S, g.exits), w.user)
      /\ Shape(T, S, w, g, l, r, last)
  BY ShapeControl
<1>2. /\ Whole(d) /\ SameControl(g, d) /\ SameMasks(g, d) /\ NewScope(g, d)
      /\ d.k = g.k /\ d.heap = g.heap
  BY <1>1, EnterFields
<1>3. PICK cell : cell = Cell("DOSCOPE", d.exits, Idle, Captured(g), d.k)
  OBVIOUS
<1>4. /\ Whole(h) /\ SameControl(d, h) /\ SameMasks(d, h) /\ SameScopes(d, h)
      /\ Pushes(d, h, cell)
  BY <1>2, <1>3, PushFields
<1>5. /\ Pushes(g, h, cell) /\ SameMasks(g, h) /\ NewScope(g, h) /\ SameControl(g, h)
      /\ h.exits = d.exits
  BY <1>2, <1>4 DEF Pushes, NewScope, SameScopes, SameControl, SameMasks
<1>6. Len(g.stacks) \in Nat /\ g.exits \in Nat /\ g.mask \in Nat
  BY <1>1, FrameTypes
<1>7. d.exits = Len(g.stacks) + 1 /\ d.exits \in Nat /\ d.k \in Nat /\ d.exits # None
  <2>1. d.exits = Len(g.stacks) + 1
    BY <1>2 DEF NewScope
  <2>2. g.k \in Nat
    BY <1>1, ShapeTop
  <2> QED
    BY <1>2, <1>6, <2>1, <2>2 DEF None
<1>8. /\ cell \in Cells(S) /\ cell.kind = "DOSCOPE" /\ cell.ref = h.exits
      /\ cell.state.exits = g.exits
  <2>1. PICK kind \in FrameKinds : kind = "DOSCOPE"
    BY DEF FrameKinds
  <2>2. Idle \in Closures(S, Nat)
    BY IdleTyped
  <2>3. Captured(g) \in [exits : Nat, mask : Nat] /\ Captured(g).exits = g.exits
    BY <1>6 DEF Captured
  <2>4. PICK state \in [exits : Nat, mask : Nat] : state = Captured(g)
    BY <2>3
  <2>5. cell = Cell(kind, d.exits, Idle, state, d.k)
    BY <1>3, <2>1, <2>4, Zenon
  <2>6. PICK ref \in Nat, next \in Nat : ref = d.exits /\ next = d.k
    BY <1>7
  <2>7. PICK action \in Closures(S, Nat) : action = Idle
    BY <2>2
  <2>8. cell = Cell(kind, ref, action, state, next)
    BY <2>5, <2>6, <2>7, Zenon
  <2>9. /\ cell \in Cells(S) /\ cell.kind = kind /\ cell.ref = ref /\ cell.action = action
        /\ cell.state = state /\ cell.next = next
    BY <2>8, NewCell
  <2> QED
    BY <1>5, <2>1, <2>3, <2>4, <2>6, <2>9, Zenon
<1>10. PICK v \in Shadows(S) :
         Frame(T, S, v, h, l, r) /\ Extends(w, v, h.k, cell) /\ v.user = w.user
  <2>1. CanExtend(T, S, w, h, l, r, cell, w.user)
    BY <1>1, <1>5, <1>8, FrameEnter, Zenon
  <2> QED
    BY <2>1, Zenon DEF CanExtend
<1>11. Causes(v, h, last)
  <2>1. NextReason(g, h, last, last) /\ h.fins = g.fins /\ cell.kind # "FINSEQ"
    BY <1>5, <1>8 DEF NextReason, SameControl, NewScope
  <2> QED
    BY <1>1, <1>10, <2>1, CausesPush, Zenon
<1>12. /\ h.mode = "code" /\ h.cur = g.cur /\ h.drain = None /\ h.exits # None
  BY <1>1, <1>5, <1>7 DEF SameControl
<1>13. h.cur \in Closures(Allowed(T, S, h.exits), v.user)
  <2>1. Allowed(T, S, g.exits) \subseteq Allowed(T, S, h.exits)
    BY <1>12 DEF Allowed, Plain
  <2>2. Closures(Allowed(T, S, g.exits), w.user) \subseteq Closures(Allowed(T, S, h.exits), w.user)
    BY <2>1, MoreClosures
  <2> QED
    BY <1>1, <1>10, <1>12, <2>2, Zenon
<1>14. Shape(T, S, v, h, l, r, last)
  BY <1>4, <1>10, <1>11, <1>12, <1>13, ShapeFormed
<1> QED
  BY <1>10, <1>12, <1>14, Zenon DEF HasShape

(* A frame is popped.                                                      *)
LEMMA CutShape ==
  ASSUME NEW T, NEW S, NEW w \in Shadows(S), NEW g, NEW h, NEW l, NEW r, NEW last, NEW p,
         Shape(T, S, w, g, l, r, last), w.n > 0, CanCut(T, S, w, h, p, r), Whole(h),
         SameControl(g, h), h.fins = g.fins, g.mode \in {"value", "unwind"}
  PROVE  HasShape(T, S, h, p, r, last, w.user)
<1>1. g.drain = None /\ Causes(w, g, last) /\ Owners(w, g) /\ w.n \in Nat
  BY ShapeControl
<1>2. PICK v \in Shadows(S) : Frame(T, S, v, h, p, r) /\ Cuts(w, v)
  BY Zenon DEF CanCut
<1>3. v.n = w.n - 1 /\ v.n \in Nat /\ v.n <= w.n /\ v.fr = w.fr /\ v.user = w.user
  BY <1>1, <1>2 DEF Cuts, Shadows
<1>4. NextReason(g, h, last, last)
  BY DEF NextReason, SameControl
<1>5. Causes(v, h, last)
  BY <1>1, <1>3, <1>4, CausesBelow, Zenon
<1>6. h.drain = None /\ h.mode \in {"value", "unwind"}
  BY <1>1, Zenon DEF SameControl
<1>7. Shape(T, S, v, h, p, r, last)
  BY <1>2, <1>5, <1>6, ShapeFormed
<1> QED
  BY <1>3, <1>7, Zenon DEF HasShape

(* The shape is kept when a neutral frame is popped.                       *)
LEMMA ShapePop ==
  ASSUME NEW T, NEW S, NEW w \in Shadows(S), NEW g, NEW h, NEW l, NEW r, NEW last, NEW p,
         Shape(T, S, w, g, l, r, last), w.n > 0, Kind(w, w.n) \in NeutralKinds,
         h = Pop(g), g.mode \in {"value", "unwind"}, l \cup {g.k} \subseteq p
  PROVE  HasShape(T, S, h, p, r, last, w.user) /\ h.exits = g.exits
<1>1. Whole(g) /\ Frame(T, S, w, g, l, r)
  BY ShapeControl
<1>2. /\ Whole(h) /\ SameControl(g, h) /\ SameMasks(g, h) /\ SameScopes(g, h)
      /\ PopsTop(g, h)
  BY <1>1, PopFields
<1>3. CanCut(T, S, w, h, p, r)
  BY <1>1, <1>2, FramePop, Zenon
<1>4. h.fins = g.fins /\ h.exits = g.exits
  BY <1>2 DEF SameScopes
<1>5. HasShape(T, S, h, p, r, last, w.user)
  BY <1>2, <1>3, <1>4, CutShape
<1> QED
  BY <1>4, <1>5

(* The shape is kept when a masked region is left.                         *)
LEMMA ShapeUnmask ==
  ASSUME NEW T, NEW S, NEW w \in Shadows(S), NEW g, NEW d, NEW h, NEW l, NEW r, NEW last, NEW p,
         Shape(T, S, w, g, l, r, last), w.n > 0, Kind(w, w.n) = "POPMASK",
         d = Pop(g), h = PopMask(d, Ref(w, w.n)), g.mode \in {"value", "unwind"},
         l \cup {g.k} \subseteq p
  PROVE  HasShape(T, S, h, p, r, last, w.user)
<1>1. Whole(g) /\ Frame(T, S, w, g, l, r)
  BY ShapeControl
<1>2. /\ Whole(d) /\ SameControl(g, d) /\ SameMasks(g, d) /\ SameScopes(g, d)
      /\ PopsTop(g, d)
  BY <1>1, PopFields
<1>3. Ref(w, w.n) = g.mask /\ g.masks[g.mask].active
  <2>1. w.n \in 1..w.n
    BY DEF Shadows
  <2> QED
    BY <1>1, <2>1, Zenon DEF Frame, MaskStack
<1>4. Ref(w, w.n) = d.mask /\ d.masks[Ref(w, w.n)].active
  BY <1>2, <1>3 DEF SameMasks
<1>5. /\ Whole(h) /\ SameControl(d, h) /\ SameScopes(d, h) /\ OldMask(d, h)
      /\ h.k = d.k /\ h.heap = d.heap
  BY <1>2, <1>4, PopMaskFields
<1>6. /\ SameControl(g, h) /\ SameScopes(g, h) /\ OldMask(g, h) /\ PopsTop(g, h)
      /\ h.fins = g.fins
  BY <1>2, <1>5 DEF SameControl, SameScopes, OldMask, PopsTop, SameMasks
<1>7. CanCut(T, S, w, h, p, r)
  BY <1>1, <1>6, FrameUnmask, Zenon
<1> QED
  BY <1>5, <1>6, <1>7, CutShape

(* The shape is kept when a restored region is left.                       *)
LEMMA ShapeReinstate ==
  ASSUME NEW T, NEW S, NEW w \in Shadows(S), NEW g, NEW d, NEW h, NEW l, NEW r, NEW last, NEW p,
         Shape(T, S, w, g, l, r, last), w.n > 0, Kind(w, w.n) = "SETMASK",
         d = Pop(g), h = Reinstate(d, Ref(w, w.n)), g.mode \in {"value", "unwind"},
         l \cup {g.k} \subseteq p
  PROVE  HasShape(T, S, h, p, r, last, w.user)
<1>1. Whole(g) /\ Frame(T, S, w, g, l, r)
  BY ShapeControl
<1>2. /\ Whole(d) /\ SameControl(g, d) /\ SameMasks(g, d) /\ SameScopes(g, d)
      /\ PopsTop(g, d)
  BY <1>1, PopFields
<1>3. g.masks[Ref(w, w.n)].active /\ g.masks[Ref(w, w.n)].suspended
  <2>1. w.n \in 1..w.n
    BY DEF Shadows
  <2> QED
    BY <1>1, <2>1, Zenon DEF Frame, Suspensions
<1>4. d.masks[Ref(w, w.n)].active /\ d.masks[Ref(w, w.n)].suspended
  BY <1>2, <1>3 DEF SameMasks
<1>5. /\ Whole(h) /\ SameControl(d, h) /\ SameScopes(d, h)
      /\ SetSuspended(d, h, Ref(w, w.n), FALSE)
      /\ h.k = d.k /\ h.heap = d.heap
  BY <1>2, <1>4, ReinstateFields, ZenonT(40)
<1>6. /\ SameControl(g, h) /\ SameScopes(g, h) /\ SetSuspended(g, h, Ref(w, w.n), FALSE)
      /\ PopsTop(g, h) /\ h.fins = g.fins
  BY <1>2, <1>5 DEF SameControl, SameScopes, SetSuspended, PopsTop, SameMasks
<1>7. CanCut(T, S, w, h, p, r)
  BY <1>1, <1>6, FrameReinstate, Zenon
<1> QED
  BY <1>5, <1>6, <1>7, CutShape

(* A do-scope without exit actions is left.                                *)
LEMMA ShapeDrop ==
  ASSUME NEW T, NEW S, NEW w \in Shadows(S), NEW g, NEW d, NEW h, NEW l, NEW r, NEW last, NEW p,
         Shape(T, S, w, g, l, r, last), w.n > 0, Kind(w, w.n) = "DOSCOPE",
         Len(g.stacks[Ref(w, w.n)].items) = 0,
         d = Pop(g), h = Outside(d, w.fr[w.n].state.exits),
         g.mode \in {"value", "unwind"}, l \cup {g.k} \subseteq p
  PROVE  HasShape(T, S, h, p, r, last, w.user)
<1>1. Whole(g) /\ Frame(T, S, w, g, l, r)
  BY ShapeControl
<1>2. /\ Whole(d) /\ SameControl(g, d) /\ SameMasks(g, d) /\ SameScopes(g, d)
      /\ PopsTop(g, d)
  BY <1>1, PopFields
<1>3. /\ w.fr[w.n].state.exits = w.xs[w.n - 1] /\ w.todo[Ref(w, w.n)] = 0
      /\ Owns(w, w.n) /\ Own(w, g, w.n) = Ref(w, w.n)
  <2>1. w.n \in 1..w.n
    BY DEF Shadows
  <2>2. /\ Ref(w, w.n) = w.xs[w.n] /\ w.fr[w.n].state.exits = w.xs[w.n - 1]
        /\ w.todo[w.xs[w.n]] = Len(g.stacks[w.xs[w.n]].items)
    BY <1>1, <2>1, Zenon DEF Frame, Scopes
  <2> QED
    BY <2>2 DEF Owns, Own
<1>5. /\ Whole(h) /\ SameControl(d, h) /\ SameMasks(d, h) /\ SameActions(d, h)
      /\ h.exits = w.fr[w.n].state.exits /\ h.k = d.k /\ h.heap = d.heap
  BY <1>2, ExitsFields
<1>6. /\ SameControl(g, h) /\ SameMasks(g, h) /\ SameActions(g, h)
      /\ PopsTop(g, h) /\ h.fins = g.fins /\ h.exits = w.xs[w.n - 1]
  BY <1>2, <1>3, <1>5 DEF SameControl, SameScopes, SameActions, PopsTop, SameMasks
<1>7. CanCut(T, S, w, h, p, r)
  <2>1. w.todo[Own(w, g, w.n)] = 0
    BY <1>3
  <2> QED
    BY <1>1, <1>3, <1>6, <2>1, FrameDrop, Zenon
<1> QED
  BY <1>5, <1>6, <1>7, CutShape

(* The exit actions of a scope are over.                                   *)
LEMMA ShapeEnd ==
  ASSUME NEW T, NEW S, NEW w \in Shadows(S), NEW g, NEW d, NEW h, NEW l, NEW r, NEW last, NEW p,
         NEW why, Shape(T, S, w, g, l, r, last), w.n > 0, Kind(w, w.n) = "FINSEQ",
         g.fins[Ref(w, w.n)].i = 0, why = g.fins[Ref(w, w.n)].why,
         d = Pop(g), h = Apply(d, why), g.mode \in {"value", "unwind"}, l \cup {g.k} \subseteq p
  PROVE  HasShape(T, S, h, p, r, last, w.user)
<1>1. /\ Whole(g) /\ Frame(T, S, w, g, l, r) /\ Causes(w, g, last) /\ Owners(w, g)
      /\ g.drain = None
  BY ShapeControl
<1>2. /\ Whole(d) /\ SameControl(g, d) /\ SameMasks(g, d) /\ SameScopes(g, d)
      /\ PopsTop(g, d)
  BY <1>1, PopFields
<1>3. d.mode # "failed" /\ d.drain = None
  BY <1>1, <1>2 DEF SameControl
<1>4. /\ Whole(h) /\ SameParts(d, h) /\ h.drain = None
      /\ \/ h.mode = "value" /\ h.why = Normal
         \/ h.mode = "unwind" /\ h.why = why
  <2>1. CASE why.kind = "normal"
    <3>1. h = Deliver(d)
      BY <2>1 DEF Apply
    <3> QED
      BY <1>2, <1>3, <3>1, DeliverFields
  <2>2. CASE why.kind # "normal"
    <3>1. h = Unwind(d, why)
      BY <2>2 DEF Apply
    <3> QED
      BY <1>2, <1>3, <3>1, UnwindFields
  <2> QED
    BY <2>1, <2>2
<1>5. /\ SameMasks(g, h) /\ SameScopes(g, h) /\ SameActions(g, h) /\ PopsTop(g, h)
      /\ h.fins = g.fins
  BY <1>2, <1>4 DEF SameParts, SameScopes, SameActions, PopsTop, SameMasks
<1>6. w.n \in 1..w.n /\ w.n \in Nat
  BY DEF Shadows
<1>7. h.exits = w.xs[w.n - 1]
  <2>1. g.exits = w.xs[w.n] /\ w.xs[w.n] = w.xs[w.n - 1]
    BY <1>1, <1>6 DEF Frame, Scopes
  <2> QED
    BY <1>5, <2>1 DEF SameScopes
<1>8. Owns(w, w.n) /\ w.todo[Own(w, g, w.n)] = 0
  BY <1>1, TopSequence
<1>9. CanCut(T, S, w, h, p, r)
  BY <1>1, <1>5, <1>7, <1>8, FrameDrop, Zenon
<1>10. PICK v \in Shadows(S) : Frame(T, S, v, h, p, r) /\ Cuts(w, v)
  BY <1>9, Zenon DEF CanCut
<1>11. v.n = w.n - 1 /\ v.fr = w.fr /\ v.user = w.user
  BY <1>10 DEF Cuts
<1>12. Causes(v, h, last)
  <2>1. h.why = Waiting(w, g, w.n) \/ Quietly(h.why)
    BY <1>4, QuietReasons DEF Waiting
  <2> QED
    BY <1>1, <1>5, <1>11, <2>1, CausesEnd, Zenon
<1>13. h.mode \in {"value", "unwind"}
  BY <1>4
<1>14. Shape(T, S, v, h, p, r, last)
  BY <1>4, <1>10, <1>12, <1>13, ShapeFormed
<1> QED
  BY <1>11, <1>14, Zenon DEF HasShape

(* A do-scope with exit actions is left.                                   *)
(* What begin_finseq changes before it delivers: d is outside of the       *)
(* scope, e under the mask frame, h under the exit actions.                *)
Leaving(g, d, e, h, c1, c2, fs) ==
  /\ PopsTop(g, d) /\ SameMasks(g, d) /\ SameActions(g, d)
  /\ Pushes(d, e, c1) /\ NewMask(d, e, Masked) /\ SameScopes(d, e)
  /\ Pushes(e, h, c2) /\ SameMasks(e, h) /\ NewSequence(e, h, fs) /\ h.exits = e.exits
  /\ Whole(h) /\ h.drain = g.drain /\ h.mode = g.mode /\ h.why = g.why

LeaveSteps(g, exits, fs, ref, d, m, e, q, h, c1, c2) ==
  /\ d = Outside(Pop(g), exits) /\ m = PushMask(d, Masked)
  /\ e = Push(m, "POPMASK", m.mask, Idle, NoState) /\ q = Sequenced(e, fs)
  /\ h = Push(q, "FINSEQ", ref, Idle, NoState)
  /\ c1 = Cell("POPMASK", m.mask, Idle, NoState, m.k)
  /\ c2 = Cell("FINSEQ", ref, Idle, NoState, q.k)

(* What the steps of begin_finseq change.                                  *)
LEMMA LeaveFields ==
  ASSUME NEW g, Whole(g), NEW exits, NEW fs, NEW ref, NEW d, NEW m, NEW e, NEW q, NEW h, NEW c1,
         NEW c2, LeaveSteps(g, exits, fs, ref, d, m, e, q, h, c1, c2)
  PROVE  /\ Leaving(g, d, e, h, c1, c2, fs) /\ d.exits = exits
         /\ m.mask = e.mask /\ m.k = d.k /\ q.k = e.k
<1> SUFFICES ASSUME
         d = Outside(Pop(g), exits), m = PushMask(d, Masked),
         e = Push(m, "POPMASK", m.mask, Idle, NoState), q = Sequenced(e, fs),
         h = Push(q, "FINSEQ", ref, Idle, NoState),
         c1 = Cell("POPMASK", m.mask, Idle, NoState, m.k),
         c2 = Cell("FINSEQ", ref, Idle, NoState, q.k)
       PROVE  /\ Leaving(g, d, e, h, c1, c2, fs) /\ d.exits = exits
              /\ m.mask = e.mask /\ m.k = d.k /\ q.k = e.k
  BY Zenon DEF LeaveSteps
<1>1. PICK o : o = Pop(g)
  OBVIOUS
<1>2. /\ Whole(o) /\ SameControl(g, o) /\ SameMasks(g, o) /\ SameScopes(g, o)
      /\ PopsTop(g, o)
  BY <1>1, PopFields
<1>3. /\ Whole(d) /\ SameControl(o, d) /\ SameMasks(o, d) /\ SameActions(o, d)
      /\ d.exits = exits /\ d.k = o.k /\ d.heap = o.heap
  BY <1>1, <1>2, ExitsFields
<1>4. /\ Whole(m) /\ SameControl(d, m) /\ SameScopes(d, m) /\ NewMask(d, m, Masked)
      /\ m.k = d.k /\ m.heap = d.heap
  BY <1>3, PushMaskFields
<1>5. /\ Whole(e) /\ SameControl(m, e) /\ SameMasks(m, e) /\ SameScopes(m, e)
      /\ Pushes(m, e, c1)
  BY <1>4, PushFields
<1>6. /\ Whole(q) /\ SameControl(e, q) /\ SameMasks(e, q) /\ NewSequence(e, q, fs)
      /\ q.exits = e.exits /\ q.k = e.k /\ q.heap = e.heap
  BY <1>5, SequenceFields
<1>7. /\ Whole(h) /\ SameControl(q, h) /\ SameMasks(q, h) /\ SameScopes(q, h)
      /\ Pushes(q, h, c2)
  BY <1>6, PushFields
<1>8. PopsTop(g, d) /\ SameMasks(g, d) /\ SameActions(g, d)
  BY <1>2, <1>3 DEF PopsTop, SameMasks, SameActions, SameScopes
<1>9. /\ Pushes(d, e, c1) /\ NewMask(d, e, Masked) /\ SameScopes(d, e) /\ m.mask = e.mask
      /\ e.mask = Len(d.masks) + 1
  BY <1>4, <1>5 DEF Pushes, NewMask, SameScopes, SameMasks
<1>10. /\ Pushes(e, h, c2) /\ SameMasks(e, h) /\ NewSequence(e, h, fs) /\ h.exits = e.exits
  BY <1>6, <1>7 DEF Pushes, SameMasks, NewSequence, SameScopes
<1>11. h.drain = g.drain /\ h.mode = g.mode /\ h.why = g.why
  <2>1. SameControl(g, d)
    BY <1>2, <1>3, ControlKept
  <2>2. SameControl(g, m)
    BY <1>4, <2>1, ControlKept
  <2>3. SameControl(g, e)
    BY <1>5, <2>2, ControlKept
  <2>4. SameControl(g, q)
    BY <1>6, <2>3, ControlKept
  <2>5. SameControl(g, h)
    BY <1>7, <2>4, ControlKept
  <2> QED
    BY <2>5 DEF SameControl
<1> QED
  BY <1>3, <1>4, <1>6, <1>7, <1>8, <1>9, <1>10, <1>11, Zenon DEF Leaving

(* The cells of begin_finseq.                                              *)
LeaveKinds == {"POPMASK", "FINSEQ"}

(* The cells that begin_finseq pushes.                                     *)
LEMMA LeaveCells ==
  ASSUME NEW T, NEW S, Plain(T, S), NEW ref \in Nat, NEW next \in Nat,
         NEW kind \in LeaveKinds, NEW cell, cell = Cell(kind, ref, Idle, NoState, next)
  PROVE  cell \in Cells(S) /\ cell.kind = kind /\ cell.ref = ref
<1>1. Idle \in Closures(S, Nat) /\ NoState \in [exits : Nat, mask : Nat]
  BY IdleTyped
<1>2. PICK action \in Closures(S, Nat), state \in [exits : Nat, mask : Nat] :
        action = Idle /\ state = NoState
  BY <1>1
<1>3. PICK k \in FrameKinds : k = kind
  BY DEF FrameKinds, LeaveKinds
<1>4. cell = Cell(k, ref, action, state, next)
  BY <1>2, <1>3
<1> QED
  BY <1>3, <1>4, NewCell

(* The numbers in those cells.                                             *)
LEMMA LeaveNumbers ==
  ASSUME NEW T, NEW S, NEW w \in Shadows(S), NEW g, NEW d, NEW e, NEW h, NEW l, NEW r, NEW last,
         NEW c1, NEW c2, NEW fs, Shape(T, S, w, g, l, r, last), w.n > 0,
         Leaving(g, d, e, h, c1, c2, fs), NEW ref, ref = Len(g.fins) + 1
  PROVE  e.mask \in Nat /\ d.k \in Nat /\ e.k \in Nat /\ ref \in Nat
<1>1. Frame(T, S, w, g, l, r)
  BY ShapeControl
<1>2. /\ Len(g.heap) \in Nat /\ Len(g.masks) \in Nat /\ Len(g.fins) \in Nat
  BY <1>1, FrameTypes
<1>3. e.mask = Len(g.masks) + 1
  BY DEF Leaving, NewMask, SameMasks
<1>4. d.k = g.heap[g.k].next
  BY DEF Leaving, PopsTop
<1>5. e.k = Len(g.heap) + 1
  BY DEF Leaving, PopsTop, Pushes
<1> QED
  BY <1>2, <1>3, <1>4, <1>5, ShapeTop

(* The shape is kept when a scope is left, from what the steps change.     *)
LEMMA ShapeLeft ==
  ASSUME NEW T, NEW S, NEW w \in Shadows(S), NEW g, NEW d, NEW e, NEW h, NEW end,
         NEW l, NEW r, NEW last, NEW p, NEW fs \in Sequences, NEW ref,
         NEW c1 \in Cells(S), NEW c2 \in Cells(S),
         Shape(T, S, w, g, l, r, last), w.n > 0, Kind(w, w.n) = "DOSCOPE",
         Leaving(g, d, e, h, c1, c2, fs), d.exits = w.fr[w.n].state.exits,
         c1.kind = "POPMASK", c1.ref = e.mask, c2.kind = "FINSEQ", c2.ref = ref,
         ref = Len(g.fins) + 1, end = Deliver(h),
         fs.xs = Ref(w, w.n), fs.i = Len(g.stacks[fs.xs].items),
         fs.why = g.why \/ Quietly(fs.why),
         g.mode \in {"value", "unwind"}, l \cup {g.k} \subseteq p
  PROVE  HasShape(T, S, end, p, r, last, w.user)
<1>1. /\ Whole(g) /\ Frame(T, S, w, g, l, r) /\ Causes(w, g, last) /\ Owners(w, g)
      /\ g.drain = None
  BY ShapeControl
<1>4. /\ PopsTop(g, d) /\ SameMasks(g, d) /\ SameActions(g, d)
      /\ Pushes(d, e, c1) /\ NewMask(d, e, Masked) /\ SameScopes(d, e)
      /\ Pushes(e, h, c2) /\ SameMasks(e, h) /\ NewSequence(e, h, fs) /\ h.exits = e.exits
      /\ Whole(h) /\ h.drain = g.drain /\ h.mode = g.mode /\ h.why = g.why
  BY Zenon DEF Leaving
<1>6. d.exits = w.xs[w.n - 1]
  <2>1. w.n \in 1..w.n
    BY DEF Shadows
  <2> QED
    BY <1>1, <2>1, Zenon DEF Frame, Scopes
<1>10. CanLeave(T, S, w, h, p, r, ref)
  <2>1. LeftFrame(T, S, w, g, d, e, h, l, r, p, c1, c2, fs)
    BY <1>1, <1>4, <1>6, Zenon DEF LeftFrame
  <2> QED
    BY <2>1, FrameLeave
<1>11. PICK v \in Shadows(S) :
         Frame(T, S, v, h, p, r) /\ Leaves(w, v, ref) /\ v.user = w.user
  BY <1>10, Zenon DEF CanLeave
<1>12. /\ Whole(end) /\ SameParts(h, end) /\ end.drain = h.drain
       /\ end.mode = "value" /\ end.why = Normal
  <2>1. h.mode # "failed"
    BY <1>4
  <2> QED
    BY <1>4, <2>1, DeliverFields
<1>13. Frame(T, S, v, end, p, r)
  BY <1>11, <1>12, FrameStays
<1>14. NewSequence(g, end, fs)
  BY <1>4, <1>12 DEF NewSequence, SameActions, SameScopes, SameParts
<1>15. Causes(v, end, last)
  <2>1. Quietly(end.why)
    BY <1>12, QuietReasons
  <2> QED
    BY <1>1, <1>11, <1>14, <2>1, CausesLeave, Zenon
<1>16. end.drain = None /\ end.mode \in {"value", "unwind"}
  BY <1>1, <1>4, <1>12
<1>17. Shape(T, S, v, end, p, r, last)
  BY <1>12, <1>13, <1>15, <1>16, ShapeFormed
<1> QED
  BY <1>11, <1>17, Zenon DEF HasShape

(* The shape is kept when a scope with exit actions is left.               *)
LEMMA ShapeLeave ==
  ASSUME NEW T, NEW S, Plain(T, S), NEW w \in Shadows(S), NEW g, NEW d, NEW m, NEW e, NEW q,
         NEW h, NEW l, NEW r, NEW last, NEW p, NEW fs \in Sequences, NEW ref, NEW end, NEW c1,
         NEW c2, Shape(T, S, w, g, l, r, last), w.n > 0, Kind(w, w.n) = "DOSCOPE",
         LeaveSteps(g, w.fr[w.n].state.exits, fs, ref, d, m, e, q, h, c1, c2),
         ref = Len(g.fins) + 1, end = Deliver(h),
         fs.xs = Ref(w, w.n), fs.i = Len(g.stacks[fs.xs].items),
         fs.why = g.why \/ Quietly(fs.why),
         g.mode \in {"value", "unwind"}, l \cup {g.k} \subseteq p
  PROVE  HasShape(T, S, end, p, r, last, w.user)
<1>1. Whole(g)
  BY ShapeControl, Zenon
<1>2. /\ c1 = Cell("POPMASK", m.mask, Idle, NoState, m.k)
      /\ c2 = Cell("FINSEQ", ref, Idle, NoState, q.k)
  BY Zenon DEF LeaveSteps
<1>3. /\ Leaving(g, d, e, h, c1, c2, fs) /\ d.exits = w.fr[w.n].state.exits
      /\ m.mask = e.mask /\ m.k = d.k /\ q.k = e.k
  BY <1>1, LeaveFields
<1>5. e.mask \in Nat /\ d.k \in Nat /\ e.k \in Nat /\ ref \in Nat
  BY <1>3, LeaveNumbers, Zenon
<1>7. PICK n1 \in Nat, n2 \in Nat, n3 \in Nat, n4 \in Nat :
        n1 = m.mask /\ n2 = m.k /\ n3 = ref /\ n4 = q.k
  BY <1>3, <1>5, Zenon
<1>8. PICK k1 \in LeaveKinds, k2 \in LeaveKinds : k1 = "POPMASK" /\ k2 = "FINSEQ"
  BY Zenon DEF LeaveKinds
<1>9. c1 = Cell(k1, n1, Idle, NoState, n2) /\ c2 = Cell(k2, n3, Idle, NoState, n4)
  BY <1>2, <1>7, <1>8, Zenon
<1>10. c1 \in Cells(S) /\ c1.kind = k1 /\ c1.ref = n1
  BY <1>7, <1>8, <1>9, LeaveCells
<1>11. c2 \in Cells(S) /\ c2.kind = k2 /\ c2.ref = n3
  BY <1>7, <1>8, <1>9, LeaveCells
<1>12. c1.kind = "POPMASK" /\ c1.ref = e.mask /\ c2.kind = "FINSEQ" /\ c2.ref = ref
  BY <1>3, <1>7, <1>8, <1>10, <1>11, Zenon
<1> QED
  BY <1>3, <1>10, <1>11, <1>12, ShapeLeft, Zenon

----------------------------------------------------------------------------
(* What the machine does next, after a frame was pushed or popped.         *)
LEMMA RunsOn ==
  ASSUME NEW T, NEW S, NEW g, NEW h, NEW l, NEW r, NEW last, NEW user,
         HasShape(T, S, g, l, r, last, user),
         NEW action \in Closures(Allowed(T, S, g.exits), user), h = Run(g, action)
  PROVE  HasShape(T, S, h, l, r, last, user)
<1>1. PICK v \in Shadows(S) : Shape(T, S, v, g, l, r, last) /\ v.user = user
  BY DEF HasShape
<1>2. Shape(T, S, v, h, l, r, last)
  BY <1>1, ShapeRun
<1> QED
  BY <1>1, <1>2, Zenon DEF HasShape

(* ShapeDeliver for some stack.                                            *)
LEMMA DeliversOn ==
  ASSUME NEW T, NEW S, NEW g, NEW h, NEW l, NEW r, NEW last, NEW user,
         HasShape(T, S, g, l, r, last, user), h = Deliver(g)
  PROVE  HasShape(T, S, h, l, r, last, user)
<1>1. PICK v \in Shadows(S) : Shape(T, S, v, g, l, r, last) /\ v.user = user
  BY DEF HasShape
<1>2. Shape(T, S, v, h, l, r, last)
  BY <1>1, ShapeDeliver
<1> QED
  BY <1>1, <1>2, Zenon DEF HasShape

(* ShapeUnwind for some stack.                                             *)
LEMMA UnwindsOn ==
  ASSUME NEW T, NEW S, NEW g, NEW h, NEW l, NEW r, NEW last, NEW next, NEW user, NEW why,
         HasShape(T, S, g, l, r, last, user), h = Unwind(g, why),
         \/ (why = g.why \/ Quietly(why)) /\ next = last
         \/ \E kind \in {"fail", "interrupt"} : why = Raised(kind, last + 1) /\ next = last + 1
  PROVE  HasShape(T, S, h, l, r, next, user)
<1>1. PICK v \in Shadows(S) : Shape(T, S, v, g, l, r, last) /\ v.user = user
  BY DEF HasShape
<1>2. h.why = why
  <2>1. Whole(g)
    BY <1>1, ShapeControl
  <2> QED
    BY <2>1, UnwindFields
<1>3. NextReason(g, h, last, next)
  BY <1>2 DEF NextReason
<1>4. Shape(T, S, v, h, l, r, next)
  BY <1>1, <1>3, ShapeUnwind, Zenon
<1> QED
  BY <1>1, <1>4, Zenon DEF HasShape

(* The same for a reason that is applied.                                  *)
LEMMA AppliesOn ==
  ASSUME NEW T, NEW S, NEW g, NEW h, NEW l, NEW r, NEW last, NEW user, NEW why,
         HasShape(T, S, g, l, r, last, user), h = Apply(g, why), why = g.why \/ Quietly(why)
  PROVE  HasShape(T, S, h, l, r, last, user)
<1>1. CASE why.kind = "normal"
  <2>1. h = Deliver(g)
    BY <1>1 DEF Apply
  <2> QED
    BY <2>1, DeliversOn
<1>2. CASE why.kind # "normal"
  <2>1. h = Unwind(g, why)
    BY <1>2 DEF Apply
  <2> QED
    BY <2>1, UnwindsOn
<1> QED
  BY <1>1, <1>2

(* A do-scope is left, for whatever reason.                                *)
LEMMA ScopeSteps ==
  ASSUME NEW g, NEW xs, NEW exits, NEW why, NEW end,
         end = BeginFinseq(Pop(g), xs, exits, why, None),
         NEW fs, fs = [xs |-> xs, i |-> Len(Pop(g).stacks[xs].items), ae |-> None, why |-> why],
         NEW d, NEW m, NEW e, NEW q, NEW h, NEW c1, NEW c2,
         LeaveSteps(g, exits, fs, Len(Pop(g).fins) + 1, d, m, e, q, h, c1, c2)
  PROVE  /\ Pop(g).stacks[xs].items = <<>> => end = Apply(d, why)
         /\ Pop(g).stacks[xs].items # <<>> => end = Deliver(h)
BY DEF BeginFinseq, MaskFinalizers, LeaveSteps, Outside, Sequenced

(* The steps of begin_finseq can be named.                                 *)
LEMMA ScopeStep ==
  ASSUME NEW g, NEW exits, NEW fs, NEW ref
  PROVE  \E d, m, e, q, h, c1, c2 : LeaveSteps(g, exits, fs, ref, d, m, e, q, h, c1, c2)
BY Zenon DEF LeaveSteps

(* The parts of a new sequence of exit actions.                            *)
LEMMA NewSequenceRecord ==
  ASSUME NEW xs \in Nat, NEW i \in Nat, NEW why \in Reasons, NEW fs,
         fs = [xs |-> xs, i |-> i, ae |-> None, why |-> why]
  PROVE  fs \in Sequences /\ fs.xs = xs /\ fs.i = i /\ fs.why = why
BY DEF Sequences

(* The shape is kept when a scope is left, with or without exit actions.   *)
LEMMA ShapeScope ==
  ASSUME NEW T, NEW S, Plain(T, S), NEW w \in Shadows(S), NEW g, NEW l, NEW r, NEW last, NEW p,
         NEW why, NEW end, Shape(T, S, w, g, l, r, last), w.n > 0, Kind(w, w.n) = "DOSCOPE",
         end = BeginFinseq(Pop(g), Ref(w, w.n), w.fr[w.n].state.exits, why, None),
         why = g.why \/ Quietly(why), g.mode \in {"value", "unwind"}, l \cup {g.k} \subseteq p
  PROVE  HasShape(T, S, end, p, r, last, w.user)
<1>1. Whole(g) /\ Frame(T, S, w, g, l, r) /\ Causes(w, g, last) /\ Scopes(T, w, g)
  BY ShapeControl, Zenon
<1>2. PICK o : o = Pop(g)
  OBVIOUS
<1>3. /\ Whole(o) /\ SameControl(g, o) /\ SameMasks(g, o) /\ SameScopes(g, o)
      /\ PopsTop(g, o)
  BY <1>1, <1>2, PopFields
<1>4. o.stacks = g.stacks /\ o.fins = g.fins /\ o.why = g.why
  BY <1>3 DEF SameScopes, SameControl
<1>5. PICK xs : xs = Ref(w, w.n)
  OBVIOUS
<1>6. /\ xs \in Nat /\ xs \in 1..Len(g.stacks)
      /\ g.stacks[xs].items \in Seq(ItemTypes(T)) /\ Len(g.stacks[xs].items) \in Nat
  <2>1. w.n \in 1..w.n
    BY DEF Shadows
  <2>2. Ref(w, w.n) = w.xs[w.n] /\ w.xs[w.n] \in 1..Len(g.stacks) /\ g.stacks \in Seq(Stacks(T))
    BY <1>1, <2>1, Zenon DEF Scopes
  <2>3. xs \in 1..Len(g.stacks) /\ g.stacks[xs] \in Stacks(T)
    BY <1>5, <2>2
  <2>4. g.stacks[xs].items \in Seq(ItemTypes(T))
    BY <2>3 DEF Stacks, ItemTypes
  <2> QED
    BY <2>3, <2>4
<1>7. why \in Reasons
  BY <1>1 DEF Causes, Quietly
<1>8. PICK fs : fs = [xs |-> xs, i |-> Len(g.stacks[xs].items), ae |-> None, why |-> why]
  OBVIOUS
<1>9. PICK i \in Nat : i = Len(g.stacks[xs].items)
  BY <1>6
<1>10. fs \in Sequences /\ fs.xs = xs /\ fs.i = i /\ fs.why = why
  <2>1. fs = [xs |-> xs, i |-> i, ae |-> None, why |-> why]
    BY <1>8, <1>9, Zenon
  <2>2. xs \in Nat
    BY <1>6
  <2> QED
    BY <1>7, <2>1, <2>2, NewSequenceRecord
<1>11. PICK exits : exits = w.fr[w.n].state.exits
  OBVIOUS
<1>12. PICK ref : ref = Len(g.fins) + 1
  OBVIOUS
<1>13. PICK d, m, e, q, h, c1, c2 : LeaveSteps(g, exits, fs, ref, d, m, e, q, h, c1, c2)
  BY ScopeStep
<1>14. /\ g.stacks[xs].items = <<>> => end = Apply(d, why)
       /\ g.stacks[xs].items # <<>> => end = Deliver(h)
  <2>1. end = BeginFinseq(Pop(g), xs, exits, why, None)
    BY <1>5, <1>11, Zenon
  <2>2. fs = [xs |-> xs, i |-> Len(Pop(g).stacks[xs].items), ae |-> None, why |-> why]
    BY <1>2, <1>4, <1>8, Zenon
  <2>3. LeaveSteps(g, exits, fs, Len(Pop(g).fins) + 1, d, m, e, q, h, c1, c2)
    BY <1>2, <1>4, <1>12, <1>13, Zenon
  <2>4. /\ Pop(g).stacks[xs].items = <<>> => end = Apply(d, why)
        /\ Pop(g).stacks[xs].items # <<>> => end = Deliver(h)
    BY <2>1, <2>2, <2>3, ScopeSteps
  <2> QED
    BY <1>2, <1>4, <2>4, Zenon
<1>15. CASE g.stacks[xs].items = <<>>
  <2>1. Len(g.stacks[Ref(w, w.n)].items) = 0
    BY <1>5, <1>15
  <2>2. d = Outside(o, w.fr[w.n].state.exits)
    BY <1>2, <1>11, <1>13, Zenon DEF LeaveSteps
  <2>3. HasShape(T, S, d, p, r, last, w.user)
    BY <1>2, <2>1, <2>2, ShapeDrop, Zenon
  <2>4. why = d.why \/ Quietly(why)
    <3>1. SameControl(o, d)
      BY <1>3, <2>2, ExitsFields, Zenon
    <3> QED
      BY <1>4, <3>1 DEF SameControl
  <2>5. end = Apply(d, why)
    BY <1>14, <1>15
  <2> QED
    BY <2>3, <2>4, <2>5, AppliesOn, Zenon
<1>16. CASE g.stacks[xs].items # <<>>
  <2>1. end = Deliver(h)
    BY <1>14, <1>16
  <2>2. fs.xs = Ref(w, w.n) /\ fs.i = Len(g.stacks[fs.xs].items) /\ (fs.why = g.why \/ Quietly(fs.why))
    BY <1>5, <1>9, <1>10, Zenon
  <2>3. LeaveSteps(g, w.fr[w.n].state.exits, fs, ref, d, m, e, q, h, c1, c2)
    BY <1>11, <1>13, Zenon
  <2> QED
    BY <1>10, <1>12, <2>1, <2>2, <2>3, ShapeLeave, Zenon
<1> QED
  BY <1>15, <1>16

(* An exit action is registered.                                           *)
LEMMA ShapeDefer ==
  ASSUME NEW T, NEW S, NEW w \in Shadows(S), NEW g, NEW d, NEW h, NEW l, NEW r, NEW q, NEW last,
         NEW item \in ItemTypes(T), Shape(T, S, w, g, l, r, last), g.exits # None,
         d = Deferred(g, item), h = Deliver(d), item.n = Len(r) + 1, q = Append(r, 0),
         item.action \in Closures(T, w.user)
  PROVE  HasShape(T, S, h, l, q, last, w.user)
<1>1. /\ Whole(g) /\ Frame(T, S, w, g, l, r) /\ Causes(w, g, last) /\ Owners(w, g)
      /\ g.drain = None /\ g.mode # "failed" /\ w.n \in Nat
  BY ShapeControl, Zenon
<1>2. /\ Whole(d) /\ SameControl(g, d) /\ SameMasks(g, d) /\ NewItem(g, d, item)
      /\ d.k = g.k /\ d.heap = g.heap
  BY <1>1, DeferFields, Zenon
<1>3. \E v \in Shadows(S) : Frame(T, S, v, d, l, q) /\ SameStack(w, v)
  BY <1>1, <1>2, FrameDefer, Zenon
<1>4. PICK v \in Shadows(S) : Frame(T, S, v, d, l, q) /\ SameStack(w, v)
  BY <1>3, Zenon
<1>5. v.n = w.n /\ v.fr = w.fr /\ v.user = w.user
  BY <1>4, Zenon DEF SameStack
<1>6. d.mode # "failed" /\ d.drain = None
  BY <1>1, <1>2, Zenon DEF SameControl
<1>7. /\ Whole(h) /\ SameParts(d, h) /\ h.drain = d.drain
      /\ h.mode = "value" /\ h.why = Normal
  BY <1>2, <1>6, DeliverFields, Zenon
<1>8. Frame(T, S, v, h, l, q)
  BY <1>4, <1>7, FrameStays, Zenon
<1>9. Causes(v, h, last)
  <2>1. h.fins = g.fins
    BY <1>2, <1>7, Zenon DEF SameParts, SameScopes, NewItem
  <2>2. NextReason(g, h, last, last)
    BY <1>7, QuietReasons, Zenon DEF NextReason
  <2>3. v.n <= w.n /\ v.n \in Nat
    <3>1. \A n \in Nat : n <= n
      OBVIOUS
    <3> QED
      BY <1>1, <1>5, <3>1, Zenon
  <2> QED
    BY <1>1, <1>5, <2>1, <2>2, <2>3, CausesBelow, Zenon
<1>10. h.drain = None /\ h.mode \in {"value", "unwind"}
  BY <1>6, <1>7, Zenon
<1>11. Shape(T, S, v, h, l, q, last)
  BY <1>7, <1>8, <1>9, <1>10, ShapeFormed, Zenon
<1> QED
  BY <1>5, <1>11, Zenon DEF HasShape

RunsAs(g, h, action) ==
  /\ Whole(h) /\ SameParts(g, h) /\ h.drain = g.drain
  /\ h.mode = "code" /\ h.cur = action /\ h.why = Normal

(* RunsAs is what Run does.                                                *)
LEMMA RunAs ==
  ASSUME NEW g, Whole(g), NEW action
  PROVE  RunsAs(g, Run(g, action), action)
BY RunFields DEF RunsAs

(* An exit action may run in any scope.                                    *)
LEMMA RunsAnywhere ==
  ASSUME NEW T, NEW S, Plain(T, S), NEW exits, NEW user
  PROVE  Closures(T, user) \subseteq Closures(Allowed(T, S, exits), user)
<1>1. T \subseteq Allowed(T, S, exits)
  BY AllowedTerms
<1> QED
  BY <1>1 DEF Closures

(* An exit action is started.                                              *)
LEMMA ShapeStart ==
  ASSUME NEW T, NEW S, Plain(T, S), NEW w \in Shadows(S), NEW g, NEW d, NEW h, NEW l, NEW r,
         NEW q, NEW last, NEW ref, NEW action, Shape(T, S, w, g, l, r, last), w.n > 0,
         Kind(w, w.n) = "FINSEQ", ref = Ref(w, w.n), g.fins[ref].i > 0,
         d = Started(g, ref), Counts(g, ref, r, q), h = Run(d, action),
         action = Items(g, g.fins[ref].xs)[g.fins[ref].i].action
  PROVE  HasShape(T, S, h, l, q, last, w.user)
<1>1. /\ Whole(g) /\ Frame(T, S, w, g, l, r) /\ Causes(w, g, last) /\ Owners(w, g)
      /\ Scopes(T, w, g) /\ g.drain = None /\ w.n \in Nat
  BY ShapeControl, Zenon
<1>2. PICK fs : fs = [g.fins[ref] EXCEPT !.i = @ - 1]
  OBVIOUS
<1>3. /\ Whole(d) /\ SameControl(g, d) /\ SameMasks(g, d) /\ ChangedSequence(g, d, ref, fs)
      /\ d.k = g.k /\ d.heap = g.heap
  BY <1>1, <1>2, StartFields, Zenon
<1>4. Starts(g, ref, fs)
  BY <1>2, Zenon DEF Starts
<1>5. \E v \in Shadows(S) : Frame(T, S, v, d, l, q) /\ SameStack(w, v)
  BY <1>1, <1>3, <1>4, FrameStart, Zenon
<1>6. PICK v \in Shadows(S) : Frame(T, S, v, d, l, q) /\ SameStack(w, v)
  BY <1>5, Zenon
<1>7. /\ Whole(h) /\ SameParts(d, h) /\ h.drain = d.drain
      /\ h.mode = "code" /\ h.cur = action /\ h.why = Normal
  <2>1. RunsAs(d, h, action)
    BY <1>3, RunAs, Zenon
  <2> QED
    BY <2>1, Zenon DEF RunsAs
<1>8. Frame(T, S, v, h, l, q)
  BY <1>6, <1>7, FrameStays, Zenon
<1>9. /\ ref \in 1..Len(g.fins) /\ g.fins[ref] \in Sequences
      /\ g.fins[ref].xs \in 1..Len(g.stacks)
      /\ g.fins[ref].i \in Nat /\ g.fins[ref].i <= Len(Items(g, g.fins[ref].xs))
  BY <1>1, TopSequence, Zenon
<1>10. fs \in Sequences /\ fs.why = g.fins[ref].why
  BY <1>2, <1>9 DEF Sequences
<1>11. Causes(v, h, last)
  <2>1. ChangedSequence(g, h, ref, fs)
    BY <1>3, <1>7, Zenon DEF SameParts, SameScopes, ChangedSequence
  <2>2. Quietly(h.why)
    BY <1>7, QuietReasons, Zenon
  <2>3. fs.why = Waiting(w, g, w.n)
    BY <1>10, Zenon DEF Waiting
  <2> QED
    BY <1>1, <1>6, <1>10, <2>1, <2>2, <2>3, CausesChange, Zenon
<1>12. action \in Closures(T, w.user)
  <2>1. \A x \in 1..Len(g.stacks) : \A j \in 1..Len(Items(g, x)) :
          Items(g, x)[j].action \in Closures(T, w.user)
    BY <1>1, Zenon DEF Frame, Actions
  <2>2. PICK x : x = g.fins[ref].xs
    OBVIOUS
  <2>3. PICK j : j = g.fins[ref].i
    OBVIOUS
  <2>4. Len(Items(g, x)) \in Nat
    BY <1>1, <2>2, TopSequence, Zenon
  <2>5. x \in 1..Len(g.stacks) /\ j \in 1..Len(Items(g, x))
    BY <1>9, <2>2, <2>3, <2>4
  <2> QED
    BY <2>1, <2>2, <2>3, <2>5, Zenon
<1>13. h.cur \in Closures(Allowed(T, S, h.exits), v.user)
  <2>2. v.user = w.user
    BY <1>6, ZenonT(40) DEF SameStack
  <2>3. PICK user, exits : user = w.user /\ exits = h.exits
    OBVIOUS
  <2>4. Closures(T, user) \subseteq Closures(Allowed(T, S, exits), user)
    BY RunsAnywhere
  <2>5. action \in Closures(Allowed(T, S, exits), user)
    BY <1>12, <2>3, <2>4
  <2> QED
    BY <1>7, <2>2, <2>3, <2>5, Zenon
<1>14. h.drain = None
  BY <1>1, <1>3, <1>7, Zenon DEF SameControl
<1>15. Shape(T, S, v, h, l, q, last)
  BY <1>7, <1>8, <1>11, <1>13, <1>14, ShapeFormed, Zenon
<1> QED
  BY <1>6, <1>15, Zenon DEF HasShape, SameStack

(* An exit action has failed.                                              *)
LEMMA ShapeFails ==
  ASSUME NEW T, NEW S, NEW w \in Shadows(S), NEW g, NEW d, NEW h, NEW l, NEW r, NEW last,
         NEW ref, Shape(T, S, w, g, l, r, last), w.n > 0, Kind(w, w.n) = "FINSEQ",
         ref = Ref(w, w.n), d = Composed(g, ref), h = Deliver(d)
  PROVE  HasShape(T, S, h, l, r, last, w.user)
<1>1. /\ Whole(g) /\ Frame(T, S, w, g, l, r) /\ Causes(w, g, last) /\ Owners(w, g)
      /\ Scopes(T, w, g) /\ g.drain = None /\ g.mode # "failed" /\ w.n \in Nat
  BY ShapeControl, Zenon
<1>2. PICK why : why = Compose(Waiting(w, g, w.n), g.why)
  OBVIOUS
<1>3. PICK fs : fs = [g.fins[ref] EXCEPT !.why = why]
  OBVIOUS
<1>4. why \in Reasons
  <2>1. w.n \in 1..w.n
    BY <1>1
  <2>2. Waiting(w, g, w.n) \in Reasons
    BY <1>1, <2>1, WaitingTypes, Zenon
  <2>3. /\ Ordered(Waiting(w, g, w.n)) /\ UpTo(Waiting(w, g, w.n), last)
        /\ Newer(Waiting(w, g, w.n), g.why)
        /\ g.why \in Reasons /\ Ordered(g.why) /\ UpTo(g.why, last)
    BY <1>1, <2>1, Zenon DEF Causes
  <2> QED
    BY <1>2, <2>2, <2>3, ComposeOrder, Zenon
<1>5. fs = [g.fins[ref] EXCEPT !.why = Compose(@, g.why)]
  BY <1>2, <1>3, Zenon DEF Waiting
<1>6. /\ Whole(d) /\ SameControl(g, d) /\ SameMasks(g, d) /\ ChangedSequence(g, d, ref, fs)
      /\ d.k = g.k /\ d.heap = g.heap
  BY <1>1, <1>5, FailFields, Zenon
<1>7. g.fins[ref] \in Sequences
  BY <1>1, TopSequence, Zenon
<1>8. /\ fs \in Sequences /\ fs.why = why /\ fs.xs = g.fins[ref].xs /\ fs.i = g.fins[ref].i
  BY <1>3, <1>4, <1>7 DEF Sequences
<1>9. Frame(T, S, w, d, l, r)
  BY <1>1, <1>6, <1>8, FrameFails, Zenon
<1>10. d.mode # "failed" /\ d.drain = None
  BY <1>1, <1>6, Zenon DEF SameControl
<1>11. /\ Whole(h) /\ SameParts(d, h) /\ h.drain = d.drain
       /\ h.mode = "value" /\ h.why = Normal
  BY <1>6, <1>10, DeliverFields, Zenon
<1>12. Frame(T, S, w, h, l, r)
  BY <1>9, <1>11, FrameStays, Zenon
<1>13. Causes(w, h, last)
  <2>1. ChangedSequence(g, h, ref, fs)
    BY <1>6, <1>11, Zenon DEF SameParts, SameScopes, ChangedSequence
  <2>2. Quietly(h.why)
    BY <1>11, QuietReasons, Zenon
  <2>3. SameStack(w, w)
    BY Zenon DEF SameStack
  <2> QED
    BY <1>1, <1>2, <1>8, <2>1, <2>2, <2>3, CausesChange, Zenon
<1>14. h.drain = None /\ h.mode \in {"value", "unwind"}
  BY <1>10, <1>11, Zenon
<1>15. Shape(T, S, w, h, l, r, last)
  BY <1>11, <1>12, <1>13, <1>14, ShapeFormed, Zenon
<1> QED
  BY <1>15, Zenon DEF HasShape

----------------------------------------------------------------------------
(* Chain: the numbers met when each is followed by next of it.             *)
After(next) == [c \in 0..Len(next) |-> IF c = None THEN None ELSE next[c]]
Steps(a, start, k, c) ==
  c = [n \in 0..k |-> IF n = 0 THEN start ELSE a[c[n - 1]]]

(* A nonempty set of naturals has a least element.                         *)
LEMMA LeastNumber ==
  ASSUME NEW X, X \subseteq Nat, X # {}
  PROVE  \E x \in X : \A y \in X : x <= y
<1>1. PICK x \in X : \A y \in X : ~(<<y, x>> \in OpToRel(<, Nat))
  BY NatLessThanWellFounded, WFMin
<1>2. \A y \in X : ~(y < x)
  BY <1>1 DEF OpToRel
<1> QED
  BY <1>2

(* The equation that defines a chain has a solution of every length.       *)
LEMMA StepsExist ==
  ASSUME NEW a, NEW start, NEW k \in Nat
  PROVE  \E c : Steps(a, start, k, c)
<1> DEFINE Bad == {n \in Nat : ~\E c : Steps(a, start, n, c)}
<1>1. SUFFICES ASSUME Bad # {} PROVE FALSE
  OBVIOUS
<1>2. PICK n \in Bad : \A m \in Bad : n <= m
  <2>1. Bad \subseteq Nat
    OBVIOUS
  <2> HIDE DEF Bad
  <2> QED
    BY <1>1, <2>1, LeastNumber
<1>3. n \in Nat /\ ~\E c : Steps(a, start, n, c)
  OBVIOUS
<1>4. n # 0
  <2>1. PICK c : c = [i \in 0..0 |-> start]
    OBVIOUS
  <2>2. Steps(a, start, 0, c)
    BY <2>1 DEF Steps
  <2> QED
    BY <1>3, <2>2
<1>5. n - 1 \in Nat /\ n - 1 \notin Bad
  <2>1. n - 1 \in Nat /\ ~(n <= n - 1)
    BY <1>3, <1>4
  <2> HIDE DEF Bad
  <2> QED
    BY <1>2, <2>1
<1>6. PICK c : Steps(a, start, n - 1, c)
  BY <1>5
<1>7. PICK e : e = [i \in 0..n |-> IF i = 0 THEN start ELSE a[c[i - 1]]]
  OBVIOUS
<1>8. ASSUME NEW i \in 0..(n - 1) PROVE e[i] = c[i]
  <2>1. i \in 0..n
    BY <1>3
  <2>2. c[i] = IF i = 0 THEN start ELSE a[c[i - 1]]
    BY <1>6 DEF Steps
  <2> QED
    BY <1>7, <2>1, <2>2
<1>9. ASSUME NEW i \in 0..n PROVE e[i] = IF i = 0 THEN start ELSE a[e[i - 1]]
  <2>1. CASE i = 0
    BY <1>7, <2>1
  <2>2. CASE i # 0
    <3>1. i - 1 \in 0..(n - 1)
      BY <1>3, <2>2
    <3>2. e[i - 1] = c[i - 1]
      BY <1>8, <3>1
    <3> QED
      BY <1>7, <2>2, <3>2
  <2> QED
    BY <2>1, <2>2
<1>10. e = [i \in 0..n |-> e[i]]
  BY <1>7
<1>11. Steps(a, start, n, e)
  BY <1>9, <1>10 DEF Steps
<1> QED
  BY <1>3, <1>11

(* A chain satisfies the equation that defines it.                         *)
LEMMA ChainEquation ==
  ASSUME NEW next, NEW start, Len(next) \in Nat
  PROVE  Steps(After(next), start, Len(next), Chain(next, start))
<1>1. \E c : Steps(After(next), start, Len(next), c)
  BY StepsExist
<1>2. Chain(next, start) = CHOOSE c : Steps(After(next), start, Len(next), c)
  BY DEF Chain, Steps, After
<1> QED
  BY <1>1, <1>2

(* Each item of a chain follows the one before.                            *)
LEMMA ChainItems ==
  ASSUME NEW next, NEW start, Len(next) \in Nat, NEW c, c = Chain(next, start)
  PROVE  /\ DOMAIN c = 0..Len(next) /\ c[0] = start
         /\ \A i \in 1..Len(next) : c[i - 1] = None => c[i] = None
         /\ \A i \in 1..Len(next) :
              c[i - 1] \in 1..Len(next) => c[i] = next[c[i - 1]]
<1>1. Steps(After(next), start, Len(next), c)
  BY ChainEquation
<1>2. c = [n \in 0..Len(next) |-> IF n = 0 THEN start ELSE After(next)[c[n - 1]]]
  BY <1>1 DEF Steps
<1>3. DOMAIN c = 0..Len(next)
  BY <1>2
<1>4. c[0] = start
  BY <1>2
<1>5. ASSUME NEW i \in 1..Len(next)
      PROVE  c[i] = After(next)[c[i - 1]]
  <2>1. i \in 0..Len(next) /\ i # 0
    OBVIOUS
  <2> QED
    BY <1>2, <2>1
<1>6. ASSUME NEW i \in 1..Len(next), c[i - 1] = None
      PROVE  c[i] = None
  <2>1. 0 \in 0..Len(next)
    OBVIOUS
  <2>2. After(next)[0] = 0
    BY <2>1 DEF After, None
  <2> QED
    BY <1>5, <1>6, <2>2 DEF None
<1>7. ASSUME NEW i \in 1..Len(next), c[i - 1] \in 1..Len(next)
      PROVE  c[i] = next[c[i - 1]]
  <2>1. c[i - 1] \in 0..Len(next) /\ c[i - 1] # 0
    BY <1>7
  <2> QED
    BY <1>5, <2>1 DEF After, None
<1> QED
  BY <1>3, <1>4, <1>6, <1>7

(* A chain stays where each number leads.                                  *)
LEMMA ChainWithin ==
  ASSUME NEW next, NEW start, Len(next) \in Nat, NEW X, start \in X \cup {None},
         \A x \in X : x \in 1..Len(next) /\ next[x] \in X \cup {None}
  PROVE  \A i \in 0..Len(next) : Chain(next, start)[i] \in X \cup {None}
<1>1. PICK c : c = Chain(next, start)
  OBVIOUS
<1>2. /\ c[0] = start
      /\ \A i \in 1..Len(next) : c[i - 1] = None => c[i] = None
      /\ \A i \in 1..Len(next) :
           c[i - 1] \in 1..Len(next) => c[i] = next[c[i - 1]]
  BY <1>1, ChainItems
<1> DEFINE Bad == {n \in 0..Len(next) : c[n] \notin X \cup {None}}
<1>3. SUFFICES ASSUME Bad # {} PROVE FALSE
  BY <1>1
<1>4. PICK n \in Bad : \A m \in Bad : n <= m
  <2>1. Bad \subseteq Nat
    OBVIOUS
  <2> HIDE DEF Bad
  <2> QED
    BY <1>3, <2>1, LeastNumber
<1>5. n \in 0..Len(next) /\ c[n] \notin X \cup {None}
  OBVIOUS
<1>6. n # 0
  BY <1>2, <1>5
<1>7. n \in 1..Len(next) /\ n - 1 \in 0..Len(next) /\ ~(n <= n - 1)
  BY <1>5, <1>6
<1>8. c[n - 1] \in X \cup {None}
  BY <1>4, <1>7
<1> QED
  BY <1>2, <1>5, <1>7, <1>8

(* A chain of falling numbers ends in time.                                *)
LEMMA ChainFalls ==
  ASSUME NEW next, NEW start, Len(next) \in Nat, NEW X, start \in X \cup {None},
         \A x \in X : x \in 1..Len(next) /\ next[x] \in X \cup {None} /\ next[x] < x,
         NEW i \in 0..Len(next)
  PROVE  Chain(next, start)[i] # None => Chain(next, start)[i] <= Len(next) - i
<1>1. PICK c : c = Chain(next, start)
  OBVIOUS
<1>2. /\ c[0] = start
      /\ \A j \in 1..Len(next) : c[j - 1] = None => c[j] = None
      /\ \A j \in 1..Len(next) :
           c[j - 1] \in 1..Len(next) => c[j] = next[c[j - 1]]
  BY <1>1, ChainItems
<1>3. \A j \in 0..Len(next) : c[j] \in X \cup {None}
  BY <1>1, ChainWithin
<1> DEFINE Bad == {n \in 0..Len(next) : c[n] # None /\ ~(c[n] <= Len(next) - n)}
<1>4. SUFFICES ASSUME Bad # {} PROVE FALSE
  BY <1>1
<1>5. PICK n \in Bad : \A m \in Bad : n <= m
  <2>1. Bad \subseteq Nat
    OBVIOUS
  <2> HIDE DEF Bad
  <2> QED
    BY <1>4, <2>1, LeastNumber
<1>6. n \in 0..Len(next) /\ c[n] # None /\ ~(c[n] <= Len(next) - n) /\ c[n] \in X
  BY <1>3
<1>7. n # 0
  BY <1>2, <1>6
<1>8. n \in 1..Len(next) /\ n - 1 \in 0..Len(next) /\ ~(n <= n - 1)
  BY <1>6, <1>7
<1>9. c[n - 1] # None /\ c[n - 1] \in X /\ c[n] = next[c[n - 1]] /\ c[n] < c[n - 1]
  <2>1. c[n - 1] # None
    BY <1>2, <1>6, <1>8
  <2>2. c[n - 1] \in X
    BY <1>3, <1>8, <2>1
  <2> QED
    BY <1>2, <1>8, <2>1, <2>2
<1>10. c[n - 1] <= Len(next) - (n - 1)
  BY <1>5, <1>8, <1>9
<1>11. c[n - 1] \in 1..Len(next) /\ c[n] \in 1..Len(next)
  BY <1>6, <1>9
<1> QED
  BY <1>6, <1>8, <1>9, <1>10, <1>11

(* Mask frame m was pushed at a position of the stack.                     *)
LEMMA PushedAt ==
  ASSUME NEW S, NEW w \in Shadows(S), NEW g, MaskStack(w, g), NEW i \in 0..w.n,
         w.ms[i] # None
  PROVE  \E j \in 1..w.n : Kind(w, j) = "POPMASK" /\ w.ms[j] = w.ms[i]
<1>1. w.n \in Nat /\ w.ms[0] = None
  BY DEF Shadows, MaskStack
<1> DEFINE At0 == {j \in 0..w.n : w.ms[j] = w.ms[i]}
<1>2. PICK j \in At0 : \A m \in At0 : j <= m
  <2>1. At0 \subseteq Nat /\ i \in At0
    BY <1>1
  <2> HIDE DEF At0
  <2> QED
    BY <2>1, LeastNumber
<1>3. j \in 0..w.n /\ w.ms[j] = w.ms[i]
  OBVIOUS
<1>4. j \in 1..w.n /\ j - 1 \in 0..w.n /\ ~(j <= j - 1)
  BY <1>1, <1>3
<1>5. w.ms[j - 1] # w.ms[j]
  BY <1>2, <1>3, <1>4
<1>6. Kind(w, j) = "POPMASK"
  BY <1>4, <1>5 DEF MaskStack
<1> QED
  BY <1>3, <1>4, <1>6

MasksOf(w) == {w.ms[i] : i \in 0..w.n} \ {None}
Previous(g) == [m \in DOMAIN g.masks |-> g.masks[m].prev]

(* The mask frames of the stack are closed under prev, which falls.        *)
LEMMA PreviousFrames ==
  ASSUME NEW S, NEW w \in Shadows(S), NEW g, MaskStack(w, g),
         NEW X, X = MasksOf(w)
  PROVE  /\ Len(Previous(g)) = Len(g.masks) /\ Len(g.masks) \in Nat
         /\ \A m \in 1..Len(g.masks) : Previous(g)[m] = g.masks[m].prev
         /\ g.mask \in X \cup {None}
         /\ \A x \in X : /\ x \in 1..Len(Previous(g)) /\ Previous(g)[x] \in X \cup {None}
                         /\ Previous(g)[x] < x
<1>1. g.masks \in Seq(MaskFrames)
  BY DEF MaskStack
<1>2. Len(g.masks) \in Nat /\ DOMAIN g.masks = 1..Len(g.masks)
  BY <1>1
<1>3. \A m \in 1..Len(g.masks) : Previous(g)[m] = g.masks[m].prev
  BY <1>2 DEF Previous
<1>4. Previous(g) = [m \in 1..Len(g.masks) |-> g.masks[m].prev]
  BY <1>2 DEF Previous
<1>5. Previous(g) \in Seq(Nat)
  <2>1. ASSUME NEW m \in 1..Len(g.masks) PROVE g.masks[m].prev \in Nat
    <3>1. g.masks[m] \in MaskFrames
      BY <1>1
    <3> QED
      BY <3>1 DEF MaskFrames
  <2> QED
    BY <1>2, <1>4, <2>1
<1>6. Len(Previous(g)) = Len(g.masks)
  BY <1>2, <1>4, <1>5
<1>7. w.n \in Nat /\ \A i \in 0..w.n : w.ms[i] \in Nat
  BY DEF Shadows, Numbers
<1>8. g.mask \in X \cup {None}
  BY <1>7 DEF MaskStack, MasksOf
<1>9. ASSUME NEW x \in X
      PROVE  /\ x \in 1..Len(g.masks) /\ g.masks[x].prev \in X \cup {None}
             /\ g.masks[x].prev < x
  <2>1. PICK i \in 0..w.n : x = w.ms[i] /\ x # None
    BY DEF MasksOf
  <2>2. x \in Nat /\ x # None
    BY <1>7, <2>1
  <2>3. PICK j \in 1..w.n : Kind(w, j) = "POPMASK" /\ w.ms[j] = x
    BY <2>1, <2>2, PushedAt
  <2>4. g.masks[x].prev = w.ms[j - 1] /\ w.ms[j - 1] < x
    BY <2>3 DEF MaskStack
  <2>5. w.ms[j - 1] \in X \cup {None}
    BY <1>7 DEF MasksOf
  <2>6. x <= Len(g.masks)
    BY <2>1 DEF MaskStack
  <2> QED
    BY <1>2, <2>2, <2>4, <2>5, <2>6 DEF None
<1> QED
  BY <1>2, <1>3, <1>6, <1>8, <1>9

(* The mask frames from the top down are those of the stack.               *)
LEMMA FramesOnStack ==
  ASSUME NEW S, NEW w \in Shadows(S), NEW g, MaskStack(w, g), NEW m \in Frames(g)
  PROVE  \E i \in 0..w.n : m = w.ms[i] /\ m \in 1..g.mask
<1>1. PICK X : X = MasksOf(w)
  OBVIOUS
<1>2. /\ Len(Previous(g)) = Len(g.masks) /\ Len(g.masks) \in Nat
      /\ g.mask \in X \cup {None}
      /\ \A x \in X : x \in 1..Len(Previous(g)) /\ Previous(g)[x] \in X \cup {None}
  BY <1>1, PreviousFrames
<1>3. PICK c : c = Chain(Previous(g), g.mask)
  OBVIOUS
<1>4. \A i \in 0..Len(g.masks) : c[i] \in X \cup {None}
  <2>1. \A i \in 0..Len(Previous(g)) : Chain(Previous(g), g.mask)[i] \in X \cup {None}
    BY <1>2, ChainWithin
  <2> QED
    BY <1>2, <1>3, <2>1
<1>5. DOMAIN c = 0..Len(g.masks)
  BY <1>2, <1>3, ChainItems
<1>6. m \in Range(c) \ {None}
  BY <1>3 DEF Frames, Previous
<1>7. PICK i \in 0..Len(g.masks) : m = c[i]
  BY <1>5, <1>6 DEF Range
<1>8. m \in X
  BY <1>4, <1>6, <1>7
<1>9. PICK j \in 0..w.n : m = w.ms[j]
  BY <1>1, <1>8 DEF MasksOf
<1>10. m \in Nat /\ m # None /\ w.n \in Nat
  <2>1. w.n \in Nat /\ \A k \in Nat : w.ms[k] \in Nat
    BY DEF Shadows, Numbers
  <2> QED
    BY <1>6, <1>9, <2>1
<1>11. m <= g.mask /\ g.mask \in Nat
  <2>1. w.n \in 0..w.n /\ j <= w.n
    BY <1>10
  <2>2. w.ms[j] <= w.ms[w.n] /\ g.mask = w.ms[w.n]
    BY <2>1 DEF MaskStack
  <2>3. w.ms[w.n] \in Nat
    BY <1>10 DEF Shadows, Numbers
  <2> QED
    BY <1>9, <2>2, <2>3
<1> QED
  BY <1>9, <1>10, <1>11 DEF None

(* The mask frames of the stack are met from the top down.                 *)
LEMMA StackInFrames ==
  ASSUME NEW S, NEW w \in Shadows(S), NEW g, MaskStack(w, g), NEW i \in 0..w.n,
         w.ms[i] # None
  PROVE  w.ms[i] \in Frames(g)
<1>1. PICK X : X = MasksOf(w)
  OBVIOUS
<1>2. /\ Len(Previous(g)) = Len(g.masks) /\ Len(g.masks) \in Nat
      /\ \A m \in 1..Len(g.masks) : Previous(g)[m] = g.masks[m].prev
      /\ g.mask \in X \cup {None}
      /\ \A x \in X : /\ x \in 1..Len(Previous(g)) /\ Previous(g)[x] \in X \cup {None}
                      /\ Previous(g)[x] < x
  BY <1>1, PreviousFrames
<1>3. PICK c : c = Chain(Previous(g), g.mask)
  OBVIOUS
<1>4. /\ DOMAIN c = 0..Len(g.masks) /\ c[0] = g.mask
      /\ \A j \in 1..Len(g.masks) :
           c[j - 1] \in 1..Len(g.masks) => c[j] = g.masks[c[j - 1]].prev
  BY <1>2, <1>3, ChainItems
<1>5. \A j \in 0..Len(g.masks) : c[j] # None => c[j] <= Len(g.masks) - j
  BY <1>2, <1>3, ChainFalls
<1>6. w.n \in Nat /\ \A j \in 0..w.n : w.ms[j] \in Nat
  BY DEF Shadows, Numbers
<1> DEFINE Met(x) == \E y \in 0..Len(g.masks) : c[y] = x
           Bad == {j \in 0..w.n : w.ms[w.n - j] # None /\ ~Met(w.ms[w.n - j])}
<1>7. Bad = {}
  <2>1. SUFFICES ASSUME Bad # {} PROVE FALSE
    OBVIOUS
  <2>2. PICK j \in Bad : \A m \in Bad : j <= m
    <3>1. Bad \subseteq Nat
      OBVIOUS
    <3> HIDE DEF Bad
    <3> QED
      BY <2>1, <3>1, LeastNumber
  <2>3. j \in 0..w.n /\ w.ms[w.n - j] # None /\ ~Met(w.ms[w.n - j])
    OBVIOUS
  <2>4. j # 0
    <3>1. w.ms[w.n - 0] = g.mask /\ 0 \in 0..Len(g.masks)
      BY <1>2, <1>6 DEF MaskStack
    <3> QED
      BY <1>4, <2>3, <3>1
  <2>5. PICK k \in 1..w.n : k = w.n - (j - 1)
    BY <1>6, <2>3, <2>4
  <2>6. k - 1 = w.n - j /\ k - 1 \in 0..w.n /\ k \in 0..w.n /\ j - 1 \in 0..w.n /\ ~(j <= j - 1)
    BY <1>6, <2>3, <2>4, <2>5
  <2>7. w.ms[k - 1] <= w.ms[k] /\ w.ms[k] \in Nat /\ w.ms[k - 1] \in Nat /\ w.ms[k - 1] # None
    BY <1>6, <2>3, <2>6 DEF MaskStack
  <2>8. w.ms[k] # None
    BY <2>7 DEF None
  <2>9. Met(w.ms[k])
    BY <2>2, <2>5, <2>6, <2>8
  <2>10. Kind(w, k) = "POPMASK"
    BY <2>3, <2>6, <2>9 DEF MaskStack
  <2>11. g.masks[w.ms[k]].prev = w.ms[k - 1]
    BY <2>10 DEF MaskStack
  <2>12. PICK y \in 0..Len(g.masks) : c[y] = w.ms[k]
    BY <2>9
  <2>13. w.ms[k] <= Len(g.masks) - y /\ w.ms[k] \in 1..Len(g.masks)
    <3>1. w.ms[k] <= Len(g.masks)
      BY <2>6 DEF MaskStack
    <3> QED
      BY <1>2, <1>5, <2>7, <2>8, <2>12, <3>1 DEF None
  <2>14. PICK z \in 1..Len(g.masks) : z = y + 1
    BY <1>2, <2>12, <2>13
  <2>15. z - 1 = y /\ z \in 0..Len(g.masks)
    BY <2>12, <2>14
  <2>16. c[z] = w.ms[k - 1]
    BY <1>4, <2>11, <2>12, <2>13, <2>15
  <2> QED
    BY <2>3, <2>6, <2>15, <2>16
<1>8. Met(w.ms[i])
  <2>1. w.n - i \in 0..w.n /\ w.n - (w.n - i) = i
    BY <1>6
  <2>2. w.n - i \notin Bad
    BY <1>7
  <2> QED
    BY <2>1, <2>2
<1>9. w.ms[i] \in Range(c)
  BY <1>4, <1>8 DEF Range
<1> QED
  BY <1>3, <1>9 DEF Frames, Previous

(* What a restore function may suspend.                                    *)
LEMMA SuspendableFrame ==
  ASSUME NEW S, NEW w \in Shadows(S), NEW g, MaskStack(w, g), NEW m, Suspendable(g, m)
  PROVE  m \in 1..g.mask /\ g.masks[m].active /\ ~g.masks[m].suspended
<1>1. m \in Frames(g) /\ g.masks[m].active /\ ~g.masks[m].suspended
  BY DEF Suspendable, InForce
<1> QED
  BY <1>1, FramesOnStack

----------------------------------------------------------------------------
(* The steps, one by one.  First the terms.                                *)
LEMMA CurrentTerm ==
  ASSUME NEW T, NEW S, Plain(T, S), NEW w \in Shadows(S), NEW g, NEW l, NEW r, NEW last,
         Shape(T, S, w, g, l, r, last), g.mode = "code",
         NEW X, X = Allowed(T, S, g.exits), NEW t, t = g.cur.term, NEW env, env = g.cur.env
  PROVE  /\ t \in X /\ ClosedIn(t, X, T, S) /\ (g.exits = None => t.op # "defer")
         /\ env.mask \in w.user \cup {None}
         /\ \A x \in X : Closure(x, env) \in Closures(X, w.user)
         /\ \A x \in T : Closure(x, env) \in Closures(T, w.user)
         /\ \A x \in X : \A m : Closure(x, [env EXCEPT !.mask = m]) \in Closures(X, w.user \cup {m})
<1>1. g.cur \in Closures(X, w.user)
  BY ShapeControl
<1>2. t \in X /\ env \in [res : {None}, mask : w.user \cup {None}]
  BY <1>1 DEF Closures
<1>3. ClosedIn(t, X, T, S) /\ (g.exits = None => t.op # "defer")
  BY <1>2, AllowedTerms
<1>4. env.mask \in w.user \cup {None}
  BY <1>2
<1>5. \A Y : \A x \in Y : Closure(x, env) \in Closures(Y, w.user)
  BY <1>2 DEF Closure, Closures
<1>6. \A m : [env EXCEPT !.mask = m] \in [res : {None}, mask : (w.user \cup {m}) \cup {None}]
  BY <1>2
<1>7. \A x \in X : \A m : Closure(x, [env EXCEPT !.mask = m]) \in Closures(X, w.user \cup {m})
  BY <1>6 DEF Closure, Closures
<1> QED
  BY <1>2, <1>3, <1>4, <1>5, <1>7

(* The stack of the moment is one.                                         *)
LEMMA HasShapeNow ==
  ASSUME NEW T, NEW S, NEW w \in Shadows(S), NEW g, NEW l, NEW r, NEW last,
         Shape(T, S, w, g, l, r, last)
  PROVE  HasShape(T, S, g, l, r, last, w.user)
BY DEF HasShape

(* The machine has the shape of a stack before a step, and after it.       *)
Now(T, S, w) == w \in Shadows(S) /\ Shape(T, S, w, f, left, ran, raised)
Reached(T, S) == \E user : HasShape(T, S, f', left', ran', raised', user)

(* A step that changes the fiber only.                                     *)
LEMMA QuietStep ==
  ASSUME NEW T, NEW S, NEW user, HasShape(T, S, f', left, ran, raised, user), Quiet
  PROVE  Reached(T, S)
BY DEF Quiet, Reached

(* A value.                                                                *)
LEMMA StepPure ==
  ASSUME NEW T, NEW S, NEW w, Now(T, S, w), ExecPure
  PROVE  Reached(T, S)
<1>1. HasShape(T, S, f, left, ran, raised, w.user)
  BY HasShapeNow DEF Now
<1>2. HasShape(T, S, f', left, ran, raised, w.user)
  BY <1>1, DeliversOn DEF ExecPure
<1> QED
  BY <1>2, QuietStep DEF ExecPure

(* A choice.                                                               *)
LEMMA StepOneOf ==
  ASSUME NEW T, NEW S, Plain(T, S), NEW w, Now(T, S, w), ExecOneOf
  PROVE  Reached(T, S)
<1>1. /\ w \in Shadows(S) /\ Shape(T, S, w, f, left, ran, raised) /\ f.mode = "code"
      /\ Cur.op = "oneOf" /\ Quiet
  BY DEF Now, ExecOneOf, Executes
<1>2. PICK t \in Cur.terms : f' = Run(f, Closure(t, Env))
  BY DEF ExecOneOf
<1>3. HasShape(T, S, f, left, ran, raised, w.user)
  BY <1>1, HasShapeNow
<1>4. PICK X : X = Allowed(T, S, f.exits)
  OBVIOUS
<1>5. /\ ClosedIn(Cur, X, T, S)
      /\ \A x \in X : Closure(x, Env) \in Closures(X, w.user)
  BY <1>1, <1>4, CurrentTerm DEF Cur, Env
<1>6. Closure(t, Env) \in Closures(Allowed(T, S, f.exits), w.user)
  BY <1>1, <1>2, <1>4, <1>5 DEF ClosedIn
<1>7. HasShape(T, S, f', left, ran, raised, w.user)
  BY <1>2, <1>3, <1>6, RunsOn
<1> QED
  BY <1>1, <1>7, QuietStep

(* A neutral frame is pushed and a term run on top of it.                  *)
LEMMA PushRuns ==
  ASSUME NEW T, NEW S, Plain(T, S), NEW w \in Shadows(S), NEW g, NEW h, NEW l, NEW r, NEW last,
         NEW kind \in NeutralKinds, NEW action, NEW body, g.mode = "code",
         Shape(T, S, w, g, l, r, last), h = Run(Push(g, kind, None, action, NoState), body),
         \/ action \in Closures(Allowed(T, S, g.exits), w.user)
         \/ kind = "RETSCOPE" /\ action = Idle,
         body \in Closures(Allowed(T, S, g.exits), w.user)
  PROVE  HasShape(T, S, h, l, r, last, w.user)
<1>1. PICK d : d = Push(g, kind, None, action, NoState)
  OBVIOUS
<1>2. HasShape(T, S, d, l, r, last, w.user) /\ d.exits = g.exits
  BY <1>1, ShapePush
<1>3. h = Run(d, body) /\ body \in Closures(Allowed(T, S, d.exits), w.user)
  BY <1>1, <1>2, Zenon
<1> QED
  BY <1>2, <1>3, RunsOn

(* OP_THEN pushes its continuation.                                        *)
LEMMA StepThen ==
  ASSUME NEW T, NEW S, Plain(T, S), NEW w, Now(T, S, w), ExecThen
  PROVE  Reached(T, S)
<1>1. /\ w \in Shadows(S) /\ Shape(T, S, w, f, left, ran, raised) /\ f.mode = "code"
      /\ Cur.op = "then" /\ Quiet
      /\ f' = Run(Push(f, "THEN", None, Closure(Cur.n, Env), NoState), Closure(Cur.m, Env))
  BY DEF Now, ExecThen, Executes, Body
<1>2. PICK X : X = Allowed(T, S, f.exits)
  OBVIOUS
<1>3. /\ ClosedIn(Cur, X, T, S)
      /\ \A x \in X : Closure(x, Env) \in Closures(X, w.user)
  BY <1>1, <1>2, CurrentTerm DEF Cur, Env
<1>4. Cur.m \in X /\ Cur.n \in X
  BY <1>1, <1>3 DEF ClosedIn
<1>5. /\ Closure(Cur.n, Env) \in Closures(Allowed(T, S, f.exits), w.user)
      /\ Closure(Cur.m, Env) \in Closures(Allowed(T, S, f.exits), w.user)
  BY <1>2, <1>3, <1>4
<1>6. PICK kind \in NeutralKinds : kind = "THEN"
  BY DEF NeutralKinds
<1>7. HasShape(T, S, f', left, ran, raised, w.user)
  BY <1>1, <1>5, <1>6, PushRuns
<1> QED
  BY <1>1, <1>7, QuietStep

(* OP_CATCH pushes its handler.                                            *)
LEMMA StepCatch ==
  ASSUME NEW T, NEW S, Plain(T, S), NEW w, Now(T, S, w), ExecCatch
  PROVE  Reached(T, S)
<1>1. /\ w \in Shadows(S) /\ Shape(T, S, w, f, left, ran, raised) /\ f.mode = "code"
      /\ Cur.op = "catch" /\ Quiet
      /\ f' = Run(Push(f, "CATCH", None, Closure(Cur.h, Env), NoState), Closure(Cur.m, Env))
  BY DEF Now, ExecCatch, Executes, Body
<1>2. PICK X : X = Allowed(T, S, f.exits)
  OBVIOUS
<1>3. /\ ClosedIn(Cur, X, T, S)
      /\ \A x \in X : Closure(x, Env) \in Closures(X, w.user)
  BY <1>1, <1>2, CurrentTerm DEF Cur, Env
<1>4. Cur.m \in X /\ Cur.h \in X
  BY <1>1, <1>3 DEF ClosedIn
<1>5. /\ Closure(Cur.h, Env) \in Closures(Allowed(T, S, f.exits), w.user)
      /\ Closure(Cur.m, Env) \in Closures(Allowed(T, S, f.exits), w.user)
  BY <1>2, <1>3, <1>4
<1>6. PICK kind \in NeutralKinds : kind = "CATCH"
  BY DEF NeutralKinds
<1>7. HasShape(T, S, f', left, ran, raised, w.user)
  BY <1>1, <1>5, <1>6, PushRuns
<1> QED
  BY <1>1, <1>7, QuietStep

(* The body of a function pushes the frame its returns end at.             *)
LEMMA StepRetScope ==
  ASSUME NEW T, NEW S, Plain(T, S), NEW w, Now(T, S, w), ExecRetScope
  PROVE  Reached(T, S)
<1>1. /\ w \in Shadows(S) /\ Shape(T, S, w, f, left, ran, raised) /\ f.mode = "code"
      /\ Cur.op = "retscope" /\ Quiet
      /\ f' = Run(Push(f, "RETSCOPE", None, Idle, NoState), Closure(Cur.m, Env))
  BY DEF Now, ExecRetScope, Executes, Body
<1>2. PICK X : X = Allowed(T, S, f.exits)
  OBVIOUS
<1>3. /\ ClosedIn(Cur, X, T, S)
      /\ \A x \in X : Closure(x, Env) \in Closures(X, w.user)
  BY <1>1, <1>2, CurrentTerm DEF Cur, Env
<1>4. Cur.m \in X
  BY <1>1, <1>3 DEF ClosedIn
<1>5. Closure(Cur.m, Env) \in Closures(Allowed(T, S, f.exits), w.user)
  BY <1>2, <1>3, <1>4
<1>6. PICK kind \in NeutralKinds : kind = "RETSCOPE"
  BY DEF NeutralKinds
<1>7. HasShape(T, S, f', left, ran, raised, w.user)
  BY <1>1, <1>5, <1>6, PushRuns
<1> QED
  BY <1>1, <1>7, QuietStep

(* OP_WHILE pushes the frame of the loop.                                  *)
LEMMA StepWhile ==
  ASSUME NEW T, NEW S, Plain(T, S), NEW w, Now(T, S, w), ExecWhile
  PROVE  Reached(T, S)
<1>1. /\ w \in Shadows(S) /\ Shape(T, S, w, f, left, ran, raised) /\ f.mode = "code"
      /\ Cur.op = "while" /\ Quiet
  BY DEF Now, ExecWhile, Executes
<1>2. PICK t : t = Then(Cur.cond, [op |-> "branch", m |-> Cur.m])
  OBVIOUS
<1>3. f' = Run(Push(f, "LOOP", None, Closure(t, Env), NoState), Closure(t, Env))
  BY <1>2 DEF ExecWhile
<1>4. PICK X : X = Allowed(T, S, f.exits)
  OBVIOUS
<1>5. /\ ClosedIn(Cur, X, T, S)
      /\ \A x \in X : Closure(x, Env) \in Closures(X, w.user)
  BY <1>1, <1>4, CurrentTerm DEF Cur, Env
<1>6. t \in X
  BY <1>1, <1>2, <1>5 DEF ClosedIn
<1>7. Closure(t, Env) \in Closures(Allowed(T, S, f.exits), w.user)
  BY <1>4, <1>5, <1>6
<1>8. PICK kind \in NeutralKinds : kind = "LOOP"
  BY DEF NeutralKinds
<1>9. HasShape(T, S, f', left, ran, raised, w.user)
  BY <1>1, <1>3, <1>7, <1>8, PushRuns
<1> QED
  BY <1>1, <1>9, QuietStep

(* A loop goes on or is left.                                              *)
LEMMA StepBranch ==
  ASSUME NEW T, NEW S, Plain(T, S), NEW w, Now(T, S, w), ExecBranch
  PROVE  Reached(T, S)
<1>1. /\ w \in Shadows(S) /\ Shape(T, S, w, f, left, ran, raised) /\ f.mode = "code"
      /\ Cur.op = "branch" /\ Quiet
  BY DEF Now, ExecBranch, Executes
<1>2. PICK X : X = Allowed(T, S, f.exits)
  OBVIOUS
<1>3. /\ ClosedIn(Cur, X, T, S)
      /\ \A x \in X : Closure(x, Env) \in Closures(X, w.user)
  BY <1>1, <1>2, CurrentTerm DEF Cur, Env
<1>4. DoScope(Cur.m) \in X /\ Break \in X
  BY <1>1, <1>2, <1>3, AllowedTerms DEF ClosedIn, Plain
<1>5. PICK t \in X : f' = Run(f, Closure(t, Env))
  BY <1>4 DEF ExecBranch
<1>6. Closure(t, Env) \in Closures(Allowed(T, S, f.exits), w.user)
  BY <1>2, <1>3
<1>7. HasShape(T, S, f, left, ran, raised, w.user)
  BY <1>1, HasShapeNow
<1>8. HasShape(T, S, f', left, ran, raised, w.user)
  BY <1>5, <1>6, <1>7, RunsOn
<1> QED
  BY <1>1, <1>8, QuietStep

(* A failure arises.                                                       *)
LEMMA StepThrow ==
  ASSUME NEW T, NEW S, NEW w, Now(T, S, w), ExecThrow
  PROVE  Reached(T, S)
<1>1. HasShape(T, S, f, left, ran, raised, w.user)
  BY HasShapeNow DEF Now
<1>2. /\ raised' = raised + 1 /\ f' = Unwind(f, Raised("fail", raised + 1))
      /\ ran' = ran /\ left' = left
  BY DEF ExecThrow
<1>3. HasShape(T, S, f', left, ran, raised', w.user)
  BY <1>1, <1>2, UnwindsOn
<1> QED
  BY <1>2, <1>3 DEF Reached

(* A reason without a cause unwinds.                                       *)
LEMMA StepUnwind ==
  ASSUME NEW T, NEW S, NEW w, Now(T, S, w), NEW why, Quietly(why), f' = Unwind(f, why), Quiet
  PROVE  Reached(T, S)
<1>1. HasShape(T, S, f, left, ran, raised, w.user)
  BY HasShapeNow DEF Now
<1>2. HasShape(T, S, f', left, ran, raised, w.user)
  BY <1>1, UnwindsOn
<1> QED
  BY <1>2, QuietStep

(* Return, break and continue.                                             *)
LEMMA StepLeaves ==
  ASSUME NEW T, NEW S, NEW w, Now(T, S, w), ExecReturn \/ ExecBreak \/ ExecContinue
  PROVE  Reached(T, S)
<1>1. CASE ExecReturn
  BY <1>1, StepUnwind, QuietReasons DEF ExecReturn
<1>2. CASE ExecBreak
  BY <1>2, StepUnwind, QuietReasons DEF ExecBreak
<1>3. CASE ExecContinue
  BY <1>3, StepUnwind, QuietReasons DEF ExecContinue
<1> QED
  BY <1>1, <1>2, <1>3

(* An interrupt is delivered.                                              *)
LEMMA StepInterrupt ==
  ASSUME NEW T, NEW S, NEW g, NEW user, HasShape(T, S, g, left, ran, raised, user),
         DeliverInterrupt(g)
  PROVE  Reached(T, S)
<1>1. /\ raised' = raised + 1 /\ f' = Unwind(g, Raised("interrupt", raised + 1))
      /\ ran' = ran /\ left' = left
  BY DEF DeliverInterrupt
<1>2. HasShape(T, S, f', left, ran, raised', user)
  BY <1>1, UnwindsOn
<1> QED
  BY <1>1, <1>2 DEF Reached

(* Operations that may deliver an interrupt.                               *)
LEMMA StepDeliveryPoint ==
  ASSUME NEW T, NEW S, NEW w, Now(T, S, w), ExecAwait \/ ExecPoll
  PROVE  Reached(T, S)
<1>1. HasShape(T, S, f, left, ran, raised, w.user)
  BY HasShapeNow DEF Now
<1>2. DeliverInterrupt(f) \/ (f' = Deliver(f) /\ Quiet)
  BY DEF ExecAwait, ExecPoll
<1>3. CASE f' = Deliver(f) /\ Quiet
  <2>1. HasShape(T, S, f', left, ran, raised, w.user)
    BY <1>1, <1>3, DeliversOn
  <2> QED
    BY <1>3, <2>1, QuietStep
<1> QED
  BY <1>1, <1>2, <1>3, StepInterrupt

(* OP_MASK and OP_UNINTERRUPTIBLE_MASK.                                    *)
LEMMA StepMask ==
  ASSUME NEW T, NEW S, Plain(T, S), NEW w, Now(T, S, w), ExecMask
  PROVE  Reached(T, S)
<1>1. /\ w \in Shadows(S) /\ Shape(T, S, w, f, left, ran, raised) /\ f.mode = "code"
      /\ Cur.op = "mask" /\ Quiet
  BY DEF Now, ExecMask, Executes
<1>2. PICK X : X = Allowed(T, S, f.exits)
  OBVIOUS
<1>3. /\ ClosedIn(Cur, X, T, S)
      /\ \A x \in X : \A m : Closure(x, [Env EXCEPT !.mask = m]) \in Closures(X, w.user \cup {m})
  BY <1>1, <1>2, CurrentTerm DEF Cur, Env
<1>4. Cur.m \in X /\ Cur.state \in 0..2
  BY <1>1, <1>3 DEF ClosedIn, Masked, Uninterruptible
<1>5. PICK state \in 0..2 : state = Cur.state
  BY <1>4
<1>6. PICK d : d = PushMask(f, state)
  OBVIOUS
<1>7. PICK h : h = Push(d, "POPMASK", d.mask, Idle, NoState)
  OBVIOUS
<1>8. /\ HasShape(T, S, h, left, ran, raised, w.user \cup {d.mask})
      /\ h.exits = f.exits /\ d.mask \in Nat
  BY <1>1, <1>6, <1>7, ShapeMask
<1>9. PICK body : body = Closure(Cur.m, [Env EXCEPT !.mask = d.mask])
  OBVIOUS
<1>10. f' = Run(h, body)
  BY <1>5, <1>6, <1>7, <1>9 DEF ExecMask
<1>11. body \in Closures(Allowed(T, S, h.exits), w.user \cup {d.mask})
  BY <1>2, <1>3, <1>4, <1>8, <1>9
<1>12. HasShape(T, S, f', left, ran, raised, w.user \cup {d.mask})
  BY <1>8, <1>10, <1>11, RunsOn
<1> QED
  BY <1>1, <1>12, QuietStep

(* OP_RESTORE: a frame it may suspend is one of the stack, and not one     *)
(* that masks exit actions.                                                *)
LEMMA StepRestore ==
  ASSUME NEW T, NEW S, Plain(T, S), NEW w, Now(T, S, w), ExecRestore
  PROVE  Reached(T, S)
<1>1. /\ w \in Shadows(S) /\ Shape(T, S, w, f, left, ran, raised) /\ f.mode = "code"
      /\ Cur.op = "restore"
  BY DEF Now, ExecRestore, Executes
<1>2. PICK X : X = Allowed(T, S, f.exits)
  OBVIOUS
<1>3. /\ ClosedIn(Cur, X, T, S) /\ Env.mask \in w.user \cup {None}
      /\ \A x \in X : Closure(x, Env) \in Closures(X, w.user)
  BY <1>1, <1>2, CurrentTerm DEF Cur, Env
<1>4. Cur.m \in X
  BY <1>1, <1>3 DEF ClosedIn
<1>5. PICK m : m = Env.mask
  OBVIOUS
<1>6. PICK g : g = IF Suspendable(f, m)
                   THEN Push([f EXCEPT !.masks[m].suspended = TRUE], "SETMASK", m, Idle, NoState)
                   ELSE f
  OBVIOUS
<1>7. DeliverInterrupt(g) \/ (f' = Run(g, Body) /\ Quiet)
  BY <1>5, <1>6 DEF ExecRestore
<1>8. HasShape(T, S, g, left, ran, raised, w.user) /\ g.exits = f.exits
  <2>1. CASE Suspendable(f, m)
    <3>1. MaskStack(w, f)
      BY <1>1, ShapeControl DEF Frame
    <3>2. m \in 1..f.mask /\ f.masks[m].active /\ ~f.masks[m].suspended
      BY <1>1, <2>1, <3>1, SuspendableFrame
    <3>3. f.mask \in Nat
      <4>1. Frame(T, S, w, f, left, ran)
        BY <1>1, ShapeControl
      <4> QED
        BY <1>1, <4>1, FrameTypes
    <3>4. m \in w.user
      BY <1>3, <1>5, <3>2, <3>3 DEF None
    <3>5. PICK d : d = [f EXCEPT !.masks[m].suspended = TRUE]
      OBVIOUS
    <3>6. g = Push(d, "SETMASK", m, Idle, NoState)
      BY <1>6, <2>1, <3>5
    <3> QED
      BY <1>1, <3>2, <3>4, <3>5, <3>6, ShapeSuspend
  <2>2. CASE ~Suspendable(f, m)
    BY <1>1, <1>6, <2>2, HasShapeNow
  <2> QED
    BY <2>1, <2>2
<1>9. CASE f' = Run(g, Body) /\ Quiet
  <2>1. Body \in Closures(Allowed(T, S, g.exits), w.user)
    BY <1>2, <1>3, <1>4, <1>8 DEF Body
  <2>2. HasShape(T, S, f', left, ran, raised, w.user)
    BY <1>8, <1>9, <2>1, RunsOn
  <2> QED
    BY <1>9, <2>2, QuietStep
<1> QED
  BY <1>7, <1>8, <1>9, StepInterrupt

(* OP_DOSCOPE.                                                             *)
LEMMA StepDoScope ==
  ASSUME NEW T, NEW S, Plain(T, S), NEW w, Now(T, S, w), ExecDoScope
  PROVE  Reached(T, S)
<1>1. /\ w \in Shadows(S) /\ Shape(T, S, w, f, left, ran, raised) /\ f.mode = "code"
      /\ Cur.op = "doscope" /\ Quiet
  BY DEF Now, ExecDoScope, Executes
<1>2. PICK X : X = Allowed(T, S, f.exits)
  OBVIOUS
<1>3. /\ Cur \in X /\ ClosedIn(Cur, X, T, S)
      /\ \A x \in X : Closure(x, Env) \in Closures(X, w.user)
  BY <1>1, <1>2, CurrentTerm DEF Cur, Env
<1>4. Cur.m \in S
  BY <1>1, <1>3 DEF ClosedIn
<1>5. PICK d : d = Entered(f)
  OBVIOUS
<1>6. PICK h : h = Push(d, "DOSCOPE", d.exits, Idle, Captured(f))
  OBVIOUS
<1>7. HasShape(T, S, h, left, ran, raised, w.user) /\ h.exits # None
  BY <1>1, <1>5, <1>6, ShapeEnter
<1>8. f' = Run(h, Body)
  BY <1>5, <1>6 DEF ExecDoScope, Entered
<1>9. Body \in Closures(Allowed(T, S, h.exits), w.user)
  <2>1. Allowed(T, S, h.exits) = S
    BY <1>7 DEF Allowed
  <2>2. f.cur \in Closures(X, w.user)
    BY <1>1, <1>2, ShapeControl
  <2>3. Closure(Cur.m, Env) \in Closures(S, w.user)
    BY <1>4, <2>2 DEF Closures, Closure, Env
  <2> QED
    BY <2>1, <2>3 DEF Body
<1>10. HasShape(T, S, f', left, ran, raised, w.user)
  BY <1>7, <1>8, <1>9, RunsOn
<1> QED
  BY <1>1, <1>10, QuietStep

(* OP_DEFER: there is a scope, and the exit action may run in the one      *)
(* around it.                                                              *)
LEMMA StepDefer ==
  ASSUME NEW T, NEW S, Plain(T, S), NEW w, Now(T, S, w), ExecDefer
  PROVE  Reached(T, S)
<1>1. /\ w \in Shadows(S) /\ Shape(T, S, w, f, left, ran, raised) /\ f.mode = "code"
      /\ Cur.op = "defer" /\ ran' = Append(ran, 0) /\ left' = left /\ raised' = raised
  BY DEF Now, ExecDefer, Executes
<1>2. PICK X : X = Allowed(T, S, f.exits)
  OBVIOUS
<1>3. /\ ClosedIn(Cur, X, T, S) /\ (f.exits = None => Cur.op # "defer")
      /\ \A x \in T : Closure(x, Env) \in Closures(T, w.user)
  BY <1>1, <1>2, CurrentTerm DEF Cur, Env
<1>4. Cur.fin \in T /\ f.exits # None
  BY <1>1, <1>3 DEF ClosedIn
<1>5. PICK action : action = Closure(Cur.fin, Env)
  OBVIOUS
<1>6. action \in Closures(T, w.user) /\ action \in Closures(T, Nat)
  <2>1. action \in Closures(T, w.user)
    BY <1>3, <1>4, <1>5
  <2>2. w.user \subseteq Nat
    BY <1>1 DEF Shadows
  <2>3. Closures(T, w.user) \subseteq Closures(T, Nat)
    BY <2>2, MoreClosures
  <2> QED
    BY <2>1, <2>3
<1>7. PICK item : item = [n |-> Len(ran) + 1, action |-> action]
  OBVIOUS
<1>8. item \in ItemTypes(T) /\ item.n = Len(ran) + 1 /\ item.action = action
  <2>1. ran \in Seq(0..1)
    BY <1>1, ShapeControl DEF Frame, ExitActions
  <2>2. Len(ran) + 1 \in Nat
    BY <2>1
  <2> QED
    BY <1>6, <1>7, <2>2 DEF ItemTypes
<1>9. PICK d : d = Deferred(f, item)
  OBVIOUS
<1>10. f' = Deliver(d)
  BY <1>4, <1>5, <1>7, <1>9 DEF ExecDefer, Deferred
<1>11. HasShape(T, S, f', left, ran', raised, w.user)
  BY <1>1, <1>4, <1>6, <1>8, <1>9, <1>10, ShapeDefer
<1> QED
  BY <1>1, <1>11 DEF Reached

(* Then the frames.  A cell that is popped has been left.                  *)
LEMMA LeftStep ==
  ASSUME NEW T, NEW S, NEW h, NEW l, NEW k, NEW r, NEW last, NEW user, NEW p, k # None,
         HasShape(T, S, h, l \cup {k}, r, last, user), p = l \cup ({k} \ {h.k})
  PROVE  HasShape(T, S, h, p, r, last, user)
<1>1. PICK v \in Shadows(S) : Shape(T, S, v, h, l \cup {k}, r, last) /\ v.user = user
  BY DEF HasShape
<1>2. Links(S, v, h, l \cup {k}) /\ v.n \in Nat
  BY <1>1 DEF Shape, Frame, Shadows
<1>3. Links(S, v, h, p)
  <2>1. ASSUME NEW c \in 1..Len(h.heap)
        PROVE  c \in p \/ \E i \in 1..v.n : v.st[i] = c
    <3>1. c \in l \cup {k} \/ \E i \in 1..v.n : v.st[i] = c
      BY <1>2 DEF Links
    <3>2. ASSUME c = k, k = h.k
          PROVE  \E i \in 1..v.n : v.st[i] = c
      <4>1. v.st[v.n] = c /\ v.st[0] = None
        BY <1>2, <3>2 DEF Links
      <4>2. v.n \in 1..v.n
        BY <1>2, <3>2, <4>1
      <4> QED
        BY <4>1, <4>2
    <3> QED
      BY <3>1, <3>2
  <2> QED
    BY <1>2, <2>1 DEF Links
<1>4. Shape(T, S, v, h, p, r, last)
  BY <1>1, <1>3 DEF Shape, Frame
<1> QED
  BY <1>1, <1>4, Zenon DEF HasShape

(* A step that passes the topmost frame.                                   *)
LEMMA PassStep ==
  ASSUME NEW T, NEW S, NEW user, f.k # None,
         HasShape(T, S, f', left \cup {f.k}, ran, raised, user), Passes
  PROVE  Reached(T, S)
<1>1. left' = left \cup ({f.k} \ {f'.k}) /\ ran' = ran /\ raised' = raised
  BY DEF Passes, Pops
<1>2. HasShape(T, S, f', left', ran, raised, user)
  <2>1. PICK p, h, k : p = left' /\ h = f' /\ k = f.k
    OBVIOUS
  <2>2. HasShape(T, S, h, left \cup {k}, ran, raised, user) /\ p = left \cup ({k} \ {h.k})
    BY <1>1, <2>1
  <2>3. k # None
    BY <2>1
  <2>4. HasShape(T, S, h, p, ran, raised, user)
    BY <2>2, <2>3, LeftStep, ZenonT(60)
  <2> QED
    BY <2>1, <2>4
<1> QED
  BY <1>1, <1>2 DEF Reached

(* The topmost frame is that of the stack.                                 *)
LEMMA AtTop ==
  ASSUME NEW T, NEW S, NEW w, Now(T, S, w), NEW mode, NEW kind, At(mode, kind)
  PROVE  /\ w \in Shadows(S) /\ Shape(T, S, w, f, left, ran, raised)
         /\ w.n > 0 /\ f.k # None /\ f.mode = mode
         /\ Top = w.fr[w.n] /\ Kind(w, w.n) = kind /\ Top.ref = Ref(w, w.n)
         /\ kind \in FrameKinds
<1>1. /\ w \in Shadows(S) /\ Shape(T, S, w, f, left, ran, raised)
      /\ f.mode = mode /\ f.k # None /\ Top.kind = kind
  BY DEF Now, At
<1>2. w.n > 0 /\ f.heap[f.k] = w.fr[w.n] /\ f.heap[f.k].kind \in FrameKinds
  BY <1>1, ShapeTop
<1> QED
  BY <1>1, <1>2 DEF Top, Kind, Ref

(* A neutral frame is popped.                                              *)
LEMMA StepPops ==
  ASSUME NEW T, NEW S, NEW w, Now(T, S, w), NEW mode \in {"value", "unwind"},
         NEW kind \in NeutralKinds, At(mode, kind), NEW h, h = Pop(f)
  PROVE  /\ HasShape(T, S, h, left \cup {f.k}, ran, raised, w.user) /\ h.exits = f.exits
         /\ f.k # None
         /\ kind \in CodeKinds => Top.action \in Closures(Allowed(T, S, f.exits), w.user)
<1>1. /\ w \in Shadows(S) /\ Shape(T, S, w, f, left, ran, raised)
      /\ w.n > 0 /\ f.k # None /\ f.mode = mode /\ Top = w.fr[w.n] /\ Kind(w, w.n) = kind
  BY AtTop
<1>2. HasShape(T, S, h, left \cup {f.k}, ran, raised, w.user) /\ h.exits = f.exits
  BY <1>1, ShapePop
<1>3. kind \in CodeKinds => Top.action \in Closures(Allowed(T, S, f.exits), w.user)
  BY <1>1, TopAction
<1> QED
  BY <1>1, <1>2, <1>3

(* A neutral frame is popped and its code run.                             *)
LEMMA StepPopRuns ==
  ASSUME NEW T, NEW S, NEW w, Now(T, S, w), NEW mode \in {"value", "unwind"},
         NEW kind \in {"THEN", "CATCH"}, At(mode, kind), f' = Run(Pop(f), Top.action), Passes
  PROVE  Reached(T, S)
<1>1. PICK h : h = Pop(f)
  OBVIOUS
<1>2. kind \in NeutralKinds /\ kind \in CodeKinds
  BY DEF NeutralKinds, CodeKinds
<1>3. /\ HasShape(T, S, h, left \cup {f.k}, ran, raised, w.user) /\ h.exits = f.exits
      /\ f.k # None /\ Top.action \in Closures(Allowed(T, S, f.exits), w.user)
  BY <1>1, <1>2, StepPops
<1>4. HasShape(T, S, f', left \cup {f.k}, ran, raised, w.user)
  BY <1>1, <1>3, RunsOn
<1> QED
  BY <1>3, <1>4, PassStep

(* A neutral frame is popped and nothing run.                              *)
LEMMA StepPopOnly ==
  ASSUME NEW T, NEW S, NEW w, Now(T, S, w), NEW mode \in {"value", "unwind"},
         NEW kind \in NeutralKinds, At(mode, kind), f' = Pop(f) \/ f' = Deliver(Pop(f)), Passes
  PROVE  Reached(T, S)
<1>1. PICK h : h = Pop(f)
  OBVIOUS
<1>2. HasShape(T, S, h, left \cup {f.k}, ran, raised, w.user) /\ f.k # None
  BY <1>1, StepPops
<1>3. HasShape(T, S, f', left \cup {f.k}, ran, raised, w.user)
  BY <1>1, <1>2, DeliversOn
<1> QED
  BY <1>2, <1>3, PassStep

(* The frames that are neither about masks nor about scopes.               *)
LEMMA StepNeutral ==
  ASSUME NEW T, NEW S, NEW w, Now(T, S, w),
         \/ DeliverThen \/ DeliverCatch \/ DeliverRetScope
         \/ UnwindThen \/ UnwindCatch \/ UnwindRetScope \/ UnwindLoop
  PROVE  Reached(T, S)
<1>1. CASE DeliverThen
  BY <1>1, StepPopRuns DEF DeliverThen
<1>2. CASE DeliverCatch
  BY <1>2, StepPopOnly DEF DeliverCatch, NeutralKinds
<1>3. CASE DeliverRetScope
  BY <1>3, StepPopOnly DEF DeliverRetScope, NeutralKinds
<1>4. CASE UnwindThen
  BY <1>4, StepPopOnly DEF UnwindThen, NeutralKinds
<1>5. CASE UnwindCatch
  <2>1. CASE Catches(f.why)
    BY <1>5, <2>1, StepPopRuns DEF UnwindCatch
  <2>2. CASE ~Catches(f.why)
    BY <1>5, <2>2, StepPopOnly DEF UnwindCatch, NeutralKinds
  <2> QED
    BY <2>1, <2>2
<1>6. CASE UnwindRetScope
  BY <1>6, StepPopOnly DEF UnwindRetScope, NeutralKinds
<1>7. CASE UnwindLoop
  BY <1>7, StepPopOnly DEF UnwindLoop, NeutralKinds
<1> QED
  BY <1>1, <1>2, <1>3, <1>4, <1>5, <1>6, <1>7

(* The next iteration of a loop.                                           *)
LEMMA StepBackEdge ==
  ASSUME NEW T, NEW S, NEW w, Now(T, S, w), BackEdge
  PROVE  Reached(T, S)
<1>1. PICK mode : At(mode, "LOOP")
  BY DEF BackEdge
<1>2. HasShape(T, S, f, left, ran, raised, w.user)
  BY HasShapeNow DEF Now
<1>3. /\ w \in Shadows(S) /\ Shape(T, S, w, f, left, ran, raised) /\ w.n > 0
      /\ Top = w.fr[w.n] /\ Kind(w, w.n) = "LOOP"
  BY <1>1, AtTop
<1>4. Top.action \in Closures(Allowed(T, S, f.exits), w.user)
  BY <1>3, TopAction DEF CodeKinds
<1>5. DeliverInterrupt(f) \/ (f' = Run(f, Top.action) /\ Quiet)
  BY DEF BackEdge
<1>6. CASE f' = Run(f, Top.action) /\ Quiet
  <2>1. HasShape(T, S, f', left, ran, raised, w.user)
    BY <1>2, <1>4, <1>6, RunsOn
  <2> QED
    BY <1>6, <2>1, QuietStep
<1> QED
  BY <1>2, <1>5, <1>6, StepInterrupt

(* A masked or a restored region is left.                                  *)
LEMMA StepUnmask ==
  ASSUME NEW T, NEW S, NEW w, Now(T, S, w), LeaveMask \/ LeaveRestore
  PROVE  Reached(T, S)
<1>1. PICK d : d = Pop(f)
  OBVIOUS
<1>2. PICK p : p = left \cup {f.k}
  OBVIOUS
<1>3. CASE LeaveMask
  <2>1. PICK mode \in {"value", "unwind"} : At(mode, "POPMASK")
    BY <1>3 DEF LeaveMask
  <2>2. /\ w \in Shadows(S) /\ Shape(T, S, w, f, left, ran, raised) /\ w.n > 0
        /\ f.k # None /\ f.mode = mode /\ Kind(w, w.n) = "POPMASK" /\ Top.ref = Ref(w, w.n)
    BY <2>1, AtTop
  <2>3. f' = PopMask(d, Ref(w, w.n)) /\ Passes
    BY <1>1, <1>3, <2>2 DEF LeaveMask
  <2>4. HasShape(T, S, f', p, ran, raised, w.user)
    BY <1>1, <1>2, <2>2, <2>3, ShapeUnmask
  <2> QED
    BY <1>2, <2>2, <2>3, <2>4, PassStep
<1>4. CASE LeaveRestore
  <2>1. PICK mode \in {"value", "unwind"} : At(mode, "SETMASK")
    BY <1>4 DEF LeaveRestore
  <2>2. /\ w \in Shadows(S) /\ Shape(T, S, w, f, left, ran, raised) /\ w.n > 0
        /\ f.k # None /\ f.mode = mode /\ Kind(w, w.n) = "SETMASK" /\ Top.ref = Ref(w, w.n)
    BY <2>1, AtTop
  <2>3. f' = Reinstate(d, Ref(w, w.n)) /\ Passes
    BY <1>1, <1>4, <2>2 DEF LeaveRestore
  <2>4. HasShape(T, S, f', p, ran, raised, w.user)
    BY <1>1, <1>2, <2>2, <2>3, ShapeReinstate
  <2> QED
    BY <1>2, <2>2, <2>3, <2>4, PassStep
<1> QED
  BY <1>3, <1>4

(* A do-scope is left.                                                     *)
LEMMA StepScope ==
  ASSUME NEW T, NEW S, Plain(T, S), NEW w, Now(T, S, w), LeaveScope
  PROVE  Reached(T, S)
<1>1. PICK p : p = left \cup {f.k}
  OBVIOUS
<1>2. PICK mode \in {"value", "unwind"} : At(mode, "DOSCOPE")
  BY DEF LeaveScope
<1>3. /\ w \in Shadows(S) /\ Shape(T, S, w, f, left, ran, raised) /\ w.n > 0
      /\ f.k # None /\ f.mode = mode /\ Kind(w, w.n) = "DOSCOPE" /\ Top.ref = Ref(w, w.n)
      /\ Top = w.fr[w.n]
  BY <1>2, AtTop
<1>4. f.why.kind # "drain"
  <2>1. f.why \in Reasons
    BY <1>3, ShapeControl DEF Causes
  <2> QED
    BY <2>1 DEF Reasons
<1>5. PICK why : /\ why = f.why \/ why = Normal
                 /\ f' = BeginFinseq(Pop(f), Top.ref, Top.state.exits, why, None)
  BY <1>4 DEF LeaveScope
<1>6. why = f.why \/ Quietly(why)
  BY <1>5, QuietReasons
<1>7. f' = BeginFinseq(Pop(f), Ref(w, w.n), w.fr[w.n].state.exits, why, None)
  BY <1>3, <1>5
<1>8. HasShape(T, S, f', p, ran, raised, w.user)
  BY <1>1, <1>3, <1>6, <1>7, ShapeScope
<1>9. Passes
  BY DEF LeaveScope
<1> QED
  BY <1>1, <1>3, <1>8, <1>9, PassStep

(* An exit action is started.                                              *)
LEMMA StepRunExit ==
  ASSUME NEW T, NEW S, Plain(T, S), NEW w, Now(T, S, w), RunExit
  PROVE  Reached(T, S)
<1>1. At("value", "FINSEQ")
  BY DEF RunExit
<1>2. /\ w \in Shadows(S) /\ Shape(T, S, w, f, left, ran, raised) /\ w.n > 0
      /\ Kind(w, w.n) = "FINSEQ" /\ Top.ref = Ref(w, w.n)
  BY <1>1, AtTop
<1>3. PICK ref : ref = Ref(w, w.n)
  OBVIOUS
<1>4. PICK d : d = Started(f, ref)
  OBVIOUS
<1>5. PICK action : action = Items(f, f.fins[ref].xs)[f.fins[ref].i].action
  OBVIOUS
<1>6. /\ f.fins[ref].i > 0 /\ f' = Run(d, action) /\ Counts(f, ref, ran, ran')
      /\ left' = left /\ raised' = raised
  BY <1>2, <1>3, <1>4, <1>5 DEF RunExit, Started, NextExit, Items, Counts, NextNumber
<1>7. PICK q, h : q = ran' /\ h = f'
  OBVIOUS
<1>8. h = Run(d, action) /\ Counts(f, ref, ran, q)
  BY <1>6, <1>7
<1>9. HasShape(T, S, h, left, q, raised, w.user)
  BY <1>2, <1>3, <1>4, <1>5, <1>6, <1>8, ShapeStart
<1> QED
  BY <1>6, <1>7, <1>9 DEF Reached

(* A sequence of exit actions ends.                                        *)
LEMMA StepEndExits ==
  ASSUME NEW T, NEW S, NEW w, Now(T, S, w), EndExits
  PROVE  Reached(T, S)
<1>1. At("value", "FINSEQ") /\ Passes
  BY DEF EndExits
<1>2. /\ w \in Shadows(S) /\ Shape(T, S, w, f, left, ran, raised) /\ w.n > 0
      /\ f.k # None /\ f.mode = "value" /\ Kind(w, w.n) = "FINSEQ" /\ Top.ref = Ref(w, w.n)
  BY <1>1, AtTop
<1>3. PICK ref : ref = Ref(w, w.n)
  OBVIOUS
<1>4. f.fins[ref] \in Sequences
  <2>1. Frame(T, S, w, f, left, ran)
    BY <1>2, ShapeControl
  <2> QED
    BY <1>2, <1>3, <2>1, TopSequence
<1>5. f.fins[ref].ae = None
  BY <1>4 DEF Sequences
<1>6. PICK d, why, p : d = Pop(f) /\ why = f.fins[ref].why /\ p = left \cup {f.k}
  OBVIOUS
<1>7. f.fins[Ref(w, w.n)].i = 0 /\ why = f.fins[Ref(w, w.n)].why /\ f' = Apply(d, why)
  BY <1>2, <1>3, <1>5, <1>6 DEF EndExits
<1>8. HasShape(T, S, f', p, ran, raised, w.user)
  BY <1>2, <1>6, <1>7, ShapeEnd
<1> QED
  BY <1>1, <1>2, <1>6, <1>8, PassStep

(* An exit action has failed.                                              *)
LEMMA StepExitFails ==
  ASSUME NEW T, NEW S, NEW w, Now(T, S, w), ExitFails
  PROVE  Reached(T, S)
<1>1. At("unwind", "FINSEQ") /\ Passes /\ f' = GoesOn(f)
  BY DEF ExitFails
<1>2. /\ w \in Shadows(S) /\ Shape(T, S, w, f, left, ran, raised) /\ w.n > 0
      /\ f.k # None /\ Kind(w, w.n) = "FINSEQ" /\ Top.ref = Ref(w, w.n)
  BY <1>1, AtTop
<1>3. PICK ref : ref = Ref(w, w.n)
  OBVIOUS
<1>4. PICK d : d = Composed(f, ref)
  OBVIOUS
<1>5. f' = Deliver(d)
  BY <1>1, <1>2, <1>3, <1>4 DEF GoesOn, Composed, Top
<1>6. HasShape(T, S, f', left, ran, raised, w.user)
  BY <1>2, <1>3, <1>4, <1>5, ShapeFails
<1>7. f'.k = f.k
  <2>1. /\ Whole(f) /\ f.mode # "failed"
    BY <1>2, ShapeControl
  <2>2. PICK fs : fs = [f.fins[ref] EXCEPT !.why = Compose(@, f.why)]
    OBVIOUS
  <2>3. Whole(d) /\ SameControl(f, d) /\ d.k = f.k
    BY <1>4, <2>1, <2>2, FailFields
  <2>4. d.mode # "failed"
    BY <2>1, <2>3 DEF SameControl
  <2>5. SameParts(d, f')
    BY <1>5, <2>3, <2>4, DeliverFields
  <2> QED
    BY <2>3, <2>5 DEF SameParts
<1>8. left' = left /\ ran' = ran /\ raised' = raised
  BY <1>1, <1>7 DEF Passes, Pops
<1> QED
  BY <1>6, <1>8 DEF Reached

(* The last frame has been passed.                                         *)
LEMMA StepDone ==
  ASSUME NEW T, NEW S, NEW w, Now(T, S, w), Done
  PROVE  Reached(T, S)
<1>1. /\ w \in Shadows(S) /\ Shape(T, S, w, f, left, ran, raised)
      /\ f.mode \in {"value", "unwind"} /\ f.k = None /\ Passes
  BY DEF Now, Done
<1>2. /\ Whole(f) /\ Frame(T, S, w, f, left, ran) /\ Causes(w, f, raised) /\ f.drain = None
      /\ w.n \in Nat
  BY <1>1, ShapeControl
<1>3. w.n = 0
  BY <1>1, <1>2, ShapeTop
<1>4. f.why.kind # "drain"
  BY <1>2 DEF Causes, Reasons
<1>5. f' = [f EXCEPT !.mode = "done"]
  BY <1>4 DEF Done
<1>6. PICK h : h = f'
  OBVIOUS
<1>7. /\ Whole(h) /\ SameParts(f, h) /\ h.drain = f.drain /\ h.mode = "done" /\ h.why = f.why
  BY <1>2, <1>5, <1>6 DEF Whole, Fields, SameParts, SameMasks, SameScopes
<1>8. Frame(T, S, w, h, left, ran)
  BY <1>2, <1>7, FrameStays
<1>9. Causes(w, h, raised)
  <2>1. h.fins = f.fins
    BY <1>7 DEF SameParts, SameScopes
  <2> QED
    BY <1>2, <1>7, <2>1 DEF Causes, Waiting
<1>10. Shape(T, S, w, h, left, ran, raised)
  BY <1>2, <1>3, <1>7, <1>8, <1>9, ShapeFormed
<1>11. HasShape(T, S, h, left, ran, raised, w.user)
  BY <1>1, <1>10, HasShapeNow
<1>12. left' = left /\ ran' = ran /\ raised' = raised
  <2>1. h.k = f.k
    BY <1>7 DEF SameParts
  <2> QED
    BY <1>1, <1>6, <2>1 DEF Passes, Pops
<1> QED
  BY <1>6, <1>11, <1>12 DEF Reached

(* Without handlers there are no operations, resumptions or drains.        *)
LEMMA NoHandlers ==
  ASSUME NEW T, NEW S, Plain(T, S), NEW w, Now(T, S, w)
  PROVE  /\ ~ExecHandle /\ ~ExecPerform /\ ~ExecResume
         /\ ~Executes("perform") /\ ~Executes("resume")
         /\ ~RestoreState /\ ~LeaveHandler /\ ~LeaveClause /\ ~EndDrain
<1>1. w \in Shadows(S) /\ Shape(T, S, w, f, left, ran, raised)
  BY DEF Now
<1>2. ASSUME f.mode = "code" PROVE Cur.op \in PlainOps
  <2>1. ClosedIn(Cur, Allowed(T, S, f.exits), T, S)
    BY <1>1, <1>2, CurrentTerm DEF Cur
  <2> QED
    BY <2>1 DEF ClosedIn
<1>3. ~Executes("handle") /\ ~Executes("perform") /\ ~Executes("resume")
  BY <1>2 DEF Executes, PlainOps
<1>4. ASSUME NEW mode, NEW kind, At(mode, kind) PROVE kind \in FrameKinds
  BY <1>4, AtTop
<1>5. \A mode : /\ ~At(mode, "RESTORESTATE") /\ ~At(mode, "HANDLER")
                /\ ~At(mode, "ABANDON") /\ ~At(mode, "ABANDEND")
  BY <1>4 DEF FrameKinds
<1> QED
  BY <1>3, <1>5 DEF ExecHandle, ExecPerform, ExecResume, RestoreState, LeaveHandler,
                    LeaveClause, EndDrain

(* Each step keeps the shape.                                              *)
LEMMA ShapeKept ==
  ASSUME NEW T, NEW S, Plain(T, S), Inv(T, S), [Next]_vars
  PROVE  Inv(T, S)'
<1>1. PICK w \in Shadows(S) : Shape(T, S, w, f, left, ran, raised)
  BY DEF Inv
<1>2. Now(T, S, w)
  BY <1>1 DEF Now
<1>3. CASE Execute
  <2>1. ASSUME ExecPure PROVE Reached(T, S)
    BY <1>2, <2>1, StepPure
  <2>2. ASSUME ExecOneOf PROVE Reached(T, S)
    BY <1>2, <2>2, StepOneOf
  <2>3. ASSUME ExecThen PROVE Reached(T, S)
    BY <1>2, <2>3, StepThen
  <2>4. ASSUME ExecCatch PROVE Reached(T, S)
    BY <1>2, <2>4, StepCatch
  <2>5. ASSUME ExecThrow PROVE Reached(T, S)
    BY <1>2, <2>5, StepThrow
  <2>6. ASSUME ExecReturn \/ ExecBreak \/ ExecContinue PROVE Reached(T, S)
    BY <1>2, <2>6, StepLeaves
  <2>7. ASSUME ExecRetScope PROVE Reached(T, S)
    BY <1>2, <2>7, StepRetScope
  <2>8. ASSUME ExecAwait \/ ExecPoll PROVE Reached(T, S)
    BY <1>2, <2>8, StepDeliveryPoint
  <2>9. ASSUME ExecMask PROVE Reached(T, S)
    BY <1>2, <2>9, StepMask
  <2>10. ASSUME ExecRestore PROVE Reached(T, S)
    BY <1>2, <2>10, StepRestore
  <2>11. ASSUME ExecDoScope PROVE Reached(T, S)
    BY <1>2, <2>11, StepDoScope
  <2>12. ASSUME ExecDefer PROVE Reached(T, S)
    BY <1>2, <2>12, StepDefer
  <2>13. ASSUME ExecWhile PROVE Reached(T, S)
    BY <1>2, <2>13, StepWhile
  <2>14. ASSUME ExecBranch PROVE Reached(T, S)
    BY <1>2, <2>14, StepBranch
  <2>15. ~ExecHandle /\ ~ExecPerform /\ ~ExecResume
    BY <1>2, NoHandlers
  <2>16. Reached(T, S)
    BY <1>3, <2>1, <2>2, <2>3, <2>4, <2>5, <2>6, <2>7, <2>8, <2>9, <2>10, <2>11, <2>12, <2>13,
       <2>14, <2>15 DEF Execute
  <2> QED
    BY <2>16 DEF Reached, HasShape, Inv
<1>4. CASE Continue
  <2>1. ASSUME \/ DeliverThen \/ DeliverCatch \/ DeliverRetScope
               \/ UnwindThen \/ UnwindCatch \/ UnwindRetScope \/ UnwindLoop
        PROVE  Reached(T, S)
    BY <1>2, <2>1, StepNeutral
  <2>2. ASSUME LeaveMask \/ LeaveRestore PROVE Reached(T, S)
    BY <1>2, <2>2, StepUnmask
  <2>3. ASSUME LeaveScope PROVE Reached(T, S)
    BY <1>2, <2>3, StepScope
  <2>4. ASSUME RunExit PROVE Reached(T, S)
    BY <1>2, <2>4, StepRunExit
  <2>5. ASSUME EndExits PROVE Reached(T, S)
    BY <1>2, <2>5, StepEndExits
  <2>6. ASSUME ExitFails PROVE Reached(T, S)
    BY <1>2, <2>6, StepExitFails
  <2>7. ASSUME BackEdge PROVE Reached(T, S)
    BY <1>2, <2>7, StepBackEdge
  <2>8. ASSUME Done PROVE Reached(T, S)
    BY <1>2, <2>8, StepDone
  <2>9. ~RestoreState /\ ~LeaveHandler /\ ~LeaveClause /\ ~EndDrain
    BY <1>2, NoHandlers
  <2>10. Reached(T, S)
    BY <1>4, <2>1, <2>2, <2>3, <2>4, <2>5, <2>6, <2>7, <2>8, <2>9 DEF Continue
  <2> QED
    BY <2>10 DEF Reached, HasShape, Inv
<1>5. CASE Request \/ UNCHANGED vars
  <2>1. f' = f /\ left' = left /\ ran' = ran /\ raised' = raised
    BY <1>5 DEF Request, vars
  <2> QED
    BY <1>1, <2>1 DEF Inv
<1> QED
  BY <1>3, <1>4, <1>5 DEF Next

(* A new fiber has an empty stack.                                         *)
LEMMA EmptyStack ==
  ASSUME NEW T, NEW S, Plain(T, S)
  PROVE  \E w \in Shadows(S) :
           w.n = 0 /\ w.st[0] = 0 /\ w.ms[0] = 0 /\ w.xs[0] = 0 /\ w.user = {}
<1>1. Idle \in Closures(S, Nat) /\ NoState \in [exits : Nat, mask : Nat]
  BY IdleTyped
<1>2. PICK cell \in Cells(S) : cell = Cell("THEN", 0, Idle, NoState, 0)
  BY <1>1 DEF Cells, Cell, FrameKinds
<1>3. PICK zero : zero = [i \in Nat |-> 0]
  OBVIOUS
<1>4. PICK fr : fr = [i \in Nat |-> cell]
  OBVIOUS
<1>5. zero \in Numbers /\ fr \in [Nat -> Cells(S)] /\ zero[0] = 0
  BY <1>2, <1>3, <1>4 DEF Numbers
<1>6. PICK w : w = [n |-> 0, st |-> zero, fr |-> fr, ms |-> zero, xs |-> zero, todo |-> zero,
                    user |-> {}]
  OBVIOUS
<1>7. w \in Shadows(S)
  BY <1>5, <1>6 DEF Shadows
<1> QED
  BY <1>5, <1>6, <1>7

(* The fields of a new fiber.                                              *)
LEMMA NewFiber ==
  ASSUME NEW action, NEW g, g = Fiber(action)
  PROVE  /\ Whole(g) /\ g.k = None /\ g.heap = <<>> /\ g.mode = "code"
         /\ g.cur = Closure(action, NoEnv) /\ g.why = Normal /\ g.exits = None
         /\ g.mask = None /\ g.drain = None /\ g.masks = <<>> /\ g.stacks = <<>>
         /\ g.fins = <<>>
BY DEF Fiber, Whole, Fields

(* A new fiber has the shape of a stack.                                   *)
LEMMA InitShape ==
  ASSUME NEW T, NEW S, Plain(T, S), Program \subseteq T, Init
  PROVE  Inv(T, S)
<1>1. PICK action \in T : f = Fiber(action)
  BY DEF Init
<1>2. PICK w \in Shadows(S) :
        w.n = 0 /\ w.st[0] = 0 /\ w.ms[0] = 0 /\ w.xs[0] = 0 /\ w.user = {}
  BY EmptyStack
<1>3. PICK g : g = f
  OBVIOUS
<1>4. /\ Whole(g) /\ g.k = None /\ g.heap = <<>> /\ g.mode = "code"
      /\ g.cur = Closure(action, NoEnv) /\ g.why = Normal /\ g.exits = None
      /\ g.mask = None /\ g.drain = None /\ g.masks = <<>> /\ g.stacks = <<>>
      /\ g.fins = <<>>
  BY <1>1, <1>3, NewFiber
<1>5. left = {} /\ ran = <<>> /\ raised = 0
  BY DEF Init
<1>6. /\ \A i \in 1..w.n : FALSE
      /\ \A i \in 0..w.n : i = 0
  BY <1>2
<1>7. Links(S, w, g, {})
  <2>1. g.heap \in Seq(Cells(S)) /\ \A c \in 1..Len(g.heap) : FALSE
    BY <1>4
  <2> QED
    BY <1>2, <1>4, <1>6, <2>1 DEF Links, None
<1>8. MaskStack(w, g) /\ Suspensions(w, g) /\ Finalizers(w, g)
  <2>1. g.masks \in Seq(MaskFrames) /\ Len(g.masks) = 0
    BY <1>4
  <2>2. MaskStack(w, g)
    BY <1>2, <1>4, <1>6, <2>1 DEF MaskStack, None
  <2>3. Suspensions(w, g)
    BY <1>6 DEF Suspensions
  <2>4. Finalizers(w, g)
    BY <1>2, <1>6 DEF Finalizers
  <2> QED
    BY <2>2, <2>3, <2>4
<1>9. Len(g.stacks) = 0 /\ \A x \in 1..Len(g.stacks) : FALSE
  BY <1>4
<1>10. Scopes(T, w, g) /\ Owners(w, g)
  <2>1. g.stacks \in Seq(Stacks(T)) /\ g.fins \in Seq(Sequences)
    BY <1>4
  <2>2. Scopes(T, w, g)
    BY <1>2, <1>4, <1>6, <1>9, <2>1 DEF Scopes, None
  <2>3. Owners(w, g)
    BY <1>6, <1>9, <2>1 DEF Owners
  <2> QED
    BY <2>2, <2>3
<1>11. ExitActions(w, g, <<>>)
  <2>1. <<>> \in Seq(0..1) /\ \A a \in 1..Len(<<>>) : FALSE
    OBVIOUS
  <2> QED
    BY <1>9, <2>1 DEF ExitActions
<1>12. Actions(T, S, w, g)
  BY <1>6, <1>9 DEF Actions
<1>13. Frame(T, S, w, g, {}, <<>>)
  BY <1>7, <1>8, <1>10, <1>11, <1>12 DEF Frame
<1>14. Causes(w, g, 0)
  <2>1. Quietly(g.why)
    BY <1>4, QuietReasons
  <2>2. g.why \in Reasons /\ Ordered(g.why) /\ UpTo(g.why, 0)
    BY <2>1, QuietOrder DEF Quietly
  <2> QED
    BY <1>6, <2>2 DEF Causes
<1>15. g.cur \in Closures(Allowed(T, S, g.exits), w.user)
  <2>1. Allowed(T, S, g.exits) = T
    BY <1>4 DEF Allowed
  <2>2. NoEnv \in [res : {None}, mask : w.user \cup {None}]
    BY DEF NoEnv
  <2> QED
    BY <1>4, <2>1, <2>2 DEF Closures, Closure
<1>16. g.drain = None
  BY <1>4
<1>17. Shape(T, S, w, g, {}, <<>>, 0)
  BY <1>4, <1>13, <1>14, <1>15, <1>16, ShapeFormed
<1> QED
  BY <1>3, <1>5, <1>17 DEF Inv

----------------------------------------------------------------------------
(* Every reachable state has the shape of a stack.                         *)
THEOREM StackShape ==
  ASSUME NEW T, NEW S, Plain(T, S), Program \subseteq T
  PROVE  Spec => []Inv(T, S)
<1>1. Init => Inv(T, S)
  BY InitShape
<1>2. Inv(T, S) /\ [Next]_vars => Inv(T, S)'
  BY ShapeKept
<1> QED
  BY <1>1, <1>2, PTL DEF Spec

----------------------------------------------------------------------------
(* What the shape says of the properties of the machine.                   *)

(* When nothing is left on the stack no scope has exit actions to run.     *)
LEMMA ExitActionsDone ==
  ASSUME NEW T, NEW S, NEW w, Now(T, S, w)
  PROVE  ExitActionsRunOnce
<1>1. w \in Shadows(S) /\ Owners(w, f) /\ Scopes(T, w, f) /\ ExitActions(w, f, ran) /\ Control(w, f)
  BY DEF Now, Shape, Frame
<1>2. ran \in Seq(0..1)
  BY <1>1 DEF ExitActions
<1>3. DOMAIN ran = 1..Len(ran) /\ \A a \in 1..Len(ran) : ran[a] \in 0..1
  BY <1>2
<1>4. ASSUME f.mode = "done", NEW a \in 1..Len(ran) PROVE ran[a] = 1
  <2>1. w.n = 0
    BY <1>1, <1>4 DEF Control
  <2>2. PICK x \in 1..Len(f.stacks) : \E j \in 1..Len(Items(f, x)) : Items(f, x)[j].n = a
    BY <1>1 DEF ExitActions
  <2>3. PICK j \in 1..Len(Items(f, x)) : Items(f, x)[j].n = a
    BY <2>2
  <2>4. ran[a] = IF j <= w.todo[x] THEN 0 ELSE 1
    BY <1>1, <2>3 DEF ExitActions
  <2>5. w.todo[x] \in Nat
    BY <1>1 DEF Shadows, Numbers
  <2>6. ~(w.todo[x] > 0)
    BY <1>1, <2>1 DEF Owners
  <2>7. ~(j <= w.todo[x])
    BY <2>5, <2>6
  <2> QED
    BY <2>4, <2>7
<1> QED
  BY <1>3, <1>4 DEF ExitActionsRunOnce

(* The machine has not failed, and there are neither operations nor        *)
(* resumptions.                                                            *)
LEMMA NoErrorNow ==
  ASSUME NEW T, NEW S, Plain(T, S), NEW w, Now(T, S, w)
  PROVE  NoInternalError
<1>1. Control(w, f)
  BY DEF Now, Shape
<1>2. f.mode # "failed"
  BY <1>1 DEF Control
<1>3. ~Executes("perform") /\ ~Executes("resume")
  BY NoHandlers
<1> QED
  BY <1>2, <1>3 DEF NoInternalError

(* The reason of the moment is in order.                                   *)
LEMMA CausesOrderedNow ==
  ASSUME NEW T, NEW S, NEW w, Now(T, S, w)
  PROVE  CausesInOrder
<1>1. f.why \in Reasons /\ Ordered(f.why)
  BY DEF Now, Shape, Causes
<1>2. f.why.cause \in Seq(CauseItems)
  BY <1>1 DEF Reasons, CauseItems
<1>3. DOMAIN f.why.cause = 1..Len(f.why.cause)
  BY <1>2
<1> QED
  BY <1>1, <1>3 DEF Ordered, CausesInOrder

(* When nothing is left on the stack every cell has been left.             *)
LEMMA FramesPassed ==
  ASSUME NEW T, NEW S, NEW w, Now(T, S, w)
  PROVE  NoFrameIsLost
<1>1. w \in Shadows(S) /\ Links(S, w, f, left) /\ Control(w, f)
  BY DEF Now, Shape, Frame
<1>2. DOMAIN f.heap = 1..Len(f.heap)
  BY <1>1 DEF Links
<1>3. ASSUME f.mode = "done", NEW c \in 1..Len(f.heap) PROVE c \in left
  <2>1. w.n = 0
    BY <1>1, <1>3 DEF Control
  <2>2. c \in left \/ \E i \in 1..w.n : w.st[i] = c
    BY <1>1 DEF Links
  <2> QED
    BY <2>1, <2>2
<1> QED
  BY <1>2, <1>3 DEF NoFrameIsLost

(* The cells from f.k on are those of the stack.                           *)
CellsOf(w) == {w.st[i] : i \in 1..w.n}
Nexts(g) == [x \in DOMAIN g.heap |-> g.heap[x].next]

(* The cells of the stack are closed under next.                           *)
LEMMA NextCells ==
  ASSUME NEW S, NEW w \in Shadows(S), NEW g, NEW l, Links(S, w, g, l),
         NEW X, X = CellsOf(w)
  PROVE  /\ Len(Nexts(g)) = Len(g.heap) /\ Len(g.heap) \in Nat
         /\ g.k \in X \cup {None}
         /\ \A x \in X : x \in 1..Len(Nexts(g)) /\ Nexts(g)[x] \in X \cup {None}
<1>1. g.heap \in Seq(Cells(S))
  BY DEF Links
<1>2. Len(g.heap) \in Nat /\ DOMAIN g.heap = 1..Len(g.heap)
  BY <1>1
<1>3. \A x \in 1..Len(g.heap) : Nexts(g)[x] = g.heap[x].next
  BY <1>2 DEF Nexts
<1>4. Nexts(g) = [x \in 1..Len(g.heap) |-> g.heap[x].next]
  BY <1>2 DEF Nexts
<1>5. Nexts(g) \in Seq(Nat)
  <2>1. ASSUME NEW x \in 1..Len(g.heap) PROVE g.heap[x].next \in Nat
    <3>1. g.heap[x] \in Cells(S)
      BY <1>1
    <3> QED
      BY <3>1 DEF Cells
  <2> QED
    BY <1>2, <1>4, <2>1
<1>6. Len(Nexts(g)) = Len(g.heap)
  BY <1>2, <1>4, <1>5
<1>7. w.n \in Nat /\ w.st[0] = None /\ g.k = w.st[w.n]
  BY DEF Shadows, Links
<1>8. \A i \in 0..w.n : w.st[i] \in X \cup {None}
  <2>1. ASSUME NEW i \in 0..w.n PROVE w.st[i] \in X \cup {None}
    <3>1. CASE i = 0
      BY <1>7, <3>1
    <3>2. CASE i # 0
      <4>1. i \in 1..w.n
        BY <3>2
      <4> QED
        BY <4>1 DEF CellsOf
    <3> QED
      BY <3>1, <3>2
  <2> QED
    BY <2>1
<1>9. g.k \in X \cup {None}
  BY <1>7, <1>8
<1>10. ASSUME NEW x \in X PROVE x \in 1..Len(g.heap) /\ g.heap[x].next \in X \cup {None}
  <2>1. PICK i \in 1..w.n : x = w.st[i]
    BY DEF CellsOf
  <2>2. x \in 1..Len(g.heap) /\ g.heap[x] = w.fr[i] /\ w.fr[i].next = w.st[i - 1]
    BY <2>1 DEF Links
  <2>3. i - 1 \in 0..w.n
    BY <1>7
  <2> QED
    BY <1>8, <2>2, <2>3
<1> QED
  BY <1>2, <1>3, <1>6, <1>9, <1>10

(* Whatever is met from f.k on is a cell of the stack.                     *)
LEMMA SegmentOnStack ==
  ASSUME NEW S, NEW w \in Shadows(S), NEW g, NEW l, Links(S, w, g, l),
         NEW p, p = Segment(g, g.k), NEW i \in DOMAIN p, p[i] # None
  PROVE  \E j \in 1..w.n : p[i] = w.st[j] /\ g.heap[p[i]] = w.fr[j]
<1>1. PICK X : X = CellsOf(w)
  OBVIOUS
<1>2. /\ Len(Nexts(g)) = Len(g.heap) /\ Len(g.heap) \in Nat
      /\ g.k \in X \cup {None}
      /\ \A x \in X : x \in 1..Len(Nexts(g)) /\ Nexts(g)[x] \in X \cup {None}
  BY <1>1, NextCells
<1>3. p = Chain(Nexts(g), g.k)
  BY DEF Segment, Nexts
<1>4. \A j \in 0..Len(Nexts(g)) : Chain(Nexts(g), g.k)[j] \in X \cup {None}
  BY <1>2, ChainWithin
<1>5. DOMAIN p = 0..Len(Nexts(g))
  BY <1>2, <1>3, ChainItems
<1>6. p[i] \in X
  BY <1>3, <1>4, <1>5
<1>7. PICK j \in 1..w.n : p[i] = w.st[j]
  BY <1>1, <1>6 DEF CellsOf
<1>8. g.heap[w.st[j]] = w.fr[j]
  BY DEF Links
<1> QED
  BY <1>7, <1>8

(* A mask frame in force that is not interruptible makes the fiber so.     *)
LEMMA MaskedWhenInForce ==
  ASSUME NEW S, NEW w \in Shadows(S), NEW g, MaskStack(w, g), NEW m \in InForce(g),
         g.masks[m].state = Masked
  PROVE  Effective(g) # Interruptible
<1> DEFINE X == {g.masks[n].state : n \in InForce(g)} \cup {Interruptible}
<1>1. X \subseteq 0..2
  <2>1. ASSUME NEW n \in InForce(g) PROVE g.masks[n].state \in 0..2
    <3>1. n \in Frames(g)
      BY DEF InForce
    <3>2. PICK i \in 0..w.n : n = w.ms[i] /\ n \in 1..g.mask
      BY <3>1, FramesOnStack
    <3>r. w.n \in Nat /\ \A j \in Nat : w.ms[j] \in Nat
      BY DEF Shadows, Numbers
    <3>s. w.n \in 0..w.n
      BY <3>r
    <3>3. g.mask = w.ms[w.n] /\ g.mask <= Len(g.masks) /\ g.mask \in Nat
      BY <3>r, <3>s DEF MaskStack
    <3>4. g.masks \in Seq(MaskFrames)
      BY DEF MaskStack
    <3>5. n \in 1..Len(g.masks)
      BY <3>2, <3>3, <3>4
    <3>6. g.masks[n] \in MaskFrames
      BY <3>4, <3>5
    <3> QED
      BY <3>6 DEF MaskFrames
  <2> QED
    BY <2>1 DEF Interruptible
<1>2. Masked \in X
  OBVIOUS
<1>3. Effective(g) = CHOOSE x \in X : \A y \in X : x >= y
  BY DEF Effective, Max
<1> HIDE DEF X
<1>4. \E x \in X : \A y \in X : x >= y
  <2>1. CASE 2 \in X
    BY <1>1, <2>1
  <2>2. CASE 2 \notin X
    <3>1. \A y \in X : 1 >= y
      BY <1>1, <2>2
    <3> QED
      BY <1>2, <3>1 DEF Masked
  <2> QED
    BY <2>1, <2>2
<1>5. Effective(g) \in X /\ \A y \in X : Effective(g) >= y
  BY <1>3, <1>4
<1> QED
  BY <1>1, <1>2, <1>5 DEF Masked, Interruptible

(* A FINSEQ on the stack is above its Masked frame, in force.              *)
LEMMA FinalizersMaskedNow ==
  ASSUME NEW T, NEW S, NEW w, Now(T, S, w)
  PROVE  FinalizersMasked
<1>1. /\ w \in Shadows(S) /\ Links(S, w, f, left) /\ MaskStack(w, f) /\ Finalizers(w, f)
  BY DEF Now, Shape, Frame
<1>2. PICK p : p = Segment(f, f.k)
  OBVIOUS
<1>3. ASSUME NEW i \in DOMAIN p, p[i] # None, f.heap[p[i]].kind = "FINSEQ"
      PROVE  Effective(f) # Interruptible
  <2>1. PICK j \in 1..w.n : p[i] = w.st[j] /\ f.heap[p[i]] = w.fr[j]
    BY <1>1, <1>2, <1>3, SegmentOnStack
  <2>2. Kind(w, j) = "FINSEQ"
    BY <1>3, <2>1 DEF Kind
  <2>3. /\ j > 1 /\ Kind(w, j - 1) = "POPMASK"
        /\ f.masks[w.ms[j]].state = Masked /\ ~f.masks[w.ms[j]].suspended
    BY <1>1, <2>2 DEF Finalizers
  <2>4. w.n \in Nat /\ j - 1 \in 1..w.n /\ j \in 0..w.n /\ j - 1 - 1 \in Nat
    BY <1>1, <2>3 DEF Shadows
  <2>5. w.ms[j] = w.ms[j - 1]
    BY <1>1, <2>2 DEF MaskStack
  <2>6. w.ms[j - 1 - 1] < w.ms[j - 1] /\ f.masks[w.ms[j - 1]].active
    BY <1>1, <2>3, <2>4 DEF MaskStack
  <2>7. w.ms[j] # None
    <3>1. w.ms[j - 1 - 1] \in Nat /\ w.ms[j - 1] \in Nat
      BY <1>1, <2>4 DEF Shadows, Numbers
    <3> QED
      BY <2>5, <2>6, <3>1 DEF None
  <2>8. w.ms[j] \in Frames(f)
    BY <1>1, <2>4, <2>7, StackInFrames
  <2>9. w.ms[j] \in InForce(f)
    BY <2>3, <2>5, <2>6, <2>8 DEF InForce
  <2> QED
    BY <1>1, <2>3, <2>9, MaskedWhenInForce
<1> QED
  BY <1>2, <1>3 DEF FinalizersMasked

----------------------------------------------------------------------------
(* The order of exit actions.  Only three steps touch their counts.        *)
LEMMA CountsChange ==
  ASSUME Next
  PROVE  ran' = ran \/ ran' = Append(ran, 0) \/ RunExit
<1>1. CASE Execute
  BY <1>1 DEF Execute, ExecPure, ExecOneOf, ExecThen, ExecCatch, ExecThrow, ExecReturn,
     ExecRetScope, ExecAwait, ExecPoll, ExecMask, ExecRestore, ExecDoScope, ExecDefer, ExecHandle,
     ExecPerform, ExecResume, ExecWhile, ExecBranch, ExecBreak, ExecContinue, DeliverInterrupt,
     Quiet
<1>2. CASE Continue
  BY <1>2 DEF Continue, DeliverThen, DeliverCatch, DeliverRetScope, UnwindThen, UnwindCatch,
     UnwindRetScope, LeaveMask, LeaveRestore, RestoreState, LeaveHandler, LeaveScope,
     EndExits, ExitFails, LeaveClause, EndDrain, Done, BackEdge, UnwindLoop, DeliverInterrupt,
     Quiet, Passes
<1>3. CASE Request
  BY <1>3 DEF Request
<1> QED
  BY <1>1, <1>2, <1>3 DEF Next

(* An exit action is an item of one scope.                                 *)
LEMMA HomeOf ==
  ASSUME NEW T, NEW S, NEW w, Now(T, S, w), NEW x \in 1..Len(f.stacks),
         NEW j \in 1..Len(Items(f, x)), NEW a, a = Items(f, x)[j].n
  PROVE  Home(a) = x
<1>1. Scopes(T, w, f) /\ ExitActions(w, f, ran)
  BY DEF Now, Shape, Frame
<1>2. DOMAIN f.stacks = 1..Len(f.stacks)
  BY <1>1 DEF Scopes
<1>3. \A y \in 1..Len(f.stacks) : DOMAIN f.stacks[y].items = 1..Len(Items(f, y))
  <2>1. ASSUME NEW y \in 1..Len(f.stacks)
        PROVE  DOMAIN f.stacks[y].items = 1..Len(Items(f, y))
    <3>1. f.stacks[y] \in Stacks(T)
      BY <1>1 DEF Scopes
    <3> QED
      BY <3>1 DEF Stacks, Items
  <2> QED
    BY <2>1
<1> DEFINE Has(y) == \E i \in DOMAIN f.stacks[y].items : f.stacks[y].items[i].n = a
<1>4. Has(x)
  BY <1>3 DEF Items
<1>5. ASSUME NEW y \in 1..Len(f.stacks), Has(y) PROVE y = x
  <2>1. PICK i \in 1..Len(Items(f, y)) : Items(f, y)[i].n = a
    BY <1>3, <1>5 DEF Items
  <2> QED
    BY <1>1, <2>1 DEF ExitActions
<1>6. Home(a) = CHOOSE y \in 1..Len(f.stacks) : Has(y)
  BY <1>2 DEF Home
<1> HIDE DEF Has
<1> QED
  BY <1>4, <1>5, <1>6

(* The scopes around a scope are older.                                    *)
Parents(g) == [n \in DOMAIN g.stacks |-> g.stacks[n].parent]

(* A scope around another was entered before it, or is the same.           *)
LEMMA AroundIsOlder ==
  ASSUME NEW T, NEW S, NEW w, Now(T, S, w), NEW y \in 1..Len(f.stacks),
         NEW x \in 1..Len(f.stacks), Around(x, y)
  PROVE  x <= y
<1>1. Scopes(T, w, f)
  BY DEF Now, Shape, Frame
<1>2. /\ f.stacks \in Seq(Stacks(T)) /\ Len(f.stacks) \in Nat
      /\ DOMAIN f.stacks = 1..Len(f.stacks)
  BY <1>1 DEF Scopes
<1>3. \A n \in 1..Len(f.stacks) : f.stacks[n].parent \in Nat /\ f.stacks[n].parent < n
  <2>1. ASSUME NEW n \in 1..Len(f.stacks)
        PROVE  f.stacks[n].parent \in Nat /\ f.stacks[n].parent < n
    <3>1. f.stacks[n] \in Stacks(T)
      BY <1>2
    <3>2. f.stacks[n].parent < n
      BY <1>1 DEF Scopes
    <3> QED
      BY <3>1, <3>2 DEF Stacks
  <2> QED
    BY <2>1
<1>4. \A n \in 1..Len(f.stacks) : Parents(f)[n] = f.stacks[n].parent
  BY <1>2 DEF Parents
<1>5. Parents(f) = [n \in 1..Len(f.stacks) |-> f.stacks[n].parent]
  BY <1>2 DEF Parents
<1>6. Parents(f) \in Seq(Nat)
  BY <1>2, <1>3, <1>5
<1>7. Len(Parents(f)) = Len(f.stacks)
  BY <1>2, <1>5, <1>6
<1>8. PICK X : X = 1..y
  OBVIOUS
<1>9. y \in X \cup {None}
  BY <1>8
<1>10. \A n \in X : n \in 1..Len(Parents(f)) /\ Parents(f)[n] \in X \cup {None}
  BY <1>2, <1>3, <1>4, <1>7, <1>8 DEF None
<1>11. \A i \in 0..Len(Parents(f)) : Chain(Parents(f), y)[i] \in X \cup {None}
  BY <1>2, <1>7, <1>9, <1>10, ChainWithin
<1>12. DOMAIN Chain(Parents(f), y) = 0..Len(Parents(f))
  BY <1>2, <1>7, ChainItems
<1>13. x \in Range(Chain(Parents(f), y))
  BY DEF Around, Parents
<1>14. x \in X \cup {None}
  BY <1>11, <1>12, <1>13 DEF Range
<1> QED
  BY <1>8, <1>14 DEF None

(* An exit action that has not been started belongs to the scope of the    *)
(* sequence on top or to one that is older, among those yet to run.        *)
LEMMA NotStarted ==
  ASSUME NEW T, NEW S, NEW w, Now(T, S, w), w.n > 0, Owns(w, w.n),
         NEW b \in 1..Len(ran), ran[b] = 0
  PROVE  \E y \in 1..Len(f.stacks) : \E j \in 1..Len(Items(f, y)) :
           /\ Items(f, y)[j].n = b /\ j <= w.todo[y] /\ w.todo[y] \in Nat
           /\ y <= Own(w, f, w.n)
<1>1. w \in Shadows(S) /\ Scopes(T, w, f) /\ Owners(w, f) /\ ExitActions(w, f, ran)
  BY DEF Now, Shape, Frame
<1>2. PICK y \in 1..Len(f.stacks) : \E j \in 1..Len(Items(f, y)) : Items(f, y)[j].n = b
  BY <1>1 DEF ExitActions
<1>3. PICK j \in 1..Len(Items(f, y)) : Items(f, y)[j].n = b
  BY <1>2
<1>4. ran[b] = IF j <= w.todo[y] THEN 0 ELSE 1
  BY <1>1, <1>3 DEF ExitActions
<1>5. j <= w.todo[y] /\ w.todo[y] \in Nat
  <2>1. w.todo[y] \in Nat
    BY <1>1 DEF Shadows, Numbers
  <2>2. 0 # 1
    OBVIOUS
  <2>3. j <= w.todo[y]
    BY <1>4, <2>2, Zenon
  <2> QED
    BY <2>1, <2>3
<1>6. w.todo[y] > 0
  BY <1>5
<1>7. PICK i \in 1..w.n : Owns(w, i) /\ Own(w, f, i) = y
  BY <1>1, <1>6 DEF Owners
<1>8. w.n \in 1..w.n /\ w.n \in Nat
  BY <1>1 DEF Shadows
<1>9. y <= Own(w, f, w.n)
  <2>1. CASE i = w.n
    BY <1>7, <2>1
  <2>2. CASE i # w.n
    <3>1. i < w.n
      BY <1>8, <2>2
    <3>2. Own(w, f, i) < Own(w, f, w.n)
      BY <1>1, <1>7, <1>8, <3>1 DEF Owners
    <3>3. Own(w, f, w.n) \in 1..Len(f.stacks)
      BY <1>1, <1>8, OwnBound
    <3> QED
      BY <1>7, <3>2, <3>3
  <2> QED
    BY <2>1, <2>2
<1> QED
  BY <1>3, <1>5, <1>9

(* The exit action that is started is the last one of the innermost scope  *)
(* that has any left.                                                      *)
LEMMA InnerFirstStep ==
  ASSUME NEW T, NEW S, NEW w, Now(T, S, w), [Next]_vars,
         NEW a \in DOMAIN ran, NEW b \in DOMAIN ran, ran'[a] > ran[a], ran[b] = 0, b # a,
         Around(Home(a), Home(b))
  PROVE  Home(b) = Home(a) /\ b < a
<1>1. /\ w \in Shadows(S) /\ ExitActions(w, f, ran)
  BY DEF Now, Shape, Frame
<1>2. ran \in Seq(0..1)
  BY <1>1 DEF ExitActions
<1>3. DOMAIN ran = 1..Len(ran) /\ ran[a] \in 0..1 /\ Len(ran) \in Nat
  BY <1>2
<1>4. ran' # ran /\ ran' # Append(ran, 0)
  <2>1. ran[a] = Append(ran, 0)[a]
    BY <1>2, <1>3
  <2> QED
    BY <1>3, <2>1
<1>5. RunExit
  BY <1>4, CountsChange DEF vars
<1>6. At("value", "FINSEQ")
  BY <1>5 DEF RunExit
<1>7. /\ Shape(T, S, w, f, left, ran, raised) /\ w.n > 0
      /\ Kind(w, w.n) = "FINSEQ" /\ Top.ref = Ref(w, w.n)
  BY <1>6, AtTop
<1>8. PICK ref : ref = Ref(w, w.n)
  OBVIOUS
<1>9. PICK x : x = f.fins[ref].xs
  OBVIOUS
<1>10. PICK i : i = f.fins[ref].i
  OBVIOUS
<1>11. Frame(T, S, w, f, left, ran)
  BY <1>7 DEF Shape
<1>12. /\ x \in 1..Len(f.stacks) /\ i = w.todo[x] /\ i \in Nat /\ i <= Len(Items(f, x))
       /\ Owns(w, w.n) /\ Own(w, f, w.n) = x /\ Len(Items(f, x)) \in Nat
  BY <1>1, <1>7, <1>8, <1>9, <1>10, <1>11, TopSequence
<1>13. i > 0 /\ ran' = [ran EXCEPT ![Items(f, x)[i].n] = @ + 1]
  BY <1>5, <1>7, <1>8, <1>9, <1>10 DEF RunExit, NextExit, Items
<1>14. a = Items(f, x)[i].n
  BY <1>3, <1>13
<1>15. i \in 1..Len(Items(f, x))
  BY <1>12, <1>13
<1>16. Home(a) = x
  BY <1>12, <1>14, <1>15, HomeOf
<1>17. PICK y \in 1..Len(f.stacks) : \E j \in 1..Len(Items(f, y)) :
         /\ Items(f, y)[j].n = b /\ j <= w.todo[y] /\ w.todo[y] \in Nat /\ y <= x
  BY <1>3, <1>7, <1>12, NotStarted
<1>18. PICK j \in 1..Len(Items(f, y)) :
         Items(f, y)[j].n = b /\ j <= w.todo[y] /\ w.todo[y] \in Nat /\ y <= x
  BY <1>17
<1>19. Home(b) = y
  BY <1>18, HomeOf
<1>20. x <= y
  BY <1>12, <1>16, <1>19, AroundIsOlder
<1>21. y = x
  BY <1>12, <1>18, <1>20
<1>22. j < i
  <2>1. j # i
    BY <1>14, <1>18, <1>21
  <2> QED
    BY <1>12, <1>18, <1>21, <2>1
<1>23. Items(f, x)[j].n < Items(f, x)[i].n
  BY <1>1, <1>12, <1>15, <1>18, <1>21, <1>22 DEF ExitActions
<1> QED
  BY <1>14, <1>16, <1>18, <1>19, <1>21, <1>23

----------------------------------------------------------------------------
(* Every exit action is started once, however its scope is left, and none  *)
(* is left when the fiber is done (begin_finseq, the KK_FINSEQ frame).     *)
THEOREM ExitActionsRunOnceHolds ==
  ASSUME NEW T, NEW S, Plain(T, S), Program \subseteq T
  PROVE  Spec => []ExitActionsRunOnce
<1>1. Spec => []Inv(T, S)
  BY StackShape
<1>2. Inv(T, S) => ExitActionsRunOnce
  BY ExitActionsDone DEF Inv, Now
<1> QED
  BY <1>1, <1>2, PTL

(* The mask frames are popped, suspended and reinstated in an order in     *)
(* which the runtime never gives up (krt2i_mask_pop, krt2i_mask_reinstate, *)
(* OP_DEFER outside of a scope).                                           *)
THEOREM NoInternalErrorHolds ==
  ASSUME NEW T, NEW S, Plain(T, S), Program \subseteq T
  PROVE  Spec => []NoInternalError
<1>1. Spec => []Inv(T, S)
  BY StackShape
<1>2. Inv(T, S) => NoInternalError
  BY NoErrorNow DEF Inv, Now
<1> QED
  BY <1>1, <1>2, PTL

(* The failures of a scope and of its exit actions are reported in the     *)
(* order in which they arose (compose_reason_into).                        *)
THEOREM CausesInOrderHolds ==
  ASSUME NEW T, NEW S, Plain(T, S), Program \subseteq T
  PROVE  Spec => []CausesInOrder
<1>1. Spec => []Inv(T, S)
  BY StackShape
<1>2. Inv(T, S) => CausesInOrder
  BY CausesOrderedNow DEF Inv, Now
<1> QED
  BY <1>1, <1>2, PTL

(* A fiber that is done has passed every frame that was ever pushed        *)
(* (deliver, unwind).                                                      *)
THEOREM NoFrameIsLostHolds ==
  ASSUME NEW T, NEW S, Plain(T, S), Program \subseteq T
  PROVE  Spec => []NoFrameIsLost
<1>1. Spec => []Inv(T, S)
  BY StackShape
<1>2. Inv(T, S) => NoFrameIsLost
  BY FramesPassed DEF Inv, Now
<1> QED
  BY <1>1, <1>2, PTL

(* While exit actions run the fiber is not interruptible: no restore       *)
(* function of theirs reaches the frame begin_finseq masks them with.      *)
THEOREM FinalizersMaskedHolds ==
  ASSUME NEW T, NEW S, Plain(T, S), Program \subseteq T
  PROVE  Spec => []FinalizersMasked
<1>1. Spec => []Inv(T, S)
  BY StackShape
<1>2. Inv(T, S) => FinalizersMasked
  BY FinalizersMaskedNow DEF Inv, Now
<1> QED
  BY <1>1, <1>2, PTL

(* Exit actions are started last in, first out, those of inner scopes      *)
(* before those of the scopes around them (the KK_FINSEQ frame).           *)
THEOREM InnerFirstHolds ==
  ASSUME NEW T, NEW S, Plain(T, S), Program \subseteq T
  PROVE  Spec => InnerFirst
<1>1. Spec => []Inv(T, S)
  BY StackShape
<1>2. ASSUME Inv(T, S), [Next]_vars
      PROVE  [\A a, b \in DOMAIN ran :
                ran'[a] > ran[a] /\ ran[b] = 0 /\ b # a /\ Around(Home(a), Home(b)) =>
                  Home(b) = Home(a) /\ b < a]_vars
  <2>1. PICK w : Now(T, S, w)
    BY <1>2 DEF Inv, Now
  <2> QED
    BY <1>2, <2>1, InnerFirstStep
<1> QED
  BY <1>1, <1>2, PTL DEF Spec, InnerFirst

(* A program the theorems are about: in a masked region, a loop that       *)
(* registers an exit action that fails and awaits.                         *)
LEMMA LoopIsPlain ==
  ASSUME NEW body, body = Then(Defer(Throw), Await),
         NEW branch, branch = [op |-> "branch", m |-> body],
         NEW program, program = Mask(Masked, While(Pure, body)),
         NEW T, T = {Pure, Break, Throw, DoScope(body), branch, Then(Pure, branch),
                     While(Pure, body), program},
         NEW S, S = T \cup {body, Defer(Throw), Await}
  PROVE  Plain(T, S) /\ {program} \subseteq T
<1>1. \A X : ClosedIn(Pure, X, T, S) /\ ClosedIn(Break, X, T, S) /\ ClosedIn(Throw, X, T, S)
               /\ ClosedIn(Await, X, T, S)
  BY DEF ClosedIn, PlainOps, Pure, Break, Throw, Await
<1>2. \A X : ClosedIn(DoScope(body), X, T, S)
  BY DEF ClosedIn, PlainOps, DoScope
<1>3. \A X : DoScope(body) \in X => ClosedIn(branch, X, T, S)
  BY DEF ClosedIn, PlainOps
<1>4. \A X : Pure \in X /\ branch \in X => ClosedIn(Then(Pure, branch), X, T, S)
  BY DEF ClosedIn, PlainOps, Then
<1>5. \A X : Then(Pure, branch) \in X => ClosedIn(While(Pure, body), X, T, S)
  BY DEF ClosedIn, PlainOps, While
<1>6. \A X : While(Pure, body) \in X => ClosedIn(program, X, T, S)
  BY DEF ClosedIn, PlainOps, Mask
<1>7. \A X : Defer(Throw) \in X /\ Await \in X => ClosedIn(body, X, T, S)
  BY DEF ClosedIn, PlainOps, Then
<1>8. \A X : ClosedIn(Defer(Throw), X, T, S)
  BY DEF ClosedIn, PlainOps, Defer
<1>9. \A t \in T : t.op # "defer"
  BY DEF Pure, Break, Throw, DoScope, Then, While, Mask
<1>10. \A t \in T : ClosedIn(t, T, T, S)
  BY <1>1, <1>2, <1>3, <1>4, <1>5, <1>6
<1>11. ASSUME NEW t \in S PROVE ClosedIn(t, S, T, S)
  <2>1. CASE t \in {Pure, Break, Throw, Await}
    BY <1>1, <2>1
  <2>2. CASE t \in {DoScope(body), branch, Then(Pure, branch), While(Pure, body), program}
    BY <1>2, <1>3, <1>4, <1>5, <1>6, <2>2
  <2>3. CASE t \in {body, Defer(Throw)}
    BY <1>7, <1>8, <2>3
  <2> QED
    BY <2>1, <2>2, <2>3
<1> QED
  BY <1>9, <1>10, <1>11 DEF Plain

=============================================================================
