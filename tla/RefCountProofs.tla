---------------------------- MODULE RefCountProofs ----------------------------
(***************************************************************************)
(* The invariant Inv of module RefCountInv holds in every state of module  *)
(* RefCount: no value is freed while something refers to it, a value whose *)
(* shared bit is clear belongs to one thread, and counts are exact.        *)
(***************************************************************************)
EXTENDS RefCountSteps

-----------------------------------------------------------------------------
(* References a thread holds.                                              *)

(* How many references to o the micro-operations of s hold.                *)
Tok(s, o) == Cnt(s, ByV(o)) + Cnt(s, ByX(o))

HeldBy(o) == [t \in Thread |-> Held(t, o)]

(* Held references, and where they are.                                    *)
LEMMA HeldNat ==
  ASSUME Typed, NEW t \in Thread, NEW o \in Object
  PROVE  /\ Held(t, o) \in Nat /\ owned[t][o] \in Nat /\ Tok(code[t], o) \in Nat
         /\ Held(t, o) = owned[t][o] + Tok(code[t], o)
         /\ \A e \in Parts(t) : e \in Item
         /\ \A e \in Parts(t) : e.op \in HoldOps /\ e.v = o => Held(t, o) >= owned[t][o] + 1
         /\ \A e \in Parts(t) : e.op \in MoveOps /\ e.x = o => Held(t, o) >= owned[t][o] + 1
<1>1. owned[t][o] \in Nat /\ code[t] \in Seq(Item)
  BY DEF Typed, TypeOK
<1>2. \A e \in Parts(t) : e \in Item
  BY <1>1 DEF Parts, Items
<1>3. /\ Cnt(code[t], ByV(o)) \in Nat /\ Cnt(code[t], ByX(o)) \in Nat
      /\ Cnt(code[t], ByV(o)) > 0 <=> \E e \in Parts(t) : e \in ByV(o)
      /\ Cnt(code[t], ByX(o)) > 0 <=> \E e \in Parts(t) : e \in ByX(o)
  BY <1>1, CntPositive DEF Parts
<1>4. Held(t, o) = owned[t][o] + Tok(code[t], o)
  BY <1>1, <1>3 DEF Held, Tok
<1>5. ASSUME NEW e \in Parts(t), e.op \in HoldOps, e.v = o PROVE Held(t, o) >= owned[t][o] + 1
  <2>1. e \in ByV(o)
    BY <1>2, <1>5 DEF ByV
  <2>2. QED
    BY <2>1, <1>1, <1>3, <1>4 DEF Tok
<1>6. ASSUME NEW e \in Parts(t), e.op \in MoveOps, e.x = o PROVE Held(t, o) >= owned[t][o] + 1
  <2>1. e \in ByX(o)
    BY <1>2, <1>6 DEF ByX
  <2>2. QED
    BY <2>1, <1>1, <1>3, <1>4 DEF Tok
<1>7. QED
  BY <1>1, <1>2, <1>3, <1>4, <1>5, <1>6 DEF Tok

(* The references that one micro-operation holds.                          *)
LEMMA TokOne ==
  ASSUME NEW e \in Item, NEW o
  PROVE  /\ One(e, ByV(o)) = IF e.v = o /\ e.op \in HoldOps THEN 1 ELSE 0
         /\ One(e, ByX(o)) = IF e.x = o /\ e.op \in MoveOps THEN 1 ELSE 0
         /\ One(e, Dying(o)) = IF e.v = o /\ e.op \in DyingOps THEN 1 ELSE 0
  BY DEF One, ByV, ByX, Dying

-----------------------------------------------------------------------------
(* What a turn does, in the terms of the invariant.                        *)

(* What a turn does to the micro-operations of the threads, as sets.       *)
LEMMA Parted ==
  ASSUME Typed, NEW t \in Thread, NEW r, NEW b, NEW c, Turn(t, r, b, c)
  PROVE  /\ Parts(t) = Items(r) \cup Items(b)
         /\ Parts(t)' = Items(r) \cup Items(c)
         /\ \A u \in Thread : u # t => Parts(u)' = Parts(u)
         /\ \A d \in Items(r) : d.op \notin HeadOps
         /\ Items(r) \subseteq Item /\ Items(b) \subseteq Item /\ Items(c) \subseteq Item
         /\ r \in Seq(Item) /\ b \in Seq(Item) /\ c \in Seq(Item)
<1>1. r \in Seq(Item) /\ b \in Seq(Item) /\ c \in Seq(Item)
  BY DEF Turn, Quiet, WellFormed
<1>2. Items(r) \subseteq Item /\ Items(b) \subseteq Item /\ Items(c) \subseteq Item
  BY <1>1 DEF Items
<1>3. QED
  BY <1>1, <1>2 DEF Turn, Quiet, Parts

(* The references held before and after.                                   *)
LEMMA HeldTurn ==
  ASSUME Typed, Typed', NEW t \in Thread, NEW r, NEW b, NEW c, Turn(t, r, b, c),
         \A u \in Thread : u # t => owned'[u] = owned[u], NEW o \in Object
  PROVE  /\ Tok(r, o) \in Nat /\ Tok(b, o) \in Nat /\ Tok(c, o) \in Nat
         /\ owned[t][o] \in Nat /\ owned'[t][o] \in Nat
         /\ Held(t, o) = owned[t][o] + Tok(r, o) + Tok(b, o)
         /\ Held(t, o)' = owned'[t][o] + Tok(r, o) + Tok(c, o)
         /\ \A u \in Thread : u # t => Held(u, o)' = Held(u, o)
<1>1. r \in Seq(Item) /\ b \in Seq(Item) /\ c \in Seq(Item)
  BY Parted
<1>2. /\ \A S : Cnt(r, S) \in Nat /\ Cnt(b, S) \in Nat /\ Cnt(c, S) \in Nat
  BY <1>1, CntPositive
<1>3. owned[t][o] \in Nat /\ owned'[t][o] \in Nat
  BY DEF Typed, TypeOK
<1>4. /\ Cnt(code[t], ByV(o)) = Cnt(r, ByV(o)) + Cnt(b, ByV(o))
      /\ Cnt(code[t], ByX(o)) = Cnt(r, ByX(o)) + Cnt(b, ByX(o))
      /\ Cnt(code'[t], ByV(o)) = Cnt(r, ByV(o)) + Cnt(c, ByV(o))
      /\ Cnt(code'[t], ByX(o)) = Cnt(r, ByX(o)) + Cnt(c, ByX(o))
  BY DEF Turn
<1>5. \A u \in Thread : u # t => code'[u] = code[u]
  BY DEF Turn
<1>6. /\ Held(t, o) = owned[t][o] + Cnt(code[t], ByV(o)) + Cnt(code[t], ByX(o))
      /\ Held(t, o)' = owned'[t][o] + Cnt(code'[t], ByV(o)) + Cnt(code'[t], ByX(o))
  BY DEF Held, ByV, ByX
<1>7. \A u \in Thread : u # t => Held(u, o)' = Held(u, o)
  BY <1>5 DEF Held, ByV, ByX
<1>8. QED
  BY <1>2, <1>3, <1>4, <1>6, <1>7 DEF Tok

(* The sum of the references all threads hold.                             *)
LEMMA TotalTurn ==
  ASSUME Typed, Typed', NEW t \in Thread, NEW r, NEW b, NEW c, Turn(t, r, b, c),
         \A u \in Thread : u # t => owned'[u] = owned[u], NEW o \in Object
  PROVE  /\ HeldBy(o) \in [Thread -> Nat] /\ Total(HeldBy(o)) \in Nat /\ Total(HeldBy(o))' \in Nat
         /\ Total(HeldBy(o))' + owned[t][o] + Tok(b, o)
              = Total(HeldBy(o)) + owned'[t][o] + Tok(c, o)
<1> DEFINE n == HeldBy(o)
           m == Held(t, o)'
<1>1. n \in [Thread -> Nat] /\ n[t] = Held(t, o)
  BY HeldNat DEF HeldBy
<1>2. /\ Tok(r, o) \in Nat /\ Tok(b, o) \in Nat /\ Tok(c, o) \in Nat
      /\ owned[t][o] \in Nat /\ owned'[t][o] \in Nat
      /\ Held(t, o) = owned[t][o] + Tok(r, o) + Tok(b, o)
      /\ m = owned'[t][o] + Tok(r, o) + Tok(c, o)
      /\ \A u \in Thread : u # t => Held(u, o)' = Held(u, o)
  BY HeldTurn
<1>3. n' = [n EXCEPT ![t] = m]
  BY <1>2 DEF HeldBy
<1>4. m \in Nat
  BY <1>2
<1> HIDE DEF n, m
<1>5. Total([n EXCEPT ![t] = m]) = (Total(n) - n[t]) + m
  BY <1>1, <1>4, TotalStep
<1>6. Total(n)' = Total(n')
  BY DEF Total
<1>7. n' \in [Thread -> Nat]
  BY <1>1, <1>3, <1>4
<1>8. Total(n) \in Nat /\ Total(n') \in Nat
  BY <1>1, <1>7, TotalFinite
<1>9. Total(n)' + owned[t][o] + Tok(b, o) = Total(n) + owned'[t][o] + Tok(c, o)
  BY <1>1, <1>2, <1>3, <1>5, <1>6, <1>8
<1>10. QED
  BY <1>1, <1>6, <1>8, <1>9 DEF n

-----------------------------------------------------------------------------
(* What the invariant says of one value.                                   *)

(* In front of a rewrite there is nothing but what gives up the old field. *)
LEMMA NothingElse ==
  ASSUME NEW s, WellFormed(s), NEW e \in Items(s), e.op = "rewrite", NEW d \in Items(s)
  PROVE  d.op \in RewriteOps \cup {"rewrite"}
<1>1. PICK i \in 1..Len(s) : e = s[i]
  BY DEF Items
<1>2. PICK j \in 1..Len(s) : d = s[j]
  BY DEF Items
<1>3. i = Len(s) /\ Len(s) \in Nat
  BY <1>1 DEF WellFormed, LastOps
<1>4. CASE j = i
  BY <1>1, <1>2, <1>4
<1>5. CASE j # i
  <2>1. j \in 1..(i - 1)
    BY <1>2, <1>3, <1>5
  <2>2. QED
    BY <1>1, <1>2, <2>1 DEF WellFormed
<1>6. QED
  BY <1>4, <1>5

(* The objects of a micro-operation of a thread.                           *)
LEMMA PartMentions ==
  ASSUME Typed, NEW t \in Thread, NEW e \in Parts(t)
  PROVE  /\ e \in Item /\ (e.op # "alloc" => e.v \in Object /\ Mentions(t, e.v))
         /\ e.v \in Object => Mentions(t, e.v)
         /\ e.op \in MoveOps /\ e.x # Nil => e.x \in Object /\ Mentions(t, e.x)
<1>1. e \in Item
  BY HeldNat, ThreadFinite DEF Typed, TypeOK, Parts, Items
<1>2. QED
  BY <1>1, ItemFields DEF Mentions, Touch

(* The word of a value a thread mentions is what the ghost says, unless    *)
(* the thread itself is about to store it.                                 *)
LEMMA Settled ==
  ASSUME Typed, NEW own, NEW val, Owner(own), Values(val), NEW t \in Thread, NEW o \in Object,
         Mentions(t, o), ~Has1(t, "store", o)
  PROVE  rc[o] = val[o]
<1>1. SUFFICES ASSUME rc[o] # val[o] PROVE FALSE
  OBVIOUS
<1>2. PICK u \in Thread : Has1(u, "store", o)
  BY <1>1 DEF Values
<1>3. PICK e \in Parts(u) : e.op = "store" /\ e.v = o
  BY <1>2 DEF Has1
<1>4. own[o] = u
  BY <1>3 DEF Owner
<1>5. own[o] \in {t, Nil}
  BY DEF Owner
<1>6. u = t
  BY <1>4, <1>5, Numbers
<1>7. QED
  BY <1>2, <1>6

(* A value that is not shared belongs to the thread that mentions it.      *)
LEMMA LocalOwner ==
  ASSUME NEW own, Owner(own), Alive(own), NEW t \in Thread, NEW o \in Object,
         Mentions(t, o), ~IsShared(rc[o])
  PROVE  own[o] = t /\ \A u \in Thread : Mentions(u, o) => u = t
<1>1. Live(o)
  BY DEF Alive
<1>2. own[o] \in {t, Nil} /\ own[o] # Nil
  BY <1>1 DEF Owner
<1>3. QED
  BY <1>2 DEF Owner

(* Who increments, and who is half way through an addition.                *)
LEMMA IncsFinite ==
  ASSUME NEW o
  PROVE  /\ IsFiniteSet(Incs(o)) /\ Cardinality(Incs(o)) \in Nat /\ Incs(o) \in SUBSET Thread
         /\ IsFiniteSet(Adds(o)) /\ Cardinality(Adds(o)) \in Nat /\ Adds(o) \in SUBSET Thread
         /\ Cardinality(Adds(o)) <= Cardinality(Thread)
         /\ Cardinality(Thread) \in Nat /\ Cardinality(Thread) <= SATURATED
<1>1. Incs(o) \in SUBSET Thread /\ Adds(o) \in SUBSET Thread
  BY DEF Incs, Adds
<1>2. QED
  BY <1>1, ThreadFinite, FS_Subset, FS_CardinalityType

(* A count of zero: nothing refers to the value and nobody is about to.    *)
LEMMA ZeroMeans ==
  ASSUME Typed, NEW own, NEW val, Alive(own), Balance(val), NEW o \in Object, Zero(val, o)
  PROVE  Incs(o) = {} /\ Fields(o) = {} /\ \A t \in Thread : Held(t, o) = 0
<1> DEFINE n == HeldBy(o)
           U == Incs(o)
           F == Fields(o)
<1>1. n \in [Thread -> Nat] /\ \A t \in Thread : n[t] = Held(t, o)
  BY HeldNat DEF HeldBy
<1>2. IsFiniteSet(F) /\ 0 + Cardinality(U) = Total(n) + Cardinality(F)
  BY DEF Balance, Zero, HeldBy
<1>3. IsFiniteSet(U) /\ Cardinality(U) \in Nat /\ U \in SUBSET Thread
  BY IncsFinite
<1>4. Cardinality(F) \in Nat /\ (Cardinality(F) = 0 <=> F = {}) /\ (Cardinality(U) = 0 <=> U = {})
  BY <1>2, <1>3, FS_CardinalityType, FS_EmptySet
<1>5. Total(n) \in Nat
  BY <1>1, TotalFinite
<1>6. ASSUME NEW t \in U PROVE n[t] >= 1 /\ (n[t] >= 2 \/ F # {})
  <2>1. t \in Thread
    BY <1>3
  <2>2. /\ \E e \in Parts(t) : e.op \in HoldOps /\ e.v = o
        /\ owned[t][o] > 0 \/ F # {}
    BY <1>6, <2>1 DEF Alive
  <2>3. Held(t, o) >= owned[t][o] + 1 /\ owned[t][o] \in Nat /\ Held(t, o) \in Nat
    BY <2>1, <2>2, HeldNat
  <2>4. QED
    BY <1>1, <2>1, <2>2, <2>3
<1> HIDE DEF n, U, F
<1>7. U = {}
  <2>1. SUFFICES ASSUME NEW t \in U PROVE FALSE
    OBVIOUS
  <2>2. t \in Thread
    BY <1>3
  <2>3. Cardinality(U) <= Total(n)
    BY <1>1, <1>3, <1>6, TotalAtLeast
  <2>4. CASE F # {}
    BY <2>3, <2>4, <1>2, <1>3, <1>4, <1>5
  <2>5. CASE n[t] >= 2
    <3>1. Cardinality(U) + 1 <= Total(n)
      BY <2>2, <2>5, <1>1, <1>3, <1>6, TotalMore
    <3>2. QED
      BY <3>1, <1>2, <1>3, <1>4, <1>5
  <2>6. QED
    BY <2>4, <2>5, <1>6
<1>8. Total(n) = 0 /\ F = {}
  BY <1>2, <1>3, <1>4, <1>5, <1>7
<1>9. ASSUME NEW t \in Thread PROVE n[t] = 0
  BY <1>1, <1>8, TotalPart
<1>10. QED
  BY <1>1, <1>7, <1>8, <1>9 DEF U, F

(* A value that is about to be rewritten: only the thread that rewrites it *)
(* refers to it, once.                                                     *)
LEMMA Sole ==
  ASSUME Typed, NEW own, NEW val, Owner(own), Alive(own), Balance(val), Freeing(val),
         NEW t \in Thread, NEW e \in Parts(t), e.op = "rewrite"
  PROVE  /\ e.v \in Object /\ own[e.v] = t /\ ~IsShared(rc[e.v]) /\ val[e.v] = 1 /\ tag[e.v] = "ctor"
         /\ Incs(e.v) = {} /\ Fields(e.v) = {} /\ Held(t, e.v) = 1 /\ owned[t][e.v] = 0
         /\ \A u \in Thread : Mentions(u, e.v) => u = t
<1> DEFINE v == e.v
           n == HeldBy(v)
           U == Incs(v)
           F == Fields(v)
<1>1. e \in Item /\ v \in Object /\ Mentions(t, v)
  BY PartMentions
<1>2. own[v] = t /\ ~IsShared(rc[v]) /\ val[v] = 1 /\ tag[v] = "ctor"
  BY DEF Owner, Freeing, Alive
<1>3. \A u \in Thread : Mentions(u, v) => u = t
  BY <1>1, <1>2, LocalOwner
<1>4. ASSUME NEW u \in Thread, u \in U PROVE FALSE
  <2>1. PICK d \in Parts(u) : d.op \in IncOps /\ d.v = v
    BY <1>4 DEF Incs
  <2>2. u = t
    BY <2>1, <1>1, <1>3 DEF Mentions, Touch
  <2>3. WellFormed(code[t]) /\ d \in Items(code[t]) /\ e \in Items(code[t])
    BY <2>1, <2>2 DEF Typed, Parts
  <2>4. d.op \in RewriteOps \cup {"rewrite"}
    BY <2>3, NothingElse
  <2>5. QED
    BY <2>1, <2>4 DEF IncOps, RewriteOps
<1>5. U = {}
  BY <1>4 DEF Incs
<1>6. n \in [Thread -> Nat] /\ n[t] = Held(t, v)
  BY <1>1, HeldNat DEF HeldBy
<1>7. n[t] >= owned[t][v] + 1 /\ owned[t][v] \in Nat
  BY <1>1, <1>6, HeldNat DEF HoldOps
<1>8. ~IsSaturated(val[v]) /\ Count(val[v]) = 1
  <2>1. 1 \in 0..(2 * SHARED - 1) /\ 1 < SATURATED
    BY Numbers
  <2>2. ~IsSaturated(1) /\ Count(1) = 1
    BY <2>1, Words
  <2>3. QED
    BY <2>2, <1>2
<1>9. IsFiniteSet(F) /\ 1 + Cardinality(U) = Total(n) + Cardinality(F)
  BY <1>1, <1>8 DEF Balance, HeldBy
<1>10. Cardinality(U) = 0 /\ Cardinality(F) \in Nat /\ (Cardinality(F) = 0 <=> F = {})
  BY <1>5, <1>9, FS_EmptySet, FS_CardinalityType
<1> HIDE DEF n, U, F
<1>11. Total(n) \in Nat /\ n[t] <= Total(n) /\ n[t] \in Nat
  BY <1>6, TotalFinite, TotalPart
<1>12. n[t] = 1 /\ owned[t][v] = 0 /\ F = {}
  BY <1>7, <1>9, <1>10, <1>11
<1>13. QED
  BY <1>1, <1>2, <1>3, <1>5, <1>6, <1>12 DEF U, F

(* When a constructor is about to be overwritten nothing refers to it any  *)
(* more, the micro-operation itself excepted.                              *)
LEMMA Untouched ==
  ASSUME Typed, NEW own, NEW val, Inv(own, val), NEW t \in Thread, Do(t, "poison")
  PROVE  LET v == V(t)
         IN /\ v \in Object /\ tag[v] = "ctor" /\ Zero(val, v)
            /\ Incs(v) = {} /\ Fields(v) = {} /\ \A u \in Thread : Held(u, v) = 0 /\ owned[u][v] = 0
            /\ \A e \in Items(Rest(t)) : ~Touch(e, v)
            /\ \A u \in Thread : Mentions(u, v) => u = t
<1> DEFINE h == Head(code[t])
           r == Rest(t)
           v == V(t)
<1>1. /\ code[t] # <<>> /\ h \in Item /\ h.op = "poison" /\ h.v = v /\ v \in Object /\ Quiet(r)
  BY Acting
<1>2. /\ Parts(t) = {h} \cup Items(r) /\ \A S : Cnt(code[t], S) = Cnt(r, S) + One(h, S)
      /\ r \in Seq(Item)
  BY <1>1, Opened
<1>3. h.op \in DyingOps
  BY <1>1 DEF DyingOps
<1>4. tag[v] = "ctor" /\ Zero(val, v) /\ Cnt(code[t], Dying(v)) <= 1
  BY <1>1, <1>2, <1>3 DEF Inv, Freeing
<1>5. Incs(v) = {} /\ Fields(v) = {} /\ \A u \in Thread : Held(u, v) = 0
  BY <1>1, <1>4, ZeroMeans DEF Inv
<1>6. \A u \in Thread : /\ owned[u][v] = 0
                        /\ \A e \in Parts(u) : ~(e.op \in HoldOps /\ e.v = v) /\ ~(e.op \in MoveOps /\ e.x = v)
  <2>1. ASSUME NEW u \in Thread
        PROVE  /\ owned[u][v] = 0
               /\ \A e \in Parts(u) : ~(e.op \in HoldOps /\ e.v = v) /\ ~(e.op \in MoveOps /\ e.x = v)
    <3>1. Held(u, v) = 0
      BY <1>5
    <3>2. owned[u][v] \in Nat /\ Tok(code[u], v) \in Nat /\ Held(u, v) = owned[u][v] + Tok(code[u], v)
      BY <1>1, HeldNat
    <3>3. \A e \in Parts(u) : /\ e.op \in HoldOps /\ e.v = v => Held(u, v) >= owned[u][v] + 1
                              /\ e.op \in MoveOps /\ e.x = v => Held(u, v) >= owned[u][v] + 1
      BY <1>1, HeldNat
    <3>4. QED
      BY <3>1, <3>2, <3>3
  <2>2. QED
    BY <2>1
<1>7. Cnt(r, Dying(v)) = 0
  <2>1. One(h, Dying(v)) = 1
    BY <1>1, <1>3, TokOne
  <2>2. Cnt(r, Dying(v)) \in Nat
    BY <1>2, CntPositive
  <2>3. QED
    BY <2>1, <2>2, <1>2, <1>4
<1>8. \A e \in Items(r) : e.op \in DyingOps => e.v # v
  <2>1. ASSUME NEW e \in Items(r), e.op \in DyingOps, e.v = v PROVE FALSE
    <3>1. e \in Item
      BY <1>2 DEF Items
    <3>2. e \in Dying(v)
      BY <3>1, <2>1 DEF Dying
    <3>3. Cnt(r, Dying(v)) > 0
      BY <3>2, <1>2, CntPositive
    <3>4. QED
      BY <3>3, <1>7
  <2>2. QED
    BY <2>1
<1>9. ASSUME NEW u \in Thread, NEW e \in Parts(u), Touch(e, v)
      PROVE  u = t /\ e = h
  <2>1. e \in Item /\ e.op \in Ops
    BY PartMentions, ItemFields
  <2>2. e.v = v /\ e.op \notin HoldOps
    BY <1>6, <1>9 DEF Touch
  <2>3. e.op \notin IncOps
    BY <1>5, <2>2 DEF Incs
  <2>4. e.op \notin {"get", "swap", "cellUnlock"}
    BY <1>4, <2>2 DEF Inv, Alive
  <2>5. ~Carries(u, v)
    BY <1>6 DEF Carries, HoldOps, MoveOps
  <2>6. e.op \notin {"shade", "markLock", "markUnlock"}
    <3>1. e.op = "shade" => IF e.k = "" THEN Carries(u, e.v) ELSE \E p \in Fields(e.v) : own[p] = u
      BY DEF Inv, Marked
    <3>2. e.op \in {"markLock", "markUnlock"} => Carries(u, e.v)
      BY DEF Inv, Marked
    <3>3. QED
      BY <3>1, <3>2, <2>2, <2>5, <1>5
  <2>7. e.op \in DyingOps => u = t /\ e = h
    <3>1. e.op \in DyingOps => u = t
      BY <1>1, <1>2, <1>3, <2>2 DEF Inv, Freeing
    <3>2. QED
      BY <3>1, <1>2, <1>8, <2>2
  <2>8. e.op # "store"
    <3>1. SUFFICES ASSUME e.op = "store" PROVE FALSE
      OBVIOUS
    <3>2. own[v] = u
      BY <3>1, <2>2 DEF Inv, Owner
    <3>3. Mentions(t, v)
      BY <1>1, <1>2 DEF Mentions, Touch
    <3>4. own[v] \in {t, Nil}
      BY <3>3, <1>1 DEF Inv, Owner
    <3>5. u = t
      BY <3>2, <3>4, Numbers
    <3>6. e \in Items(r)
      BY <3>1, <3>5, <1>1, <1>2
    <3>7. QED
      BY <3>1, <3>6, <1>1 DEF Quiet, HeadOps
  <2>9. QED
    BY <2>1, <2>2, <2>3, <2>4, <2>6, <2>7, <2>8
      DEF Ops, HeadOps, LastOps, HoldOps, IncOps, DyingOps
<1>10. ASSUME NEW e \in Items(r) PROVE ~Touch(e, v)
  <2>1. SUFFICES ASSUME Touch(e, v) PROVE FALSE
    OBVIOUS
  <2>2. e = h
    BY <2>1, <1>2, <1>9
  <2>3. QED
    BY <2>2, <1>1, <1>3, <1>8
<1>11. \A u \in Thread : Mentions(u, v) => u = t
  <2>1. \A u \in Thread : ~(owned[u][v] > 0)
    BY <1>6
  <2>2. QED
    BY <2>1, <1>9 DEF Mentions
<1>12. QED
  BY <1>1, <1>4, <1>5, <1>6, <1>10, <1>11

-----------------------------------------------------------------------------
(* Steps that change neither tags nor fields, nor what other threads own,  *)
(* and end no value: what each part of the invariant needs of them.        *)

Calm(t, r, b, c) ==
  /\ Typed /\ Typed' /\ Turn(t, r, b, c) /\ tag' = tag /\ field' = field
  /\ \A u \in Thread : u # t => owned'[u] = owned[u]
  /\ \A e \in Items(b) : e.op \notin {"poison", "rewrite"}

(* The list starts to take the value p apart.                              *)
Breaks(c, p) == \E e \in Items(c) : e.op \in {"poison", "rewrite"} /\ e.v = p

(* The list is going to mark o.                                            *)
Shades(c, o) == \E e \in Items(c) : e.op = "shade" /\ e.v = o

(* The micro-operations after the step.                                    *)
LEMMA ItemNext ==
  ASSUME NEW t \in Thread, NEW r, NEW b, NEW c, Calm(t, r, b, c), NEW u \in Thread
  PROVE  \A e \in Parts(u)' : e \in Item
<1>1. code'[u] \in Seq(Item)
  BY DEF Calm, Turn
<1>2. QED
  BY <1>1 DEF Parts, Items

(* Which values are whole.                                                 *)
LEMMA BrokenKeep ==
  ASSUME NEW t \in Thread, NEW r, NEW b, NEW c, Calm(t, r, b, c)
  PROVE  /\ \A p \in Object : Live(p)' <=> Live(p)
         /\ \A p \in Object : Broken(p)' <=> Broken(p) \/ Breaks(c, p)
         /\ \A p \in Object : Sound(p)' <=> Sound(p) /\ ~Breaks(c, p)
         /\ \A o \in Object : \A p \in Object : p \in Fields(o)' <=> p \in Fields(o) /\ ~Breaks(c, p)
<1>1. /\ Parts(t) = Items(r) \cup Items(b)
      /\ Parts(t)' = Items(r) \cup Items(c)
      /\ \A u \in Thread : u # t => Parts(u)' = Parts(u)
  BY Parted DEF Calm
<1>2. \A p \in Object : Live(p)' <=> Live(p)
  BY DEF Calm, Live
<1>3. ASSUME NEW p \in Object PROVE Broken(p)' <=> Broken(p) \/ Breaks(c, p)
  <2>1. ASSUME Broken(p)' PROVE Broken(p) \/ Breaks(c, p)
    <3>1. PICK u \in Thread : \E e \in Parts(u)' : e.op \in {"poison", "rewrite"} /\ e.v = p
      BY <2>1 DEF Broken
    <3>2. CASE u = t
      BY <3>1, <3>2, <1>1 DEF Broken, Breaks
    <3>3. CASE u # t
      BY <3>1, <3>3, <1>1 DEF Broken
    <3>4. QED
      BY <3>2, <3>3
  <2>2. ASSUME Broken(p) PROVE Broken(p)'
    <3>1. PICK u \in Thread : \E d \in Parts(u) : d.op \in {"poison", "rewrite"} /\ d.v = p
      BY <2>2 DEF Broken
    <3>a. PICK e \in Parts(u) : e.op \in {"poison", "rewrite"} /\ e.v = p
      BY <3>1
    <3>2. e \in Parts(u)'
      BY <3>a, <1>1 DEF Calm
    <3>3. QED
      BY <3>a, <3>2 DEF Broken
  <2>3. ASSUME Breaks(c, p) PROVE Broken(p)'
    <3>1. PICK e \in Items(c) : e.op \in {"poison", "rewrite"} /\ e.v = p
      BY <2>3 DEF Breaks
    <3>2. e \in Parts(t)'
      BY <1>1
    <3>3. QED
      BY <3>1, <3>2 DEF Broken
  <2>4. QED
    BY <2>1, <2>2, <2>3
<1>4. \A p \in Object : Sound(p)' <=> Sound(p) /\ ~Breaks(c, p)
  BY <1>2, <1>3 DEF Sound
<1>5. \A o \in Object : \A p \in Object : p \in Fields(o)' <=> p \in Fields(o) /\ ~Breaks(c, p)
  BY <1>4 DEF Fields, Calm
<1>6. QED
  BY <1>2, <1>3, <1>4, <1>5

(* The owners.                                                             *)
LEMMA OwnerKeep ==
  ASSUME NEW t \in Thread, NEW r, NEW b, NEW c, Calm(t, r, b, c), NEW own, Owner(own),
         \A o \in Object : owned'[t][o] > 0 => own[o] \in {t, Nil},
         \A e \in Items(c) : \A o \in Object : Touch(e, o) => own[o] \in {t, Nil},
         \A o \in Object : IsShared(rc[o]) => IsShared(rc'[o]),
         \A o \in Object : IsShared(rc'[o]) /\ ~IsShared(rc[o]) =>
           own[o] = t /\ \A e \in Items(r) : e.op # "rewrite",
         \A e \in Items(c) :
           /\ e.op \in {"store", "rewrite"} => own[e.v] = t /\ ~IsShared(rc'[e.v])
           /\ e.op \in {"cas", "add", "saturate"} => IsShared(rc'[e.v])
           /\ e.op = "cas" => e.w \in (SHARED + 1)..(SHARED + COUNT_MASK)
  PROVE  Owner(own)'
<1>1. /\ Parts(t) = Items(r) \cup Items(b)
      /\ Parts(t)' = Items(r) \cup Items(c)
      /\ \A u \in Thread : u # t => Parts(u)' = Parts(u)
      /\ \A d \in Items(r) : d.op \notin HeadOps
  BY Parted DEF Calm
<1>2. tag' = tag /\ field' = field /\ \A u \in Thread : u # t => owned'[u] = owned[u]
  BY DEF Calm
<1>3. ASSUME NEW u \in Thread, NEW o \in Object, Mentions(u, o)' PROVE own[o] \in {u, Nil}
  <2>1. CASE u # t
    <3>1. Mentions(u, o)
      BY <1>1, <1>2, <1>3, <2>1 DEF Mentions, Touch
    <3>2. QED
      BY <3>1 DEF Owner
  <2>2. CASE u = t
    <3>1. CASE owned'[t][o] > 0
      BY <3>1, <2>2
    <3>2. CASE \E e \in Items(r) : Touch(e, o)
      BY <3>2, <2>2, <1>1 DEF Owner, Mentions
    <3>3. CASE \E e \in Items(c) : Touch(e, o)
      BY <3>3, <2>2
    <3>4. QED
      BY <3>1, <3>2, <3>3, <1>1, <1>3, <2>2 DEF Mentions, Touch
  <2>3. QED
    BY <2>1, <2>2
<1>4. \A p \in Object : tag'[p] # "none" /\ field'[p] # Nil => own[field'[p]] \in {own[p], Nil}
  BY <1>2 DEF Owner
<1>5. \A o \in Object : Live(o)' /\ own[o] = Nil => IsShared(rc'[o])
  BY <1>2 DEF Owner, Live
<1>6. ASSUME NEW u \in Thread, NEW e \in Parts(u)'
      PROVE  /\ e.op \in {"store", "rewrite"} => own[e.v] = u /\ ~IsShared(rc'[e.v])
             /\ e.op \in {"cas", "add", "saturate"} => IsShared(rc'[e.v])
             /\ e.op = "cas" => e.w \in (SHARED + 1)..(SHARED + COUNT_MASK)
  <2>1. CASE u = t /\ e \in Items(c)
    BY <2>1
  <2>2. CASE e \in Parts(u) /\ (u = t => e \in Items(r))
    <3>1. /\ e.op \in {"store", "rewrite"} => own[e.v] = u /\ ~IsShared(rc[e.v])
          /\ e.op \in {"cas", "add", "saturate"} => IsShared(rc[e.v])
          /\ e.op = "cas" => e.w \in (SHARED + 1)..(SHARED + COUNT_MASK)
      BY <2>2 DEF Owner
    <3>2. e.op # "alloc" => e.v \in Object
      BY <2>2, PartMentions DEF Calm
    <3>3. u = t => e.op # "store"
      BY <2>2, <1>1 DEF HeadOps
    <3>4. e.op \in {"store", "rewrite"} => ~IsShared(rc'[e.v])
      BY <2>2, <3>1, <3>2, <3>3
    <3>5. QED
      BY <3>1, <3>2, <3>4
  <2>3. QED
    BY <2>1, <2>2, <1>1, <1>6
<1>7. QED
  BY <1>3, <1>4, <1>5, <1>6 DEF Owner

(* The micro-operations c of t, before those of r, agree with the marks.   *)
ItemsMarked(t, own, r, c) ==
  \A e \in Items(c) :
    /\ e.op = "give" => IsShared(rc'[e.v]) \/ Shades(c, e.v)
    /\ e.op = "swap" =>
         /\ Items(r) = {}
         /\ e.x # Nil /\ IsShared(rc'[e.v]) => IsShared(rc'[e.x]) \/ Shades(c, e.x)
         /\ (\E d \in Items(c) : d.op = "shade") => IsShared(rc'[e.v])
    /\ e.op = "shade" =>
         IF e.k = ""
         THEN \E d \in Items(r) \cup Items(c) : (d.op = "give" /\ d.v = e.v) \/ (d.op = "swap" /\ d.x = e.v)
         ELSE \E p \in Fields(e.v) : own[p] = t
    /\ e.op \in {"markLock", "markUnlock"} =>
         \E d \in Items(c) : (d.op = "give" /\ d.v = e.v) \/ (d.op = "swap" /\ d.x = e.v)

(* The marks.                                                              *)
LEMMA MarkedKeep ==
  ASSUME NEW t \in Thread, NEW r, NEW b, NEW c, Calm(t, r, b, c), NEW own,
         Owner(own), Marked(own), own \in [Object -> Thread \cup {Nil}],
         \A e \in Items(b) : e.op \notin {"give", "swap"},
         \A o \in Object : IsShared(rc[o]) => IsShared(rc'[o]),
         \A o \in Object : Shades(b, o) => IsShared(rc'[o]),
         \A p \in Object : IsShared(rc'[p]) /\ ~IsShared(rc[p]) =>
           /\ own[p] = t /\ \E e \in Items(b) : e.op = "shade"
           /\ field[p] # Nil => IsShared(rc'[field[p]]) \/ Shades(c, field[p]),
         ItemsMarked(t, own, r, c),
         (\E e \in Items(c) : e.op = "shade") /\ (\E e \in Items(r) : e.op = "swap") =>
           \E e \in Items(b) : e.op = "shade",
         \A p \in Object : Breaks(c, p) =>
           own[p] \in {t, Nil} /\ \A e \in Items(r) \cup Items(c) : e.op # "shade"
  PROVE  Marked(own)'
<1>1. /\ Parts(t) = Items(r) \cup Items(b)
      /\ Parts(t)' = Items(r) \cup Items(c)
      /\ \A u \in Thread : u # t => Parts(u)' = Parts(u)
  BY Parted DEF Calm
<1>2. /\ tag' = tag /\ field' = field /\ Typed /\ field \in [Object -> Object \cup {Nil}]
  BY States DEF Calm
<1>3. /\ \A p \in Object : Sound(p)' => Sound(p)
      /\ \A o \in Object : \A p \in Object : p \in Fields(o)' <=> p \in Fields(o) /\ ~Breaks(c, p)
  BY BrokenKeep
<1> USE DEF ItemsMarked
<1>4. ASSUME NEW u \in Thread, NEW o \in Object, Has1(u, "shade", o) PROVE IsShared(rc'[o]) \/ Has1(u, "shade", o)'
  <2>1. CASE u # t
    BY <2>1, <1>1, <1>4 DEF Has1
  <2>2. CASE u = t
    <3>1. PICK e \in Items(r) \cup Items(b) : e.op = "shade" /\ e.v = o
      BY <2>2, <1>1, <1>4 DEF Has1
    <3>2. CASE e \in Items(r)
      BY <3>1, <3>2, <2>2, <1>1 DEF Has1
    <3>3. CASE e \in Items(b)
      BY <3>1, <3>3 DEF Shades
    <3>4. QED
      BY <3>2, <3>3
  <2>3. QED
    BY <2>1, <2>2
<1>5. \A o \in Object : Shades(c, o) => Has1(t, "shade", o)'
  BY <1>1 DEF Shades, Has1
<1>6. ASSUME NEW p \in Object, Sound(p)', IsShared(rc'[p]), field'[p] # Nil
      PROVE  IsShared(rc'[field'[p]]) \/ (own[p] # Nil /\ Has1(own[p], "shade", field[p])')
  <2>1. PICK f \in Object : f = field[p] /\ f = field'[p]
    BY <1>2, <1>6
  <2>2. IsShared(rc'[f]) \/ (own[p] # Nil /\ Has1(own[p], "shade", f)')
    <3>1. CASE IsShared(rc[p])
      <4>1. IsShared(rc[f]) \/ (own[p] # Nil /\ Has1(own[p], "shade", f))
        BY <1>3, <1>6, <2>1, <3>1, Numbers DEF Marked
      <4>2. own[p] # Nil => own[p] \in Thread
        OBVIOUS
      <4>3. QED
        BY <4>1, <4>2, <2>1, <1>4
    <3>2. CASE ~IsShared(rc[p])
      <4>1. own[p] = t /\ (IsShared(rc'[f]) \/ Shades(c, f))
        BY <1>6, <2>1, <3>2, Numbers
      <4>2. QED
        BY <4>1, <1>5, Numbers
    <3>3. QED
      BY <3>1, <3>2
  <2>3. QED
    BY <2>1, <2>2 DEF Has1
<1>7. ASSUME NEW u \in Thread, NEW o \in Object, Carries(u, o) PROVE Carries(u, o)'
  <2>1. CASE u # t
    BY <2>1, <1>1, <1>7 DEF Carries
  <2>2. CASE u = t
    BY <2>2, <1>1, <1>7 DEF Carries
  <2>3. QED
    BY <2>1, <2>2
<1>8. ASSUME NEW u \in Thread, NEW e \in Parts(u)'
      PROVE  /\ e.op = "give" => IsShared(rc'[e.v]) \/ Has1(u, "shade", e.v)'
             /\ e.op = "swap" /\ e.x # Nil /\ IsShared(rc'[e.v]) =>
                  IsShared(rc'[e.x]) \/ Has1(u, "shade", e.x)'
             /\ e.op = "swap" /\ (\E d \in Parts(u)' : d.op = "shade") => IsShared(rc'[e.v])
             /\ e.op = "shade" =>
                  IF e.k = "" THEN Carries(u, e.v)' ELSE \E p \in Fields(e.v)' : own[p] = u
             /\ e.op \in {"markLock", "markUnlock"} => Carries(u, e.v)'
  <2>0. e \in Item /\ (e.op # "alloc" => e.v \in Object) /\ (e.op = "swap" /\ e.x # Nil => e.x \in Object)
    <3>1. e \in Item
      BY <1>8, ItemNext
    <3>2. QED
      BY <3>1, ItemFields DEF MoveOps
  <2>1. CASE u = t /\ e \in Items(c)
    <3>1. e.op = "give" => IsShared(rc'[e.v]) \/ Has1(u, "shade", e.v)'
      BY <2>0, <2>1, <1>5
    <3>2. e.op = "swap" /\ e.x # Nil /\ IsShared(rc'[e.v]) => IsShared(rc'[e.x]) \/ Has1(u, "shade", e.x)'
      BY <2>0, <2>1, <1>5
    <3>3. e.op = "swap" /\ (\E d \in Parts(u)' : d.op = "shade") => IsShared(rc'[e.v])
      BY <2>1, <1>1
    <3>4. e.op = "shade" => IF e.k = "" THEN Carries(u, e.v)' ELSE \E p \in Fields(e.v)' : own[p] = u
      <4>1. SUFFICES ASSUME e.op = "shade" PROVE IF e.k = "" THEN Carries(u, e.v)' ELSE \E p \in Fields(e.v)' : own[p] = u
        OBVIOUS
      <4>2. CASE e.k = ""
        BY <4>1, <4>2, <2>1, <1>1 DEF Carries
      <4>3. CASE e.k # ""
        <5>1. PICK p \in Fields(e.v) : own[p] = t
          BY <4>1, <4>3, <2>1
        <5>2. p \in Object /\ ~Breaks(c, p)
          BY <5>1, <4>1, <2>1 DEF Fields
        <5>3. p \in Fields(e.v)'
          BY <5>1, <5>2, <4>1, <2>0, <1>3
        <5>4. QED
          BY <5>1, <5>3, <4>3, <2>1
      <4>4. QED
        BY <4>2, <4>3
    <3>5. e.op \in {"markLock", "markUnlock"} => Carries(u, e.v)'
      BY <2>1, <1>1 DEF Carries
    <3>6. QED
      BY <3>1, <3>2, <3>3, <3>4, <3>5
  <2>2. CASE e \in Parts(u) /\ (u = t => e \in Items(r))
    <3>1. /\ e.op = "give" => IsShared(rc[e.v]) \/ Has1(u, "shade", e.v)
          /\ e.op = "swap" /\ e.x # Nil /\ IsShared(rc[e.v]) => IsShared(rc[e.x]) \/ Has1(u, "shade", e.x)
          /\ e.op = "swap" /\ (\E d \in Parts(u) : d.op = "shade") => IsShared(rc[e.v])
          /\ e.op = "shade" => IF e.k = "" THEN Carries(u, e.v) ELSE \E p \in Fields(e.v) : own[p] = u
          /\ e.op \in {"markLock", "markUnlock"} => Carries(u, e.v)
      BY <2>2 DEF Marked
    <3>2. e.op = "give" => IsShared(rc'[e.v]) \/ Has1(u, "shade", e.v)'
      BY <3>1, <2>0, <1>4
    <3>3. e.op = "swap" => (IsShared(rc'[e.v]) => IsShared(rc[e.v]))
      <4>1. SUFFICES ASSUME e.op = "swap", IsShared(rc'[e.v]), ~IsShared(rc[e.v]) PROVE FALSE
        OBVIOUS
      <4>2. own[e.v] = t /\ \E d \in Items(b) : d.op = "shade"
        BY <4>1, <2>0
      <4>3. own[e.v] \in {u, Nil}
        BY <4>1, <2>0, <2>2, <1>2, PartMentions DEF Owner
      <4>4. u = t
        BY <4>2, <4>3, Numbers
      <4>5. QED
        BY <4>1, <4>2, <4>4, <3>1, <1>1
    <3>4. e.op = "swap" /\ e.x # Nil /\ IsShared(rc'[e.v]) => IsShared(rc'[e.x]) \/ Has1(u, "shade", e.x)'
      BY <3>1, <3>3, <2>0, <1>4
    <3>5. e.op = "swap" /\ (\E d \in Parts(u)' : d.op = "shade") => IsShared(rc'[e.v])
      <4>1. SUFFICES ASSUME e.op = "swap", NEW d \in Parts(u)', d.op = "shade" PROVE IsShared(rc'[e.v])
        OBVIOUS
      <4>2. \E i \in Parts(u) : i.op = "shade"
        BY <4>1, <2>2, <1>1
      <4>3. QED
        BY <4>1, <4>2, <3>1, <2>0
    <3>6. e.op = "shade" => IF e.k = "" THEN Carries(u, e.v)' ELSE \E p \in Fields(e.v)' : own[p] = u
      <4>1. SUFFICES ASSUME e.op = "shade" PROVE IF e.k = "" THEN Carries(u, e.v)' ELSE \E p \in Fields(e.v)' : own[p] = u
        OBVIOUS
      <4>2. CASE e.k = ""
        BY <4>1, <4>2, <3>1, <2>0, <1>7
      <4>3. CASE e.k # ""
        <5>1. PICK p \in Fields(e.v) : own[p] = u
          BY <4>1, <4>3, <3>1
        <5>2. p \in Object
          BY <5>1 DEF Fields
        <5>3. ~Breaks(c, p)
          <6>1. SUFFICES ASSUME Breaks(c, p) PROVE FALSE
            OBVIOUS
          <6>2. own[p] \in {t, Nil} /\ \A d \in Items(r) \cup Items(c) : d.op # "shade"
            BY <6>1, <5>2
          <6>3. u = t
            BY <6>2, <5>1, Numbers
          <6>4. QED
            BY <6>2, <6>3, <4>1, <2>2
        <5>4. p \in Fields(e.v)'
          BY <5>1, <5>2, <5>3, <4>1, <2>0, <1>3
        <5>5. QED
          BY <5>1, <5>4, <4>3
      <4>4. QED
        BY <4>2, <4>3
    <3>7. e.op \in {"markLock", "markUnlock"} => Carries(u, e.v)'
      BY <3>1, <2>0, <1>7
    <3>8. QED
      BY <3>2, <3>4, <3>5, <3>6, <3>7
  <2>3. QED
    BY <2>1, <2>2, <1>1, <1>8
<1>9. QED
  BY <1>6, <1>8 DEF Marked

(* What keeps a value readable for a thread goes on doing so.              *)
LEMMA KeepsKeep ==
  ASSUME NEW t \in Thread, NEW r, NEW b, NEW c, Calm(t, r, b, c), NEW own, NEW p \in Object
  PROVE  /\ \A u \in Thread : u # t /\ (cellLock'[p] # cellLock[p] => cellLock[p] \in {t, Nil}) =>
              (Keeps(own, u, p) => Keeps(own, u, p)')
         /\ Keeps(own, t, p) /\ Held(t, p)' >= Held(t, p) /\ cellLock'[p] \in {cellLock[p], t} =>
              Keeps(own, t, p)'
<1>1. Typed /\ Typed' /\ Turn(t, r, b, c) /\ tag' = tag /\ \A u \in Thread : u # t => owned'[u] = owned[u]
  BY DEF Calm
<1>2. \A u \in Thread : u # t => Held(u, p)' = Held(u, p)
  BY <1>1, HeldTurn
<1>3. Held(t, p) \in Nat /\ Held(t, p)' \in Nat
  <2>1. Held(t, p) \in Nat
    BY <1>1, HeldNat
  <2>2. /\ Tok(r, p) \in Nat /\ Tok(c, p) \in Nat /\ owned'[t][p] \in Nat
        /\ Held(t, p)' = owned'[t][p] + Tok(r, p) + Tok(c, p)
    BY <1>1, HeldTurn
  <2>3. QED
    BY <2>1, <2>2
<1>4. ASSUME NEW u \in Thread, u # t, cellLock'[p] # cellLock[p] => cellLock[p] \in {t, Nil}, Keeps(own, u, p)
      PROVE  Keeps(own, u, p)'
  <2>1. cellLock[p] = u => cellLock'[p] = u
    BY <1>4, Numbers
  <2>2. QED
    BY <2>1, <1>1, <1>2, <1>4 DEF Keeps
<1>5. ASSUME Keeps(own, t, p), Held(t, p)' >= Held(t, p), cellLock'[p] \in {cellLock[p], t}
      PROVE  Keeps(own, t, p)'
  <2>1. Held(t, p) > 0 => Held(t, p)' > 0
    BY <1>3, <1>5
  <2>2. QED
    BY <2>1, <1>1, <1>5 DEF Keeps
<1>6. QED
  BY <1>4, <1>5

(* What is referred to lives.                                              *)
LEMMA AliveKeep ==
  ASSUME NEW t \in Thread, NEW r, NEW b, NEW c, Calm(t, r, b, c), NEW own, Alive(own),
         \A o \in Object : owned'[t][o] > 0 => Live(o),
         \A e \in Items(c) : \A o \in Object : Touch(e, o) => Live(o),
         \A e \in Items(c) : e.op \in IncOps =>
           /\ \E d \in Items(r) \cup Items(c) : d.op \in HoldOps /\ d.v = e.v
           /\ owned'[t][e.v] > 0 \/ \E p \in Fields(e.v)' : Keeps(own, t, p)',
         \A p \in Object : Breaks(c, p) => \A u \in Thread : u # t => ~Keeps(own, u, p),
         \A p \in Object : cellLock'[p] # cellLock[p] => cellLock[p] \in {t, Nil},
         \A e \in Items(c) :
           /\ e.op \in {"get", "swap", "cellUnlock"} => tag[e.v] = "ref"
           /\ e.op = "cellUnlock" => cellLock'[e.v] = t
           /\ e.op = "rewrite" => tag[e.v] = "ctor",
         \A e \in Items(r) : e.op = "cellUnlock" => cellLock'[e.v] = t
  PROVE  Alive(own)'
<1>1. /\ Parts(t) = Items(r) \cup Items(b)
      /\ Parts(t)' = Items(r) \cup Items(c)
      /\ \A u \in Thread : u # t => Parts(u)' = Parts(u)
      /\ \A d \in Items(r) : d.op \notin HeadOps
  BY Parted DEF Calm
<1>2. tag' = tag /\ field' = field /\ Typed /\ \A u \in Thread : u # t => owned'[u] = owned[u]
  BY DEF Calm
<1>3. /\ \A p \in Object : Live(p)' <=> Live(p)
      /\ \A p \in Object : Sound(p)' => Sound(p)
      /\ \A o \in Object : \A p \in Object : p \in Fields(o)' <=> p \in Fields(o) /\ ~Breaks(c, p)
  BY BrokenKeep
<1>4. ASSUME NEW u \in Thread, NEW o \in Object, Mentions(u, o)' PROVE Live(o)'
  <2>1. CASE u # t
    <3>1. Mentions(u, o)
      BY <1>1, <1>2, <1>4, <2>1 DEF Mentions, Touch
    <3>2. QED
      BY <3>1, <1>3 DEF Alive
  <2>2. CASE u = t
    <3>1. CASE owned'[t][o] > 0
      BY <3>1, <1>3
    <3>2. CASE \E e \in Items(r) : Touch(e, o)
      <4>1. Mentions(t, o)
        BY <3>2, <1>1 DEF Mentions
      <4>2. QED
        BY <4>1, <1>3 DEF Alive
    <3>3. CASE \E e \in Items(c) : Touch(e, o)
      BY <3>3, <1>3
    <3>4. QED
      BY <3>1, <3>2, <3>3, <1>1, <1>4, <2>2 DEF Mentions, Touch
  <2>3. QED
    BY <2>1, <2>2
<1>5. ASSUME NEW p \in Object, Sound(p)', field'[p] # Nil PROVE Live(field[p])'
  <2>1. field \in [Object -> Object \cup {Nil}] /\ field'[p] = field[p]
    BY <1>2, States
  <2>2. field[p] \in Object
    BY <2>1, <1>5
  <2>3. Live(field[p])
    BY <1>3, <1>5, <2>1 DEF Alive
  <2>4. QED
    BY <2>3, <1>2 DEF Live
<1>6. ASSUME NEW u \in Thread, NEW o \in Object, u \in Incs(o)'
      PROVE  /\ \E e \in Parts(u)' : e.op \in HoldOps /\ e.v = o
             /\ owned'[u][o] > 0 \/ \E p \in Fields(o)' : Keeps(own, u, p)'
  <2>1. PICK i \in Parts(u)' : i.op \in IncOps /\ i.v = o
    BY <1>6 DEF Incs
  <2>2. CASE u # t
    <3>1. u \in Incs(o)
      BY <2>1, <2>2, <1>1 DEF Incs
    <3>2. /\ \E e \in Parts(u) : e.op \in HoldOps /\ e.v = o
          /\ owned[u][o] > 0 \/ \E p \in Fields(o) : Keeps(own, u, p)
      BY <3>1 DEF Alive
    <3>3. ASSUME NEW p \in Fields(o), Keeps(own, u, p) PROVE p \in Fields(o)' /\ Keeps(own, u, p)'
      <4>1. p \in Object
        BY DEF Fields
      <4>2. ~Breaks(c, p)
        BY <4>1, <3>3, <2>2
      <4>3. QED
        BY <4>1, <4>2, <3>3, <2>2, <1>3, KeepsKeep
    <3>4. QED
      BY <3>2, <3>3, <2>2, <1>1, <1>2
  <2>3. CASE u = t
    <3>1. i \in Items(c)
      BY <2>1, <2>3, <1>1 DEF HeadOps
    <3>2. QED
      BY <3>1, <2>1, <2>3, <1>1
  <2>4. QED
    BY <2>2, <2>3
<1>7. ASSUME NEW u \in Thread, NEW e \in Parts(u)'
      PROVE  /\ e.op \in {"get", "swap", "cellUnlock"} => tag'[e.v] = "ref"
             /\ e.op = "cellUnlock" => cellLock'[e.v] = u
             /\ e.op = "rewrite" => tag'[e.v] = "ctor"
  <2>1. CASE u = t /\ e \in Items(c)
    BY <2>1, <1>2
  <2>2. CASE e \in Parts(u) /\ (u = t => e \in Items(r))
    <3>1. /\ e.op \in {"get", "swap", "cellUnlock"} => tag[e.v] = "ref"
          /\ e.op = "cellUnlock" => cellLock[e.v] = u
          /\ e.op = "rewrite" => tag[e.v] = "ctor"
      BY <2>2 DEF Alive
    <3>2. e.op = "cellUnlock" => e.v \in Object
      BY <2>2, <1>2, PartMentions
    <3>3. e.op = "cellUnlock" => cellLock'[e.v] = u
      BY <2>2, <3>1, <3>2, Numbers
    <3>4. QED
      BY <3>1, <3>3, <1>2
  <2>3. QED
    BY <2>1, <2>2, <1>1, <1>7
<1>8. QED
  BY <1>4, <1>5, <1>6, <1>7 DEF Alive

(* The count words, as they will be when the plain stores are done.        *)
LEMMA ValuesKeep ==
  ASSUME NEW t \in Thread, NEW r, NEW b, NEW c, Calm(t, r, b, c), NEW val, NEW new, Values(val),
         \A o \in Object :
           \/ rc'[o] = new[o]
           \/ \E e \in Items(c) : e.op = "store" /\ e.v = o
           \/ rc'[o] = rc[o] /\ new[o] = val[o] /\ \A e \in Items(b) : ~(e.op = "store" /\ e.v = o),
         \A e \in Items(c) : e.op = "store" => new[e.v] = e.w,
         \A o \in Object : new[o] # val[o] => \A u \in Thread : u # t => ~Has1(u, "store", o)
  PROVE  Values(new)'
<1>1. /\ Parts(t) = Items(r) \cup Items(b)
      /\ Parts(t)' = Items(r) \cup Items(c)
      /\ \A u \in Thread : u # t => Parts(u)' = Parts(u)
      /\ \A d \in Items(r) : d.op # "store"
  BY Parted DEF Calm, HeadOps
<1>2. ASSUME NEW o \in Object, rc'[o] # new[o] PROVE \E u \in Thread : Has1(u, "store", o)'
  <2>1. CASE \E e \in Items(c) : e.op = "store" /\ e.v = o
    BY <2>1, <1>1 DEF Has1
  <2>2. CASE rc'[o] = rc[o] /\ new[o] = val[o] /\ \A e \in Items(b) : ~(e.op = "store" /\ e.v = o)
    <3>1. PICK u \in Thread : Has1(u, "store", o)
      BY <2>2, <1>2 DEF Values
    <3>2. u # t
      BY <2>2, <3>1, <1>1 DEF Has1
    <3>3. Has1(u, "store", o)'
      BY <3>1, <3>2, <1>1 DEF Has1
    <3>4. QED
      BY <3>3
  <2>3. QED
    BY <2>1, <2>2, <1>2
<1>3. ASSUME NEW u \in Thread, NEW e \in Parts(u)', e.op = "store" PROVE new[e.v] = e.w
  <2>1. CASE u = t
    BY <2>1, <1>1, <1>3
  <2>2. CASE u # t
    <3>1. e \in Parts(u) /\ e.v \in Object
      BY <2>2, <1>1, <1>3, PartMentions DEF Calm
    <3>2. val[e.v] = e.w /\ Has1(u, "store", e.v)
      BY <3>1, <1>3 DEF Values, Has1
    <3>3. QED
      BY <3>1, <3>2, <2>2
  <2>3. QED
    BY <2>1, <2>2
<1>4. QED
  BY <1>2, <1>3 DEF Values

(* Whether the list increments o, or is half way through an addition.      *)
IncIn(s, o) == IF \E e \in Items(s) : e.op \in IncOps /\ e.v = o THEN 1 ELSE 0
AddIn(s, o) == IF \E e \in Items(s) : e.op = "add" /\ e.v = o THEN 1 ELSE 0

(* The threads that increment, before and after.                           *)
LEMMA IncsTurn ==
  ASSUME NEW t \in Thread, NEW r, NEW b, NEW c, Calm(t, r, b, c), NEW o \in Object
  PROVE  /\ Cardinality(Incs(o)) \in Nat /\ Cardinality(Incs(o)') \in Nat
         /\ Cardinality(Incs(o)') + IncIn(b, o) = Cardinality(Incs(o)) + IncIn(c, o)
         /\ Cardinality(Adds(o)) \in Nat /\ Cardinality(Adds(o)') \in Nat
         /\ Cardinality(Adds(o)') + AddIn(b, o) = Cardinality(Adds(o)) + AddIn(c, o)
<1>1. /\ Parts(t) = Items(r) \cup Items(b)
      /\ Parts(t)' = Items(r) \cup Items(c)
      /\ \A u \in Thread : u # t => Parts(u)' = Parts(u)
      /\ \A d \in Items(r) : d.op \notin HeadOps
  BY Parted DEF Calm
<1>2. \A u \in Thread : u # t => (u \in Incs(o)' <=> u \in Incs(o)) /\ (u \in Adds(o)' <=> u \in Adds(o))
  BY <1>1 DEF Incs, Adds, Has1
<1>3. t \in Incs(o) <=> \E e \in Items(b) : e.op \in IncOps /\ e.v = o
  BY <1>1 DEF Incs, HeadOps
<1>4. t \in Incs(o)' <=> \E e \in Items(c) : e.op \in IncOps /\ e.v = o
  BY <1>1 DEF Incs, HeadOps
<1>5. t \in Adds(o) <=> \E e \in Items(b) : e.op = "add" /\ e.v = o
  BY <1>1 DEF Adds, Has1, HeadOps, IncOps
<1>6. t \in Adds(o)' <=> \E e \in Items(c) : e.op = "add" /\ e.v = o
  BY <1>1 DEF Adds, Has1, HeadOps, IncOps
<1>7. ASSUME NEW A, NEW B, A \in SUBSET Thread, B \in SUBSET Thread,
             \A u \in Thread : u # t => (u \in B <=> u \in A)
      PROVE  /\ Cardinality(A) \in Nat /\ Cardinality(B) \in Nat
             /\ Cardinality(B) + (IF t \in A THEN 1 ELSE 0) = Cardinality(A) + (IF t \in B THEN 1 ELSE 0)
  <2>1. IsFiniteSet(A) /\ IsFiniteSet(B)
    BY <1>7, ThreadFinite, FS_Subset
  <2>2. Cardinality(A) \in Nat /\ Cardinality(B) \in Nat
    BY <2>1, FS_CardinalityType
  <2>3. CASE t \in A <=> t \in B
    <3>1. A = B
      BY <2>3, <1>7
    <3>2. QED
      BY <3>1, <2>2
  <2>4. CASE t \in A /\ t \notin B
    <3>1. A = B \cup {t}
      BY <2>4, <1>7
    <3>2. Cardinality(A) = Cardinality(B) + 1
      BY <3>1, <2>1, <2>4, FS_AddElement
    <3>3. QED
      BY <3>2, <2>2, <2>4
  <2>5. CASE t \notin A /\ t \in B
    <3>1. B = A \cup {t}
      BY <2>5, <1>7
    <3>2. Cardinality(B) = Cardinality(A) + 1
      BY <3>1, <2>1, <2>5, FS_AddElement
    <3>3. QED
      BY <3>2, <2>2, <2>5
  <2>6. QED
    BY <2>3, <2>4, <2>5
<1>8. Incs(o) \in SUBSET Thread /\ Incs(o)' \in SUBSET Thread /\ Adds(o) \in SUBSET Thread /\ Adds(o)' \in SUBSET Thread
  BY DEF Incs, Adds
<1>9. /\ Cardinality(Incs(o)) \in Nat /\ Cardinality(Incs(o)') \in Nat
      /\ Cardinality(Incs(o)') + (IF t \in Incs(o) THEN 1 ELSE 0) = Cardinality(Incs(o)) + (IF t \in Incs(o)' THEN 1 ELSE 0)
  BY <1>2, <1>7, <1>8
<1>10. /\ Cardinality(Adds(o)) \in Nat /\ Cardinality(Adds(o)') \in Nat
       /\ Cardinality(Adds(o)') + (IF t \in Adds(o) THEN 1 ELSE 0) = Cardinality(Adds(o)) + (IF t \in Adds(o)' THEN 1 ELSE 0)
  BY <1>2, <1>7, <1>8
<1>11. QED
  BY <1>3, <1>4, <1>5, <1>6, <1>9, <1>10 DEF IncIn, AddIn

(* What a turn may do to the count of o: the references there are change   *)
(* as the count does.                                                      *)
Even(t, b, c, o, val, new) ==
  ~IsSaturated(new[o]) =>
    /\ ~IsSaturated(val[o])
    /\ Count(new[o]) + IncIn(c, o) + owned[t][o] + Tok(b, o) + Cardinality(Fields(o))
         = Count(val[o]) + IncIn(b, o) + owned'[t][o] + Tok(c, o) + Cardinality(Fields(o)')

(* The counts are exact.                                                   *)
LEMMA BalanceKeep ==
  ASSUME NEW t \in Thread, NEW r, NEW b, NEW c, Calm(t, r, b, c), NEW val, NEW new, Balance(val),
         \A o \in Object : Count(val[o]) \in Nat /\ Count(new[o]) \in Nat,
         \A o \in Object : Even(t, b, c, o, val, new)
  PROVE  Balance(new)'
<1>1. SUFFICES ASSUME NEW o \in Object
               PROVE  /\ IsFiniteSet(Fields(o)')
                      /\ ~IsSaturated(new[o]) =>
                           Count(new[o]) + Cardinality(Incs(o)') = Total(HeldBy(o))' + Cardinality(Fields(o)')
  BY DEF Balance, HeldBy
<1>2. Typed /\ Typed' /\ Turn(t, r, b, c) /\ \A u \in Thread : u # t => owned'[u] = owned[u]
  BY DEF Calm
<1>3. IsFiniteSet(Fields(o))
  BY DEF Balance
<1>4. Fields(o)' \subseteq Fields(o)
  BY BrokenKeep DEF Fields
<1>5. IsFiniteSet(Fields(o)')
  BY <1>3, <1>4, FS_Subset
<1>6. Cardinality(Fields(o)) \in Nat /\ Cardinality(Fields(o)') \in Nat
  BY <1>3, <1>5, FS_CardinalityType
<1>7. /\ Cardinality(Incs(o)) \in Nat /\ Cardinality(Incs(o)') \in Nat
      /\ Cardinality(Incs(o)') + IncIn(b, o) = Cardinality(Incs(o)) + IncIn(c, o)
  BY IncsTurn
<1>8. /\ Total(HeldBy(o)) \in Nat /\ Total(HeldBy(o))' \in Nat
      /\ Total(HeldBy(o))' + owned[t][o] + Tok(b, o) = Total(HeldBy(o)) + owned'[t][o] + Tok(c, o)
  BY <1>2, TotalTurn
<1>9. Tok(b, o) \in Nat /\ Tok(c, o) \in Nat /\ owned[t][o] \in Nat /\ owned'[t][o] \in Nat
  BY <1>2, HeldTurn
<1>10. IncIn(b, o) \in Nat /\ IncIn(c, o) \in Nat
  BY DEF IncIn
<1>11. ASSUME ~IsSaturated(new[o])
       PROVE  Count(new[o]) + Cardinality(Incs(o)') = Total(HeldBy(o))' + Cardinality(Fields(o)')
  <2>1. Count(val[o]) + Cardinality(Incs(o)) = Total(HeldBy(o)) + Cardinality(Fields(o))
    BY <1>11 DEF Even, Balance, HeldBy
  <2>2. Count(new[o]) + IncIn(c, o) + owned[t][o] + Tok(b, o) + Cardinality(Fields(o))
          = Count(val[o]) + IncIn(b, o) + owned'[t][o] + Tok(c, o) + Cardinality(Fields(o)')
    BY <1>11 DEF Even
  <2>3. QED
    BY <2>1, <2>2, <1>6, <1>7, <1>8, <1>9, <1>10
<1>12. QED
  BY <1>5, <1>11

(* What a turn may do to a saturated or shared word.                       *)
Fitting(t, b, c, o) ==
  \/ rc'[o] = rc[o] /\ AddIn(c, o) = 0
  \/ IsShared(rc'[o]) /\ rc'[o] <= SHARED + COUNT_MASK
  \/ ~IsShared(rc'[o]) /\ rc'[o] <= SATURATED
  \/ rc'[o] = SHARED + SATURATED /\ AddIn(c, o) = 0
  \/ IsShared(rc[o]) /\ rc'[o] = rc[o] + 1 /\ AddIn(b, o) = 1 /\ AddIn(c, o) = 0

(* No count word overflows.                                                *)
LEMMA BoundedKeep ==
  ASSUME NEW t \in Thread, NEW r, NEW b, NEW c, Calm(t, r, b, c), Bounded,
         \A o \in Object : Fitting(t, b, c, o)
  PROVE  Bounded'
<1>1. SUFFICES ASSUME NEW o \in Object
               PROVE  IF IsShared(rc'[o])
                      THEN rc'[o] + Cardinality(Adds(o)') <= SHARED + COUNT_MASK + Cardinality(Thread)
                      ELSE rc'[o] <= SATURATED
  BY DEF Bounded
<1>2. rc[o] \in Nat /\ rc'[o] \in Nat
  BY Numbers DEF Calm, Typed, TypeOK
<1>3. /\ Cardinality(Adds(o)) \in Nat /\ Cardinality(Adds(o)') \in Nat
      /\ Cardinality(Adds(o)') + AddIn(b, o) = Cardinality(Adds(o)) + AddIn(c, o)
  BY IncsTurn
<1>4. AddIn(b, o) \in {0, 1} /\ AddIn(c, o) \in {0, 1}
  BY DEF AddIn
<1>5. Cardinality(Thread) \in Nat
  BY ThreadFinite
<1>6. Adds(o)' \in SUBSET Thread /\ Cardinality(Adds(o)') <= Cardinality(Thread)
  <2>1. Adds(o)' \in SUBSET Thread
    BY DEF Adds
  <2>2. QED
    BY <2>1, ThreadFinite, FS_Subset
<1>7. IF IsShared(rc[o])
      THEN rc[o] + Cardinality(Adds(o)) <= SHARED + COUNT_MASK + Cardinality(Thread)
      ELSE rc[o] <= SATURATED
  BY DEF Bounded
<1>8. CASE rc'[o] = rc[o] /\ AddIn(c, o) = 0
  BY <1>2, <1>3, <1>4, <1>5, <1>7, <1>8, Numbers
<1>9. CASE IsShared(rc'[o]) /\ rc'[o] <= SHARED + COUNT_MASK
  BY <1>2, <1>3, <1>5, <1>6, <1>9, Numbers
<1>10. CASE ~IsShared(rc'[o]) /\ rc'[o] <= SATURATED
  BY <1>10
<1>11. CASE rc'[o] = SHARED + SATURATED /\ AddIn(c, o) = 0
  <2>1. t \notin Adds(o)'
    <3>1. Parts(t)' = Items(r) \cup Items(c) /\ \A d \in Items(r) : d.op \notin HeadOps
      BY Parted DEF Calm
    <3>2. QED
      BY <3>1, <1>11 DEF AddIn, Adds, Has1, HeadOps, IncOps
  <2>2. Adds(o)' \subseteq Thread \ {t}
    BY <2>1, <1>6
  <2>3. IsFiniteSet(Thread \ {t}) /\ Cardinality(Thread \ {t}) = Cardinality(Thread) - 1
    BY ThreadFinite, FS_RemoveElement
  <2>4. Cardinality(Adds(o)') <= Cardinality(Thread \ {t})
    BY <2>2, <2>3, FS_Subset
  <2>5. Cardinality(Adds(o)') <= Cardinality(Thread) - 1
    BY <2>3, <2>4
  <2>6. IsShared(rc'[o])
    BY <1>11, Numbers DEF IsShared
  <2>7. QED
    BY <2>5, <2>6, <1>3, <1>5, <1>11, Numbers
<1>12. CASE IsShared(rc[o]) /\ rc'[o] = rc[o] + 1 /\ AddIn(b, o) = 1 /\ AddIn(c, o) = 0
  <2>1. IsShared(rc'[o])
    BY <1>2, <1>12, Numbers DEF IsShared
  <2>2. QED
    BY <2>1, <1>2, <1>3, <1>5, <1>7, <1>12, Numbers
<1>13. QED
  BY <1>8, <1>9, <1>10, <1>11, <1>12 DEF Fitting

(* What a turn may do to the freeing of o.                                 *)
Dies(s, o) == \E e \in Items(s) : e.op \in DyingOps /\ e.v = o
Tidy(t, b, c, o, val, new) ==
  /\ new[o] # val[o] =>
       /\ Zero(val, o) => Zero(new, o)
       /\ \A u \in Thread : u # t => ~Has1(u, "rewrite", o)
  /\ Dies(c, o) =>
       /\ tag[o] = "ctor" /\ Zero(new, o) /\ Cnt(c, Dying(o)) <= 1
       /\ Dies(b, o) \/ ~Zero(val, o)
  /\ tag[o] = "ctor" /\ Zero(new, o) => Dies(c, o) \/ (Zero(val, o) /\ ~Dies(b, o))

(* A constructor is freed when its count is zero, once.                    *)
LEMMA FreeingKeep ==
  ASSUME NEW t \in Thread, NEW r, NEW b, NEW c, Calm(t, r, b, c), NEW val, NEW new, Freeing(val),
         \A o \in Object : Tidy(t, b, c, o, val, new),
         \A e \in Items(r) : e.op = "rewrite" => new[e.v] = val[e.v],
         \A e \in Items(c) : e.op = "rewrite" => new[e.v] = 1
  PROVE  Freeing(new)'
<1>1. /\ Parts(t) = Items(r) \cup Items(b)
      /\ Parts(t)' = Items(r) \cup Items(c)
      /\ \A u \in Thread : u # t => Parts(u)' = Parts(u)
      /\ Items(r) \subseteq Item /\ Items(b) \subseteq Item /\ Items(c) \subseteq Item
      /\ r \in Seq(Item) /\ b \in Seq(Item) /\ c \in Seq(Item)
  BY Parted DEF Calm
<1>2. tag' = tag /\ Typed /\ Turn(t, r, b, c)
  BY DEF Calm
<1>3. \A u \in Thread : u # t => code'[u] = code[u]
  BY <1>2 DEF Turn
<1>4. ASSUME NEW e \in Item, e.op \in DyingOps \cup {"rewrite"} PROVE e.v \in Object
  BY <1>4, ItemFields DEF DyingOps
<1>5. ASSUME NEW s, s \in Seq(Item), NEW o \in Object
      PROVE  Cnt(s, Dying(o)) \in Nat /\ (Cnt(s, Dying(o)) > 0 <=> Dies(s, o))
  <2>1. Cnt(s, Dying(o)) \in Nat /\ (Cnt(s, Dying(o)) > 0 <=> \E e \in Items(s) : e \in Dying(o))
    BY <1>5, CntPositive
  <2>2. Items(s) \subseteq Item
    BY <1>5 DEF Items
  <2>3. QED
    BY <2>1, <2>2 DEF Dies, Dying
<1>6. \A o \in Object : /\ Cnt(code[t], Dying(o)) = Cnt(r, Dying(o)) + Cnt(b, Dying(o))
                        /\ Cnt(code'[t], Dying(o)) = Cnt(r, Dying(o)) + Cnt(c, Dying(o))
  BY <1>2 DEF Turn
<1>7. ASSUME NEW o \in Object, Dies(b, o) PROVE ~Dies(r, o)
  <2>1. Cnt(code[t], Dying(o)) <= 1 /\ Cnt(code[t], Dying(o)) = Cnt(r, Dying(o)) + Cnt(b, Dying(o))
    BY <1>6 DEF Freeing
  <2>2. QED
    BY <2>1, <1>1, <1>5, <1>7
<1>8. ASSUME NEW o \in Object, NEW u \in Thread, NEW e \in Parts(u), e.op \in DyingOps, e.v = o
      PROVE  tag[o] = "ctor" /\ Zero(val, o)
  BY <1>8 DEF Freeing
<1>9. ASSUME NEW o \in Object, Dies(c, o), NEW u \in Thread, NEW e \in Parts(u), e.op \in DyingOps, e.v = o
      PROVE  u = t /\ e \notin Items(r)
  <2>1. Dies(b, o)
    BY <1>8, <1>9 DEF Tidy
  <2>2. PICK d \in Items(b) : d.op \in DyingOps /\ d.v = o
    BY <2>1 DEF Dies
  <2>3. d \in Parts(t)
    BY <1>1
  <2>4. u = t
    BY <2>2, <2>3, <1>9 DEF Freeing
  <2>5. QED
    BY <2>1, <2>4, <1>7, <1>9 DEF Dies
<1>10. ASSUME NEW u \in Thread, NEW e \in Parts(u)'
       PROVE  /\ e.op \in DyingOps => tag'[e.v] = "ctor" /\ Zero(new, e.v)
              /\ e.op = "rewrite" => new[e.v] = 1
  <2>1. CASE u = t /\ e \in Items(c)
    <3>1. e.op \in DyingOps => e.v \in Object /\ Dies(c, e.v)
      BY <2>1, <1>1, <1>4 DEF Dies
    <3>2. e.op \in DyingOps => tag[e.v] = "ctor" /\ Zero(new, e.v)
      BY <3>1 DEF Tidy
    <3>3. QED
      BY <3>2, <2>1, <1>2
  <2>2. CASE e \in Parts(u) /\ (u = t => e \in Items(r))
    <3>1. e \in Item
      BY <2>2, <1>2, PartMentions
    <3>2. ASSUME e.op \in DyingOps PROVE tag'[e.v] = "ctor" /\ Zero(new, e.v)
      <4>1. tag[e.v] = "ctor" /\ Zero(val, e.v) /\ e.v \in Object
        BY <3>1, <3>2, <2>2, <1>4, <1>8
      <4>2. Zero(new, e.v)
        BY <4>1 DEF Tidy, Zero
      <4>3. QED
        BY <4>1, <4>2, <1>2
    <3>3. ASSUME e.op = "rewrite" PROVE new[e.v] = 1
      <4>1. val[e.v] = 1 /\ e.v \in Object
        BY <3>1, <3>3, <2>2, <1>4 DEF Freeing
      <4>2. new[e.v] = val[e.v]
        <5>1. CASE u = t
          BY <5>1, <2>2, <3>3
        <5>2. CASE u # t
          <6>1. Has1(u, "rewrite", e.v)
            BY <2>2, <3>3 DEF Has1
          <6>2. QED
            BY <6>1, <5>2, <4>1 DEF Tidy
        <5>3. QED
          BY <5>1, <5>2
      <4>3. QED
        BY <4>1, <4>2
    <3>4. QED
      BY <3>2, <3>3
  <2>3. QED
    BY <2>1, <2>2, <1>1, <1>10
<1>11. ASSUME NEW u \in Thread, NEW o \in Object PROVE Cnt(code'[u], Dying(o)) <= 1
  <2>1. Cnt(code[u], Dying(o)) <= 1
    BY DEF Freeing
  <2>2. CASE u # t
    BY <2>1, <2>2, <1>3
  <2>3. CASE u = t /\ ~Dies(c, o)
    BY <2>1, <2>3, <1>1, <1>5, <1>6
  <2>4. CASE u = t /\ Dies(c, o)
    <3>1. ~Dies(r, o)
      <4>1. SUFFICES ASSUME NEW e \in Items(r), e.op \in DyingOps, e.v = o PROVE FALSE
        BY DEF Dies
      <4>2. e \in Parts(t)
        BY <1>1
      <4>3. QED
        BY <4>1, <4>2, <2>4, <1>9
    <3>2. Cnt(c, Dying(o)) <= 1
      BY <2>4 DEF Tidy
    <3>3. QED
      BY <3>1, <3>2, <2>4, <1>1, <1>5, <1>6
  <2>5. QED
    BY <2>2, <2>3, <2>4
<1>12. ASSUME NEW u1 \in Thread, NEW u2 \in Thread, NEW d \in Parts(u1)', NEW e \in Parts(u2)',
              d.op \in DyingOps, e.op \in DyingOps, d.v = e.v
       PROVE  u1 = u2
  <2>1. d \in Item /\ e \in Item
    BY ItemNext
  <2>2. PICK o \in Object : d.v = o /\ e.v = o
    BY <2>1, <1>4, <1>12
  <2>3. CASE d \in Parts(u1) /\ e \in Parts(u2)
    BY <2>3, <1>12 DEF Freeing
  <2>4. CASE d \notin Parts(u1)
    <3>1. u1 = t /\ d \in Items(c)
      BY <2>4, <1>1, <1>12
    <3>2. Dies(c, o)
      BY <3>1, <2>2, <1>12 DEF Dies
    <3>3. CASE e \in Parts(u2)
      BY <3>1, <3>2, <3>3, <2>2, <1>9, <1>12
    <3>4. CASE e \notin Parts(u2)
      BY <3>1, <3>4, <1>1, <1>12
    <3>5. QED
      BY <3>3, <3>4
  <2>5. CASE e \notin Parts(u2) /\ d \in Parts(u1)
    <3>1. u2 = t /\ e \in Items(c)
      BY <2>5, <1>1, <1>12
    <3>2. Dies(c, o)
      BY <3>1, <2>2, <1>12 DEF Dies
    <3>3. QED
      BY <3>1, <3>2, <2>2, <2>5, <1>9, <1>12
  <2>6. QED
    BY <2>3, <2>4, <2>5
<1>13. ASSUME NEW o \in Object, tag'[o] = "ctor", Zero(new, o)
       PROVE  \E u \in Thread : \E e \in Parts(u)' : e.op \in DyingOps /\ e.v = o
  <2>1. CASE Dies(c, o)
    BY <2>1, <1>1 DEF Dies
  <2>2. CASE ~Dies(c, o)
    <3>1. Zero(val, o) /\ ~Dies(b, o) /\ tag[o] = "ctor"
      BY <2>2, <1>2, <1>13 DEF Tidy
    <3>2. PICK u \in Thread : \E e \in Parts(u) : e.op \in DyingOps /\ e.v = o
      BY <3>1 DEF Freeing
    <3>3. PICK e \in Parts(u) : e.op \in DyingOps /\ e.v = o
      BY <3>2
    <3>4. e \in Parts(u)'
      BY <3>1, <3>3, <1>1 DEF Dies
    <3>5. QED
      BY <3>3, <3>4
  <2>3. QED
    BY <2>1, <2>2
<1>14. QED
  BY <1>10, <1>11, <1>12, <1>13 DEF Freeing, Zero, Dying

-----------------------------------------------------------------------------
(* The micro-operations on count words.                                    *)

(* The references that short lists hold.                                   *)
Tok1(e, o) == (IF e.v = o /\ e.op \in HoldOps THEN 1 ELSE 0) + (IF e.x = o /\ e.op \in MoveOps THEN 1 ELSE 0)

(* References held by lists of up to three micro-operations, and drops of  *)
(* a dying value among them.                                               *)
LEMMA TokList ==
  ASSUME NEW o \in Object
  PROVE  /\ Tok(<<>>, o) = 0 /\ Cnt(<<>>, Dying(o)) = 0
         /\ \A a \in Item : Tok(<<a>>, o) = Tok1(a, o) /\ Cnt(<<a>>, Dying(o)) = One(a, Dying(o))
         /\ \A a, b \in Item : /\ Tok(<<a, b>>, o) = Tok1(a, o) + Tok1(b, o)
                               /\ Cnt(<<a, b>>, Dying(o)) = One(a, Dying(o)) + One(b, Dying(o))
         /\ \A a, b, d \in Item : /\ Tok(<<a, b, d>>, o) = Tok1(a, o) + Tok1(b, o) + Tok1(d, o)
                                  /\ Cnt(<<a, b, d>>, Dying(o))
                                       = One(a, Dying(o)) + One(b, Dying(o)) + One(d, Dying(o))
<1>1. \A S : Cnt(<<>>, S) = 0
  BY Nothing
<1>2. ASSUME NEW a \in Item
      PROVE  Tok1(a, o) = One(a, ByV(o)) + One(a, ByX(o)) /\ One(a, ByV(o)) \in Nat /\ One(a, ByX(o)) \in Nat
  BY TokOne DEF Tok1, One
<1>3. ASSUME NEW a \in Item
      PROVE  Tok(<<a>>, o) = Tok1(a, o) /\ Cnt(<<a>>, Dying(o)) = One(a, Dying(o))
  <2>1. \A S : Cnt(<<a>>, S) = One(a, S)
    BY List1
  <2>2. QED
    BY <2>1, <1>2 DEF Tok
<1>4. ASSUME NEW a \in Item, NEW b \in Item
      PROVE  /\ Tok(<<a, b>>, o) = Tok1(a, o) + Tok1(b, o)
             /\ Cnt(<<a, b>>, Dying(o)) = One(a, Dying(o)) + One(b, Dying(o))
  <2>1. \A S : Cnt(<<a, b>>, S) = One(a, S) + One(b, S)
    BY List2
  <2>2. /\ Cnt(<<a, b>>, ByV(o)) = One(a, ByV(o)) + One(b, ByV(o))
        /\ Cnt(<<a, b>>, ByX(o)) = One(a, ByX(o)) + One(b, ByX(o))
        /\ Cnt(<<a, b>>, Dying(o)) = One(a, Dying(o)) + One(b, Dying(o))
    BY <2>1
  <2>3. QED
    BY <2>2, <1>2 DEF Tok
<1>5. ASSUME NEW a \in Item, NEW b \in Item, NEW d \in Item
      PROVE  /\ Tok(<<a, b, d>>, o) = Tok1(a, o) + Tok1(b, o) + Tok1(d, o)
             /\ Cnt(<<a, b, d>>, Dying(o)) = One(a, Dying(o)) + One(b, Dying(o)) + One(d, Dying(o))
  <2>1. \A S : Cnt(<<a, b, d>>, S) = One(a, S) + One(b, S) + One(d, S)
    BY List3
  <2>2. /\ Cnt(<<a, b, d>>, ByV(o)) = One(a, ByV(o)) + One(b, ByV(o)) + One(d, ByV(o))
        /\ Cnt(<<a, b, d>>, ByX(o)) = One(a, ByX(o)) + One(b, ByX(o)) + One(d, ByX(o))
        /\ Cnt(<<a, b, d>>, Dying(o)) = One(a, Dying(o)) + One(b, Dying(o)) + One(d, Dying(o))
    BY <2>1
  <2>3. QED
    BY <2>2, <1>2 DEF Tok
<1>6. QED
  BY <1>1, <1>3, <1>4, <1>5 DEF Tok

(* What the invariant says of the value a thread is about to access.       *)
LEMMA Ready ==
  ASSUME Typed, NEW own, NEW val, Inv(own, val), NEW t \in Thread, NEW o, Do(t, o), o # "alloc"
  PROVE  LET h == Head(code[t])
             v == V(t)
         IN /\ h \in Item /\ h.op = o /\ h.v = v /\ v \in Object
            /\ h \in Parts(t) /\ Mentions(t, v) /\ Live(v) /\ own[v] \in {t, Nil}
            /\ rc[v] \in 0..(2 * SHARED - 1)
            /\ o # "store" => rc[v] = val[v]
            /\ ~IsShared(rc[v]) => own[v] = t /\ \A u \in Thread : Mentions(u, v) => u = t
            /\ \A e \in Items(Rest(t)) : e \in Parts(t) /\ e.op \notin HeadOps
<1> DEFINE h == Head(code[t])
           v == V(t)
           r == Rest(t)
<1>1. code[t] # <<>> /\ h \in Item /\ h.op = o /\ h.v = v /\ v \in Object /\ Quiet(r) /\ rc[v] \in 0..(2 * SHARED - 1)
  BY Acting
<1>2. Parts(t) = {h} \cup Items(r)
  BY <1>1, Opened
<1>3. h \in Parts(t) /\ Mentions(t, v)
  BY <1>1, <1>2, PartMentions
<1>4. \A e \in Items(r) : e.op \notin HeadOps
  BY <1>1 DEF Quiet
<1>5. Live(v) /\ own[v] \in {t, Nil}
  BY <1>1, <1>3 DEF Inv, Alive, Owner
<1>6. o # "store" => rc[v] = val[v]
  <2>1. SUFFICES ASSUME o # "store" PROVE rc[v] = val[v]
    OBVIOUS
  <2>2. ~Has1(t, "store", v)
    BY <2>1, <1>1, <1>2, <1>4 DEF Has1, HeadOps
  <2>3. QED
    BY <2>2, <1>1, <1>3, Settled DEF Inv
<1>7. ~IsShared(rc[v]) => own[v] = t /\ \A u \in Thread : Mentions(u, v) => u = t
  BY <1>1, <1>3, LocalOwner DEF Inv
<1>8. QED
  BY <1>1, <1>2, <1>3, <1>4, <1>5, <1>6, <1>7

(* Micro-operations on counts, executed and put in their place.            *)
CountOps == HeadOps \cup {"drop", "free"}

(* They leave owners, marks and what keeps a value alive as they are.      *)
LEMMA CountKeep ==
  ASSUME NEW t \in Thread, NEW r, NEW b, NEW c, Calm(t, r, b, c), NEW own, NEW val, Inv(own, val),
         owned' = owned, cellLock' = cellLock,
         \A e \in Items(b) : e.op \in CountOps,
         \A e \in Items(c) : e.op \in CountOps \ {"dup", "drop"} /\ Mentions(t, e.v),
         \A o \in Object : IsShared(rc'[o]) <=> IsShared(rc[o]),
         \A e \in Items(c) :
           /\ e.op = "store" => own[e.v] = t /\ ~IsShared(rc'[e.v])
           /\ e.op \in {"cas", "add", "saturate"} => IsShared(rc'[e.v])
           /\ e.op = "cas" => e.w \in (SHARED + 1)..(SHARED + COUNT_MASK)
           /\ e.op \in IncOps =>
                /\ \A o \in Object : Tok(c, o) = Tok(b, o)
                /\ \E d \in Items(b) : d.op \in IncOps /\ d.v = e.v
                /\ \A d \in Items(b) : d.op \in IncOps
  PROVE  /\ Owner(own)' /\ Marked(own)' /\ Alive(own)'
         /\ \A o \in Object : Fields(o)' = Fields(o)
<1>1. /\ Parts(t) = Items(r) \cup Items(b)
      /\ Parts(t)' = Items(r) \cup Items(c)
      /\ Items(c) \subseteq Item /\ Items(b) \subseteq Item
  BY Parted DEF Calm
<1>2. \A p \in Object : ~Breaks(c, p)
  BY DEF Breaks, CountOps, HeadOps, IncOps
<1>3. \A e \in Items(c) : /\ e.op \in CountOps /\ e.v \in Object /\ \A o \in Object : Touch(e, o) => e.v = o
                          /\ Live(e.v) /\ own[e.v] \in {t, Nil}
  <2>1. ASSUME NEW e \in Items(c)
        PROVE  /\ e.op \in CountOps /\ e.v \in Object /\ \A o \in Object : Touch(e, o) => e.v = o
               /\ Live(e.v) /\ own[e.v] \in {t, Nil}
    <3>1. e \in Item /\ e.op \in CountOps
      BY <1>1
    <3>2. e.op \notin MoveOps /\ e.op # "alloc"
      BY <3>1 DEF CountOps, HeadOps, IncOps, MoveOps
    <3>3. e.v \in Object
      BY <3>1, <3>2, ItemFields
    <3>4. QED
      BY <3>1, <3>2, <3>3 DEF Touch, Inv, Alive, Owner
  <2>2. QED
    BY <2>1
<1>4. Owner(own)'
  <2>1. \A o \in Object : owned'[t][o] > 0 => own[o] \in {t, Nil}
    BY DEF Inv, Owner, Mentions
  <2>2. \A e \in Items(c) : \A o \in Object : Touch(e, o) => own[o] \in {t, Nil}
    BY <1>3
  <2>3. \A e \in Items(c) :
           /\ e.op \in {"store", "rewrite"} => own[e.v] = t /\ ~IsShared(rc'[e.v])
           /\ e.op \in {"cas", "add", "saturate"} => IsShared(rc'[e.v])
           /\ e.op = "cas" => e.w \in (SHARED + 1)..(SHARED + COUNT_MASK)
    BY <1>3 DEF CountOps, HeadOps, IncOps
  <2>4. QED
    BY <2>1, <2>2, <2>3, OwnerKeep DEF Inv
<1>5. Marked(own)'
  <2>1. \A e \in Items(b) : e.op \notin {"give", "swap"}
    BY DEF CountOps, HeadOps, IncOps
  <2>2. \A o \in Object : ~Shades(b, o) /\ ~Shades(c, o)
    BY DEF CountOps, HeadOps, IncOps, Shades
  <2>3. \A e \in Items(c) : e.op \notin {"give", "swap", "shade", "markLock", "markUnlock"}
    BY DEF CountOps, HeadOps, IncOps
  <2>4. QED
    BY <2>1, <2>2, <2>3, <1>2, MarkedKeep DEF Inv, ItemsMarked
<1>6. Alive(own)'
  <2>1. \A o \in Object : owned'[t][o] > 0 => Live(o)
    BY DEF Inv, Alive, Mentions
  <2>2. \A e \in Items(c) : \A o \in Object : Touch(e, o) => Live(o)
    BY <1>3
  <2>3. ASSUME NEW e \in Items(c), e.op \in IncOps
        PROVE  /\ \E d \in Items(r) \cup Items(c) : d.op \in HoldOps /\ d.v = e.v
               /\ owned'[t][e.v] > 0 \/ \E p \in Fields(e.v)' : Keeps(own, t, p)'
    <3>1. PICK i \in Items(b) : i.op \in IncOps /\ i.v = e.v
      BY <2>3
    <3>2. t \in Incs(e.v) /\ e.v \in Object
      BY <3>1, <1>1, <1>3 DEF Incs
    <3>3. /\ \E d \in Parts(t) : d.op \in HoldOps /\ d.v = e.v
          /\ owned[t][e.v] > 0 \/ \E p \in Fields(e.v) : Keeps(own, t, p)
      BY <3>2 DEF Inv, Alive
    <3>4. \E d \in Items(r) \cup Items(c) : d.op \in HoldOps /\ d.v = e.v
      BY <3>3, <2>3, <1>1 DEF IncOps, HoldOps
    <3>5. ASSUME NEW p \in Fields(e.v), Keeps(own, t, p) PROVE p \in Fields(e.v)' /\ Keeps(own, t, p)'
      <4>1. p \in Object
        BY DEF Fields
      <4>2. p \in Fields(e.v)'
        BY <4>1, <3>2, <1>2, BrokenKeep
      <4>3. /\ Held(t, p) = owned[t][p] + Tok(r, p) + Tok(b, p)
            /\ Held(t, p)' = owned'[t][p] + Tok(r, p) + Tok(c, p)
            /\ owned[t][p] \in Nat /\ Tok(r, p) \in Nat /\ Tok(b, p) \in Nat
        BY <4>1, HeldTurn DEF Calm
      <4>4. Held(t, p)' = Held(t, p) /\ Held(t, p) \in Nat
        BY <4>1, <4>3, <2>3
      <4>5. QED
        BY <4>1, <4>2, <4>4, <3>5, KeepsKeep
    <3>6. QED
      BY <3>3, <3>4, <3>5
  <2>4. \A e \in Items(c) : e.op \notin {"get", "swap", "cellUnlock", "rewrite"}
    BY DEF CountOps, HeadOps, IncOps
  <2>5. ASSUME NEW e \in Items(r), e.op = "cellUnlock" PROVE cellLock'[e.v] = t
    BY <2>5, <1>1 DEF Inv, Alive
  <2>6. QED
    BY <2>1, <2>2, <2>3, <2>4, <2>5, <1>2, AliveKeep DEF Inv
<1>7. \A o \in Object : Fields(o)' = Fields(o)
  BY <1>2, BrokenKeep DEF Fields
<1>8. QED
  BY <1>4, <1>5, <1>6, <1>7

(* The counts and the references there are change together.                *)
Level(b, c, o, val, new) ==
  ~IsSaturated(new[o]) =>
    /\ ~IsSaturated(val[o])
    /\ Count(new[o]) + IncIn(c, o) + Tok(b, o) = Count(val[o]) + IncIn(b, o) + Tok(c, o)

(* Such a micro-operation keeps the invariant, for a new value of the      *)
(* ghost.                                                                  *)
LEMMA CountStep ==
  ASSUME NEW t \in Thread, NEW r, NEW b, NEW c, Calm(t, r, b, c), NEW own, NEW val, Inv(own, val),
         owned' = owned, cellLock' = cellLock,
         \A e \in Items(b) : e.op \in CountOps,
         \A e \in Items(c) : e.op \in CountOps \ {"dup", "drop"} /\ Mentions(t, e.v),
         \A o \in Object : IsShared(rc'[o]) <=> IsShared(rc[o]),
         \A e \in Items(c) :
           /\ e.op = "store" => own[e.v] = t /\ ~IsShared(rc'[e.v])
           /\ e.op \in {"cas", "add", "saturate"} => IsShared(rc'[e.v])
           /\ e.op = "cas" => e.w \in (SHARED + 1)..(SHARED + COUNT_MASK)
           /\ e.op \in IncOps =>
                /\ \A o \in Object : Tok(c, o) = Tok(b, o)
                /\ \E d \in Items(b) : d.op \in IncOps /\ d.v = e.v
                /\ \A d \in Items(b) : d.op \in IncOps,
         NEW new \in [Object -> 0..(2 * SHARED - 1)],
         \A o \in Object :
           \/ rc'[o] = new[o]
           \/ \E e \in Items(c) : e.op = "store" /\ e.v = o
           \/ rc'[o] = rc[o] /\ new[o] = val[o] /\ \A e \in Items(b) : ~(e.op = "store" /\ e.v = o),
         \A e \in Items(c) : e.op = "store" => new[e.v] = e.w,
         \A o \in Object : new[o] # val[o] => \A u \in Thread : u # t => ~Has1(u, "store", o),
         \A o \in Object : Level(b, c, o, val, new) /\ Fitting(t, b, c, o) /\ Tidy(t, b, c, o, val, new),
         \A e \in Items(r) : e.op = "rewrite" => new[e.v] = val[e.v]
  PROVE  Inv(own, new)'
<1>1. /\ Owner(own)' /\ Marked(own)' /\ Alive(own)'
      /\ \A o \in Object : Fields(o)' = Fields(o)
  BY CountKeep
<1>2. Values(new)'
  BY ValuesKeep DEF Inv
<1>3. Bounded'
  BY BoundedKeep DEF Inv
<1>4. Freeing(new)'
  <2>1. \A e \in Items(c) : e.op # "rewrite"
    BY DEF CountOps, HeadOps, IncOps
  <2>2. QED
    BY <2>1, FreeingKeep DEF Inv
<1>5. Balance(new)'
  <2>1. \A o \in Object : Count(val[o]) \in Nat /\ Count(new[o]) \in Nat
    BY Words DEF Inv
  <2>2. ASSUME NEW o \in Object PROVE Even(t, b, c, o, val, new)
    <3>1. Tok(b, o) \in Nat /\ Tok(c, o) \in Nat /\ owned[t][o] \in Nat /\ owned'[t][o] \in Nat
      BY HeldTurn DEF Calm
    <3>2. IsFiniteSet(Fields(o)) /\ Cardinality(Fields(o)) \in Nat
      BY FS_CardinalityType DEF Inv, Balance
    <3>3. IncIn(b, o) \in Nat /\ IncIn(c, o) \in Nat
      BY DEF IncIn
    <3>4. Level(b, c, o, val, new) /\ Fields(o)' = Fields(o)
      BY <1>1
    <3>5. QED
      BY <3>1, <3>2, <3>3, <3>4, <2>1 DEF Even, Level
  <2>3. QED
    BY <2>1, <2>2, BalanceKeep DEF Inv
<1>6. QED
  BY <1>1, <1>2, <1>3, <1>4, <1>5 DEF Inv

(* A count that changes from val to new, of a value its own thread updates *)
(* by itself or whose bit is set: no thread stores it and none rewrites it.*)
LEMMA Undisturbed ==
  ASSUME Typed, NEW own, NEW val, Inv(own, val), NEW t \in Thread, NEW o, Do(t, o), o # "alloc"
  PROVE  LET v == V(t)
         IN /\ \A u \in Thread : u # t => ~Has1(u, "store", v) /\ ~Has1(u, "rewrite", v)
            /\ o \notin RewriteOps => \A e \in Items(Rest(t)) : e.op # "rewrite"
            /\ IsShared(rc[v]) => \A e \in Items(Rest(t)) : ~(e.op = "rewrite" /\ e.v = v)
<1> DEFINE h == Head(code[t])
           v == V(t)
           r == Rest(t)
<1>1. /\ h \in Item /\ h.op = o /\ h.v = v /\ v \in Object /\ h \in Parts(t) /\ Mentions(t, v)
      /\ \A e \in Items(r) : e \in Parts(t)
      /\ own[v] \in {t, Nil} /\ Live(v)
  BY Ready
<1>2. ASSUME NEW u \in Thread, u # t, Has1(u, "store", v) \/ Has1(u, "rewrite", v) PROVE FALSE
  <2>1. own[v] = u /\ u # Nil
    BY <1>1, <1>2, Numbers DEF Inv, Owner, Has1
  <2>2. QED
    BY <2>1, <1>1, <1>2
<1>3. ASSUME o \notin RewriteOps, NEW e \in Items(r), e.op = "rewrite" PROVE FALSE
  <2>1. Fits(h, r) /\ Quiet(r)
    BY <1>1, Acting
  <2>2. With(r, "rewrite")
    BY <1>3 DEF With
  <2>3. QED
    BY <2>1, <2>2, <1>1, <1>3 DEF Fits
<1>4. ASSUME IsShared(rc[v]), NEW e \in Items(r), e.op = "rewrite", e.v = v PROVE FALSE
  BY <1>1, <1>4 DEF Inv, Owner
<1>5. QED
  BY <1>2, <1>3, <1>4

(* What lists of no, one and two micro-operations do to the value o.       *)
LEMMA Empty ==
  ASSUME NEW o \in Object
  PROVE  /\ Items(<<>>) = {} /\ Tok(<<>>, o) = 0 /\ IncIn(<<>>, o) = 0 /\ AddIn(<<>>, o) = 0
         /\ ~Dies(<<>>, o) /\ Cnt(<<>>, Dying(o)) <= 1
<1>1. Items(<<>>) = {}
  BY Nothing
<1>2. Tok(<<>>, o) = 0 /\ Cnt(<<>>, Dying(o)) = 0
  BY TokList
<1>3. QED
  BY <1>1, <1>2 DEF IncIn, AddIn, Dies

(* What one micro-operation holds and adds, for the actions that push one. *)
LEMMA Single ==
  ASSUME NEW a \in Item, NEW o \in Object
  PROVE  /\ Items(<<a>>) = {a} /\ Tok(<<a>>, o) = Tok1(a, o)
         /\ IncIn(<<a>>, o) = IF a.op \in IncOps /\ a.v = o THEN 1 ELSE 0
         /\ AddIn(<<a>>, o) = IF a.op = "add" /\ a.v = o THEN 1 ELSE 0
         /\ Dies(<<a>>, o) <=> a.op \in DyingOps /\ a.v = o
         /\ Cnt(<<a>>, Dying(o)) <= 1
<1>1. Items(<<a>>) = {a}
  BY List1
<1>2. Tok(<<a>>, o) = Tok1(a, o) /\ Cnt(<<a>>, Dying(o)) <= 1
  BY TokList DEF One
<1>3. QED
  BY <1>1, <1>2 DEF IncIn, AddIn, Dies

(* The same for two.                                                       *)
LEMMA Double ==
  ASSUME NEW a \in Item, NEW b \in Item, NEW o \in Object
  PROVE  /\ Items(<<a, b>>) = {a, b} /\ Tok(<<a, b>>, o) = Tok1(a, o) + Tok1(b, o)
         /\ IncIn(<<a, b>>, o) = IF (a.op \in IncOps /\ a.v = o) \/ (b.op \in IncOps /\ b.v = o) THEN 1 ELSE 0
         /\ AddIn(<<a, b>>, o) = IF (a.op = "add" /\ a.v = o) \/ (b.op = "add" /\ b.v = o) THEN 1 ELSE 0
         /\ Dies(<<a, b>>, o) <=> (a.op \in DyingOps /\ a.v = o) \/ (b.op \in DyingOps /\ b.v = o)
         /\ a.op \notin DyingOps \/ b.op \notin DyingOps => Cnt(<<a, b>>, Dying(o)) <= 1
<1>1. Items(<<a, b>>) = {a, b}
  BY List2
<1>2. /\ Tok(<<a, b>>, o) = Tok1(a, o) + Tok1(b, o)
      /\ Cnt(<<a, b>>, Dying(o)) = One(a, Dying(o)) + One(b, Dying(o))
  BY TokList
<1>3. a.op \notin DyingOps \/ b.op \notin DyingOps => Cnt(<<a, b>>, Dying(o)) <= 1
  BY <1>2 DEF One, Dying
<1>4. QED
  BY <1>1, <1>2, <1>3 DEF IncIn, AddIn, Dies

(* The step of a micro-operation that changes neither tags, fields, what   *)
(* is owned nor the locks of cells.                                        *)
LEMMA CalmOne ==
  ASSUME Typed, Typed', NEW t \in Thread, NEW r, NEW h \in Item, NEW c, Turn(t, r, <<h>>, c),
         h.op \notin {"poison", "rewrite"}, UNCHANGED <<tag, field, owned>>
  PROVE  Calm(t, r, <<h>>, c) /\ Items(<<h>>) = {h}
<1>1. Items(<<h>>) = {h}
  BY List1
<1>2. QED
  BY <1>1 DEF Calm

(* The step DupRead, the read of an increment, preserves the invariant;    *)
(* its value is counted from here on.                                      *)
LEMMA DupReadStep ==
  ASSUME Typed, Typed', NEW own, NEW val, Inv(own, val), NEW t \in Thread, DupRead(t)
  PROVE  \E n : Inv(own, n)'
<1>1. Do(t, "dup") /\ UNCHANGED <<tag, rc, field, owned, markLock, cellLock>>
  BY DEF DupRead
<1>2. PICK v, h, r : v = V(t) /\ h = Head(code[t]) /\ r = Rest(t)
  OBVIOUS
<1>3. /\ h \in Item /\ h.op = "dup" /\ h.v = v /\ v \in Object
      /\ h \in Parts(t) /\ Mentions(t, v) /\ rc[v] \in 0..(2 * SHARED - 1) /\ rc[v] = val[v]
      /\ ~IsShared(rc[v]) => own[v] = t /\ \A u \in Thread : Mentions(u, v) => u = t
  BY <1>1, <1>2, Ready
<1>4. PICK c : /\ Turn(t, r, <<h>>, c)
               /\ \/ IsSaturated(rc[v]) /\ c = <<>>
                  \/ \E a \in Item :
                       /\ c = <<a>> /\ a.v = v /\ ~IsSaturated(rc[v])
                       /\ \/ IsShared(rc[v]) /\ Count(rc[v]) >= COUNT_MASK /\ a.op = "saturate"
                          \/ IsShared(rc[v]) /\ Count(rc[v]) < COUNT_MASK /\ a.op = "add"
                          \/ /\ ~IsShared(rc[v]) /\ a.op = "store"
                             /\ a.w = IF rc[v] >= COUNT_MASK THEN SATURATED ELSE rc[v] + 1
  BY <1>2, DupReadTurn
<1>5. Calm(t, r, <<h>>, c) /\ Items(<<h>>) = {h}
  BY <1>1, <1>3, <1>4, CalmOne
<1>6. \A o \in Object : /\ Tok(<<h>>, o) = 0 /\ IncIn(<<h>>, o) = (IF v = o THEN 1 ELSE 0)
                        /\ AddIn(<<h>>, o) = 0 /\ ~Dies(<<h>>, o)
  BY <1>3, Single DEF Tok1, HoldOps, MoveOps, IncOps, DyingOps
<1>7. /\ \A u \in Thread : u # t => ~Has1(u, "store", v) /\ ~Has1(u, "rewrite", v)
      /\ \A e \in Items(r) : e.op # "rewrite"
  BY <1>1, <1>2, Undisturbed DEF RewriteOps
<1>8. val \in [Object -> 0..(2 * SHARED - 1)] /\ \A o \in Object : val[o] \in 0..(2 * SHARED - 1)
  BY DEF Inv
<1>9. h.op \in CountOps /\ h.op # "store" /\ h.op \in IncOps
  BY <1>3 DEF CountOps, HeadOps, IncOps
<1>11. CASE IsSaturated(rc[v]) /\ c = <<>>
  <2>1. \A o \in Object : /\ Items(c) = {} /\ Tok(c, o) = 0 /\ IncIn(c, o) = 0 /\ AddIn(c, o) = 0 /\ ~Dies(c, o)
    BY <1>11, Empty
  <2>2. Items(c) = {}
    BY <1>11, Nothing
  <2>3. \A o \in Object : Level(<<h>>, c, o, val, val) /\ Fitting(t, <<h>>, c, o) /\ Tidy(t, <<h>>, c, o, val, val)
    BY <2>1, <1>1, <1>3, <1>6, <1>8, <1>11, Words DEF Level, Fitting, Tidy
  <2>4. Inv(own, val)'
    BY <2>2, <2>3, <1>1, <1>5, <1>8, <1>9, CountStep
  <2>5. QED
    BY <2>4
<1>12. ASSUME NEW a \in Item, c = <<a>>, a.v = v, ~IsSaturated(rc[v]), IsShared(rc[v]),
              \/ Count(rc[v]) >= COUNT_MASK /\ a.op = "saturate"
              \/ Count(rc[v]) < COUNT_MASK /\ a.op = "add"
       PROVE  \E n : Inv(own, n)'
  <2>1. Items(c) = {a} /\ a.op \in CountOps \ {"dup", "drop"} /\ a.op \notin {"store", "cas", "free"} /\ a.op \in IncOps
    BY <1>12, List1 DEF CountOps, HeadOps, IncOps
  <2>2. \A o \in Object : /\ Tok(c, o) = 0 /\ IncIn(c, o) = (IF v = o THEN 1 ELSE 0)
                          /\ ~Dies(c, o) /\ (AddIn(c, o) = 0 \/ v = o)
    BY <1>12, <2>1, Single DEF Tok1, HoldOps, MoveOps, IncOps, DyingOps
  <2>3. rc[v] <= SHARED + COUNT_MASK
    BY <1>3, <1>12, Words, Numbers
  <2>4. \A o \in Object : Level(<<h>>, c, o, val, val) /\ Fitting(t, <<h>>, c, o) /\ Tidy(t, <<h>>, c, o, val, val)
    BY <2>2, <2>3, <1>1, <1>3, <1>6, <1>8, <1>12, Words DEF Level, Fitting, Tidy
  <2>5. Inv(own, val)'
    BY <2>1, <2>2, <2>4, <1>1, <1>3, <1>5, <1>6, <1>8, <1>9, <1>12, CountStep
  <2>6. QED
    BY <2>5
<1>13. ASSUME NEW a \in Item, c = <<a>>, a.v = v, ~IsSaturated(rc[v]), ~IsShared(rc[v]), a.op = "store",
              a.w = IF rc[v] >= COUNT_MASK THEN SATURATED ELSE rc[v] + 1
       PROVE  \E n : Inv(own, n)'
  <2>1. PICK n : n = [val EXCEPT ![v] = a.w]
    OBVIOUS
  <2>2. rc[v] < SATURATED /\ Count(rc[v]) = rc[v] /\ a.w \in 0..(2 * SHARED - 1)
    BY <1>3, <1>13, Words, Numbers
  <2>3. n[v] = a.w /\ (\A o \in Object : o # v => n[o] = val[o]) /\ n \in [Object -> 0..(2 * SHARED - 1)]
    BY <2>1, <2>2, <1>3, <1>8
  <2>4. Items(c) = {a} /\ a.op \in CountOps \ {"dup", "drop"} /\ a.op \notin IncOps \cup {"cas", "free"}
    BY <1>13, List1 DEF CountOps, HeadOps, IncOps
  <2>5. \A o \in Object : /\ Tok(c, o) = 0 /\ IncIn(c, o) = 0 /\ ~Dies(c, o) /\ AddIn(c, o) = 0
    BY <1>13, <2>4, Single DEF Tok1, HoldOps, MoveOps, IncOps, DyingOps
  <2>6. ~Zero(val, v)
    <3>1. t \in Incs(v)
      BY <1>3, <1>9 DEF Incs
    <3>2. QED
      BY <3>1, <1>3, ZeroMeans DEF Inv
  <2>7. IsSaturated(a.w) \/ (~IsSaturated(a.w) /\ Count(a.w) = rc[v] + 1)
    BY <2>2, <1>3, <1>13, Words, Numbers
  <2>8. ~Zero(n, v)
    BY <2>2, <2>3, <2>7, <1>3 DEF Zero
  <2>9. \A o \in Object : Level(<<h>>, c, o, val, n)
    BY <2>2, <2>3, <2>5, <2>7, <1>3, <1>6, <1>8, <1>13, Words DEF Level
  <2>10. \A o \in Object : Fitting(t, <<h>>, c, o)
    BY <2>5, <1>1 DEF Fitting
  <2>11. \A o \in Object : Tidy(t, <<h>>, c, o, val, n)
    BY <2>3, <2>5, <2>6, <2>8, <1>6, <1>7 DEF Tidy, Zero
  <2>12. Inv(own, n)'
    BY <2>3, <2>4, <2>9, <2>10, <2>11, <1>1, <1>3, <1>5, <1>7, <1>9, <1>13, CountStep
  <2>13. QED
    BY <2>12
<1>14. QED
  BY <1>4, <1>11, <1>12, <1>13

(* The step Store, the plain write of an unshared count, preserves the     *)
(* invariant.                                                              *)
LEMMA StoreStep ==
  ASSUME Typed, Typed', NEW own, NEW val, Inv(own, val), NEW t \in Thread, Store(t)
  PROVE  Inv(own, val)'
<1>1. /\ Do(t, "store") /\ UNCHANGED <<tag, field, owned, markLock, cellLock>>
      /\ Then(t, <<>>) /\ rc' = [rc EXCEPT ![V(t)] = W(t)]
  BY DEF Store, SetRc
<1>2. PICK v, h, r : v = V(t) /\ h = Head(code[t]) /\ r = Rest(t)
  OBVIOUS
<1>3. /\ h \in Item /\ h.op = "store" /\ h.v = v /\ v \in Object
      /\ h \in Parts(t) /\ Mentions(t, v) /\ rc[v] \in 0..(2 * SHARED - 1)
  BY <1>1, <1>2, Ready
<1>4. Turn(t, r, <<h>>, <<>>)
  BY <1>1, <1>2, DoneTurn DEF Do
<1>5. Calm(t, r, <<h>>, <<>>) /\ Items(<<h>>) = {h}
  BY <1>1, <1>3, <1>4, CalmOne
<1>6. \A o \in Object : Tok(<<h>>, o) = 0 /\ IncIn(<<h>>, o) = 0 /\ AddIn(<<h>>, o) = 0 /\ ~Dies(<<h>>, o)
  BY <1>3, Single DEF Tok1, HoldOps, MoveOps, IncOps, DyingOps
<1>7. \A o \in Object : Tok(<<>>, o) = 0 /\ IncIn(<<>>, o) = 0 /\ AddIn(<<>>, o) = 0 /\ ~Dies(<<>>, o)
  BY Empty
<1>8. Items(<<>>) = {} /\ h.op \in CountOps
  BY <1>3, Nothing DEF CountOps, HeadOps
<1>9. val \in [Object -> 0..(2 * SHARED - 1)]
  BY DEF Inv
<1>10. ~IsShared(rc[v]) /\ val[v] = W(t) /\ W(t) \in 0..SATURATED
  BY <1>1, <1>2, <1>3, ItemFields DEF Inv, Owner, Values, W
<1>11. rc \in [Object -> 0..(2 * SHARED - 1)] /\ rc'[v] = val[v] /\ \A o \in Object : o # v => rc'[o] = rc[o]
  BY <1>1, <1>2, <1>3, <1>10, States
<1>12. ~IsShared(rc'[v]) /\ rc'[v] <= SATURATED
  BY <1>10, <1>11, Numbers DEF IsShared
<1>13. \A o \in Object : Level(<<h>>, <<>>, o, val, val) /\ Fitting(t, <<h>>, <<>>, o) /\ Tidy(t, <<h>>, <<>>, o, val, val)
  BY <1>6, <1>7, <1>11, <1>12 DEF Level, Fitting, Tidy
<1>14. \A o \in Object : rc'[o] = val[o] \/ (rc'[o] = rc[o] /\ \A e \in Items(<<h>>) : ~(e.op = "store" /\ e.v = o))
  BY <1>3, <1>5, <1>11
<1>15. QED
  BY <1>1, <1>5, <1>8, <1>9, <1>10, <1>11, <1>12, <1>13, <1>14, CountStep

(* The step Add, the atomic increment of a shared count, preserves the     *)
(* invariant.                                                              *)
LEMMA AddStep ==
  ASSUME Typed, Typed', NEW own, NEW val, Inv(own, val), NEW t \in Thread, Add(t)
  PROVE  \E n : Inv(own, n)'
<1>1. /\ Do(t, "add") /\ UNCHANGED <<tag, field, owned, markLock, cellLock>>
      /\ rc' = [rc EXCEPT ![V(t)] = (rc[V(t)] + 1) % (2 * SHARED)]
  BY DEF Add, SetRc
<1>2. PICK v, h, r : v = V(t) /\ h = Head(code[t]) /\ r = Rest(t)
  OBVIOUS
<1>3. /\ h \in Item /\ h.op = "add" /\ h.v = v /\ v \in Object
      /\ h \in Parts(t) /\ Mentions(t, v) /\ rc[v] \in 0..(2 * SHARED - 1) /\ rc[v] = val[v]
  BY <1>1, <1>2, Ready
<1>4. PICK c : /\ Turn(t, r, <<h>>, c)
               /\ \/ ~IsSaturated(rc[v]) /\ Count(rc[v]) < COUNT_MASK /\ c = <<>>
                  \/ /\ IsSaturated(rc[v]) \/ Count(rc[v]) >= COUNT_MASK
                     /\ \E a \in Item : c = <<a>> /\ a.op = "saturate" /\ a.v = v
  BY <1>2, AddTurn
<1>5. Calm(t, r, <<h>>, c) /\ Items(<<h>>) = {h}
  BY <1>1, <1>3, <1>4, CalmOne
<1>6. \A o \in Object : /\ Tok(<<h>>, o) = 0 /\ IncIn(<<h>>, o) = (IF v = o THEN 1 ELSE 0)
                        /\ AddIn(<<h>>, o) = (IF v = o THEN 1 ELSE 0) /\ ~Dies(<<h>>, o)
  BY <1>3, Single DEF Tok1, HoldOps, MoveOps, IncOps, DyingOps
<1>7. /\ \A u \in Thread : u # t => ~Has1(u, "store", v) /\ ~Has1(u, "rewrite", v)
      /\ \A e \in Items(r) : e.op # "rewrite"
  BY <1>1, <1>2, Undisturbed DEF RewriteOps
<1>8. val \in [Object -> 0..(2 * SHARED - 1)]
  BY DEF Inv
<1>9. h.op \in CountOps /\ h.op # "store" /\ h.op \in IncOps
  BY <1>3 DEF CountOps, HeadOps, IncOps
<1>10. IsShared(rc[v])
  BY <1>3 DEF Inv, Owner
<1>11. rc[v] + 1 <= 2 * SHARED - 1 /\ rc[v] + 1 \in 0..(2 * SHARED - 1)
  <2>1. rc[v] + Cardinality(Adds(v)) <= SHARED + COUNT_MASK + Cardinality(Thread)
    BY <1>3, <1>10 DEF Inv, Bounded
  <2>2. IsFiniteSet(Adds(v)) /\ Cardinality(Adds(v)) \in Nat /\ (Cardinality(Adds(v)) = 0 <=> Adds(v) = {})
    BY IncsFinite, FS_EmptySet
  <2>3. t \in Adds(v)
    BY <1>3 DEF Adds, Has1
  <2>4. Cardinality(Adds(v)) >= 1
    BY <2>2, <2>3
  <2>5. QED
    BY <2>1, <2>2, <2>4, <1>3, ThreadFinite, Numbers
<1>12. (rc[v] + 1) % (2 * SHARED) = rc[v] + 1
  <2>1. 2 * SHARED \in Nat \ {0} /\ rc[v] + 1 \in Nat /\ rc[v] + 1 < 2 * SHARED
    BY <1>3, <1>11, Numbers
  <2>2. \A m \in Nat \ {0} : \A k \in Nat : k < m => k % m = k
    BY Mod
  <2>3. QED
    BY <2>1, <2>2
<1>13. PICK n : n = [val EXCEPT ![v] = rc[v] + 1]
  OBVIOUS
<1>14. /\ n \in [Object -> 0..(2 * SHARED - 1)] /\ n[v] = rc[v] + 1 /\ \A o \in Object : o # v => n[o] = val[o]
  BY <1>3, <1>8, <1>11, <1>13
<1>15. rc'[v] = rc[v] + 1 /\ (\A o \in Object : o # v => rc'[o] = rc[o]) /\ rc \in [Object -> 0..(2 * SHARED - 1)]
  BY <1>1, <1>2, <1>3, <1>12, States
<1>16. IsShared(rc'[v])
  BY <1>3, <1>10, <1>15, Numbers DEF IsShared
<1>17. ~Zero(val, v)
  <2>1. t \in Incs(v)
    BY <1>3, <1>9 DEF Incs
  <2>2. QED
    BY <2>1, <1>3, ZeroMeans DEF Inv
<1>18. \A o \in Object : rc'[o] = n[o] \/ (rc'[o] = rc[o] /\ n[o] = val[o] /\ \A e \in Items(<<h>>) : ~(e.op = "store" /\ e.v = o))
  BY <1>3, <1>5, <1>14, <1>15
<1>19. CASE ~IsSaturated(rc[v]) /\ Count(rc[v]) < COUNT_MASK /\ c = <<>>
  <2>1. \A o \in Object : Tok(c, o) = 0 /\ IncIn(c, o) = 0 /\ AddIn(c, o) = 0 /\ ~Dies(c, o)
    BY <1>19, Empty
  <2>2. Items(c) = {}
    BY <1>19, Nothing
  <2>3. ~IsSaturated(n[v]) /\ Count(n[v]) = Count(val[v]) + 1 /\ Count(val[v]) \in Nat
    <3>1. rc[v] <= SHARED + COUNT_MASK /\ Count(rc[v]) = rc[v] - SHARED /\ rc[v] >= SHARED
      BY <1>3, <1>10, <1>19, Words, Numbers DEF IsShared
    <3>2. n[v] \in 0..(2 * SHARED - 1) /\ n[v] >= SHARED /\ n[v] <= SHARED + COUNT_MASK
      BY <3>1, <1>3, <1>11, <1>14, <1>19, Numbers
    <3>3. ~IsSaturated(n[v]) /\ Count(n[v]) = n[v] - SHARED
      BY <3>2, Words
    <3>4. QED
      BY <3>1, <3>3, <1>3, <1>14, Numbers
  <2>4. \A o \in Object : Level(<<h>>, c, o, val, n)
    BY <2>1, <2>3, <1>3, <1>6, <1>14, <1>19 DEF Level
  <2>5. \A o \in Object : Fitting(t, <<h>>, c, o)
    BY <2>1, <1>6, <1>10, <1>15 DEF Fitting
  <2>6. \A o \in Object : Tidy(t, <<h>>, c, o, val, n)
    <3>1. ~Zero(n, v)
      BY <2>3 DEF Zero
    <3>2. QED
      BY <3>1, <2>1, <1>6, <1>7, <1>14, <1>17 DEF Tidy, Zero
  <2>7. Inv(own, n)'
    BY <2>2, <2>4, <2>5, <2>6, <1>1, <1>5, <1>7, <1>9, <1>10, <1>14, <1>15, <1>16, <1>18, CountStep
  <2>8. QED
    BY <2>7
<1>20. ASSUME IsSaturated(rc[v]) \/ Count(rc[v]) >= COUNT_MASK, NEW a \in Item, c = <<a>>, a.op = "saturate", a.v = v
       PROVE  \E m : Inv(own, m)'
  <2>1. \A o \in Object : /\ Tok(c, o) = 0 /\ AddIn(c, o) = 0 /\ ~Dies(c, o)
                          /\ IncIn(c, o) = (IF v = o THEN 1 ELSE 0)
    BY <1>20, Single DEF Tok1, HoldOps, MoveOps, IncOps, DyingOps
  <2>2. Items(c) = {a} /\ a.op \in CountOps \ {"dup", "drop"}
    BY <1>20, List1 DEF CountOps, HeadOps, IncOps
  <2>3. IsSaturated(n[v])
    <3>1. rc[v] >= SHARED /\ ~(rc[v] < SHARED + COUNT_MASK)
      BY <1>3, <1>10, <1>20, Words, Numbers DEF IsShared
    <3>2. n[v] > SHARED + COUNT_MASK /\ n[v] \in 0..(2 * SHARED - 1)
      BY <3>1, <1>3, <1>11, <1>14, Numbers
    <3>3. QED
      BY <3>2, Words
  <2>4. \A o \in Object : Level(<<h>>, c, o, val, n)
    BY <2>1, <2>3, <1>6, <1>14 DEF Level
  <2>5. \A o \in Object : Fitting(t, <<h>>, c, o)
    BY <2>1, <1>6, <1>10, <1>15 DEF Fitting
  <2>6. \A o \in Object : Tidy(t, <<h>>, c, o, val, n)
    <3>1. ~Zero(n, v)
      BY <2>3 DEF Zero
    <3>2. QED
      BY <3>1, <2>1, <1>6, <1>7, <1>14, <1>17 DEF Tidy, Zero
  <2>7. Inv(own, n)'
    BY <2>1, <2>2, <2>4, <2>5, <2>6, <1>1, <1>3, <1>5, <1>6, <1>7, <1>9, <1>10, <1>14, <1>15, <1>16, <1>18, <1>20, CountStep
  <2>8. QED
    BY <2>7
<1>21. QED
  BY <1>4, <1>19, <1>20

(* The step Saturate, which makes a full count stick, preserves the        *)
(* invariant.                                                              *)
LEMMA SaturateStep ==
  ASSUME Typed, Typed', NEW own, NEW val, Inv(own, val), NEW t \in Thread, Saturate(t)
  PROVE  \E n : Inv(own, n)'
<1>1. /\ Do(t, "saturate") /\ UNCHANGED <<tag, field, owned, markLock, cellLock>>
      /\ Then(t, <<>>) /\ rc' = [rc EXCEPT ![V(t)] = SHARED + SATURATED]
  BY DEF Saturate, SetRc
<1>2. PICK v, h, r : v = V(t) /\ h = Head(code[t]) /\ r = Rest(t)
  OBVIOUS
<1>3. /\ h \in Item /\ h.op = "saturate" /\ h.v = v /\ v \in Object
      /\ h \in Parts(t) /\ Mentions(t, v) /\ rc[v] \in 0..(2 * SHARED - 1) /\ rc[v] = val[v]
  BY <1>1, <1>2, Ready
<1>4. Turn(t, r, <<h>>, <<>>)
  BY <1>1, <1>2, DoneTurn DEF Do
<1>5. Calm(t, r, <<h>>, <<>>) /\ Items(<<h>>) = {h}
  BY <1>1, <1>3, <1>4, CalmOne
<1>6. \A o \in Object : /\ Tok(<<h>>, o) = 0 /\ IncIn(<<h>>, o) = (IF v = o THEN 1 ELSE 0)
                        /\ AddIn(<<h>>, o) = 0 /\ ~Dies(<<h>>, o)
  BY <1>3, Single DEF Tok1, HoldOps, MoveOps, IncOps, DyingOps
<1>7. /\ \A u \in Thread : u # t => ~Has1(u, "store", v) /\ ~Has1(u, "rewrite", v)
      /\ \A e \in Items(r) : e.op # "rewrite"
  BY <1>1, <1>2, Undisturbed DEF RewriteOps
<1>8. \A o \in Object : Tok(<<>>, o) = 0 /\ IncIn(<<>>, o) = 0 /\ AddIn(<<>>, o) = 0 /\ ~Dies(<<>>, o)
  BY Empty
<1>9. Items(<<>>) = {} /\ h.op \in CountOps /\ h.op # "store" /\ h.op \in IncOps
  BY <1>3, Nothing DEF CountOps, HeadOps, IncOps
<1>10. val \in [Object -> 0..(2 * SHARED - 1)] /\ IsShared(rc[v])
  BY <1>3 DEF Inv, Owner
<1>11. PICK n : n = [val EXCEPT ![v] = SHARED + SATURATED]
  OBVIOUS
<1>12. SHARED + SATURATED \in 0..(2 * SHARED - 1) /\ SHARED + SATURATED > SHARED + COUNT_MASK
  BY Numbers
<1>13. IsShared(SHARED + SATURATED) /\ IsSaturated(SHARED + SATURATED)
  BY <1>12, Words
<1>14. /\ n \in [Object -> 0..(2 * SHARED - 1)] /\ n[v] = SHARED + SATURATED
       /\ \A o \in Object : o # v => n[o] = val[o]
  BY <1>3, <1>10, <1>11, <1>12
<1>15. rc'[v] = SHARED + SATURATED /\ \A o \in Object : o # v => rc'[o] = rc[o]
  BY <1>1, <1>2, <1>3, States
<1>16. ~Zero(val, v)
  <2>1. t \in Incs(v)
    BY <1>3, <1>9 DEF Incs
  <2>2. QED
    BY <2>1, <1>3, ZeroMeans DEF Inv
<1>17. \A o \in Object : rc'[o] = n[o] \/ (rc'[o] = rc[o] /\ n[o] = val[o] /\ \A e \in Items(<<h>>) : ~(e.op = "store" /\ e.v = o))
  BY <1>3, <1>5, <1>14, <1>15
<1>18. \A o \in Object : Level(<<h>>, <<>>, o, val, n)
  BY <1>6, <1>8, <1>13, <1>14 DEF Level
<1>19. \A o \in Object : Fitting(t, <<h>>, <<>>, o)
  BY <1>8, <1>15 DEF Fitting
<1>20. \A o \in Object : Tidy(t, <<h>>, <<>>, o, val, n)
  BY <1>6, <1>7, <1>8, <1>13, <1>14, <1>16 DEF Tidy, Zero
<1>21. \A o \in Object : IsShared(rc'[o]) <=> IsShared(rc[o])
  BY <1>10, <1>13, <1>15
<1>22. \A o \in Object : n[o] # val[o] => \A u \in Thread : u # t => ~Has1(u, "store", o)
  BY <1>7, <1>14
<1>23. Inv(own, n)'
  BY <1>1, <1>5, <1>7, <1>9, <1>14, <1>17, <1>18, <1>19, <1>20, <1>21, <1>22, CountStep
<1>24. QED
  BY <1>23

(* What the executed micro-operation holds is not about to be rewritten.   *)
LEMMA NotRewritten ==
  ASSUME Typed, Typed', NEW own, NEW val, Inv(own, val), NEW t \in Thread, NEW r, NEW b, NEW c,
         Turn(t, r, b, c), \A u \in Thread : u # t => owned'[u] = owned[u],
         NEW e \in Items(r), e.op = "rewrite"
  PROVE  e.v \in Object /\ Tok(b, e.v) = 0
<1>1. /\ Parts(t) = Items(r) \cup Items(b) /\ Items(r) \subseteq Item /\ r \in Seq(Item) /\ b \in Seq(Item)
  BY Parted
<1>2. PICK v : v = e.v
  OBVIOUS
<1>3. v \in Object /\ Held(t, v) = 1
  BY <1>1, <1>2, Sole DEF Inv
<1>4. Tok(r, v) \in Nat /\ Tok(b, v) \in Nat /\ owned[t][v] \in Nat /\ Held(t, v) = owned[t][v] + Tok(r, v) + Tok(b, v)
  BY <1>3, HeldTurn
<1>5. Tok(r, v) >= 1
  <2>1. e \in ByV(v)
    BY <1>1, <1>2 DEF ByV, HoldOps
  <2>2. Cnt(r, ByV(v)) \in Nat /\ Cnt(r, ByX(v)) \in Nat /\ Cnt(r, ByV(v)) > 0
    BY <1>1, <2>1, CntPositive
  <2>3. QED
    BY <2>2 DEF Tok
<1>6. QED
  BY <1>2, <1>3, <1>4, <1>5

(* A value somebody holds has a count above zero.                          *)
LEMMA NotZero ==
  ASSUME Typed, NEW own, NEW val, Inv(own, val), NEW t \in Thread, NEW e \in Parts(t), e.op \in HoldOps,
         e.v \in Object
  PROVE  ~Zero(val, e.v)
<1>1. SUFFICES ASSUME Zero(val, e.v) PROVE FALSE
  OBVIOUS
<1>2. Held(t, e.v) = 0
  BY <1>1, ZeroMeans DEF Inv
<1>3. Held(t, e.v) >= owned[t][e.v] + 1 /\ owned[t][e.v] \in Nat
  BY HeldNat
<1>4. QED
  BY <1>2, <1>3

(* A count word, and the one with the count one less.                      *)
LEMMA Lessened ==
  ASSUME NEW w \in 0..(2 * SHARED - 1), ~IsSaturated(w), Count(w) # 0
  PROVE  /\ w - 1 \in 0..(2 * SHARED - 1) /\ ~IsSaturated(w - 1)
         /\ Count(w - 1) \in Nat /\ Count(w) \in Nat /\ Count(w) = Count(w - 1) + 1
         /\ IsShared(w - 1) <=> IsShared(w)
         /\ IsShared(w) => w \in (SHARED + 1)..(SHARED + COUNT_MASK) /\ w - 1 <= SHARED + COUNT_MASK
         /\ ~IsShared(w) => w - 1 \in 0..SATURATED /\ Count(w) = w
<1>1. \/ /\ ~IsShared(w) /\ w < SATURATED /\ w >= 1 /\ Count(w) = w
      \/ IsShared(w) /\ w >= SHARED + 1 /\ w <= SHARED + COUNT_MASK /\ Count(w) = w - SHARED
  BY Words, Numbers
<1>2. w - 1 \in 0..(2 * SHARED - 1)
  BY <1>1, Numbers
<1>3. ~IsSaturated(w - 1) /\ Count(w - 1) = Count(w) - 1 /\ (IsShared(w - 1) <=> IsShared(w)) /\ Count(w) \in Nat /\ Count(w) >= 1
  BY <1>1, <1>2, Words, Numbers
<1>4. QED
  BY <1>1, <1>2, <1>3, Numbers

(* The step DropRead, the read of a decrement, preserves the invariant.    *)
LEMMA DropReadStep ==
  ASSUME Typed, Typed', NEW own, NEW val, Inv(own, val), NEW t \in Thread, DropRead(t)
  PROVE  \E n : Inv(own, n)'
<1>1. Do(t, "drop") /\ UNCHANGED <<tag, rc, field, owned, markLock, cellLock>>
  BY DEF DropRead
<1>2. PICK v, h, r : v = V(t) /\ h = Head(code[t]) /\ r = Rest(t)
  OBVIOUS
<1>3. /\ h \in Item /\ h.op = "drop" /\ h.v = v /\ v \in Object
      /\ h \in Parts(t) /\ Mentions(t, v) /\ rc[v] \in 0..(2 * SHARED - 1) /\ rc[v] = val[v]
      /\ ~IsShared(rc[v]) => own[v] = t /\ \A u \in Thread : Mentions(u, v) => u = t
  BY <1>1, <1>2, Ready
<1>4. PICK c : /\ Turn(t, r, <<h>>, c)
               /\ \/ (IsSaturated(rc[v]) \/ Count(rc[v]) = 0) /\ c = <<>>
                  \/ /\ ~IsSaturated(rc[v]) /\ Count(rc[v]) # 0 /\ IsShared(rc[v])
                     /\ \E a \in Item : c = <<a>> /\ a.op = "cas" /\ a.v = v /\ a.w = rc[v]
                  \/ /\ ~IsSaturated(rc[v]) /\ Count(rc[v]) # 0 /\ ~IsShared(rc[v])
                     /\ \E a \in Item : /\ a.op = "store" /\ a.v = v /\ a.w = rc[v] - 1
                                        /\ \/ ~(rc[v] = 1 /\ Freeable(v)) /\ c = <<a>>
                                           \/ /\ rc[v] = 1 /\ Freeable(v)
                                              /\ \E d \in Item : c = <<a, d>> /\ d.op = "free" /\ d.v = v
  BY <1>2, DropReadTurn
<1>5. Calm(t, r, <<h>>, c) /\ Items(<<h>>) = {h}
  BY <1>1, <1>3, <1>4, CalmOne
<1>6. \A o \in Object : /\ Tok(<<h>>, o) = (IF v = o THEN 1 ELSE 0) /\ IncIn(<<h>>, o) = 0
                        /\ AddIn(<<h>>, o) = 0 /\ ~Dies(<<h>>, o)
  BY <1>3, Single DEF Tok1, HoldOps, MoveOps, IncOps, DyingOps
<1>7. \A u \in Thread : u # t => ~Has1(u, "store", v) /\ ~Has1(u, "rewrite", v)
  BY <1>1, <1>2, Undisturbed
<1>8. \A e \in Items(r) : e.op = "rewrite" => e.v \in Object /\ e.v # v
  BY <1>1, <1>3, <1>4, <1>6, NotRewritten
<1>9. val \in [Object -> 0..(2 * SHARED - 1)] /\ h.op \in CountOps /\ h.op # "store"
  BY <1>3 DEF Inv, CountOps, HeadOps, IncOps
<1>10. ~Zero(val, v)
  BY <1>3, NotZero DEF HoldOps
<1>11. CASE (IsSaturated(rc[v]) \/ Count(rc[v]) = 0) /\ c = <<>>
  <2>1. IsSaturated(val[v])
    BY <1>3, <1>10, <1>11 DEF Zero
  <2>2. \A o \in Object : Tok(c, o) = 0 /\ IncIn(c, o) = 0 /\ AddIn(c, o) = 0 /\ ~Dies(c, o)
    BY <1>11, Empty
  <2>3. Items(c) = {}
    BY <1>11, Nothing
  <2>4. \A o \in Object : Level(<<h>>, c, o, val, val) /\ Fitting(t, <<h>>, c, o) /\ Tidy(t, <<h>>, c, o, val, val)
    BY <2>1, <2>2, <1>1, <1>6 DEF Level, Fitting, Tidy
  <2>5. Inv(own, val)'
    BY <2>3, <2>4, <1>1, <1>3, <1>5, <1>9, CountStep
  <2>6. QED
    BY <2>5
<1>12. ASSUME ~IsSaturated(rc[v]), Count(rc[v]) # 0, IsShared(rc[v]), NEW a \in Item,
              c = <<a>>, a.op = "cas", a.v = v, a.w = rc[v]
       PROVE  \E n : Inv(own, n)'
  <2>1. \A o \in Object : /\ Tok(c, o) = (IF v = o THEN 1 ELSE 0) /\ IncIn(c, o) = 0
                          /\ AddIn(c, o) = 0 /\ ~Dies(c, o)
    BY <1>12, Single DEF Tok1, HoldOps, MoveOps, IncOps, DyingOps
  <2>2. Items(c) = {a} /\ a.op \in CountOps \ {"dup", "drop"} /\ a.op \notin IncOps
    BY <1>12, List1 DEF CountOps, HeadOps, IncOps
  <2>3. a.w \in (SHARED + 1)..(SHARED + COUNT_MASK)
    BY <1>3, <1>12, Lessened
  <2>4. \A o \in Object : Level(<<h>>, c, o, val, val) /\ Fitting(t, <<h>>, c, o) /\ Tidy(t, <<h>>, c, o, val, val)
    BY <2>1, <1>1, <1>6 DEF Level, Fitting, Tidy
  <2>5. Inv(own, val)'
    BY <2>2, <2>3, <2>4, <1>1, <1>3, <1>5, <1>9, <1>12, CountStep
  <2>6. QED
    BY <2>5
<1>13. ASSUME ~IsSaturated(rc[v]), Count(rc[v]) # 0, ~IsShared(rc[v]), NEW a \in Item,
              a.op = "store", a.v = v, a.w = rc[v] - 1,
              \/ ~(rc[v] = 1 /\ Freeable(v)) /\ c = <<a>>
              \/ /\ rc[v] = 1 /\ Freeable(v)
                 /\ \E d \in Item : c = <<a, d>> /\ d.op = "free" /\ d.v = v
       PROVE  \E n : Inv(own, n)'
  <2>1. PICK n : n = [val EXCEPT ![v] = val[v] - 1]
    OBVIOUS
  <2>2. /\ n \in [Object -> 0..(2 * SHARED - 1)] /\ n[v] = val[v] - 1
        /\ \A o \in Object : o # v => n[o] = val[o]
        /\ ~IsSaturated(n[v]) /\ Count(n[v]) \in Nat /\ Count(val[v]) = Count(n[v]) + 1
        /\ ~Zero(val, v) /\ (Zero(n, v) <=> Count(val[v]) = 1) /\ Count(val[v]) = val[v]
    <3>1. n[v] = val[v] - 1 /\ \A o \in Object : o # v => n[o] = val[o]
      BY <2>1, <1>3, <1>9
    <3>2. /\ val[v] \in 0..(2 * SHARED - 1) /\ ~IsSaturated(val[v]) /\ Count(val[v]) # 0 /\ ~IsShared(val[v])
      BY <1>3, <1>13
    <3>3. /\ n[v] \in 0..(2 * SHARED - 1) /\ ~IsSaturated(n[v]) /\ Count(n[v]) \in Nat
          /\ Count(val[v]) \in Nat /\ Count(val[v]) = Count(n[v]) + 1 /\ Count(val[v]) = val[v]
      BY <3>1, <3>2, Lessened
    <3>4. Zero(n, v) <=> Count(val[v]) = 1
      BY <3>3 DEF Zero
    <3>5. QED
      BY <3>1, <3>3, <3>4, <2>1, <1>9, <1>10
  <2>3. /\ \A o \in Object : /\ Tok(c, o) = 0 /\ IncIn(c, o) = 0 /\ AddIn(c, o) = 0 /\ Cnt(c, Dying(o)) <= 1
                             /\ Dies(c, o) <=> (o = v /\ val[v] = 1 /\ tag[v] = "ctor")
        /\ \A e \in Items(c) : /\ e.op \in {"store", "free"} /\ e.v = v
                               /\ e.op = "store" => e.w = n[v]
        /\ \E e \in Items(c) : e.op = "store" /\ e.v = v
    <3>1. CASE ~(rc[v] = 1 /\ Freeable(v)) /\ c = <<a>>
      <4>1. Items(c) = {a}
        BY <3>1, List1
      <4>2. \A o \in Object : /\ Tok(c, o) = 0 /\ IncIn(c, o) = 0 /\ AddIn(c, o) = 0 /\ Cnt(c, Dying(o)) <= 1 /\ ~Dies(c, o)
        BY <3>1, <1>13, Single DEF Tok1, HoldOps, MoveOps, IncOps, DyingOps
      <4>3. QED
        BY <4>1, <4>2, <3>1, <2>2, <1>3, <1>13 DEF Freeable
    <3>2. ASSUME rc[v] = 1, Freeable(v), NEW d \in Item, c = <<a, d>>, d.op = "free", d.v = v
          PROVE  /\ \A o \in Object : /\ Tok(c, o) = 0 /\ IncIn(c, o) = 0 /\ AddIn(c, o) = 0 /\ Cnt(c, Dying(o)) <= 1
                                      /\ Dies(c, o) <=> (o = v /\ val[v] = 1 /\ tag[v] = "ctor")
                 /\ \A e \in Items(c) : /\ e.op \in {"store", "free"} /\ e.v = v
                                        /\ e.op = "store" => e.w = n[v]
                 /\ \E e \in Items(c) : e.op = "store" /\ e.v = v
      <4>1. Items(c) = {a, d}
        BY <3>2, List2
      <4>2. \A o \in Object : /\ Tok(c, o) = 0 /\ IncIn(c, o) = 0 /\ AddIn(c, o) = 0 /\ Cnt(c, Dying(o)) <= 1
                              /\ Dies(c, o) <=> o = v
        BY <3>2, <1>13, Double DEF Tok1, HoldOps, MoveOps, IncOps, DyingOps
      <4>3. QED
        BY <4>1, <4>2, <3>2, <2>2, <1>3, <1>13 DEF Freeable
    <3>3. QED
      BY <3>1, <3>2, <1>13
  <2>4. \A e \in Items(c) : e.op \in CountOps \ {"dup", "drop"} /\ e.op \notin IncOps \cup {"cas", "add", "saturate"}
    BY <2>3 DEF CountOps, HeadOps, IncOps
  <2>5. \A o \in Object : Level(<<h>>, c, o, val, n)
    <3>1. \A o \in Object : Tok(c, o) = 0 /\ IncIn(c, o) = 0
      BY <2>3
    <3>2. \A o \in Object : o # v => n[o] = val[o]
      BY <2>2
    <3>3. Count(n[v]) \in Nat /\ Count(val[v]) = Count(n[v]) + 1 /\ ~IsSaturated(val[v])
      BY <2>2, <1>3, <1>13
    <3>4. QED
      BY <3>1, <3>2, <3>3, <1>6 DEF Level
  <2>6. \A o \in Object : Fitting(t, <<h>>, c, o)
    BY <2>3, <1>1 DEF Fitting
  <2>7. \A o \in Object : Tidy(t, <<h>>, c, o, val, n)
    BY <2>2, <2>3, <1>6, <1>7 DEF Tidy, Zero
  <2>8. \A o \in Object : n[o] # val[o] => \A u \in Thread : u # t => ~Has1(u, "store", o)
    BY <2>2, <1>7
  <2>9. \A e \in Items(r) : e.op = "rewrite" => n[e.v] = val[e.v]
    BY <2>2, <1>8
  <2>10. \A o \in Object : \/ \E e \in Items(c) : e.op = "store" /\ e.v = o
                           \/ rc'[o] = rc[o] /\ n[o] = val[o]
    BY <2>2, <2>3, <1>1
  <2>11. \A e \in Items(c) : /\ Mentions(t, e.v) /\ (e.op = "store" => own[e.v] = t /\ ~IsShared(rc'[e.v]) /\ n[e.v] = e.w)
    BY <2>3, <1>1, <1>3, <1>13
  <2>12. Inv(own, n)'
    BY <2>2, <2>4, <2>5, <2>6, <2>7, <2>8, <2>9, <2>10, <2>11, <1>1, <1>3, <1>5, <1>9, CountStep
  <2>13. QED
    BY <2>12
<1>14. QED
  BY <1>4, <1>11, <1>12, <1>13

(* The step DropCas, the compare-and-swap of a decrement, preserves the    *)
(* invariant.                                                              *)
LEMMA DropCasStep ==
  ASSUME Typed, Typed', NEW own, NEW val, Inv(own, val), NEW t \in Thread, DropCas(t)
  PROVE  \E n : Inv(own, n)'
<1>1. Do(t, "cas") /\ UNCHANGED <<tag, field, owned, markLock, cellLock>>
  BY DEF DropCas
<1>2. PICK v, h, r : v = V(t) /\ h = Head(code[t]) /\ r = Rest(t)
  OBVIOUS
<1>3. /\ h \in Item /\ h.op = "cas" /\ h.v = v /\ v \in Object
      /\ h \in Parts(t) /\ Mentions(t, v) /\ rc[v] \in 0..(2 * SHARED - 1) /\ rc[v] = val[v]
  BY <1>1, <1>2, Ready
<1>4. PICK c : /\ Turn(t, r, <<h>>, c)
               /\ \/ rc[v] = W(t) /\ rc' = [rc EXCEPT ![v] = W(t) - 1] /\ FreeNext(c, v, W(t))
                  \/ rc' = rc /\ (IsSaturated(rc[v]) \/ Count(rc[v]) = 0) /\ c = <<>>
                  \/ /\ rc' = rc /\ ~IsSaturated(rc[v]) /\ Count(rc[v]) # 0
                     /\ \E a \in Item : c = <<a>> /\ a.op = "cas" /\ a.v = v /\ a.w = rc[v]
  BY <1>2, DropCasTurn
<1>5. Calm(t, r, <<h>>, c) /\ Items(<<h>>) = {h}
  BY <1>1, <1>3, <1>4, CalmOne
<1>6. \A o \in Object : /\ Tok(<<h>>, o) = (IF v = o THEN 1 ELSE 0) /\ IncIn(<<h>>, o) = 0
                        /\ AddIn(<<h>>, o) = 0 /\ ~Dies(<<h>>, o)
  BY <1>3, Single DEF Tok1, HoldOps, MoveOps, IncOps, DyingOps
<1>7. \A u \in Thread : u # t => ~Has1(u, "store", v) /\ ~Has1(u, "rewrite", v)
  BY <1>1, <1>2, Undisturbed
<1>8. \A e \in Items(r) : e.op = "rewrite" => e.v \in Object /\ e.v # v
  BY <1>1, <1>3, <1>4, <1>6, NotRewritten
<1>9. val \in [Object -> 0..(2 * SHARED - 1)] /\ h.op \in CountOps /\ h.op # "store"
  BY <1>3 DEF Inv, CountOps, HeadOps, IncOps
<1>10. ~Zero(val, v) /\ IsShared(rc[v]) /\ W(t) \in (SHARED + 1)..(SHARED + COUNT_MASK)
  <2>1. W(t) = h.w
    BY <1>2 DEF W
  <2>2. IsShared(rc[v]) /\ W(t) \in (SHARED + 1)..(SHARED + COUNT_MASK)
    BY <2>1, <1>3 DEF Inv, Owner
  <2>3. ~Zero(val, v)
    BY <1>3, NotZero DEF HoldOps
  <2>4. QED
    BY <2>2, <2>3
<1>11. CASE rc' = rc /\ (IsSaturated(rc[v]) \/ Count(rc[v]) = 0) /\ c = <<>>
  <2>1. IsSaturated(val[v])
    BY <1>3, <1>10, <1>11 DEF Zero
  <2>2. \A o \in Object : Tok(c, o) = 0 /\ IncIn(c, o) = 0 /\ AddIn(c, o) = 0 /\ ~Dies(c, o)
    BY <1>11, Empty
  <2>3. Items(c) = {}
    BY <1>11, Nothing
  <2>4. \A o \in Object : Level(<<h>>, c, o, val, val) /\ Fitting(t, <<h>>, c, o) /\ Tidy(t, <<h>>, c, o, val, val)
    BY <2>1, <2>2, <1>11, <1>6 DEF Level, Fitting, Tidy
  <2>5. Inv(own, val)'
    BY <2>3, <2>4, <1>1, <1>3, <1>5, <1>9, <1>11, CountStep
  <2>6. QED
    BY <2>5
<1>12. ASSUME rc' = rc, ~IsSaturated(rc[v]), Count(rc[v]) # 0, NEW a \in Item,
              c = <<a>>, a.op = "cas", a.v = v, a.w = rc[v]
       PROVE  \E n : Inv(own, n)'
  <2>1. \A o \in Object : /\ Tok(c, o) = (IF v = o THEN 1 ELSE 0) /\ IncIn(c, o) = 0
                          /\ AddIn(c, o) = 0 /\ ~Dies(c, o)
    BY <1>12, Single DEF Tok1, HoldOps, MoveOps, IncOps, DyingOps
  <2>2. Items(c) = {a} /\ a.op \in CountOps \ {"dup", "drop"} /\ a.op \notin IncOps
    BY <1>12, List1 DEF CountOps, HeadOps, IncOps
  <2>3. a.w \in (SHARED + 1)..(SHARED + COUNT_MASK)
    BY <1>3, <1>10, <1>12, Lessened
  <2>4. \A o \in Object : Level(<<h>>, c, o, val, val) /\ Fitting(t, <<h>>, c, o) /\ Tidy(t, <<h>>, c, o, val, val)
    BY <2>1, <1>6, <1>12 DEF Level, Fitting, Tidy
  <2>5. Inv(own, val)'
    BY <2>2, <2>3, <2>4, <1>1, <1>3, <1>5, <1>9, <1>10, <1>12, CountStep
  <2>6. QED
    BY <2>5
<1>13. ASSUME rc[v] = W(t), rc' = [rc EXCEPT ![v] = W(t) - 1], FreeNext(c, v, W(t))
       PROVE  \E n : Inv(own, n)'
  <2>1. PICK w, n : w = W(t) /\ n = [val EXCEPT ![v] = w - 1]
    OBVIOUS
  <2>2. w \in 0..(2 * SHARED - 1) /\ ~IsSaturated(w) /\ Count(w) # 0 /\ IsShared(w) /\ rc[v] = w /\ val[v] = w
    <3>1. ~IsSaturated(w) /\ Count(w) # 0
      BY <2>1, <1>3, <1>10, <1>13, Words, Numbers
    <3>2. QED
      BY <3>1, <2>1, <1>3, <1>10, <1>13
  <2>3. /\ w - 1 \in 0..(2 * SHARED - 1) /\ ~IsSaturated(w - 1)
        /\ Count(w - 1) \in Nat /\ Count(w) \in Nat /\ Count(w) = Count(w - 1) + 1
        /\ IsShared(w - 1) /\ w - 1 <= SHARED + COUNT_MASK
    BY <2>2, Lessened
  <2>4. n \in [Object -> 0..(2 * SHARED - 1)] /\ n[v] = w - 1 /\ \A o \in Object : o # v => n[o] = val[o]
    BY <2>1, <2>3, <1>3, <1>9
  <2>5. rc'[v] = w - 1 /\ \A o \in Object : o # v => rc'[o] = rc[o]
    BY <2>1, <1>3, <1>13, States
  <2>6. Zero(n, v) <=> Count(w) = 1
    BY <2>3, <2>4 DEF Zero
  <2>7. /\ \A o \in Object : Tok(c, o) = 0 /\ IncIn(c, o) = 0 /\ AddIn(c, o) = 0 /\ Cnt(c, Dying(o)) <= 1
        /\ \A o \in Object : Dies(c, o) <=> (o = v /\ Count(w) = 1 /\ tag[v] = "ctor")
        /\ \A e \in Items(c) : e.op = "free" /\ e.v = v
    <3>1. CASE ~(Count(w) = 1 /\ Freeable(v)) /\ c = <<>>
      <4>1. Items(c) = {}
        BY <3>1, Nothing
      <4>2. \A o \in Object : /\ Tok(c, o) = 0 /\ IncIn(c, o) = 0 /\ AddIn(c, o) = 0 /\ Cnt(c, Dying(o)) <= 1 /\ ~Dies(c, o)
        BY <3>1, Empty
      <4>3. QED
        BY <4>1, <4>2, <3>1 DEF Freeable
    <3>2. ASSUME Count(w) = 1, Freeable(v), NEW d \in Item, c = <<d>>, d.op = "free", d.v = v
          PROVE  /\ \A o \in Object : Tok(c, o) = 0 /\ IncIn(c, o) = 0 /\ AddIn(c, o) = 0 /\ Cnt(c, Dying(o)) <= 1
                 /\ \A o \in Object : Dies(c, o) <=> (o = v /\ Count(w) = 1 /\ tag[v] = "ctor")
                 /\ \A e \in Items(c) : e.op = "free" /\ e.v = v
      <4>1. Items(c) = {d}
        BY <3>2, List1
      <4>2. \A o \in Object : /\ Tok(c, o) = 0 /\ IncIn(c, o) = 0 /\ AddIn(c, o) = 0 /\ Cnt(c, Dying(o)) <= 1
                              /\ Dies(c, o) <=> o = v
        BY <3>2, Single DEF Tok1, HoldOps, MoveOps, IncOps, DyingOps
      <4>3. QED
        BY <4>1, <4>2, <3>2 DEF Freeable
    <3>3. QED
      BY <3>1, <3>2, <2>1, <1>13 DEF FreeNext
  <2>8. \A e \in Items(c) : e.op \in CountOps \ {"dup", "drop"} /\ Mentions(t, e.v)
    BY <2>7, <1>3 DEF CountOps
  <2>9. \A e \in Items(c) : e.op \notin IncOps \cup {"store", "cas", "add", "saturate"}
    BY <2>7 DEF IncOps
  <2>10. \A o \in Object : Level(<<h>>, c, o, val, n)
    <3>1. \A o \in Object : Tok(c, o) = 0 /\ IncIn(c, o) = 0
      BY <2>7
    <3>2. QED
      BY <3>1, <2>2, <2>3, <2>4, <1>6 DEF Level
  <2>11. \A o \in Object : Fitting(t, <<h>>, c, o)
    <3>1. \A o \in Object : AddIn(c, o) = 0
      BY <2>7
    <3>2. QED
      BY <3>1, <2>3, <2>5 DEF Fitting
  <2>12. \A o \in Object : Tidy(t, <<h>>, c, o, val, n)
    BY <2>4, <2>6, <2>7, <1>6, <1>7, <1>10 DEF Tidy, Zero
  <2>13. \A o \in Object : n[o] # val[o] => \A u \in Thread : u # t => ~Has1(u, "store", o)
    BY <2>4, <1>7
  <2>14. \A e \in Items(r) : e.op = "rewrite" => n[e.v] = val[e.v]
    BY <2>4, <1>8
  <2>15. \A o \in Object : \/ rc'[o] = n[o]
                           \/ rc'[o] = rc[o] /\ n[o] = val[o] /\ \A e \in Items(<<h>>) : ~(e.op = "store" /\ e.v = o)
    BY <2>4, <2>5, <1>3, <1>5
  <2>16. \A o \in Object : IsShared(rc'[o]) <=> IsShared(rc[o])
    BY <2>2, <2>3, <2>5
  <2>17. Inv(own, n)'
    BY <2>4, <2>8, <2>9, <2>10, <2>11, <2>12, <2>13, <2>14, <2>15, <2>16, <1>1, <1>5, <1>9, CountStep
  <2>18. QED
    BY <2>17
<1>14. QED
  BY <1>4, <1>11, <1>12, <1>13

-----------------------------------------------------------------------------
(* The end of a value.                                                     *)

(* The value a thread starts to take apart is whole until then, and nobody *)
(* refers to it.                                                           *)
LEMMA Doomed ==
  ASSUME Typed, NEW own, NEW val, Inv(own, val), NEW t \in Thread, Do(t, "free")
  PROVE  LET v == V(t)
         IN /\ tag[v] = "ctor" /\ Zero(val, v) /\ Sound(v)
            /\ Fields(v) = {} /\ \A u \in Thread : Held(u, v) = 0
            /\ \A e \in Items(Rest(t)) : e.op # "shade" /\ (e.op = "rewrite" => e.v # v)
<1> DEFINE h == Head(code[t])
           v == V(t)
           r == Rest(t)
<1>1. /\ h \in Item /\ h.op = "free" /\ h.v = v /\ v \in Object /\ h \in Parts(t) /\ Live(v)
  BY Ready
<1>2. code[t] # <<>> /\ Quiet(r) /\ Fits(h, r) /\ v \in Object
  BY Acting
<1>3. /\ Parts(t) = {h} \cup Items(r) /\ \A S : Cnt(code[t], S) = Cnt(r, S) + One(h, S)
      /\ r \in Seq(Item)
  BY <1>1, <1>2, Opened
<1>4. tag[v] = "ctor" /\ Zero(val, v) /\ Cnt(code[t], Dying(v)) <= 1
  BY <1>1 DEF Inv, Freeing, DyingOps
<1>5. Fields(v) = {} /\ \A u \in Thread : Held(u, v) = 0
  BY <1>1, <1>4, ZeroMeans DEF Inv
<1>6. ASSUME NEW e \in Items(r), e.op = "poison", e.v = v PROVE FALSE
  <2>1. Cnt(r, Dying(v)) \in Nat /\ (Cnt(r, Dying(v)) > 0 <=> \E d \in Items(r) : d \in Dying(v))
    BY <1>3, CntPositive
  <2>2. e \in Item
    BY <1>3, PartMentions
  <2>3. e \in Dying(v) /\ One(h, Dying(v)) = 1
    BY <2>2, <1>1, <1>6 DEF Dying, One, DyingOps
  <2>4. Cnt(code[t], Dying(v)) = Cnt(r, Dying(v)) + One(h, Dying(v))
    BY <1>3
  <2>5. QED
    BY <2>1, <2>3, <2>4, <1>4, <1>6
<1>7. ASSUME NEW u \in Thread, NEW e \in Parts(u), e.op \in {"poison", "rewrite"}, e.v = v PROVE FALSE
  <2>1. CASE e.op = "rewrite"
    <3>1. val[v] = 1
      BY <2>1, <1>7 DEF Inv, Freeing
    <3>2. 1 \in 0..(2 * SHARED - 1) /\ 1 < SATURATED
      BY Numbers
    <3>3. Count(1) = 1
      BY <3>2, Words
    <3>4. QED
      BY <3>1, <3>3, <1>4 DEF Zero
  <2>2. CASE e.op = "poison"
    <3>1. e.op \in DyingOps /\ h.op \in DyingOps
      BY <2>2, <1>1 DEF DyingOps
    <3>2. u = t
      BY <3>1, <1>1, <1>7 DEF Inv, Freeing
    <3>3. e \in Items(r)
      BY <3>2, <2>2, <1>1, <1>3, <1>7
    <3>4. QED
      BY <3>3, <2>2, <1>6, <1>7
  <2>3. QED
    BY <2>1, <2>2, <1>7
<1>8. Sound(v)
  BY <1>1, <1>7 DEF Sound, Broken
<1>9. ASSUME NEW e \in Items(r) PROVE e.op # "shade" /\ (e.op = "rewrite" => e.v # v)
  <2>1. e \in Parts(t)
    BY <1>3
  <2>2. e.op # "shade"
    BY <1>1, <1>2 DEF Fits, With, ShadeOps
  <2>3. QED
    BY <2>1, <2>2, <1>7
<1>10. QED
  BY <1>4, <1>5, <1>8, <1>9

(* The step Free, which frees a value whose count is zero and drops its    *)
(* field, preserves the invariant.                                         *)
LEMMA FreeStep ==
  ASSUME Typed, Typed', NEW own, NEW val, Inv(own, val), NEW t \in Thread, Free(t)
  PROVE  Inv(own, val)'
<1>1. Do(t, "free") /\ UNCHANGED <<tag, rc, field, owned, markLock, cellLock>>
  BY DEF Free
<1>2. PICK v, h, r, f : v = V(t) /\ h = Head(code[t]) /\ r = Rest(t) /\ f = field[v]
  OBVIOUS
<1>3. /\ h \in Item /\ h.op = "free" /\ h.v = v /\ v \in Object
      /\ h \in Parts(t) /\ Mentions(t, v) /\ rc[v] = val[v] /\ own[v] \in {t, Nil}
      /\ \A e \in Items(r) : e \in Parts(t)
  BY <1>1, <1>2, Ready
<1>4. /\ tag[v] = "ctor" /\ Zero(val, v) /\ Sound(v)
      /\ Fields(v) = {} /\ \A u \in Thread : Held(u, v) = 0
      /\ \A e \in Items(r) : e.op # "shade"
  BY <1>1, <1>2, Doomed
<1>5. f \in Object \cup {Nil} /\ f # v
  BY <1>1, <1>2, <1>3, Acting, Numbers
<1>6. PICK c : /\ Turn(t, r, <<h>>, c)
               /\ \E p \in Item :
                    /\ p.op = "poison" /\ p.v = v
                    /\ \/ f = Nil /\ c = <<p>>
                       \/ /\ f # Nil
                          /\ \E d \in Item : c = <<d, p>> /\ d.op = "drop" /\ d.v = f
  BY <1>1, <1>2, <1>3, <1>4, FreeTurn DEF Zero, Freeable
<1>7. Calm(t, r, <<h>>, c) /\ Items(<<h>>) = {h}
  BY <1>1, <1>3, <1>6, CalmOne
<1>8. \A o \in Object : /\ Tok(<<h>>, o) = 0 /\ IncIn(<<h>>, o) = 0 /\ AddIn(<<h>>, o) = 0
                        /\ Dies(<<h>>, o) <=> o = v
  BY <1>3, Single DEF Tok1, HoldOps, MoveOps, IncOps, DyingOps
<1>9. /\ \A o \in Object : /\ Tok(c, o) = (IF o = f THEN 1 ELSE 0)
                           /\ IncIn(c, o) = 0 /\ AddIn(c, o) = 0 /\ Cnt(c, Dying(o)) <= 1
      /\ \A o \in Object : Dies(c, o) <=> o = v
      /\ \A p \in Object : Breaks(c, p) <=> p = v
      /\ \A e \in Items(c) : (e.op = "poison" /\ e.v = v) \/ (e.op = "drop" /\ e.v = f /\ f # Nil)
  <2>1. PICK p \in Item : /\ p.op = "poison" /\ p.v = v
                          /\ \/ f = Nil /\ c = <<p>>
                             \/ /\ f # Nil
                                /\ \E d \in Item : c = <<d, p>> /\ d.op = "drop" /\ d.v = f
    BY <1>6
  <2>2. CASE f = Nil /\ c = <<p>>
    <3>1. Items(c) = {p}
      BY <2>2, List1
    <3>2. \A o \in Object : /\ Tok(c, o) = 0 /\ IncIn(c, o) = 0 /\ AddIn(c, o) = 0 /\ Cnt(c, Dying(o)) <= 1
                            /\ Dies(c, o) <=> o = v
      BY <2>1, <2>2, Single DEF Tok1, HoldOps, MoveOps, IncOps, DyingOps
    <3>3. QED
      BY <3>1, <3>2, <2>1, <2>2, Numbers DEF Breaks
  <2>3. ASSUME f # Nil, NEW d \in Item, c = <<d, p>>, d.op = "drop", d.v = f
        PROVE  /\ \A o \in Object : /\ Tok(c, o) = (IF o = f THEN 1 ELSE 0)
                                    /\ IncIn(c, o) = 0 /\ AddIn(c, o) = 0 /\ Cnt(c, Dying(o)) <= 1
               /\ \A o \in Object : Dies(c, o) <=> o = v
               /\ \A q \in Object : Breaks(c, q) <=> q = v
               /\ \A e \in Items(c) : (e.op = "poison" /\ e.v = v) \/ (e.op = "drop" /\ e.v = f /\ f # Nil)
    <3>1. Items(c) = {d, p}
      BY <2>3, List2
    <3>2. \A o \in Object : /\ Tok(c, o) = (IF o = f THEN 1 ELSE 0)
                            /\ IncIn(c, o) = 0 /\ AddIn(c, o) = 0 /\ Cnt(c, Dying(o)) <= 1
                            /\ Dies(c, o) <=> o = v
      BY <2>1, <2>3, Double DEF Tok1, HoldOps, MoveOps, IncOps, DyingOps
    <3>3. QED
      BY <3>1, <3>2, <2>1, <2>3 DEF Breaks
  <2>4. QED
    BY <2>1, <2>2, <2>3
<1>10. f # Nil => f \in Object /\ Live(f) /\ own[f] \in {t, Nil} /\ v \in Fields(f)
  <2>1. SUFFICES ASSUME f # Nil PROVE f \in Object /\ Live(f) /\ own[f] \in {t, Nil} /\ v \in Fields(f)
    OBVIOUS
  <2>2. Live(f) /\ v \in Fields(f)
    BY <2>1, <1>2, <1>3, <1>4 DEF Inv, Alive, Fields
  <2>3. own[f] \in {own[v], Nil}
    BY <2>1, <1>2, <1>3, <1>4 DEF Inv, Owner
  <2>4. QED
    BY <2>1, <2>2, <2>3, <1>3, <1>5
<1>11. \A e \in Items(c) : \A o \in Object : Touch(e, o) => (o = v \/ (o = f /\ f # Nil)) /\ Live(o) /\ own[o] \in {t, Nil}
  BY <1>3, <1>4, <1>9, <1>10 DEF Touch, MoveOps, Sound
<1>12. \A e \in Items(c) : e.op \notin {"give", "swap", "shade", "markLock", "markUnlock", "store", "rewrite",
                             "cas", "add", "saturate", "dup", "get", "cellUnlock"}
  BY <1>9
<1>13. Owner(own)'
  <2>1. \A o \in Object : owned'[t][o] > 0 => own[o] \in {t, Nil}
    BY <1>1 DEF Inv, Owner, Mentions
  <2>2. \A o \in Object : IsShared(rc'[o]) <=> IsShared(rc[o])
    BY <1>1
  <2>3. QED
    BY <2>1, <2>2, <1>7, <1>11, <1>12, OwnerKeep DEF Inv
<1>14. Marked(own)'
  <2>1. \A o \in Object : ~Shades(<<h>>, o) /\ (IsShared(rc'[o]) <=> IsShared(rc[o]))
    BY <1>1, <1>3, <1>7 DEF Shades
  <2>2. \A p \in Object : Breaks(c, p) => own[p] \in {t, Nil} /\ \A e \in Items(r) \cup Items(c) : e.op # "shade"
    BY <1>3, <1>4, <1>9, <1>12
  <2>3. \A e \in Items(<<h>>) : e.op \notin {"give", "swap"}
    BY <1>3, <1>7
  <2>4. Owner(own) /\ Marked(own) /\ own \in [Object -> Thread \cup {Nil}]
    BY DEF Inv
  <2>5. ItemsMarked(t, own, r, c)
    BY <1>12 DEF ItemsMarked
  <2>6. /\ \A o \in Object : IsShared(rc[o]) => IsShared(rc'[o])
        /\ \A o \in Object : Shades(<<h>>, o) => IsShared(rc'[o])
        /\ \A p \in Object : IsShared(rc'[p]) /\ ~IsShared(rc[p]) =>
             /\ own[p] = t /\ \E e \in Items(<<h>>) : e.op = "shade"
             /\ field[p] # Nil => IsShared(rc'[field[p]]) \/ Shades(c, field[p])
    BY <2>1
  <2>7. (\E e \in Items(c) : e.op = "shade") /\ (\E e \in Items(r) : e.op = "swap") =>
          \E e \in Items(<<h>>) : e.op = "shade"
    BY <1>12
  <2>8. QED
    BY <2>2, <2>3, <2>4, <2>5, <2>6, <2>7, <1>7, MarkedKeep
<1>15. Alive(own)'
  <2>1. \A o \in Object : owned'[t][o] > 0 => Live(o)
    BY <1>1 DEF Inv, Alive, Mentions
  <2>2. \A p \in Object : Breaks(c, p) => \A u \in Thread : u # t => ~Keeps(own, u, p)
    <3>1. ASSUME NEW u \in Thread, u # t PROVE ~Keeps(own, u, v)
      <4>1. own[v] # u
        BY <3>1, <1>3, Numbers
      <4>2. Held(u, v) = 0
        BY <1>4
      <4>3. QED
        BY <4>1, <4>2, <1>4 DEF Keeps
    <3>2. QED
      BY <3>1, <1>9
  <2>3. \A e \in Items(r) : e.op = "cellUnlock" => cellLock'[e.v] = t
    BY <1>1, <1>3 DEF Inv, Alive
  <2>4. \A e \in Items(c) : e.op \notin IncOps
    BY <1>12 DEF IncOps
  <2>5. QED
    BY <2>1, <2>2, <2>3, <2>4, <1>1, <1>7, <1>11, <1>12, AliveKeep DEF Inv
<1>16. Values(val)'
  <2>1. \A o \in Object : rc'[o] = rc[o] /\ \A e \in Items(<<h>>) : ~(e.op = "store" /\ e.v = o)
    BY <1>1, <1>3, <1>7
  <2>2. QED
    BY <2>1, <1>7, <1>12, ValuesKeep DEF Inv
<1>17. Balance(val)'
  <2>1. val \in [Object -> 0..(2 * SHARED - 1)]
    BY DEF Inv
  <2>2. \A o \in Object : Count(val[o]) \in Nat
    BY <2>1, Words
  <2>3. \A o \in Object : \A p \in Object : p \in Fields(o)' <=> p \in Fields(o) /\ p # v
    BY <1>7, <1>9, BrokenKeep
  <2>4. ASSUME NEW o \in Object PROVE Even(t, <<h>>, c, o, val, val)
    <3>1. IsFiniteSet(Fields(o)) /\ Cardinality(Fields(o)) \in Nat /\ owned[t][o] \in Nat
      BY FS_CardinalityType, HeldNat DEF Inv, Balance
    <3>2. Fields(o)' = Fields(o) \ {v}
      BY <2>3 DEF Fields
    <3>3. v \in Fields(o) <=> o = f
      BY <1>2, <1>10, Numbers DEF Fields
    <3>4. Cardinality(Fields(o)') = IF o = f THEN Cardinality(Fields(o)) - 1 ELSE Cardinality(Fields(o))
      <4>1. CASE o = f
        BY <4>1, <3>1, <3>2, <3>3, FS_RemoveElement
      <4>2. CASE o # f
        <5>1. Fields(o)' = Fields(o)
          BY <4>2, <3>2, <3>3
        <5>2. QED
          BY <4>2, <5>1
      <4>3. QED
        BY <4>1, <4>2
    <3>5. /\ Tok(c, o) = (IF o = f THEN 1 ELSE 0) /\ IncIn(c, o) = 0
          /\ Tok(<<h>>, o) = 0 /\ IncIn(<<h>>, o) = 0 /\ owned'[t][o] = owned[t][o]
      BY <1>1, <1>8, <1>9
    <3>6. QED
      BY <3>1, <3>4, <3>5, <2>2 DEF Even
  <2>5. QED
    BY <2>2, <2>4, <1>7, BalanceKeep DEF Inv
<1>18. Bounded'
  <2>1. \A o \in Object : Fitting(t, <<h>>, c, o)
    BY <1>1, <1>9 DEF Fitting
  <2>2. QED
    BY <2>1, <1>7, BoundedKeep DEF Inv
<1>19. Freeing(val)'
  <2>1. \A o \in Object : Tidy(t, <<h>>, c, o, val, val)
    BY <1>4, <1>8, <1>9 DEF Tidy
  <2>2. QED
    BY <2>1, <1>7, <1>12, FreeingKeep DEF Inv
<1>20. QED
  BY <1>13, <1>14, <1>15, <1>16, <1>17, <1>18, <1>19 DEF Inv

-----------------------------------------------------------------------------
(* Steps that leave the count words alone.                                 *)

PlainOps == {"dup", "drop", "own", "give", "alloc", "swap", "get", "markLock", "shade", "markUnlock", "cellUnlock"}

(* They keep the invariant when references are conserved, what is touched  *)
(* belongs to the thread and lives, and the marks are as they should be.   *)
LEMMA StillStep ==
  ASSUME NEW t \in Thread, NEW r, NEW b, NEW c, Calm(t, r, b, c), NEW own, NEW val, Inv(own, val),
         rc' = rc, Marked(own)',
         \A e \in Items(b) : e.op \in PlainOps \ {"dup"},
         \A e \in Items(c) : e.op \in PlainOps,
         \A o \in Object : owned'[t][o] > 0 => Live(o) /\ own[o] \in {t, Nil},
         \A e \in Items(c) : \A o \in Object : Touch(e, o) => Live(o) /\ own[o] \in {t, Nil},
         \A e \in Items(c) : e.op = "dup" =>
           /\ \E d \in Items(c) : d.op \in HoldOps /\ d.v = e.v
           /\ owned'[t][e.v] > 0 \/ \E p \in Fields(e.v)' : Keeps(own, t, p)',
         \A p \in Object : cellLock'[p] # cellLock[p] => cellLock[p] \in {t, Nil},
         \A e \in Items(c) :
           /\ e.op \in {"get", "swap", "cellUnlock"} => tag[e.v] = "ref"
           /\ e.op = "cellUnlock" => cellLock'[e.v] = t,
         \A e \in Items(r) : e.op = "cellUnlock" => cellLock'[e.v] = t,
         \A o \in Object : IncIn(c, o) + owned[t][o] + Tok(b, o) = owned'[t][o] + Tok(c, o)
  PROVE  Inv(own, val)'
<1>1. \A e \in Items(b) \cup Items(c) :
        /\ e.op \notin {"store", "rewrite", "cas", "add", "saturate", "poison"}
        /\ e.op \in IncOps => e.op = "dup"
        /\ e.op \notin DyingOps
  BY DEF PlainOps, IncOps, DyingOps
<1>2. \A o \in Object : ~Breaks(c, o) /\ ~Dies(b, o) /\ ~Dies(c, o) /\ AddIn(b, o) = 0 /\ AddIn(c, o) = 0
  BY <1>1 DEF Breaks, Dies, AddIn
<1>3. \A o \in Object : IncIn(b, o) = 0
  BY DEF IncIn, PlainOps, IncOps
<1>4. Owner(own)'
  <2>1. \A o \in Object : IsShared(rc'[o]) <=> IsShared(rc[o])
    OBVIOUS
  <2>2. QED
    BY <2>1, <1>1, OwnerKeep DEF Inv
<1>5. Alive(own)'
  BY <1>1, <1>2, AliveKeep DEF Inv
<1>6. Values(val)'
  <2>1. \A o \in Object : rc'[o] = rc[o] /\ \A e \in Items(b) : ~(e.op = "store" /\ e.v = o)
    BY <1>1
  <2>2. QED
    BY <2>1, <1>1, ValuesKeep DEF Inv
<1>7. Balance(val)'
  <2>1. val \in [Object -> 0..(2 * SHARED - 1)]
    BY DEF Inv
  <2>2. \A o \in Object : Count(val[o]) \in Nat
    BY <2>1, Words
  <2>3. ASSUME NEW o \in Object PROVE Even(t, b, c, o, val, val)
    <3>1. Fields(o)' = Fields(o)
      BY <1>2, BrokenKeep DEF Fields
    <3>2. IsFiniteSet(Fields(o)) /\ Cardinality(Fields(o)) \in Nat
      BY FS_CardinalityType DEF Inv, Balance
    <3>3. Tok(b, o) \in Nat /\ Tok(c, o) \in Nat /\ owned[t][o] \in Nat /\ owned'[t][o] \in Nat
      BY HeldTurn DEF Calm
    <3>4. IncIn(c, o) \in Nat
      BY DEF IncIn
    <3>5. QED
      BY <3>1, <3>2, <3>3, <3>4, <2>2, <1>3 DEF Even
  <2>4. QED
    BY <2>2, <2>3, BalanceKeep DEF Inv
<1>8. Bounded'
  <2>1. \A o \in Object : Fitting(t, b, c, o)
    BY <1>2 DEF Fitting
  <2>2. QED
    BY <2>1, BoundedKeep DEF Inv
<1>9. Freeing(val)'
  <2>1. \A o \in Object : Tidy(t, b, c, o, val, val)
    BY <1>2 DEF Tidy
  <2>2. QED
    BY <2>1, <1>1, FreeingKeep DEF Inv
<1>10. QED
  BY <1>4, <1>5, <1>6, <1>7, <1>8, <1>9 DEF Inv

(* The marks, when no list marks, swaps or gives.                          *)
LEMMA MarkedStill ==
  ASSUME NEW t \in Thread, NEW r, NEW b, NEW c, Calm(t, r, b, c), NEW own, NEW val, Inv(own, val),
         rc' = rc,
         \A e \in Items(b) : e.op \notin {"give", "swap", "shade"},
         \A e \in Items(c) : e.op \notin {"give", "swap", "shade", "markLock", "markUnlock", "poison", "rewrite"}
  PROVE  Marked(own)'
<1>1. \A o \in Object : ~Shades(b, o) /\ ~Breaks(c, o) /\ (IsShared(rc'[o]) <=> IsShared(rc[o]))
  BY DEF Shades, Breaks
<1>2. /\ ~\E e \in Items(c) : e.op = "shade"
      /\ \A e \in Items(b) : e.op \notin {"give", "swap"}
      /\ \A e \in Items(c) : e.op \notin {"give", "swap", "shade", "markLock", "markUnlock"}
  OBVIOUS
<1>3. Owner(own) /\ Marked(own) /\ own \in [Object -> Thread \cup {Nil}]
  BY DEF Inv
<1>4. ItemsMarked(t, own, r, c)
  BY <1>2 DEF ItemsMarked
<1>5. /\ \A o \in Object : IsShared(rc[o]) => IsShared(rc'[o])
      /\ \A o \in Object : Shades(b, o) => IsShared(rc'[o])
      /\ \A p \in Object : IsShared(rc'[p]) /\ ~IsShared(rc[p]) =>
           /\ own[p] = t /\ \E e \in Items(b) : e.op = "shade"
           /\ field[p] # Nil => IsShared(rc'[field[p]]) \/ Shades(c, field[p])
  BY <1>1
<1>6. /\ (\E e \in Items(c) : e.op = "shade") /\ (\E e \in Items(r) : e.op = "swap") =>
           \E e \in Items(b) : e.op = "shade"
      /\ \A p \in Object : Breaks(c, p) =>
           own[p] \in {t, Nil} /\ \A e \in Items(r) \cup Items(c) : e.op # "shade"
  BY <1>1, <1>2
<1>7. QED
  BY <1>2, <1>3, <1>4, <1>5, <1>6, MarkedKeep

(* Taking and releasing the locks preserves the invariant.                 *)
LEMMA LocksStep ==
  ASSUME Typed, Typed', NEW own, NEW val, Inv(own, val), NEW t \in Thread, Locks(t)
  PROVE  Inv(own, val)'
<1>1. PICK o \in {"markLock", "markUnlock", "cellUnlock"} :
        /\ Do(t, o) /\ IF o = "cellUnlock" THEN cellLock' = [cellLock EXCEPT ![V(t)] = Nil] ELSE cellLock' = cellLock
  BY DEF Locks
<1>2. Then(t, <<>>) /\ UNCHANGED <<tag, rc, field, owned>>
  BY DEF Locks
<1>3. PICK v, h, r : v = V(t) /\ h = Head(code[t]) /\ r = Rest(t)
  OBVIOUS
<1>4. /\ h \in Item /\ h.op = o /\ h.v = v /\ v \in Object /\ h \in Parts(t)
      /\ \A e \in Items(r) : e \in Parts(t)
  BY <1>1, <1>3, Ready
<1>5. Turn(t, r, <<h>>, <<>>)
  BY <1>1, <1>2, <1>3, DoneTurn DEF Do
<1>6. Calm(t, r, <<h>>, <<>>) /\ Items(<<h>>) = {h}
  BY <1>2, <1>4, <1>5, CalmOne
<1>7. /\ h.op \in PlainOps \ {"dup"} /\ h.op \notin {"give", "swap", "shade"}
      /\ h.op \notin HoldOps /\ h.op \notin MoveOps
  BY <1>4 DEF PlainOps, HoldOps, MoveOps
<1>8. \A q \in Object : Tok(<<h>>, q) = 0 /\ Tok(<<>>, q) = 0 /\ IncIn(<<>>, q) = 0
  BY <1>4, <1>7, Single, Empty DEF Tok1
<1>9. Items(<<>>) = {}
  BY Nothing
<1>10. Marked(own)'
  BY <1>2, <1>6, <1>7, <1>9, MarkedStill
<1>11. \A q \in Object : owned'[t][q] > 0 => Live(q) /\ own[q] \in {t, Nil}
  BY <1>2 DEF Inv, Owner, Alive, Mentions
<1>12. cellLock \in [Object -> Thread \cup {Nil}]
  BY States
<1>13. \A p \in Object : cellLock'[p] # cellLock[p] => cellLock[p] \in {t, Nil}
  <2>1. o = "cellUnlock" => cellLock[v] = t
    BY <1>4 DEF Inv, Alive
  <2>2. QED
    BY <2>1, <1>1, <1>3, <1>4, <1>12
<1>14. ASSUME NEW e \in Items(r), e.op = "cellUnlock" PROVE cellLock'[e.v] = t
  <2>1. cellLock[e.v] = t
    BY <1>4, <1>14 DEF Inv, Alive
  <2>2. Fits(h, r)
    BY <1>1, <1>3, Acting
  <2>3. o # "cellUnlock"
    BY <2>2, <1>4, <1>14 DEF Fits, With, UnlockOps
  <2>4. QED
    BY <2>1, <2>3, <1>1
<1>15. \A q \in Object : IncIn(<<>>, q) + owned[t][q] + Tok(<<h>>, q) = owned'[t][q] + Tok(<<>>, q)
  BY <1>2, <1>8, HeldNat
<1>16. QED
  BY <1>2, <1>6, <1>7, <1>9, <1>10, <1>11, <1>13, <1>14, <1>15, StillStep

(* The step OwnValue, which makes a reference the thread's own, preserves  *)
(* the invariant.                                                          *)
LEMMA OwnValueStep ==
  ASSUME Typed, Typed', NEW own, NEW val, Inv(own, val), NEW t \in Thread, OwnValue(t)
  PROVE  Inv(own, val)'
<1>1. /\ Do(t, "own") /\ Then(t, <<>>) /\ UNCHANGED <<tag, rc, field, cellLock>>
      /\ owned' = [owned EXCEPT ![t][V(t)] = @ + 1]
  BY DEF OwnValue
<1>2. PICK v, h, r : v = V(t) /\ h = Head(code[t]) /\ r = Rest(t)
  OBVIOUS
<1>3. /\ h \in Item /\ h.op = "own" /\ h.v = v /\ v \in Object /\ h \in Parts(t)
      /\ Live(v) /\ own[v] \in {t, Nil} /\ \A e \in Items(r) : e \in Parts(t)
  BY <1>1, <1>2, Ready
<1>4. Turn(t, r, <<h>>, <<>>)
  BY <1>1, <1>2, DoneTurn DEF Do
<1>5. /\ owned'[t][v] = owned[t][v] + 1
      /\ \A i \in Thread : \A o \in Object : (i # t \/ o # v) => owned'[i][o] = owned[i][o]
      /\ \A i \in Thread : i # t => owned'[i] = owned[i]
  BY <1>1, <1>2, <1>3, States
<1>6. Items(<<h>>) = {h} /\ Items(<<>>) = {}
  BY List1, Nothing
<1>7. Calm(t, r, <<h>>, <<>>)
  BY <1>1, <1>3, <1>4, <1>5, <1>6 DEF Calm
<1>8. h.op \in PlainOps \ {"dup"}
  BY <1>3 DEF PlainOps
<1>9. \A q \in Object : Tok(<<h>>, q) = (IF q = v THEN 1 ELSE 0) /\ Tok(<<>>, q) = 0 /\ IncIn(<<>>, q) = 0
  BY <1>3, Single, Empty DEF Tok1, HoldOps, MoveOps
<1>10. Marked(own)'
  BY <1>1, <1>3, <1>6, <1>7, MarkedStill
<1>11. \A q \in Object : owned'[t][q] > 0 => Live(q) /\ own[q] \in {t, Nil}
  BY <1>3, <1>5 DEF Inv, Owner, Alive, Mentions
<1>12. \A e \in Items(r) : e.op = "cellUnlock" => cellLock'[e.v] = t
  BY <1>1, <1>3 DEF Inv, Alive
<1>13. \A q \in Object : IncIn(<<>>, q) + owned[t][q] + Tok(<<h>>, q) = owned'[t][q] + Tok(<<>>, q)
  BY <1>5, <1>9, HeldNat
<1>14. QED
  BY <1>1, <1>6, <1>7, <1>8, <1>10, <1>11, <1>12, <1>13, StillStep

(* What a whole value holds lives and belongs to the same thread, or is    *)
(* shared.                                                                 *)
LEMMA Content ==
  ASSUME Typed, NEW own, Owner(own), Alive(own), NEW p \in Object, Sound(p), field[p] # Nil
  PROVE  /\ field[p] \in Object /\ Live(field[p]) /\ field[p] # p /\ p \in Fields(field[p])
         /\ own[field[p]] \in {own[p], Nil}
<1>1. field[p] \in Object /\ field[p] # p
  BY States
<1>2. Live(field[p]) /\ p \in Fields(field[p])
  BY <1>1 DEF Alive, Fields
<1>3. tag[p] # "none"
  BY DEF Sound, Live
<1>4. QED
  BY <1>1, <1>2, <1>3 DEF Owner

(* A cell is whole.                                                        *)
LEMMA CellSound ==
  ASSUME NEW own, NEW val, Alive(own), Freeing(val), NEW p \in Object, tag[p] = "ref"
  PROVE  Sound(p)
<1>1. SUFFICES ASSUME Broken(p) PROVE FALSE
  BY DEF Sound, Live
<1>2. PICK u \in Thread : \E e \in Parts(u) : e.op \in {"poison", "rewrite"} /\ e.v = p
  BY <1>1 DEF Broken
<1>3. PICK e \in Parts(u) : e.op \in {"poison", "rewrite"} /\ e.v = p
  BY <1>2
<1>4. tag[p] = "ctor"
  BY <1>3 DEF Alive, Freeing, DyingOps
<1>5. QED
  BY <1>4

(* The step CellGet, the read of a cell, preserves the invariant.          *)
LEMMA CellGetStep ==
  ASSUME Typed, Typed', NEW own, NEW val, Inv(own, val), NEW t \in Thread, CellGet(t)
  PROVE  Inv(own, val)'
<1>1. /\ Do(t, "get") /\ UNCHANGED <<tag, rc, field, owned>>
      /\ IF IsShared(rc[V(t)]) THEN cellLock[V(t)] = Nil /\ cellLock' = [cellLock EXCEPT ![V(t)] = t]
         ELSE cellLock' = cellLock
  BY DEF CellGet
<1>2. PICK v, h, r, f : v = V(t) /\ h = Head(code[t]) /\ r = Rest(t) /\ f = field[v]
  OBVIOUS
<1>3. /\ h \in Item /\ h.op = "get" /\ h.v = v /\ v \in Object /\ h \in Parts(t)
      /\ Live(v) /\ own[v] \in {t, Nil} /\ (~IsShared(rc[v]) => own[v] = t)
  BY <1>1, <1>2, Ready
<1>4. tag[v] = "ref" /\ Sound(v)
  BY <1>3, CellSound DEF Inv, Alive
<1>5. f \in Object \cup {Nil} /\ (f # Nil => f \in Object /\ Live(f) /\ v \in Fields(f) /\ own[f] \in {t, Nil})
  BY <1>2, <1>3, <1>4, States, Content DEF Inv
<1>6. PICK c : /\ Turn(t, r, <<h>>, c)
               /\ \/ ~IsShared(rc[v]) /\ f = Nil /\ c = <<>>
                  \/ /\ ~IsShared(rc[v]) /\ f # Nil
                     /\ \E a, e \in Item : /\ c = <<a, e>> /\ a.op = "dup" /\ a.v = f
                                           /\ e.op = "own" /\ e.v = f
                  \/ /\ IsShared(rc[v])
                     /\ \E d \in Item :
                          /\ d.op = "cellUnlock" /\ d.v = v
                          /\ \/ f = Nil /\ c = <<d>>
                             \/ /\ f # Nil
                                /\ \E a, e \in Item : /\ c = <<a, d, e>> /\ a.op = "dup" /\ a.v = f
                                                      /\ e.op = "own" /\ e.v = f
  BY <1>2, CellGetTurn
<1>7. r = <<>> /\ Items(r) = {}
  BY <1>2, CellGetTurn, Nothing
<1>8. Calm(t, r, <<h>>, c) /\ Items(<<h>>) = {h}
  BY <1>1, <1>3, <1>6, CalmOne
<1>9. /\ \A o \in Object : Tok(c, o) = (IF o = f THEN 1 ELSE 0) /\ IncIn(c, o) = (IF o = f THEN 1 ELSE 0)
      /\ \A e \in Items(c) : \/ e.op \in {"dup", "own"} /\ e.v = f /\ f # Nil
                             \/ e.op = "cellUnlock" /\ e.v = v /\ IsShared(rc[v])
      /\ f # Nil => \E e \in Items(c) : e.op = "own" /\ e.v = f
  <2>1. CASE ~IsShared(rc[v]) /\ f = Nil /\ c = <<>>
    <3>1. Items(c) = {} /\ \A o \in Object : Tok(c, o) = 0 /\ IncIn(c, o) = 0
      BY <2>1, Empty, Nothing
    <3>2. QED
      BY <3>1, <2>1, Numbers
  <2>2. ASSUME ~IsShared(rc[v]), f # Nil, NEW a \in Item, NEW e \in Item, c = <<a, e>>,
               a.op = "dup", a.v = f, e.op = "own", e.v = f
        PROVE  /\ \A o \in Object : Tok(c, o) = (IF o = f THEN 1 ELSE 0) /\ IncIn(c, o) = (IF o = f THEN 1 ELSE 0)
               /\ \A i \in Items(c) : \/ i.op \in {"dup", "own"} /\ i.v = f /\ f # Nil
                                      \/ i.op = "cellUnlock" /\ i.v = v /\ IsShared(rc[v])
               /\ f # Nil => \E i \in Items(c) : i.op = "own" /\ i.v = f
    <3>1. Items(c) = {a, e}
      BY <2>2, List2
    <3>2. \A o \in Object : Tok(c, o) = (IF o = f THEN 1 ELSE 0) /\ IncIn(c, o) = (IF o = f THEN 1 ELSE 0)
      BY <2>2, Double DEF Tok1, HoldOps, MoveOps, IncOps
    <3>3. QED
      BY <3>1, <3>2, <2>2
  <2>3. ASSUME IsShared(rc[v]), NEW d \in Item, d.op = "cellUnlock", d.v = v, f = Nil, c = <<d>>
        PROVE  /\ \A o \in Object : Tok(c, o) = (IF o = f THEN 1 ELSE 0) /\ IncIn(c, o) = (IF o = f THEN 1 ELSE 0)
               /\ \A i \in Items(c) : \/ i.op \in {"dup", "own"} /\ i.v = f /\ f # Nil
                                      \/ i.op = "cellUnlock" /\ i.v = v /\ IsShared(rc[v])
               /\ f # Nil => \E i \in Items(c) : i.op = "own" /\ i.v = f
    <3>1. Items(c) = {d}
      BY <2>3, List1
    <3>2. \A o \in Object : Tok(c, o) = 0 /\ IncIn(c, o) = 0
      BY <2>3, Single DEF Tok1, HoldOps, MoveOps, IncOps
    <3>3. QED
      BY <3>1, <3>2, <2>3, Numbers
  <2>4. ASSUME IsShared(rc[v]), NEW d \in Item, d.op = "cellUnlock", d.v = v, f # Nil,
               NEW a \in Item, NEW e \in Item, c = <<a, d, e>>, a.op = "dup", a.v = f, e.op = "own", e.v = f
        PROVE  /\ \A o \in Object : Tok(c, o) = (IF o = f THEN 1 ELSE 0) /\ IncIn(c, o) = (IF o = f THEN 1 ELSE 0)
               /\ \A i \in Items(c) : \/ i.op \in {"dup", "own"} /\ i.v = f /\ f # Nil
                                      \/ i.op = "cellUnlock" /\ i.v = v /\ IsShared(rc[v])
               /\ f # Nil => \E i \in Items(c) : i.op = "own" /\ i.v = f
    <3>1. Items(c) = {a, d, e}
      BY <2>4, List3
    <3>2. \A o \in Object : Tok(c, o) = Tok1(a, o) + Tok1(d, o) + Tok1(e, o)
      BY <2>4, TokList
    <3>3. \A o \in Object : Tok(c, o) = (IF o = f THEN 1 ELSE 0)
      BY <3>2, <2>4 DEF Tok1, HoldOps, MoveOps
    <3>4. \A o \in Object : IncIn(c, o) = (IF o = f THEN 1 ELSE 0)
      BY <3>1, <2>4 DEF IncIn, IncOps
    <3>5. QED
      BY <3>1, <3>3, <3>4, <2>4
  <2>5. QED
    BY <2>1, <2>2, <2>3, <2>4, <1>6
<1>10. /\ \A e \in Items(c) : e.op \in PlainOps /\ e.op \notin MoveOps
                              /\ e.op \notin {"give", "swap", "shade", "markLock", "markUnlock", "poison", "rewrite"}
       /\ h.op \in PlainOps \ {"dup"} /\ h.op \notin {"give", "swap", "shade"}
  BY <1>3, <1>9 DEF PlainOps, MoveOps
<1>11. Marked(own)'
  BY <1>1, <1>8, <1>10, MarkedStill
<1>12. \A o \in Object : owned'[t][o] > 0 => Live(o) /\ own[o] \in {t, Nil}
  BY <1>1 DEF Inv, Owner, Alive, Mentions
<1>13. \A e \in Items(c) : \A o \in Object : Touch(e, o) => Live(o) /\ own[o] \in {t, Nil}
  BY <1>3, <1>5, <1>9, <1>10 DEF Touch
<1>14. cellLock \in [Object -> Thread \cup {Nil}]
  BY States
<1>15. /\ \A p \in Object : cellLock'[p] # cellLock[p] => cellLock[p] \in {t, Nil}
       /\ IsShared(rc[v]) => cellLock'[v] = t
  BY <1>1, <1>2, <1>3, <1>14
<1>16. ASSUME NEW e \in Items(c), e.op = "dup"
       PROVE  /\ \E d \in Items(c) : d.op \in HoldOps /\ d.v = e.v
              /\ owned'[t][e.v] > 0 \/ \E p \in Fields(e.v)' : Keeps(own, t, p)'
  <2>1. e.v = f /\ f # Nil
    BY <1>9, <1>16
  <2>2. \E d \in Items(c) : d.op \in HoldOps /\ d.v = e.v
    BY <2>1, <1>9 DEF HoldOps
  <2>3. ~Breaks(c, v)
    BY <1>10 DEF Breaks
  <2>4. v \in Fields(f)'
    BY <2>1, <2>3, <1>3, <1>5, <1>8, BrokenKeep
  <2>5. Keeps(own, t, v)'
    BY <1>1, <1>3, <1>4, <1>15 DEF Keeps
  <2>6. QED
    BY <2>1, <2>2, <2>4, <2>5
<1>17. \A q \in Object : IncIn(c, q) + owned[t][q] + Tok(<<h>>, q) = owned'[t][q] + Tok(c, q)
  <2>1. \A q \in Object : Tok(<<h>>, q) = 0
    BY <1>3, Single DEF Tok1, HoldOps, MoveOps
  <2>2. QED
    BY <2>1, <1>1, <1>9, HeldNat
<1>18. \A e \in Items(c) : /\ e.op \in {"get", "swap", "cellUnlock"} => tag[e.v] = "ref"
                           /\ e.op = "cellUnlock" => cellLock'[e.v] = t
  BY <1>4, <1>9, <1>15
<1>19. \A e \in Items(r) : e.op = "cellUnlock" => cellLock'[e.v] = t
  BY <1>7
<1>20. QED
  BY <1>1, <1>8, <1>10, <1>11, <1>12, <1>13, <1>15, <1>16, <1>17, <1>18, <1>19, StillStep

-----------------------------------------------------------------------------
(* The mark walk.                                                          *)

(* A count word, and the same with the shared bit set.                     *)
LEMMA Shaded ==
  ASSUME NEW w \in 0..(2 * SHARED - 1), w <= SATURATED
  PROVE  /\ w + SHARED \in 0..(2 * SHARED - 1) /\ IsShared(w + SHARED) /\ ~IsShared(w)
         /\ IsSaturated(w + SHARED) <=> IsSaturated(w)
         /\ ~IsSaturated(w) => Count(w + SHARED) = Count(w) /\ w + SHARED <= SHARED + COUNT_MASK
         /\ IsSaturated(w) => w + SHARED = SHARED + SATURATED
         /\ Count(w) \in Nat /\ Count(w + SHARED) \in Nat
<1>1. w + SHARED \in 0..(2 * SHARED - 1)
  BY Numbers
<1>2. Count(w) \in Nat /\ Count(w + SHARED) \in Nat
  BY <1>1, Words, Numbers
<1>3. CASE w < SATURATED
  <2>1. ~IsShared(w) /\ ~IsSaturated(w) /\ Count(w) = w
    BY <1>3, Words
  <2>2. w + SHARED >= SHARED /\ w + SHARED <= SHARED + COUNT_MASK
    BY <1>3, Numbers
  <2>3. IsShared(w + SHARED) /\ ~IsSaturated(w + SHARED) /\ Count(w + SHARED) = (w + SHARED) - SHARED
    BY <1>1, <2>2, Words
  <2>4. QED
    BY <1>1, <1>2, <2>1, <2>2, <2>3, Numbers
<1>4. CASE w = SATURATED
  <2>1. w >= SATURATED /\ w < SHARED /\ w + SHARED > SHARED + COUNT_MASK
    BY <1>4, Numbers
  <2>2. ~IsShared(w) /\ IsSaturated(w) /\ IsShared(w + SHARED) /\ IsSaturated(w + SHARED)
    BY <1>1, <2>1, Words
  <2>3. QED
    BY <1>1, <1>2, <1>4, <2>2, Numbers
<1>5. QED
  BY <1>3, <1>4, Numbers

(* The walk comes to a value: to one its thread is about to hand over, or  *)
(* to what a value of the thread holds.  It is whole.                      *)
LEMMA ShadeSound ==
  ASSUME Typed, NEW own, NEW val, Inv(own, val), NEW t \in Thread, Do(t, "shade"), ~IsShared(rc[V(t)])
  PROVE  /\ Sound(V(t)) /\ own[V(t)] = t
         /\ K(t) # "" => \E p \in Fields(V(t)) : own[p] = t
<1>1. PICK v, h, r : v = V(t) /\ h = Head(code[t]) /\ r = Rest(t)
  OBVIOUS
<1>2. /\ h \in Item /\ h.op = "shade" /\ h.v = v /\ v \in Object /\ h \in Parts(t) /\ Live(v)
      /\ own[v] = t /\ \A u \in Thread : Mentions(u, v) => u = t
  BY <1>1, Ready
<1>3. IF h.k = "" THEN Carries(t, v) ELSE \E p \in Fields(v) : own[p] = t
  BY <1>2 DEF Inv, Marked
<1>4. Parts(t) = {h} \cup Items(r) /\ K(t) = h.k
  BY <1>1, Opened DEF Do
<1>5. ~Zero(val, v)
  <2>1. SUFFICES ASSUME Zero(val, v) PROVE FALSE
    OBVIOUS
  <2>2. Fields(v) = {} /\ Held(t, v) = 0
    BY <2>1, <1>2, ZeroMeans DEF Inv
  <2>3. Carries(t, v)
    BY <2>2, <1>3
  <2>4. PICK e \in Parts(t) : (e.op = "give" /\ e.v = v) \/ (e.op = "swap" /\ e.x = v)
    BY <2>3 DEF Carries
  <2>5. (e.op \in HoldOps /\ e.v = v) \/ (e.op \in MoveOps /\ e.x = v)
    BY <2>4 DEF HoldOps, MoveOps
  <2>6. Held(t, v) >= owned[t][v] + 1 /\ owned[t][v] \in Nat
    BY <2>4, <2>5, <1>2, HeldNat
  <2>7. QED
    BY <2>2, <2>6
<1>6. ASSUME NEW u \in Thread, NEW e \in Parts(u), e.op \in {"poison", "rewrite"}, e.v = v PROVE FALSE
  <2>1. u = t
    BY <1>2, <1>6 DEF Mentions, Touch
  <2>2. CASE e.op = "rewrite"
    <3>1. \A d \in Items(r) : d.op # "rewrite"
      BY <1>1, <1>2, Undisturbed DEF RewriteOps, Do
    <3>2. QED
      BY <3>1, <2>1, <2>2, <1>2, <1>4
  <2>3. CASE e.op = "poison"
    BY <2>3, <1>5, <1>6 DEF Inv, Freeing, DyingOps
  <2>4. QED
    BY <2>2, <2>3, <1>6
<1>7. Sound(v)
  BY <1>2, <1>6 DEF Sound, Broken
<1>8. QED
  BY <1>1, <1>2, <1>3, <1>4, <1>7

(* The walk ends at a value that is shared.                                *)
LEMMA ShadeEnds ==
  ASSUME Typed, Typed', NEW own, NEW val, Inv(own, val), NEW t \in Thread, Shade(t), IsShared(rc[V(t)])
  PROVE  Inv(own, val)'
<1>1. /\ Do(t, "shade") /\ UNCHANGED <<tag, field, owned, markLock, cellLock>>
      /\ rc' = [rc EXCEPT ![V(t)] = rc[V(t)]]
  BY DEF Shade, SetRc
<1>2. PICK v, h, r : v = V(t) /\ h = Head(code[t]) /\ r = Rest(t)
  OBVIOUS
<1>3. /\ h \in Item /\ h.op = "shade" /\ h.v = v /\ v \in Object /\ h \in Parts(t)
      /\ \A e \in Items(r) : e \in Parts(t)
  BY <1>1, <1>2, Ready
<1>4. rc' = rc
  BY <1>1, <1>2, <1>3, States
<1>5. Turn(t, r, <<h>>, <<>>)
  BY <1>2, ShadeTurn
<1>6. Calm(t, r, <<h>>, <<>>) /\ Items(<<h>>) = {h}
  BY <1>1, <1>3, <1>5, CalmOne
<1>7. h.op \in PlainOps \ {"dup"} /\ h.op \notin {"give", "swap"} /\ h.op \notin HoldOps /\ h.op \notin MoveOps
  BY <1>3 DEF PlainOps, HoldOps, MoveOps
<1>8. \A q \in Object : Tok(<<h>>, q) = 0 /\ Tok(<<>>, q) = 0 /\ IncIn(<<>>, q) = 0
  BY <1>3, <1>7, Single, Empty DEF Tok1
<1>9. Items(<<>>) = {}
  BY Nothing
<1>10. Marked(own)'
  <2>1. \A o \in Object : Shades(<<h>>, o) => IsShared(rc'[o])
    BY <1>2, <1>3, <1>4, <1>6 DEF Shades
  <2>2. \A p \in Object : ~Breaks(<<>>, p)
    BY <1>9 DEF Breaks
  <2>3. \A o \in Object : IsShared(rc'[o]) <=> IsShared(rc[o])
    BY <1>4
  <2>4. \A e \in Items(<<h>>) : e.op \notin {"give", "swap"}
    BY <1>6, <1>7
  <2>5. QED
    BY <2>1, <2>2, <2>3, <2>4, <1>6, <1>9, MarkedKeep DEF Inv, ItemsMarked
<1>11. \A q \in Object : owned'[t][q] > 0 => Live(q) /\ own[q] \in {t, Nil}
  BY <1>1 DEF Inv, Owner, Alive, Mentions
<1>12. \A e \in Items(r) : e.op = "cellUnlock" => cellLock'[e.v] = t
  BY <1>1, <1>3 DEF Inv, Alive
<1>13. \A q \in Object : IncIn(<<>>, q) + owned[t][q] + Tok(<<h>>, q) = owned'[t][q] + Tok(<<>>, q)
  BY <1>1, <1>8, HeldNat
<1>14. QED
  BY <1>1, <1>4, <1>6, <1>7, <1>9, <1>10, <1>11, <1>12, <1>13, StillStep

(* The walk sets the shared bit of a value, and goes on with its field.    *)
LEMMA ShadeFresh ==
  ASSUME Typed, Typed', NEW own, NEW val, Inv(own, val), NEW t \in Thread, Shade(t), ~IsShared(rc[V(t)])
  PROVE  \E n : Inv(own, n)'
<1>1. /\ Do(t, "shade") /\ UNCHANGED <<tag, field, owned, markLock, cellLock>>
      /\ rc' = [rc EXCEPT ![V(t)] = rc[V(t)] + SHARED]
  BY DEF Shade, SetRc
<1>2. PICK v, h, r, f : v = V(t) /\ h = Head(code[t]) /\ r = Rest(t) /\ f = field[v]
  OBVIOUS
<1>3. /\ h \in Item /\ h.op = "shade" /\ h.v = v /\ v \in Object /\ h \in Parts(t) /\ Live(v)
      /\ rc[v] \in 0..(2 * SHARED - 1) /\ rc[v] = val[v] /\ ~IsShared(rc[v]) /\ own[v] = t
      /\ \A e \in Items(r) : e \in Parts(t)
  BY <1>1, <1>2, Ready
<1>4. Sound(v) /\ (K(t) # "" => \E p \in Fields(v) : own[p] = t)
  <2>1. /\ Sound(V(t)) /\ own[V(t)] = t
        /\ K(t) # "" => \E p \in Fields(V(t)) : own[p] = t
    BY <1>1, ShadeSound
  <2>2. QED
    BY <2>1, <1>2
<1>5. f \in Object \cup {Nil} /\ (f # Nil => f \in Object /\ Live(f) /\ v \in Fields(f) /\ own[f] \in {t, Nil})
  BY <1>2, <1>3, <1>4, States, Content DEF Inv
<1>6. PICK c : /\ Turn(t, r, <<h>>, c)
               /\ \/ K(t) # "ref" /\ f = Nil /\ c = <<>>
                  \/ /\ K(t) # "ref" /\ f # Nil
                     /\ \E s \in Item : c = <<s>> /\ s.op = "shade" /\ s.v = f /\ s.k = tag[v]
                  \/ /\ K(t) = "ref"
                     /\ \E a, d \in Item :
                          /\ a.op = "dup" /\ a.v = v /\ d.op = "drop" /\ d.v = v
                          /\ \/ f = Nil /\ c = <<a, d>>
                             \/ /\ f # Nil
                                /\ \E s \in Item : c = <<a, s, d>> /\ s.op = "shade" /\ s.v = f /\ s.k = tag[v]
  BY <1>2, <1>3, ShadeTurn
<1>7. Calm(t, r, <<h>>, c) /\ Items(<<h>>) = {h}
  BY <1>1, <1>3, <1>6, CalmOne
<1>8. /\ \A o \in Object : Tok(c, o) = IncIn(c, o) /\ IncIn(c, o) \in Nat
      /\ \A e \in Items(c) : \/ e.op \in {"dup", "drop"} /\ e.v = v /\ K(t) = "ref"
                             \/ e.op = "shade" /\ e.v = f /\ f # Nil /\ e.k = tag[v]
      /\ f # Nil => Shades(c, f)
      /\ (\E e \in Items(c) : e.op = "dup") => \E e \in Items(c) : e.op = "drop" /\ e.v = v
  <2>1. CASE K(t) # "ref" /\ f = Nil /\ c = <<>>
    <3>1. Items(c) = {} /\ \A o \in Object : Tok(c, o) = 0 /\ IncIn(c, o) = 0
      BY <2>1, Empty, Nothing
    <3>2. QED
      BY <3>1, <2>1
  <2>2. ASSUME f # Nil, NEW s \in Item, c = <<s>>, s.op = "shade", s.v = f, s.k = tag[v]
        PROVE  /\ \A o \in Object : Tok(c, o) = IncIn(c, o) /\ IncIn(c, o) \in Nat
               /\ \A e \in Items(c) : \/ e.op \in {"dup", "drop"} /\ e.v = v /\ K(t) = "ref"
                                      \/ e.op = "shade" /\ e.v = f /\ f # Nil /\ e.k = tag[v]
               /\ f # Nil => Shades(c, f)
               /\ (\E e \in Items(c) : e.op = "dup") => \E e \in Items(c) : e.op = "drop" /\ e.v = v
    <3>1. Items(c) = {s}
      BY <2>2, List1
    <3>2. \A o \in Object : Tok(c, o) = 0 /\ IncIn(c, o) = 0
      BY <2>2, Single DEF Tok1, HoldOps, MoveOps, IncOps
    <3>3. QED
      BY <3>1, <3>2, <2>2 DEF Shades
  <2>3. ASSUME K(t) = "ref", NEW a \in Item, NEW d \in Item, a.op = "dup", a.v = v, d.op = "drop", d.v = v,
               f = Nil, c = <<a, d>>
        PROVE  /\ \A o \in Object : Tok(c, o) = IncIn(c, o) /\ IncIn(c, o) \in Nat
               /\ \A e \in Items(c) : \/ e.op \in {"dup", "drop"} /\ e.v = v /\ K(t) = "ref"
                                      \/ e.op = "shade" /\ e.v = f /\ f # Nil /\ e.k = tag[v]
               /\ f # Nil => Shades(c, f)
               /\ (\E e \in Items(c) : e.op = "dup") => \E e \in Items(c) : e.op = "drop" /\ e.v = v
    <3>1. Items(c) = {a, d}
      BY <2>3, List2
    <3>2. \A o \in Object : Tok(c, o) = (IF o = v THEN 1 ELSE 0) /\ IncIn(c, o) = (IF o = v THEN 1 ELSE 0)
      BY <2>3, Double DEF Tok1, HoldOps, MoveOps, IncOps
    <3>3. QED
      BY <3>1, <3>2, <2>3
  <2>4. ASSUME K(t) = "ref", NEW a \in Item, NEW d \in Item, a.op = "dup", a.v = v, d.op = "drop", d.v = v,
               f # Nil, NEW s \in Item, c = <<a, s, d>>, s.op = "shade", s.v = f, s.k = tag[v]
        PROVE  /\ \A o \in Object : Tok(c, o) = IncIn(c, o) /\ IncIn(c, o) \in Nat
               /\ \A e \in Items(c) : \/ e.op \in {"dup", "drop"} /\ e.v = v /\ K(t) = "ref"
                                      \/ e.op = "shade" /\ e.v = f /\ f # Nil /\ e.k = tag[v]
               /\ f # Nil => Shades(c, f)
               /\ (\E e \in Items(c) : e.op = "dup") => \E e \in Items(c) : e.op = "drop" /\ e.v = v
    <3>1. Items(c) = {a, s, d}
      BY <2>4, List3
    <3>2. \A o \in Object : Tok(c, o) = Tok1(a, o) + Tok1(s, o) + Tok1(d, o)
      BY <2>4, TokList
    <3>3. \A o \in Object : Tok(c, o) = (IF o = v THEN 1 ELSE 0)
      BY <3>2, <2>4 DEF Tok1, HoldOps, MoveOps
    <3>4. \A o \in Object : IncIn(c, o) = (IF o = v THEN 1 ELSE 0)
      BY <3>1, <2>4 DEF IncIn, IncOps
    <3>5. QED
      BY <3>1, <3>3, <3>4, <2>4 DEF Shades
  <2>5. QED
    BY <2>1, <2>2, <2>3, <2>4, <1>6
<1>9. rc[v] <= SATURATED
  BY <1>3 DEF Inv, Bounded
<1>10. PICK w, n : w = rc[v] + SHARED /\ n = [val EXCEPT ![v] = w]
  OBVIOUS
<1>11. /\ w \in 0..(2 * SHARED - 1) /\ IsShared(w)
       /\ IsSaturated(w) <=> IsSaturated(val[v])
       /\ ~IsSaturated(val[v]) => Count(w) = Count(val[v])
       /\ w <= SHARED + COUNT_MASK \/ w = SHARED + SATURATED
  BY <1>3, <1>9, <1>10, Shaded
<1>12. /\ n \in [Object -> 0..(2 * SHARED - 1)] /\ n[v] = w /\ \A o \in Object : o # v => n[o] = val[o]
  BY <1>3, <1>10, <1>11 DEF Inv
<1>13. rc'[v] = w /\ \A o \in Object : o # v => rc'[o] = rc[o]
  BY <1>1, <1>2, <1>3, <1>10, States
<1>14. /\ \A u \in Thread : u # t => ~Has1(u, "store", v) /\ ~Has1(u, "rewrite", v)
       /\ \A e \in Items(r) : e.op # "rewrite"
  BY <1>1, <1>2, Undisturbed DEF RewriteOps
<1>15. /\ \A e \in Items(c) : e.op \in {"dup", "drop", "shade"}
       /\ \A p \in Object : ~Breaks(c, p) /\ ~Dies(c, p) /\ AddIn(c, p) = 0
       /\ \A p \in Object : IncIn(<<h>>, p) = 0 /\ Tok(<<h>>, p) = 0 /\ ~Dies(<<h>>, p)
       /\ \A p \in Object : Shades(<<h>>, p) <=> p = v
  <2>1. \A e \in Items(c) : e.op \in {"dup", "drop", "shade"}
    BY <1>8
  <2>2. \A p \in Object : IncIn(<<h>>, p) = 0 /\ Tok(<<h>>, p) = 0 /\ ~Dies(<<h>>, p)
    BY <1>3, Single DEF Tok1, HoldOps, MoveOps, IncOps, DyingOps
  <2>3. \A p \in Object : Shades(<<h>>, p) <=> p = v
    BY <1>3, <1>7 DEF Shades
  <2>4. QED
    BY <2>1, <2>2, <2>3 DEF Breaks, Dies, AddIn, DyingOps
<1>16. \A e \in Items(c) : \A o \in Object : Touch(e, o) => (o = v \/ (o = f /\ f # Nil)) /\ Live(o) /\ own[o] \in {t, Nil}
  BY <1>3, <1>5, <1>8 DEF Touch, MoveOps
<1>17. /\ \A o \in Object : IsShared(rc[o]) => IsShared(rc'[o])
       /\ \A o \in Object : IsShared(rc'[o]) /\ ~IsShared(rc[o]) => o = v
  BY <1>3, <1>11, <1>13
<1>18. Owner(own)'
  <2>1. \A o \in Object : owned'[t][o] > 0 => own[o] \in {t, Nil}
    BY <1>1 DEF Inv, Owner, Mentions
  <2>2. \A o \in Object : IsShared(rc'[o]) /\ ~IsShared(rc[o]) => own[o] = t /\ \A e \in Items(r) : e.op # "rewrite"
    BY <1>3, <1>14, <1>17
  <2>3. \A e \in Items(c) : e.op \notin {"store", "rewrite", "cas", "add", "saturate"}
    BY <1>15
  <2>4. QED
    BY <2>1, <2>2, <2>3, <1>7, <1>16, <1>17, OwnerKeep DEF Inv
<1>19. Marked(own)'
  <2>1. \A e \in Items(<<h>>) : e.op \notin {"give", "swap"}
    BY <1>3, <1>7
  <2>2. \A o \in Object : Shades(<<h>>, o) => IsShared(rc'[o])
    BY <1>11, <1>13, <1>15
  <2>3. \A p \in Object : IsShared(rc'[p]) /\ ~IsShared(rc[p]) =>
           /\ own[p] = t /\ \E e \in Items(<<h>>) : e.op = "shade"
           /\ field[p] # Nil => IsShared(rc'[field[p]]) \/ Shades(c, field[p])
    BY <1>2, <1>3, <1>7, <1>8, <1>17
  <2>4. \A e \in Items(c) : e.op = "shade" => e.k # "" /\ \E p \in Fields(e.v) : own[p] = t
    <3>1. tag[v] # ""
      BY <1>3 DEF Live
    <3>2. QED
      BY <3>1, <1>3, <1>5, <1>8
  <2>5. \A e \in Items(c) : e.op \notin {"give", "swap", "markLock", "markUnlock"}
    BY <1>15
  <2>6. \E e \in Items(<<h>>) : e.op = "shade"
    BY <1>3, <1>7
  <2>7. QED
    <3>1. Owner(own) /\ Marked(own) /\ own \in [Object -> Thread \cup {Nil}]
      BY DEF Inv
    <3>2. \A e \in Items(c) : e.op = "shade" =>
            IF e.k = ""
            THEN \E d \in Items(r) \cup Items(c) : (d.op = "give" /\ d.v = e.v) \/ (d.op = "swap" /\ d.x = e.v)
            ELSE \E p \in Fields(e.v) : own[p] = t
      BY <2>4
    <3>3. \A p \in Object : ~Breaks(c, p)
      BY <1>15
    <3>4. \A o \in Object : IsShared(rc[o]) => IsShared(rc'[o])
      BY <1>17
    <3>5. \A e \in Items(c) :
           /\ e.op = "give" => IsShared(rc'[e.v]) \/ Shades(c, e.v)
           /\ e.op = "swap" =>
                /\ Items(r) = {}
                /\ e.x # Nil /\ IsShared(rc'[e.v]) => IsShared(rc'[e.x]) \/ Shades(c, e.x)
                /\ (\E d \in Items(c) : d.op = "shade") => IsShared(rc'[e.v])
           /\ e.op = "shade" =>
                IF e.k = ""
                THEN \E d \in Items(r) \cup Items(c) : (d.op = "give" /\ d.v = e.v) \/ (d.op = "swap" /\ d.x = e.v)
                ELSE \E p \in Fields(e.v) : own[p] = t
           /\ e.op \in {"markLock", "markUnlock"} =>
                \E d \in Items(c) : (d.op = "give" /\ d.v = e.v) \/ (d.op = "swap" /\ d.x = e.v)
      BY <3>2, <2>5
    <3>6. \A p \in Object : Breaks(c, p) =>
            own[p] \in {t, Nil} /\ \A e \in Items(r) \cup Items(c) : e.op # "shade"
      BY <3>3
    <3>7. (\E e \in Items(c) : e.op = "shade") /\ (\E e \in Items(r) : e.op = "swap") =>
            \E e \in Items(<<h>>) : e.op = "shade"
      BY <2>6
    <3>8. PICK b : b = <<h>>
      OBVIOUS
    <3>9. /\ Calm(t, r, b, c)
          /\ \A e \in Items(b) : e.op \notin {"give", "swap"}
          /\ \A o \in Object : Shades(b, o) => IsShared(rc'[o])
      BY <3>8, <1>7, <2>1, <2>2
    <3>10. \A p \in Object : IsShared(rc'[p]) /\ ~IsShared(rc[p]) =>
             /\ own[p] = t /\ \E e \in Items(b) : e.op = "shade"
             /\ field[p] # Nil => IsShared(rc'[field[p]]) \/ Shades(c, field[p])
      BY <3>8, <2>3
    <3>11. (\E e \in Items(c) : e.op = "shade") /\ (\E e \in Items(r) : e.op = "swap") =>
             \E e \in Items(b) : e.op = "shade"
      BY <3>7, <3>8
    <3>12. ItemsMarked(t, own, r, c)
      BY <3>5 DEF ItemsMarked
    <3>13. QED
      BY <3>1, <3>4, <3>6, <3>9, <3>10, <3>11, <3>12, MarkedKeep
<1>20. Alive(own)'
  <2>1. \A o \in Object : owned'[t][o] > 0 => Live(o)
    BY <1>1 DEF Inv, Alive, Mentions
  <2>2. ASSUME NEW e \in Items(c), e.op \in IncOps
        PROVE  /\ \E d \in Items(r) \cup Items(c) : d.op \in HoldOps /\ d.v = e.v
               /\ owned'[t][e.v] > 0 \/ \E p \in Fields(e.v)' : Keeps(own, t, p)'
    <3>1. e.op = "dup" /\ e.v = v /\ K(t) = "ref"
      BY <2>2, <1>8 DEF IncOps
    <3>2. \E d \in Items(c) : d.op \in HoldOps /\ d.v = v
      BY <3>1, <1>8 DEF HoldOps
    <3>3. PICK p \in Fields(v) : own[p] = t
      BY <3>1, <1>4
    <3>4. p \in Object
      BY DEF Fields
    <3>5. p \in Fields(v)'
      BY <3>4, <1>3, <1>7, <1>15, BrokenKeep
    <3>6. Keeps(own, t, p)'
      BY <3>3 DEF Keeps
    <3>7. QED
      BY <3>1, <3>2, <3>5, <3>6
  <2>3. \A e \in Items(c) : e.op \notin {"get", "swap", "cellUnlock", "rewrite"}
    BY <1>15
  <2>4. \A e \in Items(r) : e.op = "cellUnlock" => cellLock'[e.v] = t
    BY <1>1, <1>3 DEF Inv, Alive
  <2>5. QED
    BY <2>1, <2>2, <2>3, <2>4, <1>1, <1>7, <1>15, <1>16, AliveKeep DEF Inv
<1>21. Values(n)'
  <2>1. \A o \in Object : \/ rc'[o] = n[o]
                          \/ rc'[o] = rc[o] /\ n[o] = val[o] /\ \A e \in Items(<<h>>) : ~(e.op = "store" /\ e.v = o)
    BY <1>3, <1>7, <1>12, <1>13
  <2>2. \A e \in Items(c) : e.op # "store"
    BY <1>15
  <2>3. \A o \in Object : n[o] # val[o] => \A u \in Thread : u # t => ~Has1(u, "store", o)
    BY <1>12, <1>14
  <2>4. QED
    BY <2>1, <2>2, <2>3, <1>7, ValuesKeep DEF Inv
<1>22. Balance(n)'
  <2>1. val \in [Object -> 0..(2 * SHARED - 1)]
    BY DEF Inv
  <2>2. \A o \in Object : Count(val[o]) \in Nat /\ Count(n[o]) \in Nat
    BY <2>1, <1>12, Words
  <2>3. ASSUME NEW o \in Object PROVE Even(t, <<h>>, c, o, val, n)
    <3>1. Fields(o)' = Fields(o)
      BY <1>7, <1>15, BrokenKeep DEF Fields
    <3>2. IsFiniteSet(Fields(o)) /\ Cardinality(Fields(o)) \in Nat /\ owned[t][o] \in Nat /\ owned' = owned
      BY <1>1, FS_CardinalityType, HeldNat DEF Inv, Balance
    <3>3. Tok(c, o) = IncIn(c, o) /\ IncIn(c, o) \in Nat /\ IncIn(<<h>>, o) = 0 /\ Tok(<<h>>, o) = 0
      BY <1>8, <1>15
    <3>4. ~IsSaturated(n[o]) => ~IsSaturated(val[o]) /\ Count(n[o]) = Count(val[o])
      BY <1>11, <1>12
    <3>5. QED
      BY <3>1, <3>2, <3>3, <3>4, <2>2 DEF Even
  <2>4. QED
    BY <2>2, <2>3, <1>7, BalanceKeep DEF Inv
<1>23. Bounded'
  <2>1. \A o \in Object : Fitting(t, <<h>>, c, o)
    BY <1>11, <1>13, <1>15 DEF Fitting
  <2>2. QED
    BY <2>1, <1>7, BoundedKeep DEF Inv
<1>24. Freeing(n)'
  <2>1. \A o \in Object : Zero(n, o) <=> Zero(val, o)
    BY <1>11, <1>12 DEF Zero
  <2>2. \A o \in Object : Tidy(t, <<h>>, c, o, val, n)
    BY <2>1, <1>12, <1>14, <1>15 DEF Tidy
  <2>3. \A e \in Items(c) : e.op # "rewrite"
    BY <1>15
  <2>4. QED
    BY <2>2, <2>3, <1>7, <1>14, FreeingKeep DEF Inv
<1>25. Inv(own, n)'
  BY <1>12, <1>18, <1>19, <1>20, <1>21, <1>22, <1>23, <1>24 DEF Inv
<1>26. QED
  BY <1>25

(* One turn of the mark walk.                                              *)
LEMMA ShadeStep ==
  ASSUME Typed, Typed', NEW own, NEW val, Inv(own, val), NEW t \in Thread, Shade(t)
  PROVE  \E n : Inv(own, n)'
<1>1. CASE IsShared(rc[V(t)])
  <2>1. Inv(own, val)'
    BY <1>1, ShadeEnds
  <2>2. QED
    BY <2>1
<1>2. CASE ~IsShared(rc[V(t)])
  BY <1>2, ShadeFresh
<1>3. QED
  BY <1>1, <1>2

-----------------------------------------------------------------------------
(* The operations of the program.                                          *)

(* What a thread owns lives, is whole and has a count above zero.          *)
LEMMA Holding ==
  ASSUME Typed, NEW own, NEW val, Inv(own, val), NEW t \in Thread, NEW o \in Object, owned[t][o] > 0
  PROVE  /\ Live(o) /\ Sound(o) /\ own[o] \in {t, Nil} /\ ~Zero(val, o) /\ Mentions(t, o)
         /\ field[o] # Nil => /\ field[o] \in Object /\ Live(field[o]) /\ field[o] # o
                              /\ o \in Fields(field[o]) /\ own[field[o]] \in {t, Nil}
<1>1. Mentions(t, o)
  BY DEF Mentions
<1>2. Live(o) /\ own[o] \in {t, Nil}
  BY <1>1 DEF Inv, Alive, Owner
<1>3. Held(t, o) = owned[t][o] + Tok(code[t], o) /\ owned[t][o] \in Nat /\ Tok(code[t], o) \in Nat
  BY HeldNat
<1>4. ~Zero(val, o)
  <2>1. SUFFICES ASSUME Zero(val, o) PROVE FALSE
    OBVIOUS
  <2>2. Held(t, o) = 0
    BY <2>1, ZeroMeans DEF Inv
  <2>3. QED
    BY <2>2, <1>3
<1>5. ASSUME NEW u \in Thread, NEW e \in Parts(u), e.op \in {"poison", "rewrite"}, e.v = o PROVE FALSE
  <2>1. CASE e.op = "rewrite"
    <3>1. owned[u][o] = 0 /\ \A w \in Thread : Mentions(w, o) => w = u
      BY <2>1, <1>5, Sole DEF Inv
    <3>2. QED
      BY <3>1, <1>1
  <2>2. CASE e.op = "poison"
    BY <2>2, <1>4, <1>5 DEF Inv, Freeing, DyingOps
  <2>3. QED
    BY <2>1, <2>2, <1>5
<1>6. Sound(o)
  BY <1>2, <1>5 DEF Sound, Broken
<1>7. ASSUME field[o] # Nil
      PROVE  /\ field[o] \in Object /\ Live(field[o]) /\ field[o] # o
             /\ o \in Fields(field[o]) /\ own[field[o]] \in {t, Nil}
  BY <1>2, <1>6, <1>7, Content DEF Inv
<1>8. QED
  BY <1>1, <1>2, <1>4, <1>6, <1>7

(* An operation begins.                                                    *)
LEMMA CalmBegin ==
  ASSUME Typed, Typed', NEW t \in Thread, NEW c, NEW gone, Started(t, c, gone)
  PROVE  /\ Calm(t, <<>>, <<>>, c) /\ Items(<<>>) = {} /\ code[t] = <<>>
         /\ \A u \in Thread : u # t => owned'[u] = owned[u]
         /\ \A o \in Object : owned'[t][o] = IF o \in gone THEN owned[t][o] - 1 ELSE owned[t][o]
         /\ \A o \in Object : o \in gone => owned[t][o] > 0
         /\ UNCHANGED <<tag, rc, field, markLock, cellLock>>
         /\ \A o \in Object : /\ Tok(<<>>, o) = 0 /\ Tok(c, o) \in Nat /\ owned[t][o] \in Nat
                              /\ Held(t, o) = owned[t][o] /\ Held(t, o)' = owned'[t][o] + Tok(c, o)
<1>1. Begin(t, c, gone) /\ Pushed(c, c, <<>>) /\ \A o \in Object : o \in gone => owned[t][o] > 0
  BY DEF Started
<1>2. /\ Turn(t, <<>>, <<>>, c) /\ code[t] = <<>>
      /\ \A u \in Thread : u # t => owned'[u] = owned[u]
      /\ \A o \in Object : owned'[t][o] = IF o \in gone THEN owned[t][o] - 1 ELSE owned[t][o]
      /\ UNCHANGED <<tag, rc, field, markLock, cellLock>>
  BY <1>1, BeginFacts
<1>3. Items(<<>>) = {}
  BY Nothing
<1>4. Calm(t, <<>>, <<>>, c)
  BY <1>2, <1>3 DEF Calm
<1>5. ASSUME NEW o \in Object
      PROVE  /\ Tok(<<>>, o) = 0 /\ Tok(c, o) \in Nat /\ owned[t][o] \in Nat
             /\ Held(t, o) = owned[t][o] /\ Held(t, o)' = owned'[t][o] + Tok(c, o)
  <2>1. Tok(<<>>, o) = 0
    BY Empty
  <2>2. /\ Tok(c, o) \in Nat /\ owned[t][o] \in Nat /\ owned'[t][o] \in Nat
        /\ Held(t, o) = owned[t][o] + Tok(<<>>, o) + Tok(<<>>, o)
        /\ Held(t, o)' = owned'[t][o] + Tok(<<>>, o) + Tok(c, o)
    BY <1>2, HeldTurn
  <2>3. QED
    BY <2>1, <2>2
<1>6. QED
  BY <1>1, <1>2, <1>3, <1>4, <1>5

(* An operation that begins without a rewrite keeps the invariant when the *)
(* references its micro-operations hold are those that passed to it and    *)
(* those it is going to make.                                              *)
LEMMA PlainBegin ==
  ASSUME Typed, Typed', NEW own, NEW val, Inv(own, val), NEW t \in Thread, NEW c, NEW gone,
         Started(t, c, gone), Marked(own)',
         \A e \in Items(c) : e.op \in PlainOps /\ e.op # "cellUnlock",
         \A e \in Items(c) : e.op \in {"get", "swap"} => tag[e.v] = "ref",
         \A e \in Items(c) : \A o \in Object : Touch(e, o) => Live(o) /\ own[o] \in {t, Nil},
         \A e \in Items(c) : e.op = "dup" =>
           /\ \E d \in Items(c) : d.op \in HoldOps /\ d.v = e.v
           /\ owned'[t][e.v] > 0 \/ \E p \in Fields(e.v)' : Keeps(own, t, p)',
         \A o \in Object : IncIn(c, o) + (IF o \in gone THEN 1 ELSE 0) = Tok(c, o)
  PROVE  Inv(own, val)'
<1>1. /\ Calm(t, <<>>, <<>>, c) /\ Items(<<>>) = {}
      /\ \A o \in Object : owned'[t][o] = IF o \in gone THEN owned[t][o] - 1 ELSE owned[t][o]
      /\ \A o \in Object : o \in gone => owned[t][o] > 0
      /\ UNCHANGED <<tag, rc, field, markLock, cellLock>>
      /\ \A o \in Object : /\ Tok(<<>>, o) = 0 /\ Tok(c, o) \in Nat /\ owned[t][o] \in Nat
  BY CalmBegin
<1>2. ASSUME NEW o \in Object, owned'[t][o] > 0 PROVE Live(o) /\ own[o] \in {t, Nil}
  <2>1. owned[t][o] > 0
    BY <1>1, <1>2
  <2>2. QED
    BY <2>1, Holding
<1>3. \A o \in Object : IncIn(c, o) + owned[t][o] + Tok(<<>>, o) = owned'[t][o] + Tok(c, o)
  <2>1. ASSUME NEW o \in Object PROVE IncIn(c, o) + owned[t][o] + Tok(<<>>, o) = owned'[t][o] + Tok(c, o)
    <3>1. IncIn(c, o) \in Nat /\ IncIn(c, o) + (IF o \in gone THEN 1 ELSE 0) = Tok(c, o)
      BY DEF IncIn
    <3>2. /\ owned'[t][o] = IF o \in gone THEN owned[t][o] - 1 ELSE owned[t][o]
          /\ Tok(<<>>, o) = 0 /\ Tok(c, o) \in Nat /\ owned[t][o] \in Nat
      BY <1>1
    <3>3. QED
      BY <3>1, <3>2
  <2>2. QED
    BY <2>1
<1>4. \A e \in Items(c) : e.op \in PlainOps /\ (e.op \in {"get", "swap", "cellUnlock"} => tag[e.v] = "ref")
                          /\ (e.op = "cellUnlock" => cellLock'[e.v] = t)
  OBVIOUS
<1>5. QED
  BY <1>1, <1>2, <1>3, <1>4, StillStep

(* An operation that neither marks nor hands over.                         *)
LEMMA QuietBegin ==
  ASSUME Typed, Typed', NEW own, NEW val, Inv(own, val), NEW t \in Thread, NEW c, NEW gone,
         Started(t, c, gone),
         \A e \in Items(c) : e.op \in {"dup", "drop", "own", "alloc", "get"},
         \A e \in Items(c) : e.op = "get" => tag[e.v] = "ref",
         \A e \in Items(c) : e.v # Nil => Live(e.v) /\ own[e.v] \in {t, Nil},
         \A e \in Items(c) : e.op = "dup" =>
           /\ \E d \in Items(c) : d.op \in HoldOps /\ d.v = e.v
           /\ owned'[t][e.v] > 0 \/ \E p \in Fields(e.v)' : Keeps(own, t, p)',
         \A o \in Object : IncIn(c, o) + (IF o \in gone THEN 1 ELSE 0) = Tok(c, o)
  PROVE  Inv(own, val)'
<1>1. Calm(t, <<>>, <<>>, c) /\ Items(<<>>) = {} /\ rc' = rc
  BY CalmBegin
<1>2. Marked(own)'
  <2>1. /\ \A e \in Items(<<>>) : e.op \notin {"give", "swap", "shade"}
        /\ \A e \in Items(c) : e.op \notin {"give", "swap", "shade", "markLock", "markUnlock", "poison", "rewrite"}
    BY <1>1
  <2>2. QED
    BY <2>1, <1>1, MarkedStill
<1>3. \A e \in Items(c) : \A o \in Object : Touch(e, o) => Live(o) /\ own[o] \in {t, Nil}
  BY Numbers DEF Touch, MoveOps
<1>4. \A e \in Items(c) : e.op \in PlainOps /\ e.op # "cellUnlock" /\ (e.op \in {"get", "swap"} => tag[e.v] = "ref")
  BY DEF PlainOps
<1>5. QED
  BY <1>2, <1>3, <1>4, PlainBegin

(* Copy.                                                                   *)
LEMMA CopyStep ==
  ASSUME Typed, Typed', NEW own, NEW val, Inv(own, val), NEW t \in Thread, NEW o \in Object, Copy(t, o)
  PROVE  Inv(own, val)'
<1>1. PICK a, e \in Item : /\ a.op = "dup" /\ a.v = o /\ e.op = "own" /\ e.v = o
                           /\ Started(t, <<a, e>>, {})
  BY CopyBegin DEF Copies
<1>2. PICK c : c = <<a, e>>
  OBVIOUS
<1>3. Items(c) = {a, e}
  BY <1>2, List2
<1>4. \A q \in Object : IncIn(c, q) + (IF q \in {} THEN 1 ELSE 0) = Tok(c, q)
  BY <1>1, <1>2, Double DEF Tok1, HoldOps, MoveOps, IncOps
<1>5. owned[t][o] > 0 /\ Live(o) /\ own[o] \in {t, Nil}
  BY Holding DEF Copy, Has
<1>6. owned'[t][o] > 0
  BY <1>1, <1>5, CalmBegin
<1>7. /\ \A d \in Items(c) : d.op \in {"dup", "own"} /\ d.v = o
      /\ \E d \in Items(c) : d.op \in HoldOps /\ d.v = o
  BY <1>1, <1>3 DEF HoldOps
<1>8. Started(t, c, {})
  BY <1>1, <1>2
<1>9. QED
  BY <1>4, <1>5, <1>6, <1>7, <1>8, QuietBegin

(* Release.                                                                *)
LEMMA ReleaseStep ==
  ASSUME Typed, Typed', NEW own, NEW val, Inv(own, val), NEW t \in Thread, NEW o \in Object, Release(t, o)
  PROVE  Inv(own, val)'
<1>1. PICK d \in Item : d.op = "drop" /\ d.v = o /\ Started(t, <<d>>, {o})
  BY ReleaseBegin
<1>2. PICK c : c = <<d>>
  OBVIOUS
<1>3. Items(c) = {d}
  BY <1>2, List1
<1>4. \A q \in Object : IncIn(c, q) + (IF q \in {o} THEN 1 ELSE 0) = Tok(c, q)
  BY <1>1, <1>2, Single DEF Tok1, HoldOps, MoveOps, IncOps
<1>5. Live(o) /\ own[o] \in {t, Nil}
  BY Holding DEF Release, Has
<1>6. Started(t, c, {o}) /\ \A e \in Items(c) : e.op = "drop" /\ e.v = o
  BY <1>1, <1>2, <1>3
<1>7. QED
  BY <1>4, <1>5, <1>6, QuietBegin

(* Project: the constructor whose field is read goes on being owned.       *)
LEMMA ProjectStep ==
  ASSUME Typed, Typed', NEW own, NEW val, Inv(own, val), NEW t \in Thread, NEW o \in Object, Project(t, o)
  PROVE  Inv(own, val)'
<1>1. PICK f : f = field[o]
  OBVIOUS
<1>2. PICK a, e \in Item : /\ a.op = "dup" /\ a.v = f /\ e.op = "own" /\ e.v = f
                           /\ Started(t, <<a, e>>, {})
  BY <1>1, ProjectBegin DEF Copies
<1>3. PICK c : c = <<a, e>>
  OBVIOUS
<1>4. Items(c) = {a, e}
  BY <1>3, List2
<1>5. \A q \in Object : IncIn(c, q) + (IF q \in {} THEN 1 ELSE 0) = Tok(c, q)
  BY <1>2, <1>3, Double DEF Tok1, HoldOps, MoveOps, IncOps
<1>6. /\ owned[t][o] > 0 /\ tag[o] = "ctor" /\ f # Nil /\ own[o] \in {t, Nil}
      /\ Live(f) /\ own[f] \in {t, Nil} /\ f \in Object /\ o \in Fields(f)
  BY <1>1, Holding DEF Project, Has
<1>7. Started(t, c, {})
  BY <1>2, <1>3
<1>8. /\ Calm(t, <<>>, <<>>, c) /\ tag' = tag /\ owned'[t][o] = owned[t][o] /\ owned[t][o] \in Nat
      /\ Held(t, o)' = owned'[t][o] + Tok(c, o) /\ Tok(c, o) \in Nat
  BY <1>7, CalmBegin
<1>9. /\ \A d \in Items(c) : d.op \in {"dup", "own"} /\ d.v = f
      /\ \E d \in Items(c) : d.op \in HoldOps /\ d.v = f
  BY <1>2, <1>4 DEF HoldOps
<1>10. o \in Fields(f)' /\ Keeps(own, t, o)'
  <2>1. ~Breaks(c, o)
    BY <1>9 DEF Breaks
  <2>2. o \in Fields(f)'
    BY <2>1, <1>6, <1>8, BrokenKeep
  <2>3. Held(t, o)' > 0
    BY <1>6, <1>8
  <2>4. QED
    BY <2>2, <2>3, <1>6, <1>8 DEF Keeps
<1>11. QED
  BY <1>5, <1>6, <1>7, <1>9, <1>10, QuietBegin

(* CellRead.                                                               *)
LEMMA CellReadStep ==
  ASSUME Typed, Typed', NEW own, NEW val, Inv(own, val), NEW t \in Thread, NEW o \in Object, CellRead(t, o)
  PROVE  Inv(own, val)'
<1>1. PICK e \in Item : e.op = "get" /\ e.v = o /\ Started(t, <<e>>, {})
  BY CellReadBegin
<1>2. PICK c : c = <<e>>
  OBVIOUS
<1>3. Items(c) = {e}
  BY <1>2, List1
<1>4. \A q \in Object : IncIn(c, q) + (IF q \in {} THEN 1 ELSE 0) = Tok(c, q)
  BY <1>1, <1>2, Single DEF Tok1, HoldOps, MoveOps, IncOps
<1>5. Live(o) /\ own[o] \in {t, Nil} /\ tag[o] = "ref"
  BY Holding DEF CellRead, Has
<1>6. Started(t, c, {}) /\ \A d \in Items(c) : d.op = "get" /\ d.v = o
  BY <1>1, <1>2, <1>3
<1>7. QED
  BY <1>4, <1>5, <1>6, QuietBegin

(* Build.                                                                  *)
LEMMA BuildStep ==
  ASSUME Typed, Typed', NEW own, NEW val, Inv(own, val), NEW t \in Thread, NEW a \in Object \cup {Nil},
         NEW k \in {"ctor", "ref"}, Build(t, a, k)
  PROVE  Inv(own, val)'
<1>1. PICK c : Builds(t, a, c)
  BY BuildBegin
<1>2. PICK e \in Item : c = <<e>> /\ e.op = "alloc" /\ e.v = a
  BY <1>1 DEF Builds
<1>3. Items(c) = {e}
  BY <1>2, List1
<1>4. \A q \in Object : IncIn(c, q) + (IF q \in {a} THEN 1 ELSE 0) = Tok(c, q)
  BY <1>2, Single DEF Tok1, HoldOps, MoveOps, IncOps
<1>5. a # Nil => a \in Object /\ Live(a) /\ own[a] \in {t, Nil}
  BY Holding DEF Build, Has
<1>6. \A d \in Items(c) : d.op = "alloc" /\ d.v = a
  BY <1>2, <1>3
<1>7. Started(t, c, {a})
  BY <1>1 DEF Builds
<1>8. QED
  BY <1>4, <1>5, <1>6, <1>7, QuietBegin

(* ReuseMoved, when a new constructor is built: the source keeps the field *)
(* readable until it is dropped.                                           *)
LEMMA MovedStep ==
  ASSUME Typed, Typed', NEW own, NEW val, Inv(own, val), NEW t \in Thread, NEW o \in Object,
         Has(t, o), tag[o] = "ctor", NEW c, Started(t, c, {o}), NEW d \in Item, NEW e \in Item,
         d.op = "drop", d.v = o, e.op = "alloc", e.v = field[o],
         \/ field[o] = Nil /\ c = <<d, e>>
         \/ field[o] # Nil /\ \E a \in Item : c = <<a, d, e>> /\ a.op = "dup" /\ a.v = field[o]
  PROVE  Inv(own, val)'
<1>1. PICK f : f = field[o]
  OBVIOUS
<1>2. /\ own[o] \in {t, Nil} /\ Live(o)
      /\ f # Nil => f \in Object /\ Live(f) /\ f # o /\ o \in Fields(f) /\ own[f] \in {t, Nil}
  BY <1>1, Holding DEF Has
<1>3. /\ \A q \in Object : IncIn(c, q) + (IF q \in {o} THEN 1 ELSE 0) = Tok(c, q)
      /\ \A i \in Items(c) : \/ i.op = "drop" /\ i.v = o
                             \/ i.op = "alloc" /\ i.v = f
                             \/ i.op = "dup" /\ i.v = f /\ f # Nil
      /\ e \in Items(c)
  <2>1. CASE f = Nil /\ c = <<d, e>>
    <3>1. Items(c) = {d, e}
      BY <2>1, List2
    <3>2. \A q \in Object : IncIn(c, q) = 0 /\ Tok(c, q) = (IF q = o THEN 1 ELSE 0)
      BY <2>1, <1>1, Double, Numbers DEF Tok1, HoldOps, MoveOps, IncOps
    <3>3. QED
      BY <3>1, <3>2, <1>1
  <2>2. ASSUME f # Nil, NEW a \in Item, c = <<a, d, e>>, a.op = "dup", a.v = f
        PROVE  /\ \A q \in Object : IncIn(c, q) + (IF q \in {o} THEN 1 ELSE 0) = Tok(c, q)
               /\ \A i \in Items(c) : \/ i.op = "drop" /\ i.v = o
                                      \/ i.op = "alloc" /\ i.v = f
                                      \/ i.op = "dup" /\ i.v = f /\ f # Nil
               /\ e \in Items(c)
    <3>1. Items(c) = {a, d, e}
      BY <2>2, List3
    <3>2. \A q \in Object : Tok(c, q) = Tok1(a, q) + Tok1(d, q) + Tok1(e, q)
      BY <2>2, TokList
    <3>3. \A q \in Object : Tok(c, q) = (IF q = o THEN 1 ELSE 0) + (IF q = f THEN 1 ELSE 0)
      BY <3>2, <2>2, <1>1 DEF Tok1, HoldOps, MoveOps
    <3>4. \A q \in Object : IncIn(c, q) = (IF q = f THEN 1 ELSE 0)
      BY <3>1, <2>2 DEF IncIn, IncOps
    <3>5. QED
      BY <3>1, <3>3, <3>4, <2>2, <1>1
  <2>3. QED
    BY <2>1, <2>2, <1>1
<1>4. /\ Calm(t, <<>>, <<>>, c) /\ tag' = tag /\ owned'[t][o] \in Nat
      /\ Held(t, o)' = owned'[t][o] + Tok(c, o) /\ Tok(c, o) \in Nat
  <2>1. owned'[t][o] \in Nat
    BY DEF Typed, TypeOK
  <2>2. QED
    BY <2>1, CalmBegin
<1>5. ASSUME f # Nil PROVE o \in Fields(f)' /\ Keeps(own, t, o)'
  <2>1. ~Breaks(c, o)
    BY <1>3 DEF Breaks
  <2>2. o \in Fields(f)'
    BY <2>1, <1>2, <1>4, <1>5, BrokenKeep
  <2>3. Tok(c, o) = IncIn(c, o) + 1 /\ IncIn(c, o) \in Nat
    BY <1>3 DEF IncIn
  <2>4. Held(t, o)' > 0
    BY <2>3, <1>4
  <2>5. QED
    BY <2>2, <2>4, <1>2, <1>4 DEF Keeps
<1>6. ASSUME NEW i \in Items(c), i.op = "dup"
      PROVE  /\ \E j \in Items(c) : j.op \in HoldOps /\ j.v = i.v
             /\ owned'[t][i.v] > 0 \/ \E p \in Fields(i.v)' : Keeps(own, t, p)'
  <2>1. i.v = f /\ f # Nil
    BY <1>3, <1>6
  <2>2. QED
    BY <2>1, <1>1, <1>3, <1>5 DEF HoldOps
<1>7. \A i \in Items(c) : /\ i.op \in {"dup", "drop", "own", "alloc", "get"} /\ i.op # "get"
                          /\ i.v # Nil => Live(i.v) /\ own[i.v] \in {t, Nil}
  BY <1>2, <1>3
<1>8. QED
  BY <1>3, <1>6, <1>7, QuietBegin

(* ReuseArg, when a new constructor is built.                              *)
LEMMA ArgStep ==
  ASSUME Typed, Typed', NEW own, NEW val, Inv(own, val), NEW t \in Thread, NEW o \in Object,
         NEW a \in Object \cup {Nil}, a # o, Has(t, o), a = Nil \/ Has(t, a),
         NEW d \in Item, NEW e \in Item, Started(t, <<d, e>>, {o, a}),
         d.op = "drop", d.v = o, e.op = "alloc", e.v = a
  PROVE  Inv(own, val)'
<1>1. PICK c : c = <<d, e>>
  OBVIOUS
<1>2. Items(c) = {d, e}
  BY <1>1, List2
<1>3. \A q \in Object : IncIn(c, q) + (IF q \in {o, a} THEN 1 ELSE 0) = Tok(c, q)
  BY <1>1, Double DEF Tok1, HoldOps, MoveOps, IncOps
<1>4. Live(o) /\ own[o] \in {t, Nil} /\ (a # Nil => Live(a) /\ own[a] \in {t, Nil})
  BY Holding DEF Has
<1>5. Started(t, c, {o, a})
  BY <1>1
<1>6. \A i \in Items(c) : (i.op = "drop" /\ i.v = o) \/ (i.op = "alloc" /\ i.v = a)
  BY <1>2
<1>7. QED
  BY <1>3, <1>4, <1>5, <1>6, QuietBegin

(* What holds a reference in a list that marks o and hands it over.        *)
Hands(c, o, e) ==
  /\ \A i \in Items(c) :
       i = e \/ (i.v = o /\ i.op \in {"markLock", "shade", "markUnlock"} /\ (i.op = "shade" => i.k = ""))
  /\ e \in Items(c) /\ Shades(c, o)
  /\ \A q \in Object : Tok(c, q) = Tok1(e, q) /\ IncIn(c, q) = 0

(* What the micro-operation that follows the marking holds is handed over. *)
LEMMA MarkTok ==
  ASSUME NEW o \in Object, NEW e \in Item, NEW c, WithMark(c, o, e), e.op \in {"give", "swap"}
  PROVE  Hands(c, o, e)
<1>1. PICK a, b, d \in Item :
        /\ a.op = "markLock" /\ a.v = o /\ b.op = "shade" /\ b.v = o /\ b.k = ""
        /\ d.op = "markUnlock" /\ d.v = o
        /\ Items(c) = {a, b, d, e}
        /\ \A S : Cnt(c, S) = One(a, S) + One(b, S) + One(d, S) + One(e, S)
  BY DEF WithMark
<1>2. ASSUME NEW q \in Object PROVE Tok(c, q) = Tok1(e, q) /\ IncIn(c, q) = 0
  <2>1. /\ Cnt(c, ByV(q)) = One(a, ByV(q)) + One(b, ByV(q)) + One(d, ByV(q)) + One(e, ByV(q))
        /\ Cnt(c, ByX(q)) = One(a, ByX(q)) + One(b, ByX(q)) + One(d, ByX(q)) + One(e, ByX(q))
    BY <1>1
  <2>2. /\ One(a, ByV(q)) = 0 /\ One(b, ByV(q)) = 0 /\ One(d, ByV(q)) = 0
        /\ One(a, ByX(q)) = 0 /\ One(b, ByX(q)) = 0 /\ One(d, ByX(q)) = 0
    BY <1>1, TokOne DEF HoldOps, MoveOps
  <2>3. Tok(c, q) = Tok1(e, q)
    BY <2>1, <2>2, TokOne DEF Tok, Tok1
  <2>4. IncIn(c, q) = 0
    BY <1>1 DEF IncIn, IncOps
  <2>5. QED
    BY <2>3, <2>4
<1>3. QED
  BY <1>1, <1>2 DEF Shades, Hands

(* An operation marks o and hands it over: to another thread, or to a cell *)
(* that is shared.                                                         *)
LEMMA HandStep ==
  ASSUME Typed, Typed', NEW own, NEW val, Inv(own, val), NEW t \in Thread, NEW o \in Object,
         owned[t][o] > 0, NEW e \in Item, NEW c, WithMark(c, o, e), Started(t, c, {o}),
         \/ e.op = "give" /\ e.v = o
         \/ e.op = "swap" /\ e.x = o /\ tag[e.v] = "ref" /\ owned[t][e.v] > 0 /\ IsShared(rc[e.v])
  PROVE  Inv(own, val)'
<1>a. e.op \in {"give", "swap"}
  OBVIOUS
<1>1. e.op \in {"give", "swap"} /\ e.v \in Object
  BY ItemFields
<1>b. Hands(c, o, e)
  BY <1>a, MarkTok
<1>2. /\ \A i \in Items(c) : i = e \/ (i.v = o /\ i.op \in {"markLock", "shade", "markUnlock"} /\ (i.op = "shade" => i.k = ""))
      /\ e \in Items(c) /\ Shades(c, o)
      /\ \A q \in Object : Tok(c, q) = Tok1(e, q) /\ IncIn(c, q) = 0
  BY <1>b DEF Hands
<1>3. ASSUME NEW q \in Object PROVE IncIn(c, q) + (IF q \in {o} THEN 1 ELSE 0) = Tok(c, q)
  <2>1. Tok(c, q) = Tok1(e, q) /\ IncIn(c, q) = 0
    BY <1>2
  <2>2. CASE e.op = "give" /\ e.v = o
    BY <2>1, <2>2 DEF Tok1, HoldOps, MoveOps
  <2>3. CASE e.op = "swap" /\ e.x = o
    BY <2>1, <2>3 DEF Tok1, HoldOps, MoveOps
  <2>4. QED
    BY <2>2, <2>3
<1>4. Calm(t, <<>>, <<>>, c) /\ Items(<<>>) = {} /\ rc' = rc
  BY CalmBegin
<1>5. /\ Live(o) /\ own[o] \in {t, Nil}
      /\ e.op = "swap" => Live(e.v) /\ own[e.v] \in {t, Nil}
  BY <1>1, Holding
<1>6. Marked(own)'
  <2>1. Owner(own) /\ Marked(own) /\ own \in [Object -> Thread \cup {Nil}]
    BY DEF Inv
  <2>2. \A p \in Object : ~Shades(<<>>, p) /\ ~Breaks(c, p)
    BY <1>2, <1>4 DEF Shades, Breaks
  <2>3. (e.op = "give" /\ e.v = o) \/ (e.op = "swap" /\ e.x = o)
    OBVIOUS
  <2>4. ASSUME NEW i \in Items(c)
        PROVE  /\ i.op = "give" => IsShared(rc'[i.v]) \/ Shades(c, i.v)
               /\ i.op = "swap" =>
                    /\ Items(<<>>) = {}
                    /\ i.x # Nil /\ IsShared(rc'[i.v]) => IsShared(rc'[i.x]) \/ Shades(c, i.x)
                    /\ (\E d \in Items(c) : d.op = "shade") => IsShared(rc'[i.v])
               /\ i.op = "shade" =>
                    IF i.k = ""
                    THEN \E d \in Items(<<>>) \cup Items(c) : (d.op = "give" /\ d.v = i.v) \/ (d.op = "swap" /\ d.x = i.v)
                    ELSE \E p \in Fields(i.v) : own[p] = t
               /\ i.op \in {"markLock", "markUnlock"} =>
                    \E d \in Items(c) : (d.op = "give" /\ d.v = i.v) \/ (d.op = "swap" /\ d.x = i.v)
    <3>1. CASE i = e
      BY <3>1, <1>2, <1>4
    <3>2. CASE i.v = o /\ i.op \in {"markLock", "shade", "markUnlock"} /\ (i.op = "shade" => i.k = "")
      BY <3>2, <2>3, <1>2
    <3>3. QED
      BY <3>1, <3>2, <1>2
  <2>5. \A p \in Object : IsShared(rc'[p]) <=> IsShared(rc[p])
    BY <1>4
  <2>6. QED
    BY <2>1, <2>2, <2>4, <2>5, <1>4, MarkedKeep DEF ItemsMarked
<1>7. /\ \A i \in Items(c) : i.op \in PlainOps /\ i.op # "cellUnlock" /\ i.op # "dup"
      /\ \A i \in Items(c) : i.op \in {"get", "swap"} => tag[i.v] = "ref"
  BY <1>1, <1>2 DEF PlainOps
<1>8. \A i \in Items(c) : \A q \in Object : Touch(i, q) => Live(q) /\ own[q] \in {t, Nil}
  BY <1>1, <1>2, <1>5 DEF Touch, MoveOps
<1>10. QED
  BY <1>3, <1>6, <1>7, <1>8, PlainBegin

(* Publish.                                                                *)
LEMMA PublishStep ==
  ASSUME Typed, Typed', NEW own, NEW val, Inv(own, val), NEW t \in Thread, NEW u \in Thread,
         NEW o \in Object, Publish(t, u, o)
  PROVE  Inv(own, val)'
<1>1. PICK e \in Item : /\ e.op = "give" /\ e.v = o
                        /\ \E c : WithMark(c, o, e) /\ Started(t, c, {o})
  BY PublishBegin
<1>2. PICK c : WithMark(c, o, e) /\ Started(t, c, {o})
  BY <1>1
<1>3. owned[t][o] > 0
  BY DEF Publish, Has
<1>4. QED
  BY <1>1, <1>2, <1>3, HandStep

(* CellWrite, without a mark walk.                                         *)
LEMMA WriteStep ==
  ASSUME Typed, Typed', NEW own, NEW val, Inv(own, val), NEW t \in Thread, NEW o \in Object,
         NEW a \in Object \cup {Nil}, owned[t][o] > 0, tag[o] = "ref", a # Nil => owned[t][a] > 0,
         NEW e \in Item, e.op = "swap", e.v = o, e.x = a, Started(t, <<e>>, {a}),
         IsShared(rc[o]) => a = Nil
  PROVE  Inv(own, val)'
<1>1. PICK c : c = <<e>>
  OBVIOUS
<1>2. Items(c) = {e} /\ Started(t, c, {a})
  BY <1>1, List1
<1>3. \A q \in Object : IncIn(c, q) + (IF q \in {a} THEN 1 ELSE 0) = Tok(c, q)
  BY <1>1, Single DEF Tok1, HoldOps, MoveOps, IncOps
<1>4. Calm(t, <<>>, <<>>, c) /\ Items(<<>>) = {} /\ rc' = rc
  BY <1>2, CalmBegin
<1>5. Live(o) /\ own[o] \in {t, Nil} /\ (a # Nil => Live(a) /\ own[a] \in {t, Nil})
  BY Holding
<1>6. Marked(own)'
  <2>1. Owner(own) /\ Marked(own) /\ own \in [Object -> Thread \cup {Nil}]
    BY DEF Inv
  <2>2. \A p \in Object : ~Shades(<<>>, p) /\ ~Breaks(c, p)
    BY <1>2, <1>4 DEF Shades, Breaks
  <2>3. \A i \in Items(c) :
               /\ i.op = "give" => IsShared(rc'[i.v]) \/ Shades(c, i.v)
               /\ i.op = "swap" =>
                    /\ Items(<<>>) = {}
                    /\ i.x # Nil /\ IsShared(rc'[i.v]) => IsShared(rc'[i.x]) \/ Shades(c, i.x)
                    /\ (\E d \in Items(c) : d.op = "shade") => IsShared(rc'[i.v])
               /\ i.op = "shade" =>
                    IF i.k = ""
                    THEN \E d \in Items(<<>>) \cup Items(c) : (d.op = "give" /\ d.v = i.v) \/ (d.op = "swap" /\ d.x = i.v)
                    ELSE \E p \in Fields(i.v) : own[p] = t
               /\ i.op \in {"markLock", "markUnlock"} =>
                    \E d \in Items(c) : (d.op = "give" /\ d.v = i.v) \/ (d.op = "swap" /\ d.x = i.v)
    BY <1>2, <1>4
  <2>4. \A p \in Object : IsShared(rc'[p]) <=> IsShared(rc[p])
    BY <1>4
  <2>5. QED
    BY <2>1, <2>2, <2>3, <2>4, <1>4, MarkedKeep DEF ItemsMarked
<1>7. \A i \in Items(c) : /\ i.op \in PlainOps /\ i.op # "cellUnlock" /\ i.op # "dup"
                          /\ i.op \in {"get", "swap"} => tag[i.v] = "ref"
  BY <1>2 DEF PlainOps
<1>8. \A i \in Items(c) : \A q \in Object : Touch(i, q) => Live(q) /\ own[q] \in {t, Nil}
  BY <1>2, <1>5, Numbers DEF Touch, MoveOps
<1>9. QED
  BY <1>2, <1>3, <1>6, <1>7, <1>8, PlainBegin

(* CellWrite.                                                              *)
LEMMA CellWriteStep ==
  ASSUME Typed, Typed', NEW own, NEW val, Inv(own, val), NEW t \in Thread, NEW o \in Object,
         NEW a \in Object \cup {Nil}, CellWrite(t, o, a)
  PROVE  Inv(own, val)'
<1>1. owned[t][o] > 0 /\ tag[o] = "ref" /\ (a # Nil => owned[t][a] > 0)
  BY DEF CellWrite, Has
<1>2. PICK e \in Item : Exchanges(t, o, a, e)
  BY CellWriteBegin
<1>3. e.op = "swap" /\ e.v = o /\ e.x = a
  BY <1>2 DEF Exchanges
<1>4. CASE (IsShared(rc[o]) => a = Nil) /\ Started(t, <<e>>, {a})
  BY <1>1, <1>3, <1>4, WriteStep
<1>5. ASSUME IsShared(rc[o]), a # Nil, NEW c, WithMark(c, a, e), Started(t, c, {a}) PROVE Inv(own, val)'
  <2>1. a \in Object
    BY <1>5
  <2>2. QED
    BY <2>1, <1>1, <1>3, <1>5, HandStep
<1>6. QED
  BY <1>2, <1>4, <1>5 DEF Exchanges

(* A constructor that only one reference keeps is rewritten, after its     *)
(* field has been dropped or with the field as the new argument.           *)
LEMMA TakeStep ==
  ASSUME Typed, Typed', NEW own, NEW val, Inv(own, val), NEW t \in Thread, NEW o \in Object,
         owned[t][o] > 0, tag[o] = "ctor", rc[o] = 1, NEW c, NEW gone, Started(t, c, gone),
         \E e \in Items(c) : e.op = "rewrite" /\ e.v = o,
         \A e \in Items(c) :
           \/ e.op = "rewrite" /\ e.v = o /\ (e.x # Nil => Live(e.x) /\ own[e.x] \in {t, Nil})
           \/ e.op = "drop" /\ e.v = field[o] /\ e.v # Nil,
         \A q \in Object : (IF q \in gone THEN 1 ELSE 0) + (IF q = field[o] THEN 1 ELSE 0) = Tok(c, q)
  PROVE  Inv(own, val)'
<1>1. PICK f : f = field[o]
  OBVIOUS
<1>2. /\ Live(o) /\ Sound(o) /\ Mentions(t, o)
      /\ f # Nil => f \in Object /\ Live(f) /\ f # o /\ own[f] \in {t, Nil}
  BY <1>1, Holding
<1>3. /\ Calm(t, <<>>, <<>>, c) /\ Items(<<>>) = {} /\ code[t] = <<>>
      /\ \A q \in Object : owned'[t][q] = IF q \in gone THEN owned[t][q] - 1 ELSE owned[t][q]
      /\ rc' = rc /\ cellLock' = cellLock /\ tag' = tag
      /\ \A q \in Object : Tok(<<>>, q) = 0 /\ Tok(c, q) \in Nat /\ owned[t][q] \in Nat
  BY CalmBegin
<1>4. /\ Owner(own) /\ Marked(own) /\ Alive(own) /\ Values(val) /\ Balance(val) /\ Bounded /\ Freeing(val)
      /\ own \in [Object -> Thread \cup {Nil}] /\ val \in [Object -> 0..(2 * SHARED - 1)]
  BY DEF Inv
<1>5. ~IsShared(rc[o]) /\ own[o] = t /\ t # Nil /\ o # Nil
  <2>1. ~IsShared(rc[o])
    BY Numbers DEF IsShared, SHARED
  <2>2. QED
    BY <2>1, <1>2, <1>4, LocalOwner, Numbers
<1>6. val[o] = 1
  <2>1. ~Has1(t, "store", o)
    BY <1>3 DEF Has1, Parts
  <2>2. QED
    BY <2>1, <1>2, <1>4, Settled
<1>7. /\ \A p \in Object : Breaks(c, p) <=> p = o
      /\ \A p \in Object : ~Shades(<<>>, p) /\ ~Dies(<<>>, p) /\ ~Dies(c, p) /\ AddIn(c, p) = 0 /\ IncIn(c, p) = 0
      /\ \A p \in Object : IncIn(<<>>, p) = 0
  BY <1>3 DEF Breaks, Shades, Dies, AddIn, IncIn, DyingOps, IncOps
<1>8. \A e \in Items(c) : e.op \in {"rewrite", "drop"}
  OBVIOUS
<1>9. \A e \in Items(c) : \A q \in Object : Touch(e, q) => Live(q) /\ own[q] \in {t, Nil}
  <2>1. SUFFICES ASSUME NEW e \in Items(c), NEW q \in Object, Touch(e, q) PROVE Live(q) /\ own[q] \in {t, Nil}
    OBVIOUS
  <2>2. CASE e.op = "rewrite" /\ e.v = o /\ (e.x # Nil => Live(e.x) /\ own[e.x] \in {t, Nil})
    BY <2>1, <2>2, <1>2, <1>5, Numbers DEF Touch
  <2>3. CASE e.op = "drop" /\ e.v = field[o] /\ e.v # Nil
    BY <2>1, <2>3, <1>1, <1>2 DEF Touch, MoveOps
  <2>4. QED
    BY <2>2, <2>3
<1>10. \A q \in Object : owned'[t][q] > 0 => Live(q) /\ own[q] \in {t, Nil}
  <2>1. ASSUME NEW q \in Object, owned'[t][q] > 0 PROVE owned[t][q] > 0
    BY <2>1, <1>3
  <2>2. QED
    BY <2>1, Holding
<1>11. Owner(own)'
  <2>1. \A e \in Items(c) :
           /\ e.op \in {"store", "rewrite"} => own[e.v] = t /\ ~IsShared(rc'[e.v])
           /\ e.op \in {"cas", "add", "saturate"} => IsShared(rc'[e.v])
           /\ e.op = "cas" => e.w \in (SHARED + 1)..(SHARED + COUNT_MASK)
    BY <1>3, <1>5
  <2>2. \A p \in Object : IsShared(rc'[p]) <=> IsShared(rc[p])
    BY <1>3
  <2>3. QED
    BY <2>1, <2>2, <1>3, <1>4, <1>9, <1>10, OwnerKeep
<1>12. Marked(own)'
  <2>1. \A p \in Object : IsShared(rc'[p]) <=> IsShared(rc[p])
    BY <1>3
  <2>2. \A e \in Items(c) : e.op \notin {"give", "swap", "shade", "markLock", "markUnlock"}
    BY <1>8
  <2>3. \A p \in Object : Breaks(c, p) =>
          own[p] \in {t, Nil} /\ \A e \in Items(<<>>) \cup Items(c) : e.op # "shade"
    BY <1>3, <1>5, <1>7, <1>8
  <2>4. \A p \in Object : ~Shades(<<>>, p)
    BY <1>7
  <2>5. QED
    BY <2>1, <2>2, <2>3, <2>4, <1>3, <1>4, MarkedKeep DEF ItemsMarked
<1>13. Alive(own)'
  <2>1. \A p \in Object : Breaks(c, p) => \A u \in Thread : u # t => ~Keeps(own, u, p)
    BY <1>5, <1>7 DEF Keeps
  <2>2. \A e \in Items(c) :
           /\ e.op \in {"get", "swap", "cellUnlock"} => tag[e.v] = "ref"
           /\ e.op = "cellUnlock" => cellLock'[e.v] = t
           /\ e.op = "rewrite" => tag[e.v] = "ctor"
    OBVIOUS
  <2>3. \A e \in Items(c) : e.op \notin IncOps
    BY <1>8 DEF IncOps
  <2>4. QED
    BY <2>1, <2>2, <2>3, <1>3, <1>4, <1>9, <1>10, AliveKeep
<1>14. Values(val)'
  <2>1. \A q \in Object : rc'[q] = rc[q] /\ \A e \in Items(<<>>) : ~(e.op = "store" /\ e.v = q)
    BY <1>3
  <2>2. QED
    BY <2>1, <1>3, <1>4, <1>8, ValuesKeep
<1>15. Balance(val)'
  <2>1. \A q \in Object : Count(val[q]) \in Nat
    BY <1>4, Words
  <2>2. ASSUME NEW q \in Object PROVE Even(t, <<>>, c, q, val, val)
    <3>1. Fields(q)' = Fields(q) \ {o}
      BY <1>3, <1>7, BrokenKeep DEF Fields
    <3>2. IsFiniteSet(Fields(q))
      BY <1>4 DEF Balance
    <3>3. o \in Fields(q) <=> q = field[o]
      BY <1>2 DEF Fields
    <3>4. Cardinality(Fields(q)) \in Nat /\ Cardinality(Fields(q)') \in Nat
      BY <3>1, <3>2, FS_CardinalityType, FS_RemoveElement
    <3>5. Cardinality(Fields(q)) = Cardinality(Fields(q)') + (IF q = field[o] THEN 1 ELSE 0)
      <4>1. CASE o \in Fields(q)
        <5>1. Cardinality(Fields(q) \ {o}) = Cardinality(Fields(q)) - 1
          BY <4>1, <3>2, FS_RemoveElement
        <5>2. Cardinality(Fields(q)') = Cardinality(Fields(q)) - 1
          BY <5>1, <3>1
        <5>3. q = field[o]
          BY <4>1, <3>3
        <5>4. QED
          BY <5>2, <5>3, <3>4
      <4>2. CASE o \notin Fields(q)
        <5>1. Fields(q)' = Fields(q)
          BY <4>2, <3>1
        <5>2. QED
          BY <5>1, <4>2, <3>3, <3>4
      <4>3. QED
        BY <4>1, <4>2
    <3>6. owned[t][q] = owned'[t][q] + (IF q \in gone THEN 1 ELSE 0) /\ owned'[t][q] \in Nat
      <4>1. owned'[t][q] \in Nat
        BY DEF Typed, TypeOK
      <4>2. QED
        BY <4>1, <1>3
    <3> DEFINE g == IF q \in gone THEN 1 ELSE 0
               h == IF q = field[o] THEN 1 ELSE 0
    <3>7. /\ g \in Nat /\ h \in Nat /\ g + h = Tok(c, q)
          /\ owned[t][q] = owned'[t][q] + g /\ owned'[t][q] \in Nat
          /\ Cardinality(Fields(q)) = Cardinality(Fields(q)') + h
      BY <3>5, <3>6
    <3> HIDE DEF g, h
    <3>8. Count(val[q]) + IncIn(c, q) + owned[t][q] + Tok(<<>>, q) + Cardinality(Fields(q))
            = Count(val[q]) + IncIn(<<>>, q) + owned'[t][q] + Tok(c, q) + Cardinality(Fields(q)')
      <4>1. Tok(<<>>, q) = 0 /\ IncIn(c, q) = 0 /\ IncIn(<<>>, q) = 0 /\ Count(val[q]) \in Nat
        BY <2>1, <1>3, <1>7
      <4>2. Tok(c, q) \in Nat /\ Cardinality(Fields(q)') \in Nat
        <5>1. g + h \in Nat
          BY ONLY <3>7
        <5>2. QED
          BY <5>1, <3>4, <3>7
      <4>3. QED
        BY SMTT(30), <4>1, <4>2, <3>7
    <3>9. QED
      BY <3>8 DEF Even
  <2>3. QED
    BY <2>1, <2>2, <1>3, <1>4, BalanceKeep
<1>16. Bounded'
  <2>1. \A q \in Object : Fitting(t, <<>>, c, q)
    BY <1>3, <1>7 DEF Fitting
  <2>2. QED
    BY <2>1, <1>3, <1>4, BoundedKeep
<1>17. Freeing(val)'
  <2>1. \A q \in Object : Tidy(t, <<>>, c, q, val, val)
    BY <1>7 DEF Tidy
  <2>2. \A e \in Items(c) : e.op = "rewrite" => val[e.v] = 1
    BY <1>6
  <2>3. QED
    BY <2>1, <2>2, <1>3, <1>4, FreeingKeep
<1>18. QED
  BY <1>4, <1>11, <1>12, <1>13, <1>14, <1>15, <1>16, <1>17 DEF Inv

(* ReuseMoved.                                                             *)
LEMMA ReuseMovedStep ==
  ASSUME Typed, Typed', NEW own, NEW val, Inv(own, val), NEW t \in Thread, NEW o \in Object, ReuseMoved(t, o)
  PROVE  Inv(own, val)'
<1>1. tag[o] = "ctor" /\ Has(t, o) /\ owned[t][o] > 0
  BY DEF ReuseMoved, Has
<1>2. PICK c : Renews(t, o, c)
  BY ReuseMovedBegin
<1>3. Started(t, c, {o})
  BY <1>2 DEF Renews
<1>4. ASSUME rc[o] = 1, NEW e \in Item, c = <<e>>, e.op = "rewrite", e.v = o, e.x = field[o]
      PROVE  Inv(own, val)'
  <2>1. Items(c) = {e}
    BY <1>4, List1
  <2>2. \A q \in Object : (IF q \in {o} THEN 1 ELSE 0) + (IF q = field[o] THEN 1 ELSE 0) = Tok(c, q)
    <3>1. ASSUME NEW q \in Object
          PROVE  (IF q \in {o} THEN 1 ELSE 0) + (IF q = field[o] THEN 1 ELSE 0) = Tok(c, q)
      <4>1. Tok(c, q) = Tok1(e, q)
        BY <1>4, Single
      <4>2. Tok1(e, q) = (IF o = q THEN 1 ELSE 0) + (IF field[o] = q THEN 1 ELSE 0)
        BY <1>4 DEF Tok1, HoldOps, MoveOps
      <4>3. QED
        BY <4>1, <4>2
    <3>2. QED
      BY <3>1
  <2>3. field[o] # Nil => Live(field[o]) /\ own[field[o]] \in {t, Nil}
    BY <1>1, Holding
  <2>4. QED
    BY <1>1, <1>3, <1>4, <2>1, <2>2, <2>3, TakeStep
<1>5. ASSUME NEW d \in Item, NEW e \in Item, d.op = "drop", d.v = o, e.op = "alloc", e.v = field[o],
             \/ field[o] = Nil /\ c = <<d, e>>
             \/ field[o] # Nil /\ \E a \in Item : c = <<a, d, e>> /\ a.op = "dup" /\ a.v = field[o]
      PROVE  Inv(own, val)'
  BY <1>1, <1>3, <1>5, MovedStep
<1>6. QED
  BY <1>2, <1>4, <1>5 DEF Renews

(* ReuseArg.                                                               *)
LEMMA ReuseArgStep ==
  ASSUME Typed, Typed', NEW own, NEW val, Inv(own, val), NEW t \in Thread, NEW o \in Object,
         NEW a \in Object \cup {Nil}, ReuseArg(t, o, a)
  PROVE  Inv(own, val)'
<1>1. tag[o] = "ctor" /\ Has(t, o) /\ owned[t][o] > 0 /\ (a = Nil \/ Has(t, a)) /\ a # o
  BY DEF ReuseArg, Has
<1>2. PICK c : Replaces(t, o, a, c)
  BY ReuseArgBegin
<1>3. Started(t, c, {o, a})
  BY <1>2 DEF Replaces
<1>4. a # Nil => Live(a) /\ own[a] \in {t, Nil}
  BY <1>1, Holding DEF Has
<1>5. ASSUME rc[o] = 1, NEW e \in Item, e.op = "rewrite", e.v = o, e.x = a, field[o] = Nil, c = <<e>>
      PROVE  Inv(own, val)'
  <2>1. Items(c) = {e}
    BY <1>5, List1
  <2>2. \A q \in Object : (IF q \in {o, a} THEN 1 ELSE 0) + (IF q = field[o] THEN 1 ELSE 0) = Tok(c, q)
    <3>1. ASSUME NEW q \in Object
          PROVE  (IF q \in {o, a} THEN 1 ELSE 0) + (IF q = field[o] THEN 1 ELSE 0) = Tok(c, q)
      <4>1. Tok(c, q) = Tok1(e, q)
        BY <1>5, Single
      <4>2. Tok1(e, q) = (IF o = q THEN 1 ELSE 0) + (IF a = q THEN 1 ELSE 0)
        BY <1>5 DEF Tok1, HoldOps, MoveOps
      <4>3. QED
        BY <4>1, <4>2, <1>1, <1>5, Numbers
    <3>2. QED
      BY <3>1
  <2>3. QED
    BY <1>1, <1>3, <1>4, <1>5, <2>1, <2>2, TakeStep
<1>6. ASSUME rc[o] = 1, NEW e \in Item, e.op = "rewrite", e.v = o, e.x = a, field[o] # Nil,
             NEW d \in Item, c = <<d, e>>, d.op = "drop", d.v = field[o]
      PROVE  Inv(own, val)'
  <2>1. Items(c) = {d, e}
    BY <1>6, List2
  <2>2. \A q \in Object : (IF q \in {o, a} THEN 1 ELSE 0) + (IF q = field[o] THEN 1 ELSE 0) = Tok(c, q)
    <3>1. ASSUME NEW q \in Object
          PROVE  (IF q \in {o, a} THEN 1 ELSE 0) + (IF q = field[o] THEN 1 ELSE 0) = Tok(c, q)
      <4>1. Tok(c, q) = Tok1(d, q) + Tok1(e, q)
        BY <1>6, Double
      <4>2. Tok1(e, q) = (IF o = q THEN 1 ELSE 0) + (IF a = q THEN 1 ELSE 0)
        BY <1>6 DEF Tok1, HoldOps, MoveOps
      <4>3. Tok1(d, q) = IF field[o] = q THEN 1 ELSE 0
        BY <1>6 DEF Tok1, HoldOps, MoveOps
      <4>4. QED
        BY <4>1, <4>2, <4>3, <1>1
    <3>2. QED
      BY <3>1
  <2>3. QED
    BY <1>1, <1>3, <1>4, <1>6, <2>1, <2>2, TakeStep
<1>7. ASSUME NEW d \in Item, NEW e \in Item, c = <<d, e>>, d.op = "drop", d.v = o, e.op = "alloc", e.v = a
      PROVE  Inv(own, val)'
  BY <1>1, <1>3, <1>7, ArgStep
<1>8. QED
  BY <1>2, <1>5, <1>6, <1>7 DEF Replaces

(* The operations of the program.                                          *)
LEMMA ProgramStep ==
  ASSUME Typed, Typed', NEW own, NEW val, Inv(own, val), NEW t \in Thread, Program(t)
  PROVE  Inv(own, val)'
<1>1. ASSUME NEW o \in Object, Copy(t, o) \/ Release(t, o) \/ Project(t, o) \/ CellRead(t, o) \/ ReuseMoved(t, o)
      PROVE  Inv(own, val)'
  BY <1>1, CopyStep, ReleaseStep, ProjectStep, CellReadStep, ReuseMovedStep
<1>2. ASSUME NEW o \in Object, NEW u \in Thread, Publish(t, u, o) PROVE Inv(own, val)'
  BY <1>2, PublishStep
<1>3. ASSUME NEW o \in Object, NEW a \in Object \cup {Nil}, CellWrite(t, o, a) PROVE Inv(own, val)'
  BY <1>3, CellWriteStep
<1>4. ASSUME NEW o \in Object, NEW a \in Object \cup {Nil}, ReuseArg(t, o, a) PROVE Inv(own, val)'
  BY <1>4, ReuseArgStep
<1>5. ASSUME NEW a \in Object \cup {Nil}, NEW k \in {"ctor", "ref"}, Build(t, a, k) PROVE Inv(own, val)'
  BY <1>5, BuildStep
<1>6. QED
  BY <1>1, <1>2, <1>3, <1>4, <1>5 DEF Program

-----------------------------------------------------------------------------
(* Steps that end a value, fill it or hand it over.                        *)

(* The micro-operations of the threads before and after h has been         *)
(* executed.                                                               *)
LEMMA Executed ==
  ASSUME Typed, NEW t \in Thread, NEW r, NEW h \in Item, NEW c, Turn(t, r, <<h>>, c)
  PROVE  /\ Parts(t) = {h} \cup Items(r) /\ Parts(t)' = Items(r) \cup Items(c)
         /\ \A u \in Thread : u # t => Parts(u)' = Parts(u)
         /\ \A u \in Thread : \A e \in Parts(u) : e \in Item
         /\ Items(c) \subseteq Item
<1>1. Items(<<h>>) = {h}
  BY List1
<1>2. \A u \in Thread : \A e \in Parts(u) : e \in Item
  BY HeldNat DEF Typed, TypeOK, Parts, Items
<1>3. QED
  BY <1>1, <1>2, Parted

(* Who increments stays the same when no increment begins or ends.         *)
LEMMA SameIncs ==
  ASSUME Typed, NEW t \in Thread, NEW r, NEW h \in Item, NEW c, Turn(t, r, <<h>>, c),
         h.op \notin IncOps, \A e \in Items(c) : e.op \notin IncOps, NEW o
  PROVE  Incs(o)' = Incs(o) /\ Adds(o)' = Adds(o)
<1>1. ASSUME NEW u \in Thread
      PROVE  /\ (\E e \in Parts(u)' : e.op \in IncOps /\ e.v = o) <=> (\E e \in Parts(u) : e.op \in IncOps /\ e.v = o)
             /\ (\E e \in Parts(u)' : e.op = "add" /\ e.v = o) <=> (\E e \in Parts(u) : e.op = "add" /\ e.v = o)
  <2>0. /\ Parts(t) = {h} \cup Items(r) /\ Parts(t)' = Items(r) \cup Items(c)
        /\ \A w \in Thread : w # t => Parts(w)' = Parts(w)
    BY Executed
  <2>1. CASE u = t
    <3>1. /\ Parts(u)' = Items(r) \cup Items(c) /\ Parts(u) = {h} \cup Items(r)
          /\ h.op # "add" /\ \A e \in Items(c) : e.op # "add"
      BY <2>0, <2>1 DEF IncOps
    <3>2. QED
      BY <3>1
  <2>2. CASE u # t
    BY <2>0, <2>2
  <2>3. QED
    BY <2>1, <2>2
<1>2. QED
  BY <1>1 DEF Incs, Adds, Has1

(* Poison: nobody mentions the value any more.                             *)
LEMMA PoisonStep ==
  ASSUME Typed, Typed', NEW own, NEW val, Inv(own, val), NEW t \in Thread, Poison(t)
  PROVE  \E n : Inv(own, n)'
<1>1. /\ Do(t, "poison") /\ Then(t, <<>>) /\ UNCHANGED <<field, owned, markLock, cellLock, ops>>
      /\ tag' = [tag EXCEPT ![V(t)] = "freed"] /\ rc' = [rc EXCEPT ![V(t)] = 0]
  BY DEF Poison, SetRc
<1>2. PICK v, h, r : v = V(t) /\ h = Head(code[t]) /\ r = Rest(t)
  OBVIOUS
<1>3. /\ h \in Item /\ h.op = "poison" /\ h.v = v /\ v \in Object /\ h \in Parts(t)
  BY <1>1, <1>2, Ready
<1>4. /\ Zero(val, v) /\ Incs(v) = {} /\ Fields(v) = {}
      /\ \A u \in Thread : Held(u, v) = 0 /\ owned[u][v] = 0
      /\ \A e \in Items(r) : ~Touch(e, v)
      /\ \A u \in Thread : Mentions(u, v) => u = t
  BY <1>1, <1>2, Untouched
<1>5. Turn(t, r, <<h>>, <<>>)
  BY <1>1, <1>2, DoneTurn DEF Do
<1>6. /\ Parts(t) = {h} \cup Items(r) /\ Parts(t)' = Items(r)
      /\ \A u \in Thread : u # t => Parts(u)' = Parts(u)
      /\ \A u \in Thread : \A e \in Parts(u) : e \in Item
  <2>1. PICK c : c = <<>>
    OBVIOUS
  <2>2. Turn(t, r, <<h>>, c) /\ Items(c) = {}
    BY <2>1, <1>5, Nothing
  <2>3. /\ Parts(t) = {h} \cup Items(r) /\ Parts(t)' = Items(r) \cup Items(c)
        /\ \A u \in Thread : u # t => Parts(u)' = Parts(u)
        /\ \A u \in Thread : \A e \in Parts(u) : e \in Item
    BY <1>3, <2>2, Executed
  <2>4. QED
    BY <2>2, <2>3
<1>7. /\ tag \in [Object -> Tags] /\ rc \in [Object -> 0..(2 * SHARED - 1)]
      /\ field \in [Object -> Object \cup {Nil}] /\ owned \in [Thread -> [Object -> Nat]]
  BY DEF Typed, TypeOK
<1>8. /\ tag'[v] = "freed" /\ rc'[v] = 0
      /\ \A p \in Object : p # v => tag'[p] = tag[p] /\ rc'[p] = rc[p]
      /\ field' = field /\ owned' = owned /\ cellLock' = cellLock
  BY <1>1, <1>2, <1>3, <1>7
<1>9. ASSUME NEW u \in Thread, NEW e \in Parts(u)'
      PROVE  e \in Parts(u) /\ e \in Item /\ ~Touch(e, v) /\ e.v # v
  <2>1. CASE u = t
    BY <2>1, <1>4, <1>6 DEF Touch
  <2>2. CASE u # t
    <3>1. e \in Parts(u) /\ e \in Item
      BY <2>2, <1>6
    <3>2. ~Mentions(u, v)
      BY <2>2, <1>4
    <3>3. QED
      BY <3>1, <3>2 DEF Mentions, Touch
  <2>3. QED
    BY <2>1, <2>2
<1>10. \A u \in Thread : \A e \in Parts(u) : e.op # "poison" \/ e.v # v => e \in Parts(u)'
  BY <1>3, <1>6
<1>11. \A u \in Thread : \A o \in Object : Mentions(u, o)' => Mentions(u, o) /\ o # v
  <2>1. SUFFICES ASSUME NEW u \in Thread, NEW o \in Object, Mentions(u, o)' PROVE Mentions(u, o) /\ o # v
    OBVIOUS
  <2>2. CASE owned'[u][o] > 0
    <3>1. owned[u][o] > 0
      BY <2>2, <1>8
    <3>2. o # v
      BY <3>1, <1>4
    <3>3. QED
      BY <3>1, <3>2 DEF Mentions
  <2>3. ASSUME NEW e \in Parts(u)', Touch(e, o) PROVE Mentions(u, o) /\ o # v
    BY <2>3, <1>9 DEF Mentions
  <2>4. QED
    BY <2>1, <2>2, <2>3 DEF Mentions, Touch
<1>12. /\ \A p \in Object : Live(p)' <=> Live(p) /\ p # v
       /\ \A p \in Object : Sound(p)' <=> Sound(p)
       /\ \A o \in Object : Fields(o)' = Fields(o)
       /\ \A p \in Object : Sound(p) => p # v /\ field[p] # v
  <2>1. \A p \in Object : Live(p)' <=> Live(p) /\ p # v
    BY <1>8 DEF Live
  <2>2. Broken(v)
    BY <1>3 DEF Broken
  <2>3. ASSUME NEW p \in Object, p # v PROVE Broken(p)' <=> Broken(p)
    <3>1. ASSUME Broken(p)' PROVE Broken(p)
      BY <3>1, <1>9 DEF Broken
    <3>2. ASSUME NEW u \in Thread, NEW e \in Parts(u), e.op \in {"poison", "rewrite"}, e.v = p PROVE Broken(p)'
      <4>1. e \in Parts(u)'
        BY <3>2, <2>3, <1>10
      <4>2. QED
        BY <4>1, <3>2 DEF Broken
    <3>3. QED
      BY <3>1, <3>2 DEF Broken
  <2>4. \A p \in Object : Sound(p)' <=> Sound(p)
    BY <2>1, <2>2, <2>3 DEF Sound
  <2>5. \A o \in Object : Fields(o)' = Fields(o)
    BY <2>4, <1>8 DEF Fields
  <2>6. \A p \in Object : Sound(p) => p # v /\ field[p] # v
    BY <2>2, <1>3, <1>4 DEF Sound, Fields
  <2>7. QED
    BY <2>1, <2>4, <2>5, <2>6
<1>13. \A u \in Thread : \A o \in Object : Held(u, o)' = Held(u, o)
  <2>1. SUFFICES ASSUME NEW u \in Thread, NEW o \in Object PROVE Held(u, o)' = Held(u, o)
    OBVIOUS
  <2>2. Tok(<<h>>, o) = 0 /\ Tok(<<>>, o) = 0
    BY <1>3, Single, Empty DEF Tok1, HoldOps, MoveOps
  <2>3. CASE u = t
    BY <2>2, <2>3, <1>5, <1>8, HeldTurn
  <2>4. CASE u # t
    BY <2>4, <1>5, <1>8, HeldTurn
  <2>5. QED
    BY <2>3, <2>4
<1>14. \A o \in Object : Incs(o)' = Incs(o) /\ Adds(o)' = Adds(o)
  <2>1. h.op \notin IncOps /\ \A e \in Items(<<>>) : e.op \notin IncOps
    BY <1>3, Nothing DEF IncOps
  <2>2. QED
    BY <2>1, <1>3, <1>5, SameIncs
<1>15. /\ Owner(own) /\ Marked(own) /\ Alive(own) /\ Values(val) /\ Balance(val) /\ Bounded /\ Freeing(val)
       /\ own \in [Object -> Thread \cup {Nil}] /\ val \in [Object -> 0..(2 * SHARED - 1)]
  BY DEF Inv
<1>16. PICK n : n = [val EXCEPT ![v] = 0]
  OBVIOUS
<1>17. /\ n \in [Object -> 0..(2 * SHARED - 1)] /\ n[v] = 0
       /\ \A p \in Object : p # v => n[p] = val[p]
  BY <1>3, <1>15, <1>16, Numbers
<1>18. Owner(own)'
  <2>1. \A u \in Thread : \A o \in Object : Mentions(u, o)' => own[o] \in {u, Nil}
    BY <1>11, <1>15 DEF Owner
  <2>2. \A p \in Object : tag'[p] # "none" /\ field'[p] # Nil => own[field'[p]] \in {own[p], Nil}
    <3>1. tag[v] # "none"
      BY <1>1, <1>2, Acting
    <3>2. QED
      BY <3>1, <1>8, <1>15 DEF Owner
  <2>3. \A o \in Object : Live(o)' /\ own[o] = Nil => IsShared(rc'[o])
    BY <1>8, <1>12, <1>15 DEF Owner
  <2>4. ASSUME NEW u \in Thread, NEW e \in Parts(u)'
        PROVE  /\ e.op \in {"store", "rewrite"} => own[e.v] = u /\ ~IsShared(rc'[e.v])
               /\ e.op \in {"cas", "add", "saturate"} => IsShared(rc'[e.v])
               /\ e.op = "cas" => e.w \in (SHARED + 1)..(SHARED + COUNT_MASK)
    <3>1. e \in Parts(u) /\ e.v # v /\ (e.op # "alloc" => e.v \in Object)
      BY <1>9, ItemFields
    <3>2. e.op # "alloc" => rc'[e.v] = rc[e.v]
      BY <3>1, <1>8
    <3>3. /\ e.op \in {"store", "rewrite"} => own[e.v] = u /\ ~IsShared(rc[e.v])
          /\ e.op \in {"cas", "add", "saturate"} => IsShared(rc[e.v])
          /\ e.op = "cas" => e.w \in (SHARED + 1)..(SHARED + COUNT_MASK)
      BY <3>1, <1>15 DEF Owner
    <3>4. QED
      BY <3>2, <3>3
  <2>5. QED
    BY <2>1, <2>2, <2>3, <2>4 DEF Owner
<1>19. Marked(own)'
  <2>1. ASSUME NEW p \in Object, Sound(p)', IsShared(rc'[p]), field'[p] # Nil
        PROVE  IsShared(rc'[field'[p]]) \/ (own[p] # Nil /\ \E e \in Parts(own[p])' : e.op = "shade" /\ e.v = field'[p])
    <3>1. Sound(p) /\ p # v /\ field[p] # v /\ field[p] \in Object
      BY <2>1, <1>7, <1>8, <1>12
    <3>2. rc'[p] = rc[p] /\ rc'[field[p]] = rc[field[p]]
      BY <3>1, <1>8
    <3>3. IsShared(rc[field[p]]) \/ (own[p] # Nil /\ \E e \in Parts(own[p]) : e.op = "shade" /\ e.v = field[p])
      BY <2>1, <3>1, <3>2, <1>8, <1>15 DEF Marked, Has1
    <3>4. own[p] # Nil => own[p] \in Thread
      BY <1>15
    <3>5. QED
      BY <3>2, <3>3, <3>4, <1>8, <1>10
  <2>2. ASSUME NEW u \in Thread, NEW o \in Object, Has1(u, "shade", o) PROVE Has1(u, "shade", o)'
    BY <2>2, <1>10 DEF Has1
  <2>3. ASSUME NEW u \in Thread, NEW o \in Object, Carries(u, o) PROVE Carries(u, o)'
    <3>1. PICK d \in Parts(u) : (d.op = "give" /\ d.v = o) \/ (d.op = "swap" /\ d.x = o)
      BY <2>3 DEF Carries
    <3>2. d \in Parts(u)'
      BY <3>1, <1>10
    <3>3. QED
      BY <3>1, <3>2 DEF Carries
  <2>4. ASSUME NEW u \in Thread, NEW e \in Parts(u)'
        PROVE  /\ e.op = "give" => IsShared(rc'[e.v]) \/ Has1(u, "shade", e.v)'
               /\ e.op = "swap" /\ e.x # Nil /\ IsShared(rc'[e.v]) =>
                    IsShared(rc'[e.x]) \/ Has1(u, "shade", e.x)'
               /\ e.op = "swap" /\ (\E d \in Parts(u)' : d.op = "shade") => IsShared(rc'[e.v])
               /\ e.op = "shade" =>
                    IF e.k = "" THEN Carries(u, e.v)' ELSE \E p \in Fields(e.v)' : own[p] = u
               /\ e.op \in {"markLock", "markUnlock"} => Carries(u, e.v)'
    <3>1. e \in Parts(u) /\ ~Touch(e, v) /\ e.v # v /\ (e.op # "alloc" => e.v \in Object)
      BY <1>9, ItemFields
    <3>2. e.op \in {"give", "swap", "shade", "markLock", "markUnlock"} => e.v \in Object /\ rc'[e.v] = rc[e.v]
      BY <3>1, <1>8
    <3>3. e.op = "swap" /\ e.x # Nil => e.x \in Object /\ rc'[e.x] = rc[e.x]
      BY <3>1, <1>8, PartMentions DEF Touch, MoveOps
    <3>4. (\E d \in Parts(u)' : d.op = "shade") => \E d \in Parts(u) : d.op = "shade"
      BY <1>9
    <3>5. /\ e.op = "give" => IsShared(rc[e.v]) \/ Has1(u, "shade", e.v)
          /\ e.op = "swap" /\ e.x # Nil /\ IsShared(rc[e.v]) => IsShared(rc[e.x]) \/ Has1(u, "shade", e.x)
          /\ e.op = "swap" /\ (\E d \in Parts(u) : d.op = "shade") => IsShared(rc[e.v])
          /\ e.op = "shade" => IF e.k = "" THEN Carries(u, e.v) ELSE \E p \in Fields(e.v) : own[p] = u
          /\ e.op \in {"markLock", "markUnlock"} => Carries(u, e.v)
      BY <3>1, <1>15 DEF Marked
    <3>6. e.op = "shade" => Fields(e.v)' = Fields(e.v)
      BY <3>2, <1>12
    <3>7. QED
      BY <3>2, <3>3, <3>4, <3>5, <3>6, <2>2, <2>3
  <2>5. QED
    BY <2>1, <2>4 DEF Marked, Has1
<1>20. Alive(own)'
  <2>1. \A u \in Thread : \A o \in Object : Mentions(u, o)' => Live(o)'
    BY <1>11, <1>12, <1>15 DEF Alive
  <2>2. \A p \in Object : Sound(p)' /\ field'[p] # Nil => Live(field[p])'
    <3>1. SUFFICES ASSUME NEW p \in Object, Sound(p)', field'[p] # Nil PROVE Live(field[p])'
      OBVIOUS
    <3>2. Sound(p) /\ field[p] # v /\ field[p] # Nil /\ field[p] \in Object
      BY <3>1, <1>7, <1>8, <1>12
    <3>3. Live(field[p])
      BY <3>2, <1>15 DEF Alive
    <3>4. QED
      BY <3>2, <3>3, <1>8 DEF Live
  <2>3. ASSUME NEW u \in Thread, NEW o \in Object, u \in Incs(o)'
        PROVE  /\ \E e \in Parts(u)' : e.op \in HoldOps /\ e.v = o
               /\ owned'[u][o] > 0 \/ \E p \in Fields(o)' : Keeps(own, u, p)'
    <3>1. u \in Incs(o)
      BY <2>3, <1>14
    <3>2. /\ \E e \in Parts(u) : e.op \in HoldOps /\ e.v = o
          /\ owned[u][o] > 0 \/ \E p \in Fields(o) : Keeps(own, u, p)
      BY <3>1, <1>15 DEF Alive
    <3>3. \E e \in Parts(u)' : e.op \in HoldOps /\ e.v = o
      BY <3>2, <1>10 DEF HoldOps
    <3>4. ASSUME NEW p \in Fields(o), Keeps(own, u, p) PROVE p \in Fields(o)' /\ Keeps(own, u, p)'
      <4>1. p \in Object /\ p # v /\ p \in Fields(o)'
        BY <1>12 DEF Fields
      <4>2. tag'[p] = tag[p] /\ cellLock'[p] = cellLock[p] /\ Held(u, p)' = Held(u, p)
        BY <4>1, <1>8, <1>13
      <4>3. QED
        BY <3>4, <4>1, <4>2 DEF Keeps
    <3>5. QED
      BY <3>2, <3>3, <3>4, <1>8
  <2>4. ASSUME NEW u \in Thread, NEW e \in Parts(u)'
        PROVE  /\ e.op \in {"get", "swap", "cellUnlock"} => tag'[e.v] = "ref"
               /\ e.op = "cellUnlock" => cellLock'[e.v] = u
               /\ e.op = "rewrite" => tag'[e.v] = "ctor"
    <3>1. e \in Parts(u) /\ e.v # v /\ (e.op # "alloc" => e.v \in Object)
      BY <1>9, ItemFields
    <3>2. e.op # "alloc" => tag'[e.v] = tag[e.v]
      BY <3>1, <1>8
    <3>3. /\ e.op \in {"get", "swap", "cellUnlock"} => tag[e.v] = "ref"
          /\ e.op = "cellUnlock" => cellLock[e.v] = u
          /\ e.op = "rewrite" => tag[e.v] = "ctor"
      BY <3>1, <1>15 DEF Alive
    <3>4. QED
      BY <3>2, <3>3, <1>8
  <2>5. QED
    BY <2>1, <2>2, <2>3, <2>4 DEF Alive
<1>21. Values(n)'
  <2>1. ASSUME NEW o \in Object, rc'[o] # n[o] PROVE \E u \in Thread : Has1(u, "store", o)'
    <3>1. o # v /\ rc[o] # val[o]
      BY <2>1, <1>8, <1>17
    <3>2. PICK u \in Thread : Has1(u, "store", o)
      BY <3>1, <1>15 DEF Values
    <3>3. Has1(u, "store", o)'
      BY <3>2, <1>10 DEF Has1
    <3>4. QED
      BY <3>3
  <2>2. ASSUME NEW u \in Thread, NEW e \in Parts(u)', e.op = "store" PROVE n[e.v] = e.w
    <3>1. e \in Parts(u) /\ e.v # v /\ e.v \in Object
      BY <2>2, <1>9, ItemFields
    <3>2. QED
      BY <3>1, <2>2, <1>15, <1>17 DEF Values
  <2>3. QED
    BY <2>1, <2>2 DEF Values
<1>22. Count(n[v]) = Count(val[v]) /\ (IsSaturated(n[v]) <=> IsSaturated(val[v])) /\ Zero(n, v)
  <2>1. Count(0) = 0 /\ ~IsSaturated(0)
    <3>1. 0 \in 0..(2 * SHARED - 1) /\ 0 < SATURATED
      BY Numbers
    <3>2. QED
      BY <3>1, Words
  <2>2. QED
    BY <2>1, <1>4, <1>17 DEF Zero
<1>23. \A o \in Object : Zero(n, o) <=> Zero(val, o)
  BY <1>4, <1>17, <1>22 DEF Zero
<1>24. Balance(n)'
  <2>1. \A o \in Object : Count(n[o]) = Count(val[o]) /\ (IsSaturated(n[o]) <=> IsSaturated(val[o]))
    BY <1>17, <1>22
  <2>2. ASSUME NEW o \in Object PROVE [u \in Thread |-> Held(u, o)]' = [u \in Thread |-> Held(u, o)]
    BY <1>13
  <2>3. ASSUME NEW o \in Object PROVE Total([u \in Thread |-> Held(u, o)])' = Total([u \in Thread |-> Held(u, o)])
    BY <2>2 DEF Total
  <2>4. QED
    BY <2>1, <2>3, <1>12, <1>14, <1>15 DEF Balance
<1>25. Bounded'
  <2>1. ASSUME NEW o \in Object
        PROVE  IF IsShared(rc'[o])
               THEN rc'[o] + Cardinality(Adds(o)') <= SHARED + COUNT_MASK + Cardinality(Thread)
               ELSE rc'[o] <= SATURATED
    <3>1. CASE o = v
      BY <3>1, <1>8, Numbers DEF IsShared
    <3>2. CASE o # v
      <4>1. rc'[o] = rc[o] /\ Adds(o)' = Adds(o)
        BY <3>2, <1>8, <1>14
      <4>2. QED
        BY <4>1, <1>15 DEF Bounded
    <3>3. QED
      BY <3>1, <3>2
  <2>2. QED
    BY <2>1 DEF Bounded
<1>26. Freeing(n)'
  <2>1. ASSUME NEW u \in Thread, NEW e \in Parts(u)'
        PROVE  /\ e.op \in DyingOps => tag'[e.v] = "ctor" /\ Zero(n, e.v)
               /\ e.op = "rewrite" => n[e.v] = 1
    <3>1. e \in Parts(u) /\ e.v # v /\ (e.op # "alloc" => e.v \in Object)
      BY <1>9, ItemFields
    <3>2. e.op # "alloc" => tag'[e.v] = tag[e.v] /\ n[e.v] = val[e.v] /\ (Zero(n, e.v) <=> Zero(val, e.v))
      BY <3>1, <1>8, <1>17, <1>23
    <3>3. /\ e.op \in DyingOps => tag[e.v] = "ctor" /\ Zero(val, e.v)
          /\ e.op = "rewrite" => val[e.v] = 1
      BY <3>1, <1>15 DEF Freeing
    <3>4. QED
      BY <3>2, <3>3 DEF DyingOps
  <2>2. ASSUME NEW u \in Thread, NEW o \in Object PROVE Cnt(code'[u], Dying(o)) <= 1
    <3>1. Cnt(code[u], Dying(o)) <= 1
      BY <1>15 DEF Freeing
    <3>2. CASE u # t
      BY <3>1, <3>2, <1>5 DEF Turn
    <3>3. CASE u = t
      <4>1. /\ Cnt(code[t], Dying(o)) = Cnt(r, Dying(o)) + Cnt(<<h>>, Dying(o))
            /\ Cnt(code'[t], Dying(o)) = Cnt(r, Dying(o)) + Cnt(<<>>, Dying(o))
        BY <1>5 DEF Turn
      <4>2. r \in Seq(Item) /\ <<h>> \in Seq(Item)
        BY <1>5, Parted
      <4>3. Cnt(r, Dying(o)) \in Nat /\ Cnt(<<h>>, Dying(o)) \in Nat /\ Cnt(<<>>, Dying(o)) = 0
        BY <4>2, CntPositive, Nothing
      <4>4. QED
        BY <4>1, <4>3, <3>1, <3>3
    <3>4. QED
      BY <3>2, <3>3
  <2>3. ASSUME NEW u \in Thread, NEW w \in Thread, NEW d \in Parts(u)', NEW e \in Parts(w)',
               d.op \in DyingOps, e.op \in DyingOps, d.v = e.v
        PROVE  u = w
    <3>1. d \in Parts(u) /\ e \in Parts(w)
      BY <1>9
    <3>2. QED
      BY <3>1, <2>3, <1>15 DEF Freeing
  <2>4. ASSUME NEW o \in Object, tag'[o] = "ctor", Zero(n, o)
        PROVE  \E u \in Thread : \E e \in Parts(u)' : e.op \in DyingOps /\ e.v = o
    <3>1. o # v /\ tag[o] = "ctor" /\ Zero(val, o)
      BY <2>4, <1>8, <1>23
    <3>2. PICK u \in Thread : \E e \in Parts(u) : e.op \in DyingOps /\ e.v = o
      BY <3>1, <1>15 DEF Freeing
    <3>3. PICK e \in Parts(u) : e.op \in DyingOps /\ e.v = o
      BY <3>2
    <3>4. e \in Parts(u)'
      BY <3>1, <3>3, <1>10
    <3>5. QED
      BY <3>3, <3>4
  <2>5. QED
    BY <2>1, <2>2, <2>3, <2>4 DEF Freeing, Zero, Dying
<1>27. QED
  BY <1>15, <1>17, <1>18, <1>19, <1>20, <1>21, <1>24, <1>25, <1>26 DEF Inv

(* The last micro-operation of an operation makes p a value of the thread  *)
(* that holds x: p is new, or the constructor that is rewritten.           *)
LEMMA FillStep ==
  ASSUME Typed, Typed', NEW own, NEW val, Inv(own, val), NEW t \in Thread, NEW h \in Item, NEW c, c = <<>>,
         Turn(t, c, <<h>>, c), NEW p \in Object, NEW x, x # p,
         x # Nil => x \in Object /\ Live(x) /\ own[x] \in {t, Nil},
         h.op = "alloc" \/ (h.op = "rewrite" /\ h.v = p),
         own[p] = t, ~Sound(p), Incs(p) = {}, Fields(p) = {}, \A u \in Thread : u # t => ~Mentions(u, p),
         tag'[p] \in {"ctor", "ref"}, field'[p] = x, rc'[p] = 1, cellLock' = cellLock,
         \A q \in Object : q # p => /\ tag'[q] = tag[q] /\ field'[q] = field[q] /\ rc'[q] = rc[q]
                                    /\ owned'[t][q] = owned[t][q]
                                    /\ Tok(<<h>>, q) = IF q = x THEN 1 ELSE 0,
         \A u \in Thread : u # t => owned'[u] = owned[u],
         Total(HeldBy(p))' = 1
  PROVE  \E n : Inv(own, n)'
<1>1. /\ Items(c) = {} /\ Parts(t) = {h} /\ Parts(t)' = {}
      /\ \A u \in Thread : u # t => Parts(u)' = Parts(u)
      /\ \A u \in Thread : \A e \in Parts(u) : e \in Item
  <2>1. Items(c) = {}
    BY Nothing
  <2>2. /\ Parts(t) = {h} \cup Items(c) /\ Parts(t)' = Items(c) \cup Items(c)
        /\ \A u \in Thread : u # t => Parts(u)' = Parts(u)
        /\ \A u \in Thread : \A e \in Parts(u) : e \in Item
    BY Executed
  <2>3. QED
    BY <2>1, <2>2
<1>2. /\ Owner(own) /\ Marked(own) /\ Alive(own) /\ Values(val) /\ Balance(val) /\ Bounded /\ Freeing(val)
      /\ own \in [Object -> Thread \cup {Nil}] /\ val \in [Object -> 0..(2 * SHARED - 1)]
  BY DEF Inv
<1>3. h.op \notin IncOps /\ h.op \notin DyingOps /\ h.op \notin {"store", "shade", "add", "poison"} /\ t # Nil /\ p # Nil
  BY Numbers DEF IncOps, DyingOps
<1>4. ASSUME NEW u \in Thread, NEW e \in Parts(u)'
      PROVE  u # t /\ e \in Parts(u) /\ e \in Item /\ ~Touch(e, p) /\ e.v # p
  <2>1. u # t
    BY <1>1, <1>4
  <2>2. e \in Parts(u) /\ e \in Item
    BY <2>1, <1>1, <1>4
  <2>3. ~Mentions(u, p)
    BY <2>1
  <2>4. QED
    BY <2>1, <2>2, <2>3 DEF Mentions, Touch
<1>5. \A u \in Thread : u # t => \A e \in Parts(u) : e \in Parts(u)'
  BY <1>1
<1>6. \A u \in Thread : \A o \in Object : Mentions(u, o)' => (o = p /\ u = t) \/ (o # p /\ Mentions(u, o))
  <2>1. SUFFICES ASSUME NEW u \in Thread, NEW o \in Object, Mentions(u, o)'
                 PROVE  (o = p /\ u = t) \/ (o # p /\ Mentions(u, o))
    OBVIOUS
  <2>2. CASE u = t
    <3>1. owned'[t][o] > 0
      BY <2>1, <2>2, <1>1 DEF Mentions
    <3>2. QED
      BY <3>1, <2>2 DEF Mentions
  <2>3. CASE u # t
    <3>1. Mentions(u, o)
      BY <2>1, <2>3, <1>1 DEF Mentions, Touch
    <3>2. QED
      BY <3>1, <2>3
  <2>4. QED
    BY <2>2, <2>3
<1>7. /\ \A q \in Object : Live(q)' <=> Live(q) \/ q = p
      /\ \A q \in Object : Sound(q)' <=> Sound(q) \/ q = p
      /\ \A q \in Object : Sound(q) => q # p /\ field[q] # p
  <2>1. \A q \in Object : Live(q)' <=> Live(q) \/ q = p
    BY DEF Live
  <2>2. ~Broken(p)'
    BY <1>4 DEF Broken
  <2>3. ASSUME NEW q \in Object, q # p PROVE Broken(q)' <=> Broken(q)
    <3>1. ASSUME Broken(q)' PROVE Broken(q)
      BY <3>1, <1>4 DEF Broken
    <3>2. ASSUME NEW u \in Thread, NEW e \in Parts(u), e.op \in {"poison", "rewrite"}, e.v = q PROVE Broken(q)'
      <4>1. u # t
        BY <3>2, <2>3, <1>1
      <4>2. e \in Parts(u)'
        BY <4>1, <1>5
      <4>3. QED
        BY <4>2, <3>2 DEF Broken
    <3>3. QED
      BY <3>1, <3>2 DEF Broken
  <2>4. \A q \in Object : Sound(q)' <=> Sound(q) \/ q = p
    BY <2>1, <2>2, <2>3 DEF Sound
  <2>5. \A q \in Object : Sound(q) => q # p /\ field[q] # p
    BY DEF Fields
  <2>6. QED
    BY <2>1, <2>4, <2>5
<1>8. \A o \in Object : /\ p \notin Fields(o)
                        /\ Fields(o)' = IF o = x THEN Fields(o) \cup {p} ELSE Fields(o)
  <2>1. \A o \in Object : p \notin Fields(o)
    BY DEF Fields
  <2>2. ASSUME NEW o \in Object, NEW q \in Object
        PROVE  (Sound(q)' /\ field'[q] = o) <=> ((Sound(q) /\ field[q] = o) \/ (q = p /\ o = x))
    BY <1>7
  <2>3. \A o \in Object : Fields(o)' = IF o = x THEN Fields(o) \cup {p} ELSE Fields(o)
    <3>1. SUFFICES ASSUME NEW o \in Object PROVE Fields(o)' = IF o = x THEN Fields(o) \cup {p} ELSE Fields(o)
      OBVIOUS
    <3>2. Fields(o)' = {q \in Object : Sound(q)' /\ field'[q] = o}
      BY DEF Fields
    <3>3. Fields(o) = {q \in Object : Sound(q) /\ field[q] = o}
      BY DEF Fields
    <3>4. QED
      BY <3>2, <3>3, <2>2
  <2>4. QED
    BY <2>1, <2>3
<1>9. \A u \in Thread : u # t => \A o \in Object : Held(u, o)' = Held(u, o)
  BY HeldTurn
<1>10. \A o \in Object : Incs(o)' = Incs(o) /\ Adds(o)' = Adds(o)
  <2>1. \A e \in Items(c) : e.op \notin IncOps
    BY <1>1
  <2>2. QED
    BY <2>1, <1>3, SameIncs
<1>11. /\ field \in [Object -> Object \cup {Nil}] /\ rc \in [Object -> 0..(2 * SHARED - 1)]
  BY DEF Typed, TypeOK
<1>12. PICK n : n = [val EXCEPT ![p] = 1]
  OBVIOUS
<1>13. /\ n \in [Object -> 0..(2 * SHARED - 1)] /\ n[p] = 1
       /\ \A q \in Object : q # p => n[q] = val[q]
  BY <1>2, <1>12, Numbers
<1>14. ~IsShared(1) /\ ~IsSaturated(1) /\ Count(1) = 1
  <2>1. 1 \in 0..(2 * SHARED - 1) /\ 1 < SATURATED
    BY Numbers
  <2>2. QED
    BY <2>1, Words
<1>15. Owner(own)'
  <2>1. \A u \in Thread : \A o \in Object : Mentions(u, o)' => own[o] \in {u, Nil}
    BY <1>2, <1>6 DEF Owner
  <2>2. \A q \in Object : tag'[q] # "none" /\ field'[q] # Nil => own[field'[q]] \in {own[q], Nil}
    BY <1>2 DEF Owner
  <2>3. \A o \in Object : Live(o)' /\ own[o] = Nil => IsShared(rc'[o])
    BY <1>2, <1>3, <1>7 DEF Owner
  <2>4. ASSUME NEW u \in Thread, NEW e \in Parts(u)'
        PROVE  /\ e.op \in {"store", "rewrite"} => own[e.v] = u /\ ~IsShared(rc'[e.v])
               /\ e.op \in {"cas", "add", "saturate"} => IsShared(rc'[e.v])
               /\ e.op = "cas" => e.w \in (SHARED + 1)..(SHARED + COUNT_MASK)
    <3>1. e \in Parts(u) /\ e.v # p /\ (e.op # "alloc" => e.v \in Object)
      BY <1>4, ItemFields
    <3>2. e.op # "alloc" => rc'[e.v] = rc[e.v]
      BY <3>1
    <3>3. /\ e.op \in {"store", "rewrite"} => own[e.v] = u /\ ~IsShared(rc[e.v])
          /\ e.op \in {"cas", "add", "saturate"} => IsShared(rc[e.v])
          /\ e.op = "cas" => e.w \in (SHARED + 1)..(SHARED + COUNT_MASK)
      BY <3>1, <1>2 DEF Owner
    <3>4. QED
      BY <3>2, <3>3
  <2>5. QED
    BY <2>1, <2>2, <2>3, <2>4 DEF Owner
<1>16. Marked(own)'
  <2>1. ASSUME NEW q \in Object, Sound(q)', IsShared(rc'[q]), field'[q] # Nil
        PROVE  IsShared(rc'[field'[q]]) \/ (own[q] # Nil /\ \E e \in Parts(own[q])' : e.op = "shade" /\ e.v = field'[q])
    <3>1. Sound(q) /\ q # p /\ field[q] # p /\ field'[q] = field[q] /\ field[q] \in Object
      BY <2>1, <1>7, <1>11, <1>14
    <3>2. rc'[q] = rc[q] /\ rc'[field[q]] = rc[field[q]]
      BY <3>1
    <3>3. IsShared(rc[field[q]]) \/ (own[q] # Nil /\ \E e \in Parts(own[q]) : e.op = "shade" /\ e.v = field[q])
      BY <2>1, <3>1, <3>2, <1>2 DEF Marked, Has1
    <3>4. own[q] # Nil => own[q] \in Thread
      BY <1>2
    <3>5. own[q] = t => ~\E e \in Parts(own[q]) : e.op = "shade" /\ e.v = field[q]
      BY <1>1, <1>3
    <3>6. QED
      BY <3>1, <3>2, <3>3, <3>4, <3>5, <1>5
  <2>2. ASSUME NEW u \in Thread, u # t, NEW o, Has1(u, "shade", o) PROVE Has1(u, "shade", o)'
    BY <2>2, <1>5 DEF Has1
  <2>3. ASSUME NEW u \in Thread, u # t, NEW o, Carries(u, o) PROVE Carries(u, o)'
    BY <2>3, <1>1 DEF Carries
  <2>4. ASSUME NEW u \in Thread, NEW e \in Parts(u)'
        PROVE  /\ e.op = "give" => IsShared(rc'[e.v]) \/ Has1(u, "shade", e.v)'
               /\ e.op = "swap" /\ e.x # Nil /\ IsShared(rc'[e.v]) =>
                    IsShared(rc'[e.x]) \/ Has1(u, "shade", e.x)'
               /\ e.op = "swap" /\ (\E d \in Parts(u)' : d.op = "shade") => IsShared(rc'[e.v])
               /\ e.op = "shade" =>
                    IF e.k = "" THEN Carries(u, e.v)' ELSE \E q \in Fields(e.v)' : own[q] = u
               /\ e.op \in {"markLock", "markUnlock"} => Carries(u, e.v)'
    <3>1. u # t /\ e \in Parts(u) /\ ~Touch(e, p) /\ e.v # p /\ (e.op # "alloc" => e.v \in Object)
      BY <1>4, ItemFields
    <3>2. e.op \in {"give", "swap", "shade", "markLock", "markUnlock"} => e.v \in Object /\ rc'[e.v] = rc[e.v]
      BY <3>1
    <3>3. e.op = "swap" /\ e.x # Nil => e.x \in Object /\ rc'[e.x] = rc[e.x]
      BY <3>1, PartMentions DEF Touch, MoveOps
    <3>4. (\E d \in Parts(u)' : d.op = "shade") => \E d \in Parts(u) : d.op = "shade"
      BY <1>4
    <3>5. /\ e.op = "give" => IsShared(rc[e.v]) \/ Has1(u, "shade", e.v)
          /\ e.op = "swap" /\ e.x # Nil /\ IsShared(rc[e.v]) => IsShared(rc[e.x]) \/ Has1(u, "shade", e.x)
          /\ e.op = "swap" /\ (\E d \in Parts(u) : d.op = "shade") => IsShared(rc[e.v])
          /\ e.op = "shade" => IF e.k = "" THEN Carries(u, e.v) ELSE \E q \in Fields(e.v) : own[q] = u
          /\ e.op \in {"markLock", "markUnlock"} => Carries(u, e.v)
      BY <3>1, <1>2 DEF Marked
    <3>6. e.op = "shade" => \A q \in Fields(e.v) : q \in Fields(e.v)'
      BY <3>2, <1>8
    <3>7. QED
      BY <3>1, <3>2, <3>3, <3>4, <3>5, <3>6, <2>2, <2>3
  <2>5. QED
    BY <2>1, <2>4 DEF Marked, Has1
<1>17. Alive(own)'
  <2>1. \A u \in Thread : \A o \in Object : Mentions(u, o)' => Live(o)'
    BY <1>2, <1>6, <1>7 DEF Alive
  <2>2. \A q \in Object : Sound(q)' /\ field'[q] # Nil => tag'[field'[q]] \in {"ctor", "ref"}
    <3>1. SUFFICES ASSUME NEW q \in Object, Sound(q)', field'[q] # Nil PROVE tag'[field'[q]] \in {"ctor", "ref"}
      OBVIOUS
    <3>2. CASE q = p
      BY <3>1, <3>2 DEF Live
    <3>3. CASE q # p
      <4>1. Sound(q) /\ field'[q] = field[q] /\ field[q] # p /\ field[q] \in Object
        BY <3>1, <3>3, <1>7, <1>11
      <4>2. Live(field[q])
        BY <4>1, <3>1, <1>2 DEF Alive
      <4>3. QED
        BY <4>1, <4>2 DEF Live
    <3>4. QED
      BY <3>2, <3>3
  <2>3. ASSUME NEW u \in Thread, NEW o \in Object, u \in Incs(o)'
        PROVE  /\ \E e \in Parts(u)' : e.op \in HoldOps /\ e.v = o
               /\ owned'[u][o] > 0 \/ \E q \in Fields(o)' : Keeps(own, u, q)'
    <3>1. u \in Incs(o) /\ u # t
      BY <2>3, <1>1, <1>3, <1>10 DEF Incs
    <3>2. /\ \E e \in Parts(u) : e.op \in HoldOps /\ e.v = o
          /\ owned[u][o] > 0 \/ \E q \in Fields(o) : Keeps(own, u, q)
      BY <3>1, <1>2 DEF Alive
    <3>3. \E e \in Parts(u)' : e.op \in HoldOps /\ e.v = o
      BY <3>1, <3>2, <1>5
    <3>4. ASSUME NEW q \in Fields(o), Keeps(own, u, q) PROVE q \in Fields(o)' /\ Keeps(own, u, q)'
      <4>1. q \in Object /\ q # p /\ q \in Fields(o)'
        BY <1>8 DEF Fields
      <4>2. tag'[q] = tag[q] /\ cellLock'[q] = cellLock[q] /\ Held(u, q)' = Held(u, q)
        BY <4>1, <3>1, <1>9
      <4>3. QED
        BY <3>4, <4>1, <4>2 DEF Keeps
    <3>5. QED
      BY <3>1, <3>2, <3>3, <3>4
  <2>4. ASSUME NEW u \in Thread, NEW e \in Parts(u)'
        PROVE  /\ e.op \in {"get", "swap", "cellUnlock"} => tag'[e.v] = "ref"
               /\ e.op = "cellUnlock" => cellLock'[e.v] = u
               /\ e.op = "rewrite" => tag'[e.v] = "ctor"
    <3>1. e \in Parts(u) /\ e.v # p /\ (e.op # "alloc" => e.v \in Object)
      BY <1>4, ItemFields
    <3>2. e.op # "alloc" => tag'[e.v] = tag[e.v]
      BY <3>1
    <3>3. /\ e.op \in {"get", "swap", "cellUnlock"} => tag[e.v] = "ref"
          /\ e.op = "cellUnlock" => cellLock[e.v] = u
          /\ e.op = "rewrite" => tag[e.v] = "ctor"
      BY <3>1, <1>2 DEF Alive
    <3>4. QED
      BY <3>2, <3>3
  <2>5. QED
    BY <2>1, <2>2, <2>3, <2>4 DEF Alive, Live
<1>18. Values(n)'
  <2>1. ASSUME NEW o \in Object, rc'[o] # n[o] PROVE \E u \in Thread : Has1(u, "store", o)'
    <3>1. o # p /\ rc[o] # val[o]
      BY <2>1, <1>13
    <3>2. PICK u \in Thread : Has1(u, "store", o)
      BY <3>1, <1>2 DEF Values
    <3>3. u # t
      BY <3>2, <1>1, <1>3 DEF Has1
    <3>4. Has1(u, "store", o)'
      BY <3>2, <3>3, <1>5 DEF Has1
    <3>5. QED
      BY <3>4
  <2>2. ASSUME NEW u \in Thread, NEW e \in Parts(u)', e.op = "store" PROVE n[e.v] = e.w
    <3>1. e \in Parts(u) /\ e.v # p /\ e.v \in Object
      BY <2>2, <1>4, ItemFields
    <3>2. QED
      BY <3>1, <2>2, <1>2, <1>13 DEF Values
  <2>3. QED
    BY <2>1, <2>2 DEF Values
<1>19. Balance(n)'
  <2>1. SUFFICES ASSUME NEW o \in Object
                 PROVE  /\ IsFiniteSet(Fields(o)')
                        /\ ~IsSaturated(n[o]) =>
                             Count(n[o]) + Cardinality(Incs(o)') = Total(HeldBy(o))' + Cardinality(Fields(o)')
    BY DEF Balance, HeldBy
  <2>2. IsFiniteSet(Fields(o)) /\ Cardinality(Fields(o)) \in Nat
    BY <1>2, FS_CardinalityType DEF Balance
  <2>3. /\ IsFiniteSet(Fields(o)')
        /\ Cardinality(Fields(o)') = Cardinality(Fields(o)) + (IF o = x THEN 1 ELSE 0)
    <3>1. p \notin Fields(o) /\ Fields(o)' = IF o = x THEN Fields(o) \cup {p} ELSE Fields(o)
      BY <1>8
    <3>2. CASE o = x
      <4>1. Fields(o)' = Fields(o) \cup {p}
        BY <3>1, <3>2
      <4>2. IsFiniteSet(Fields(o) \cup {p}) /\ Cardinality(Fields(o) \cup {p}) = Cardinality(Fields(o)) + 1
        BY <2>2, <3>1, FS_AddElement
      <4>3. QED
        BY <4>1, <4>2, <3>2
    <3>3. CASE o # x
      BY <3>1, <3>3, <2>2
    <3>4. QED
      BY <3>2, <3>3
  <2>4. CASE o = p
    <3>1. Fields(o) = {} /\ Incs(o)' = {}
      BY <2>4, <1>10
    <3>2. Cardinality({}) = 0
      BY FS_EmptySet
    <3>3. Cardinality(Fields(o)') = 0 /\ Cardinality(Incs(o)') = 0
      BY <3>1, <3>2, <2>3, <2>4
    <3>4. Total(HeldBy(o))' = 1
      BY <2>4
    <3>5. Count(n[o]) = 1
      BY <2>4, <1>13, <1>14
    <3>6. QED
      BY <3>3, <3>4, <3>5, <2>3
  <2>5. CASE o # p
    <3>1. /\ Total(HeldBy(o)) \in Nat /\ Total(HeldBy(o))' \in Nat
          /\ Total(HeldBy(o))' + owned[t][o] + Tok(<<h>>, o) = Total(HeldBy(o)) + owned'[t][o] + Tok(c, o)
      BY TotalTurn
    <3>2. owned'[t][o] = owned[t][o] /\ owned[t][o] \in Nat /\ Tok(c, o) = 0
      <4>1. owned[t][o] \in Nat
        BY HeldNat
      <4>2. Tok(c, o) = 0
        BY Empty
      <4>3. QED
        BY <4>1, <4>2, <2>5
    <3>3. Total(HeldBy(o))' + (IF o = x THEN 1 ELSE 0) = Total(HeldBy(o))
      BY <3>1, <3>2, <2>5
    <3>4. n[o] = val[o] /\ Incs(o)' = Incs(o)
      BY <2>5, <1>10, <1>13
    <3>5. ~IsSaturated(val[o]) => Count(val[o]) + Cardinality(Incs(o)) = Total(HeldBy(o)) + Cardinality(Fields(o))
      BY <1>2 DEF Balance, HeldBy
    <3>6. Cardinality(Incs(o)) \in Nat
      BY IncsFinite
    <3>7. Count(val[o]) \in Nat
      BY <1>2, Words
    <3>8. QED
      BY <3>1, <3>3, <3>4, <3>5, <3>6, <3>7, <2>2, <2>3
  <2>6. QED
    BY <2>4, <2>5
<1>20. Bounded'
  <2>1. ASSUME NEW o \in Object
        PROVE  IF IsShared(rc'[o])
               THEN rc'[o] + Cardinality(Adds(o)') <= SHARED + COUNT_MASK + Cardinality(Thread)
               ELSE rc'[o] <= SATURATED
    <3>1. CASE o = p
      BY <3>1, <1>14, Numbers
    <3>2. CASE o # p
      <4>1. rc'[o] = rc[o] /\ Adds(o)' = Adds(o)
        BY <3>2, <1>10
      <4>2. QED
        BY <4>1, <1>2 DEF Bounded
    <3>3. QED
      BY <3>1, <3>2
  <2>2. QED
    BY <2>1 DEF Bounded
<1>21. Freeing(n)'
  <2>1. ASSUME NEW u \in Thread, NEW e \in Parts(u)'
        PROVE  /\ e.op \in DyingOps => tag'[e.v] = "ctor" /\ Zero(n, e.v)
               /\ e.op = "rewrite" => n[e.v] = 1
    <3>1. e \in Parts(u) /\ e.v # p /\ (e.op # "alloc" => e.v \in Object)
      BY <1>4, ItemFields
    <3>2. e.op # "alloc" => tag'[e.v] = tag[e.v] /\ n[e.v] = val[e.v]
      BY <3>1, <1>13
    <3>3. /\ e.op \in DyingOps => tag[e.v] = "ctor" /\ Zero(val, e.v)
          /\ e.op = "rewrite" => val[e.v] = 1
      BY <3>1, <1>2 DEF Freeing
    <3>4. QED
      BY <3>2, <3>3 DEF DyingOps, Zero
  <2>2. ASSUME NEW u \in Thread, NEW o \in Object PROVE Cnt(code'[u], Dying(o)) <= 1
    <3>1. CASE u # t
      BY <3>1, <1>2 DEF Turn, Freeing
    <3>2. CASE u = t
      <4>1. Cnt(code'[t], Dying(o)) = Cnt(c, Dying(o)) + Cnt(c, Dying(o))
        BY DEF Turn
      <4>2. Cnt(c, Dying(o)) = 0
        BY Nothing
      <4>3. QED
        BY <4>1, <4>2, <3>2
    <3>3. QED
      BY <3>1, <3>2
  <2>3. ASSUME NEW u \in Thread, NEW w \in Thread, NEW d \in Parts(u)', NEW e \in Parts(w)',
               d.op \in DyingOps, e.op \in DyingOps, d.v = e.v
        PROVE  u = w
    <3>1. d \in Parts(u) /\ e \in Parts(w)
      BY <1>4
    <3>2. QED
      BY <3>1, <2>3, <1>2 DEF Freeing
  <2>4. ASSUME NEW o \in Object, tag'[o] = "ctor", Zero(n, o)
        PROVE  \E u \in Thread : \E e \in Parts(u)' : e.op \in DyingOps /\ e.v = o
    <3>1. o # p
      BY <2>4, <1>13, <1>14 DEF Zero
    <3>2. tag[o] = "ctor" /\ Zero(val, o)
      BY <3>1, <2>4, <1>13 DEF Zero
    <3>3. PICK u \in Thread : \E e \in Parts(u) : e.op \in DyingOps /\ e.v = o
      BY <3>2, <1>2 DEF Freeing
    <3>4. PICK e \in Parts(u) : e.op \in DyingOps /\ e.v = o
      BY <3>3
    <3>5. u # t
      BY <3>4, <1>1, <1>3
    <3>6. e \in Parts(u)'
      BY <3>5, <1>5
    <3>7. QED
      BY <3>4, <3>6
  <2>5. QED
    BY <2>1, <2>2, <2>3, <2>4 DEF Freeing, Zero, Dying
<1>22. QED
  BY <1>2, <1>13, <1>15, <1>16, <1>17, <1>18, <1>19, <1>20, <1>21 DEF Inv

(* A micro-operation that ends an operation is the last one of the code.   *)
LEMMA Final ==
  ASSUME Typed, NEW t \in Thread, NEW o \in LastOps, Do(t, o)
  PROVE  Rest(t) = <<>>
<1>1. PICK h, r : h = Head(code[t]) /\ r = Rest(t)
  OBVIOUS
<1>2. code[t] # <<>>
  BY DEF Do
<1>3. Fits(h, r) /\ h.op = o
  BY <1>1, <1>2, Opened
<1>4. QED
  BY <1>1, <1>3 DEF Fits

(* Rewrite: the constructor takes its new argument and is a value again.   *)
LEMMA RewriteStep ==
  ASSUME Typed, Typed', NEW own, NEW val, Inv(own, val), NEW t \in Thread, Rewrite(t)
  PROVE  \E n : Inv(own, n)'
<1>1. /\ Do(t, "rewrite") /\ Then(t, <<>>) /\ UNCHANGED <<tag, markLock, cellLock, ops>>
      /\ field' = [field EXCEPT ![V(t)] = X(t)] /\ rc' = [rc EXCEPT ![V(t)] = 1]
      /\ owned' = [owned EXCEPT ![t][V(t)] = @ + 1]
  BY DEF Rewrite, SetRc
<1>2. PICK v, x, h, c : v = V(t) /\ x = X(t) /\ h = Head(code[t]) /\ c = <<>>
  OBVIOUS
<1>3. /\ h \in Item /\ h.op = "rewrite" /\ h.v = v /\ v \in Object /\ h \in Parts(t)
  BY <1>1, <1>2, Ready
<1>4. h.x = x /\ x \in (Object \cup {Nil}) \ {v} /\ code[t] # <<>>
  <2>1. X(t) = Head(code[t]).x /\ code[t] # <<>>
    BY <1>1, Acting
  <2>2. h.op \in MoveOps
    BY <1>3 DEF MoveOps
  <2>3. QED
    BY <2>1, <2>2, <1>2, <1>3, ItemFields
<1>5. Turn(t, c, <<h>>, c)
  <2>1. Rest(t) = <<>>
    BY <1>1, Final DEF LastOps
  <2>2. Turn(t, Rest(t), <<Head(code[t])>>, <<>>)
    BY <1>1, <1>4, DoneTurn
  <2>3. QED
    BY <2>1, <2>2, <1>2
<1>6. /\ own[v] = t /\ ~IsShared(rc[v]) /\ val[v] = 1 /\ tag[v] = "ctor"
      /\ Incs(v) = {} /\ Fields(v) = {} /\ Held(t, v) = 1 /\ owned[t][v] = 0
      /\ \A u \in Thread : Mentions(u, v) => u = t
  BY <1>3, Sole DEF Inv
<1>7. ~Sound(v)
  BY <1>3 DEF Sound, Broken
<1>8. x # Nil => x \in Object /\ Live(x) /\ own[x] \in {t, Nil}
  <2>1. x # Nil => x \in Object /\ Mentions(t, x)
    BY <1>3, <1>4, PartMentions DEF MoveOps
  <2>2. QED
    BY <2>1 DEF Inv, Alive, Owner
<1>9. /\ field \in [Object -> Object \cup {Nil}] /\ rc \in [Object -> 0..(2 * SHARED - 1)]
      /\ owned \in [Thread -> [Object -> Nat]]
  BY DEF Typed, TypeOK
<1>10. /\ field'[v] = x /\ rc'[v] = 1 /\ owned'[t][v] = 1 /\ tag' = tag /\ cellLock' = cellLock
       /\ \A q \in Object : q # v => /\ field'[q] = field[q] /\ rc'[q] = rc[q]
                                     /\ owned'[t][q] = owned[t][q]
       /\ \A u \in Thread : u # t => owned'[u] = owned[u]
  BY <1>1, <1>2, <1>3, <1>6, <1>9
<1>11. /\ \A q \in Object : q # v => Tok(<<h>>, q) = IF q = x THEN 1 ELSE 0
       /\ Tok(<<h>>, v) = 1
  <2>1. \A q \in Object : Tok(<<h>>, q) = Tok1(h, q)
    BY <1>3, Single
  <2>2. QED
    BY <2>1, <1>3, <1>4 DEF Tok1, HoldOps, MoveOps
<1>12. Total(HeldBy(v))' = 1
  <2>1. /\ Total(HeldBy(v)) \in Nat /\ Total(HeldBy(v))' \in Nat
        /\ Total(HeldBy(v))' + owned[t][v] + Tok(<<h>>, v) = Total(HeldBy(v)) + owned'[t][v] + Tok(c, v)
    BY <1>3, <1>5, <1>10, TotalTurn
  <2>2. Tok(c, v) = 0
    BY <1>2, <1>3, Empty
  <2>3. ~IsSaturated(1) /\ Count(1) = 1
    <3>1. 1 \in 0..(2 * SHARED - 1) /\ 1 < SATURATED
      BY Numbers
    <3>2. QED
      BY <3>1, Words
  <2>4. Count(val[v]) + Cardinality(Incs(v)) = Total(HeldBy(v)) + Cardinality(Fields(v))
    BY <1>3, <1>6, <2>3 DEF Inv, Balance, HeldBy
  <2>5. Cardinality({}) = 0
    BY FS_EmptySet
  <2>6. Total(HeldBy(v)) = 1
    BY <2>1, <2>3, <2>4, <2>5, <1>6
  <2>7. QED
    BY <2>1, <2>2, <2>6, <1>6, <1>10, <1>11
<1>13. x # v
  BY <1>4
<1>14. tag'[v] \in {"ctor", "ref"}
  BY <1>6, <1>10
<1>15. \A u \in Thread : u # t => ~Mentions(u, v)
  BY <1>6
<1>16. \A q \in Object : q # v => /\ tag'[q] = tag[q] /\ field'[q] = field[q] /\ rc'[q] = rc[q]
                                  /\ owned'[t][q] = owned[t][q]
                                  /\ Tok(<<h>>, q) = IF q = x THEN 1 ELSE 0
  BY <1>10, <1>11
<1>17. QED
  BY <1>2, <1>3, <1>5, <1>6, <1>7, <1>8, <1>10, <1>12, <1>13, <1>14, <1>15, <1>16, FillStep

(* Who does not mention a value holds no reference to it.                  *)
LEMMA NotHeld ==
  ASSUME Typed, NEW u \in Thread, NEW o \in Object, ~Mentions(u, o)
  PROVE  Held(u, o) = 0
<1>1. /\ Held(u, o) = owned[u][o] + Tok(code[u], o) /\ owned[u][o] \in Nat /\ code[u] \in Seq(Item)
  BY HeldNat DEF Typed, TypeOK
<1>2. owned[u][o] = 0
  BY <1>1 DEF Mentions
<1>3. /\ \A e \in Items(code[u]) : e \notin ByV(o)
      /\ \A e \in Items(code[u]) : e \notin ByX(o)
  BY DEF Mentions, Touch, Parts, ByV, ByX
<1>4. Cnt(code[u], ByV(o)) = 0 /\ Cnt(code[u], ByX(o)) = 0
  <2>1. \A S : /\ Cnt(code[u], S) \in Nat
               /\ Cnt(code[u], S) > 0 <=> \E e \in Items(code[u]) : e \in S
    BY <1>1, CntPositive
  <2>2. QED
    BY <2>1, <1>3
<1>5. QED
  BY <1>1, <1>2, <1>4 DEF Tok

(* What has not been allocated: nobody mentions it and no field holds it.  *)
LEMMA Unclaimed ==
  ASSUME Typed, NEW o \in Object, tag[o] = "none"
  PROVE  /\ ~Live(o) /\ ~Sound(o) /\ Incs(o) = {} /\ Fields(o) = {} /\ \A q \in Object : field[q] # o
         /\ \A u \in Thread : ~Mentions(u, o) /\ Held(u, o) = 0 /\ \A e \in Parts(u) : e.v # o
<1>1. \A u \in Thread : ~Mentions(u, o)
  BY DEF Typed, Known, Mentions
<1>2. ~Live(o) /\ ~Sound(o)
  BY DEF Live, Sound
<1>3. \A q \in Object : field[q] # o
  BY Numbers DEF Typed, Known
<1>4. Fields(o) = {}
  BY <1>3 DEF Fields
<1>5. \A u \in Thread : \A e \in Parts(u) : e.v # o
  BY <1>1 DEF Mentions, Touch
<1>6. Incs(o) = {}
  BY <1>5 DEF Incs
<1>7. \A u \in Thread : Held(u, o) = 0
  BY <1>1, NotHeld
<1>8. QED
  BY <1>1, <1>2, <1>3, <1>4, <1>5, <1>6, <1>7

(* It may be said to belong to any thread.                                 *)
LEMMA Claimed ==
  ASSUME Typed, NEW own, NEW val, Inv(own, val), NEW t \in Thread, NEW o \in Object, tag[o] = "none",
         NEW new, new \in [Object -> Thread \cup {Nil}], \A q \in Object : q # o => new[q] = own[q]
  PROVE  Inv(new, val)
<1>1. /\ ~Live(o) /\ ~Sound(o) /\ \A q \in Object : field[q] # o
      /\ \A u \in Thread : ~Mentions(u, o) /\ Held(u, o) = 0 /\ \A e \in Parts(u) : e.v # o
  BY Unclaimed
<1>2. ~Live(o) /\ ~Sound(o)
  BY <1>1
<1>3. \A q \in Object : field[q] # o
  BY <1>1
<1>5. \A u \in Thread : \A e \in Parts(u) : e.v # o
  BY <1>1
<1>8. /\ Owner(own) /\ Marked(own) /\ Alive(own) /\ Values(val) /\ Balance(val) /\ Bounded /\ Freeing(val)
      /\ own \in [Object -> Thread \cup {Nil}] /\ val \in [Object -> 0..(2 * SHARED - 1)]
  BY DEF Inv
<1>9. \A q \in Object : q # o => new[q] = own[q]
  OBVIOUS
<1>10. field \in [Object -> Object \cup {Nil}] /\ \A u \in Thread : \A e \in Parts(u) : e.op # "alloc" => e.v \in Object
  BY PartMentions DEF Typed, TypeOK
<1>11. Owner(new)
  <2>1. \A u \in Thread : \A q \in Object : Mentions(u, q) => new[q] \in {u, Nil}
    BY <1>1, <1>8, <1>9 DEF Owner
  <2>2. \A p \in Object : tag[p] # "none" /\ field[p] # Nil => new[field[p]] \in {new[p], Nil}
    BY <1>3, <1>8, <1>9, <1>10 DEF Owner
  <2>3. \A q \in Object : Live(q) /\ new[q] = Nil => IsShared(rc[q])
    BY <1>2, <1>8, <1>9 DEF Owner
  <2>4. \A u \in Thread : \A e \in Parts(u) :
          /\ e.op \in {"store", "rewrite"} => new[e.v] = u /\ ~IsShared(rc[e.v])
          /\ e.op \in {"cas", "add", "saturate"} => IsShared(rc[e.v])
          /\ e.op = "cas" => e.w \in (SHARED + 1)..(SHARED + COUNT_MASK)
    BY <1>5, <1>8, <1>9, <1>10 DEF Owner
  <2>5. QED
    BY <2>1, <2>2, <2>3, <2>4 DEF Owner
<1>12. \A q \in Object : \A p \in Fields(q) : p \in Object /\ p # o /\ new[p] = own[p]
  BY <1>2, <1>9 DEF Fields
<1>13. Marked(new)
  <2>1. \A p \in Object : Sound(p) => new[p] = own[p]
    BY <1>2, <1>9
  <2>2. \A p \in Object :
          Sound(p) /\ IsShared(rc[p]) /\ field[p] # Nil =>
            IsShared(rc[field[p]]) \/ (new[p] # Nil /\ Has1(new[p], "shade", field[p]))
    BY <2>1, <1>8 DEF Marked
  <2>3. ASSUME NEW u \in Thread, NEW e \in Parts(u), e.op = "shade", e.k # ""
        PROVE  \E p \in Fields(e.v) : new[p] = u
    <3>1. PICK p \in Fields(e.v) : own[p] = u
      BY <2>3, <1>8 DEF Marked
    <3>2. e.v \in Object
      BY <2>3, <1>10
    <3>3. QED
      BY <3>1, <3>2, <1>12
  <2>4. QED
    BY <2>2, <2>3, <1>8 DEF Marked
<1>14. Alive(new)
  <2>1. \A u \in Thread : \A q \in Object : \A p \in Fields(q) : Keeps(own, u, p) => Keeps(new, u, p)
    BY <1>12 DEF Keeps
  <2>2. \A u \in Thread : \A q \in Object : u \in Incs(q) =>
          /\ \E e \in Parts(u) : e.op \in HoldOps /\ e.v = q
          /\ owned[u][q] > 0 \/ \E p \in Fields(q) : Keeps(new, u, p)
    BY <2>1, <1>8 DEF Alive
  <2>3. QED
    BY <2>2, <1>8 DEF Alive
<1>15. QED
  BY <1>8, <1>11, <1>13, <1>14 DEF Inv

(* Alloc: a fresh value belongs to the thread that made it.                *)
LEMMA AllocStep ==
  ASSUME Typed, Typed', NEW own, NEW val, Inv(own, val), NEW t \in Thread, Alloc(t)
  PROVE  \E m, n : Inv(m, n)'
<1>1. PICK x, k, h, c : x = V(t) /\ k = K(t) /\ h = Head(code[t]) /\ c = <<>>
  OBVIOUS
<1>2. PICK o \in Object : /\ tag[o] = "none" /\ tag' = [tag EXCEPT ![o] = k] /\ field' = [field EXCEPT ![o] = x]
                          /\ rc' = [rc EXCEPT ![o] = 1] /\ owned' = [owned EXCEPT ![t][o] = 1]
  BY <1>1 DEF Alloc, SetRc
<1>3. Do(t, "alloc") /\ Then(t, <<>>) /\ cellLock' = cellLock
  BY DEF Alloc
<1>4. code[t] # <<>>
  BY <1>3 DEF Do
<1>5. /\ h \in Item /\ h.op = "alloc" /\ h.v = x /\ h.k = k /\ Parts(t) = {h} \cup Items(Rest(t))
  BY <1>1, <1>3, <1>4, Opened
<1>6. k \in {"ctor", "ref"} /\ x \in Object \cup {Nil}
  BY <1>5, ItemFields
<1>7. Turn(t, c, <<h>>, c)
  <2>1. Rest(t) = <<>>
    BY <1>3, Final DEF LastOps
  <2>2. Turn(t, Rest(t), <<Head(code[t])>>, <<>>)
    BY <1>3, <1>4, DoneTurn
  <2>3. QED
    BY <2>1, <2>2, <1>1
<1>8. PICK m : m = [own EXCEPT ![o] = t]
  OBVIOUS
<1>9. /\ Inv(m, val) /\ m[o] = t
      /\ ~Sound(o) /\ Incs(o) = {} /\ Fields(o) = {}
      /\ \A u \in Thread : ~Mentions(u, o) /\ Held(u, o) = 0
  <2>1. /\ ~Sound(o) /\ Incs(o) = {} /\ Fields(o) = {}
        /\ \A u \in Thread : ~Mentions(u, o) /\ Held(u, o) = 0 /\ \A e \in Parts(u) : e.v # o
    BY <1>2, Unclaimed
  <2>2. own \in [Object -> Thread \cup {Nil}]
    BY DEF Inv
  <2>3. m \in [Object -> Thread \cup {Nil}] /\ m[o] = t /\ \A q \in Object : q # o => m[q] = own[q]
    BY <2>2, <1>8
  <2>4. Inv(m, val)
    BY <2>3, <1>2, Claimed
  <2>5. QED
    BY <2>1, <2>3, <2>4
<1>10. x # Nil => x \in Object /\ x # o /\ Live(x) /\ m[x] \in {t, Nil}
  <2>1. x # Nil => x \in Object /\ Mentions(t, x)
    BY <1>5, <1>6, PartMentions
  <2>2. QED
    BY <2>1, <1>9 DEF Inv, Alive, Owner
<1>11. x # o
  BY <1>10, <1>2, Numbers
<1>12. /\ field \in [Object -> Object \cup {Nil}] /\ rc \in [Object -> 0..(2 * SHARED - 1)]
       /\ owned \in [Thread -> [Object -> Nat]] /\ tag \in [Object -> Tags]
  BY DEF Typed, TypeOK
<1>13. /\ tag'[o] = k /\ field'[o] = x /\ rc'[o] = 1 /\ owned'[t][o] = 1
       /\ \A q \in Object : q # o => /\ tag'[q] = tag[q] /\ field'[q] = field[q] /\ rc'[q] = rc[q]
                                     /\ owned'[t][q] = owned[t][q]
       /\ \A u \in Thread : u # t => owned'[u] = owned[u]
  BY <1>2, <1>12
<1>14. \A q \in Object : Tok(<<h>>, q) = IF q = x THEN 1 ELSE 0
  BY <1>5, Single DEF Tok1, HoldOps, MoveOps
<1>15. Total(HeldBy(o))' = 1
  <2>1. /\ HeldBy(o) \in [Thread -> Nat] /\ Total(HeldBy(o))' \in Nat
        /\ Total(HeldBy(o))' + owned[t][o] + Tok(<<h>>, o) = Total(HeldBy(o)) + owned'[t][o] + Tok(c, o)
    BY <1>7, <1>13, TotalTurn
  <2>2. Tok(c, o) = 0 /\ Tok(<<h>>, o) = 0
    BY <1>1, <1>11, <1>14, Empty
  <2>3. \A u \in Thread : HeldBy(o)[u] = 0
    BY <1>9 DEF HeldBy
  <2>4. Total(HeldBy(o)) = 0
    BY <2>1, <2>3, TotalZero
  <2>5. owned[t][o] = 0
    <3>1. owned[t][o] \in Nat
      BY <1>12
    <3>2. QED
      BY <3>1, <1>9 DEF Mentions
  <2>6. QED
    BY <2>1, <2>2, <2>4, <2>5, <1>13
<1>16. \A q \in Object : q # o => /\ tag'[q] = tag[q] /\ field'[q] = field[q] /\ rc'[q] = rc[q]
                                  /\ owned'[t][q] = owned[t][q]
                                  /\ Tok(<<h>>, q) = IF q = x THEN 1 ELSE 0
  BY <1>13, <1>14
<1>17. /\ tag'[o] \in {"ctor", "ref"} /\ \A u \in Thread : u # t => ~Mentions(u, o)
       /\ x # Nil => x \in Object /\ Live(x) /\ m[x] \in {t, Nil}
  BY <1>6, <1>9, <1>10, <1>13
<1>18. \E n : Inv(m, n)'
  BY <1>1, <1>3, <1>5, <1>7, <1>9, <1>11, <1>13, <1>15, <1>16, <1>17, FillStep
<1>19. QED
  BY <1>18

(* When all that is left for a thread to do is the publication, what it    *)
(* has marked belongs to nobody any more.                                  *)
LEMMA Shed ==
  ASSUME Typed, NEW own, NEW val, Inv(own, val), NEW t \in Thread,
         \A e \in Parts(t) : e.op \in {"give", "swap"},
         NEW new, new \in [Object -> Thread \cup {Nil}],
         \A o \in Object : new[o] = IF own[o] = t /\ Live(o) /\ IsShared(rc[o]) THEN Nil ELSE own[o]
  PROVE  Inv(new, val)
<1>1. /\ Owner(own) /\ Marked(own) /\ Alive(own) /\ Values(val) /\ Balance(val) /\ Bounded /\ Freeing(val)
      /\ own \in [Object -> Thread \cup {Nil}] /\ val \in [Object -> 0..(2 * SHARED - 1)]
  BY DEF Inv
<1>2. /\ field \in [Object -> Object \cup {Nil}]
      /\ \A u \in Thread : \A e \in Parts(u) : e.op # "alloc" => e.v \in Object
  BY PartMentions DEF Typed, TypeOK
<1>3. /\ \A o \in Object : new[o] = own[o] \/ (new[o] = Nil /\ own[o] = t /\ Live(o) /\ IsShared(rc[o]))
      /\ t # Nil
  BY Numbers
<1>4. \A u \in Thread : \A o \in Object : own[o] = u /\ u # t => new[o] = u
  BY <1>3
<1>5. \A o : ~Has1(t, "shade", o)
  BY DEF Has1
<1>6. Owner(new)
  <2>1. \A u \in Thread : \A o \in Object : Mentions(u, o) => new[o] \in {u, Nil}
    BY <1>1, <1>3 DEF Owner
  <2>2. ASSUME NEW p \in Object, tag[p] # "none", field[p] # Nil PROVE new[field[p]] \in {new[p], Nil}
    <3>1. own[field[p]] \in {own[p], Nil} /\ field[p] \in Object
      BY <2>2, <1>1, <1>2 DEF Owner
    <3>2. CASE new[p] = own[p]
      BY <3>1, <3>2, <1>3
    <3>3. CASE own[p] = t /\ Live(p) /\ IsShared(rc[p])
      <4>1. ~Broken(p)
        <5>1. ASSUME NEW u \in Thread, NEW e \in Parts(u), e.op \in {"poison", "rewrite"}, e.v = p PROVE FALSE
          <6>1. Mentions(u, p)
            BY <5>1 DEF Mentions, Touch
          <6>2. u = t
            BY <6>1, <3>3, <1>1, <1>3 DEF Owner
          <6>3. QED
            BY <6>2, <5>1
        <5>2. QED
          BY <5>1 DEF Broken
      <4>2. Sound(p)
        BY <4>1, <3>3 DEF Sound
      <4>3. Live(field[p])
        BY <4>2, <2>2, <1>1 DEF Alive
      <4>4. IsShared(rc[field[p]])
        BY <4>2, <3>3, <2>2, <1>1, <1>5 DEF Marked
      <4>5. QED
        BY <4>3, <4>4, <3>1, <3>3
    <3>4. QED
      BY <3>2, <3>3, <1>3
  <2>3. \A o \in Object : Live(o) /\ new[o] = Nil => IsShared(rc[o])
    BY <1>1, <1>3 DEF Owner
  <2>4. ASSUME NEW u \in Thread, NEW e \in Parts(u)
        PROVE  /\ e.op \in {"store", "rewrite"} => new[e.v] = u /\ ~IsShared(rc[e.v])
               /\ e.op \in {"cas", "add", "saturate"} => IsShared(rc[e.v])
               /\ e.op = "cas" => e.w \in (SHARED + 1)..(SHARED + COUNT_MASK)
    <3>1. /\ e.op \in {"store", "rewrite"} => own[e.v] = u /\ ~IsShared(rc[e.v])
          /\ e.op \in {"cas", "add", "saturate"} => IsShared(rc[e.v])
          /\ e.op = "cas" => e.w \in (SHARED + 1)..(SHARED + COUNT_MASK)
      BY <1>1 DEF Owner
    <3>2. e.op \in {"store", "rewrite"} => e.v \in Object
      BY <1>2
    <3>3. QED
      BY <3>1, <3>2, <1>3
  <2>5. QED
    BY <2>1, <2>2, <2>3, <2>4 DEF Owner
<1>7. Marked(new)
  <2>1. ASSUME NEW p \in Object, Sound(p), IsShared(rc[p]), field[p] # Nil
        PROVE  IsShared(rc[field[p]]) \/ (new[p] # Nil /\ Has1(new[p], "shade", field[p]))
    <3>1. IsShared(rc[field[p]]) \/ (own[p] # Nil /\ Has1(own[p], "shade", field[p]))
      BY <2>1, <1>1 DEF Marked
    <3>2. own[p] \in Thread \cup {Nil}
      BY <1>1
    <3>3. QED
      BY <3>1, <3>2, <1>3, <1>4, <1>5
  <2>2. ASSUME NEW u \in Thread, NEW e \in Parts(u), e.op = "shade", e.k # ""
        PROVE  \E p \in Fields(e.v) : new[p] = u
    <3>1. PICK p \in Fields(e.v) : own[p] = u
      BY <2>2, <1>1 DEF Marked
    <3>2. p \in Object /\ u # t
      BY <2>2 DEF Fields
    <3>3. QED
      BY <3>1, <3>2, <1>4
  <2>3. QED
    BY <2>1, <2>2, <1>1 DEF Marked
<1>8. Alive(new)
  <2>1. \A u \in Thread : \A o : u \in Incs(o) => u # t
    BY DEF Incs, IncOps
  <2>2. \A u \in Thread : \A p \in Object : u # t /\ Keeps(own, u, p) => Keeps(new, u, p)
    BY <1>3, <1>4 DEF Keeps
  <2>3. \A o : \A p \in Fields(o) : p \in Object
    BY DEF Fields
  <2>4. \A u \in Thread : \A q \in Object : u \in Incs(q) =>
          /\ \E e \in Parts(u) : e.op \in HoldOps /\ e.v = q
          /\ owned[u][q] > 0 \/ \E p \in Fields(q) : Keeps(new, u, p)
    BY <2>1, <2>2, <2>3, <1>1 DEF Alive
  <2>5. QED
    BY <2>4, <1>1 DEF Alive
<1>9. QED
  BY <1>1, <1>6, <1>7, <1>8 DEF Inv

(* The same values have a field that holds a reference when no value       *)
(* begins or ends to be taken apart.                                       *)
LEMMA SameSound ==
  ASSUME Typed, NEW t \in Thread, NEW r, NEW h \in Item, NEW c, Turn(t, r, <<h>>, c), tag' = tag,
         h.op \notin {"poison", "rewrite"}, \A e \in Items(c) : e.op \notin {"poison", "rewrite"}
  PROVE  \A p \in Object : Sound(p)' <=> Sound(p)
<1>1. /\ Parts(t) = {h} \cup Items(r) /\ Parts(t)' = Items(r) \cup Items(c)
      /\ \A u \in Thread : u # t => Parts(u)' = Parts(u)
      /\ \A u \in Thread : \A e \in Parts(u) : e \in Item
      /\ Items(c) \subseteq Item
  BY Executed
<1>2. ASSUME NEW p \in Object, NEW u \in Thread
      PROVE  (\E e \in Parts(u)' : e.op \in {"poison", "rewrite"} /\ e.v = p)
               <=> (\E e \in Parts(u) : e.op \in {"poison", "rewrite"} /\ e.v = p)
  <2>1. CASE u = t
    BY <2>1, <1>1
  <2>2. CASE u # t
    BY <2>2, <1>1
  <2>3. QED
    BY <2>1, <2>2
<1>3. QED
  BY <1>2 DEF Sound, Broken, Live

(* The thread puts a value it has, or a value that belongs to nobody, into *)
(* its cell v.                                                             *)
Puts(own, t, v) ==
  /\ own[v] \in {t, Nil} /\ tag[v] = "ref" /\ (IsShared(rc[v]) => cellLock[v] = Nil)
  /\ field'[v] # Nil =>
       /\ tag[field'[v]] \in {"ctor", "ref"} /\ own[field'[v]] \in {own[v], Nil}
       /\ IsShared(rc[v]) => IsShared(rc[field'[v]])

(* The publication itself: a value goes to a thread or into a cell.        *)
LEMMA LastStep ==
  ASSUME Typed, Typed', NEW own, NEW val, Inv(own, val), NEW t \in Thread, NEW h \in Item,
         h.op \in {"give", "swap"}, NEW r, r = <<>>, NEW c, Turn(t, r, <<h>>, c),
         \A e \in Items(c) : e.op = "drop" /\ own[e.v] \in {t, Nil} /\ Live(e.v),
         \A o \in Object : Cnt(c, Dying(o)) <= 1,
         tag' = tag, rc' = rc, cellLock' = cellLock,
         \A v \in Object : field'[v] = field[v] \/ Puts(own, t, v),
         \A u \in Thread : \A o \in Object :
           /\ owned'[u][o] >= owned[u][o]
           /\ owned'[u][o] > 0 => owned[u][o] > 0 \/ (Live(o) /\ own[o] = Nil),
         Balance(val)'
  PROVE  Inv(own, val)'
<1>1. /\ Items(r) = {} /\ Parts(t) = {h} /\ Parts(t)' = Items(c)
      /\ \A u \in Thread : u # t => Parts(u)' = Parts(u)
      /\ \A u \in Thread : \A e \in Parts(u) : e \in Item
      /\ Items(c) \subseteq Item
  <2>1. Items(r) = {}
    BY Nothing
  <2>2. /\ Parts(t) = {h} \cup Items(r) /\ Parts(t)' = Items(r) \cup Items(c)
        /\ \A u \in Thread : u # t => Parts(u)' = Parts(u)
        /\ \A u \in Thread : \A e \in Parts(u) : e \in Item
        /\ Items(c) \subseteq Item
    <3>1. PICK b : b = <<h>>
      OBVIOUS
    <3>2. Turn(t, r, b, c)
      BY <3>1
    <3>3. Items(b) = {h}
      BY <3>1, List1
    <3>4. /\ Parts(t) = Items(r) \cup Items(b) /\ Parts(t)' = Items(r) \cup Items(c)
          /\ \A u \in Thread : u # t => Parts(u)' = Parts(u)
          /\ Items(c) \subseteq Item
      BY <3>2, Parted
    <3>5. \A u \in Thread : \A e \in Parts(u) : e \in Item
      BY HeldNat DEF Typed, TypeOK, Parts, Items
    <3>6. QED
      BY <3>3, <3>4, <3>5
  <2>3. QED
    BY <2>1, <2>2
<1>2. /\ Owner(own) /\ Marked(own) /\ Alive(own) /\ Values(val) /\ Balance(val) /\ Bounded /\ Freeing(val)
      /\ own \in [Object -> Thread \cup {Nil}] /\ val \in [Object -> 0..(2 * SHARED - 1)]
  BY DEF Inv
<1>3. /\ field \in [Object -> Object \cup {Nil}] /\ field' \in [Object -> Object \cup {Nil}]
      /\ owned \in [Thread -> [Object -> Nat]]
  BY DEF Typed, TypeOK
<1>4. t # Nil
  BY Numbers
<1>5. ASSUME NEW u \in Thread, NEW e \in Parts(u)', e.op # "drop"
      PROVE  u # t /\ e \in Parts(u)
  BY <1>1, <1>5
<1>6. \A u \in Thread : u # t => \A e \in Parts(u) : e \in Parts(u)'
  BY <1>1
<1>7. ASSUME NEW u \in Thread, NEW o \in Object, Mentions(u, o)' PROVE own[o] \in {u, Nil} /\ Live(o)
  <2>1. CASE owned'[u][o] > 0
    <3>1. CASE owned[u][o] > 0
      BY <3>1, <1>2 DEF Mentions, Owner, Alive
    <3>2. CASE Live(o) /\ own[o] = Nil
      BY <3>2
    <3>3. QED
      BY <2>1, <3>1, <3>2
  <2>2. ASSUME NEW e \in Parts(u)', Touch(e, o) PROVE own[o] \in {u, Nil} /\ Live(o)
    <3>1. CASE u # t
      <4>1. Mentions(u, o)
        BY <2>2, <3>1, <1>1 DEF Mentions
      <4>2. QED
        BY <4>1, <1>2 DEF Owner, Alive
    <3>2. CASE u = t
      <4>1. e \in Items(c) /\ e.op = "drop"
        BY <2>2, <3>2, <1>1
      <4>2. e.v = o
        BY <4>1, <2>2 DEF Touch, MoveOps
      <4>3. QED
        BY <4>1, <4>2, <3>2
    <3>3. QED
      BY <3>1, <3>2
  <2>3. QED
    BY <1>7, <2>1, <2>2 DEF Mentions, Touch
<1>8. /\ \A p \in Object : Live(p)' <=> Live(p)
      /\ \A p \in Object : Sound(p)' <=> Sound(p)
  <2>1. \A p \in Object : Live(p)' <=> Live(p)
    BY DEF Live
  <2>2. h.op \notin {"poison", "rewrite"} /\ \A e \in Items(c) : e.op \notin {"poison", "rewrite"}
    OBVIOUS
  <2>3. QED
    BY <2>1, <2>2, SameSound
<1>9. \A p \in Object : own[p] \notin {t, Nil} => field'[p] = field[p]
  BY DEF Puts
<1>10. \A o \in Object : Incs(o)' = Incs(o) /\ Adds(o)' = Adds(o)
  <2>1. h.op \notin IncOps /\ \A e \in Items(c) : e.op \notin IncOps
    BY DEF IncOps
  <2>2. QED
    BY <2>1, SameIncs
<1>11. Owner(own)'
  <2>1. \A u \in Thread : \A o \in Object : Mentions(u, o)' => own[o] \in {u, Nil}
    BY <1>7
  <2>2. \A p \in Object : tag'[p] # "none" /\ field'[p] # Nil => own[field'[p]] \in {own[p], Nil}
    BY <1>2 DEF Owner, Puts
  <2>3. \A o \in Object : Live(o)' /\ own[o] = Nil => IsShared(rc'[o])
    BY <1>2, <1>8 DEF Owner
  <2>4. ASSUME NEW u \in Thread, NEW e \in Parts(u)'
        PROVE  /\ e.op \in {"store", "rewrite"} => own[e.v] = u /\ ~IsShared(rc'[e.v])
               /\ e.op \in {"cas", "add", "saturate"} => IsShared(rc'[e.v])
               /\ e.op = "cas" => e.w \in (SHARED + 1)..(SHARED + COUNT_MASK)
    <3>1. CASE e.op = "drop"
      BY <3>1
    <3>2. CASE e.op # "drop"
      BY <3>2, <1>2, <1>5 DEF Owner
    <3>3. QED
      BY <3>1, <3>2
  <2>5. QED
    BY <2>1, <2>2, <2>3, <2>4 DEF Owner
<1>12. Marked(own)'
  <2>1. ASSUME NEW q \in Object, Sound(q)', IsShared(rc'[q]), field'[q] # Nil
        PROVE  IsShared(rc'[field'[q]]) \/ (own[q] # Nil /\ \E e \in Parts(own[q])' : e.op = "shade" /\ e.v = field'[q])
    <3>1. CASE field'[q] = field[q]
      <4>1. IsShared(rc[field[q]]) \/ (own[q] # Nil /\ \E e \in Parts(own[q]) : e.op = "shade" /\ e.v = field[q])
        BY <2>1, <3>1, <1>2, <1>8 DEF Marked, Has1
      <4>2. own[q] # Nil => own[q] \in Thread
        BY <1>2
      <4>3. own[q] = t => ~\E e \in Parts(own[q]) : e.op = "shade" /\ e.v = field[q]
        BY <1>1
      <4>4. QED
        BY <4>1, <4>2, <4>3, <3>1, <1>6
    <3>2. CASE Puts(own, t, q)
      BY <2>1, <3>2 DEF Puts
    <3>3. QED
      BY <3>1, <3>2
  <2>2. ASSUME NEW u \in Thread, u # t, NEW o, Has1(u, "shade", o) PROVE Has1(u, "shade", o)'
    BY <2>2, <1>6 DEF Has1
  <2>3. ASSUME NEW u \in Thread, u # t, NEW o, Carries(u, o) PROVE Carries(u, o)'
    BY <2>3, <1>1 DEF Carries
  <2>4. ASSUME NEW u \in Thread, NEW e \in Parts(u)'
        PROVE  /\ e.op = "give" => IsShared(rc'[e.v]) \/ Has1(u, "shade", e.v)'
               /\ e.op = "swap" /\ e.x # Nil /\ IsShared(rc'[e.v]) =>
                    IsShared(rc'[e.x]) \/ Has1(u, "shade", e.x)'
               /\ e.op = "swap" /\ (\E d \in Parts(u)' : d.op = "shade") => IsShared(rc'[e.v])
               /\ e.op = "shade" =>
                    IF e.k = "" THEN Carries(u, e.v)' ELSE \E q \in Fields(e.v)' : own[q] = u
               /\ e.op \in {"markLock", "markUnlock"} => Carries(u, e.v)'
    <3>1. CASE e.op = "drop"
      BY <3>1
    <3>2. CASE e.op # "drop"
      <4>1. u # t /\ e \in Parts(u)
        BY <3>2, <1>5
      <4>2. (\E d \in Parts(u)' : d.op = "shade") => \E d \in Parts(u) : d.op = "shade"
        BY <4>1, <1>1
      <4>3. /\ e.op = "give" => IsShared(rc[e.v]) \/ Has1(u, "shade", e.v)
            /\ e.op = "swap" /\ e.x # Nil /\ IsShared(rc[e.v]) => IsShared(rc[e.x]) \/ Has1(u, "shade", e.x)
            /\ e.op = "swap" /\ (\E d \in Parts(u) : d.op = "shade") => IsShared(rc[e.v])
            /\ e.op = "shade" => IF e.k = "" THEN Carries(u, e.v) ELSE \E q \in Fields(e.v) : own[q] = u
            /\ e.op \in {"markLock", "markUnlock"} => Carries(u, e.v)
        BY <4>1, <1>2 DEF Marked
      <4>4. ASSUME NEW q \in Fields(e.v), own[q] = u PROVE q \in Fields(e.v)'
        <5>1. q \in Object /\ Sound(q) /\ field[q] = e.v
          BY DEF Fields
        <5>2. field'[q] = field[q]
          BY <5>1, <4>4, <4>1, <1>9, Numbers
        <5>3. QED
          BY <5>1, <5>2, <1>8 DEF Fields
      <4>5. QED
        BY <4>1, <4>2, <4>3, <4>4, <2>2, <2>3
    <3>3. QED
      BY <3>1, <3>2
  <2>5. QED
    BY <2>1, <2>4 DEF Marked, Has1
<1>13. Alive(own)'
  <2>1. \A u \in Thread : \A o \in Object : Mentions(u, o)' => Live(o)'
    BY <1>7, <1>8
  <2>2. \A q \in Object : Sound(q)' /\ field'[q] # Nil => tag'[field'[q]] \in {"ctor", "ref"}
    <3>1. SUFFICES ASSUME NEW q \in Object, Sound(q)', field'[q] # Nil PROVE tag'[field'[q]] \in {"ctor", "ref"}
      OBVIOUS
    <3>2. CASE field'[q] = field[q]
      BY <3>1, <3>2, <1>2, <1>8 DEF Alive, Live
    <3>3. CASE Puts(own, t, q)
      BY <3>1, <3>3 DEF Puts
    <3>4. QED
      BY <3>2, <3>3
  <2>3. ASSUME NEW u \in Thread, NEW o \in Object, u \in Incs(o)'
        PROVE  /\ \E e \in Parts(u)' : e.op \in HoldOps /\ e.v = o
               /\ owned'[u][o] > 0 \/ \E q \in Fields(o)' : Keeps(own, u, q)'
    <3>1. u \in Incs(o)
      BY <2>3, <1>10
    <3>2. u # t
      BY <3>1, <1>1 DEF Incs, IncOps
    <3>3. /\ \E e \in Parts(u) : e.op \in HoldOps /\ e.v = o
          /\ owned[u][o] > 0 \/ \E q \in Fields(o) : Keeps(own, u, q)
      BY <3>1, <1>2 DEF Alive
    <3>4. \E e \in Parts(u)' : e.op \in HoldOps /\ e.v = o
      BY <3>2, <3>3, <1>6
    <3>5. owned[u][o] > 0 => owned'[u][o] > 0
      <4>1. owned[u][o] \in Nat /\ owned'[u][o] \in Nat /\ owned'[u][o] >= owned[u][o]
        BY <1>3 DEF Typed, TypeOK
      <4>2. QED
        BY <4>1
    <3>6. ASSUME NEW q \in Fields(o), Keeps(own, u, q) PROVE q \in Fields(o)' /\ Keeps(own, u, q)'
      <4>1. q \in Object /\ Sound(q) /\ field[q] = o
        BY DEF Fields
      <4>2. ~Puts(own, t, q)
        <5>1. SUFFICES ASSUME Puts(own, t, q) PROVE FALSE
          OBVIOUS
        <5>2. own[q] = Nil /\ cellLock[q] = u
          BY <5>1, <3>2, <3>6, Numbers DEF Puts, Keeps
        <5>3. IsShared(rc[q])
          BY <5>2, <4>1, <1>2 DEF Owner, Sound
        <5>4. QED
          BY <5>1, <5>2, <5>3, Numbers DEF Puts
      <4>3. q \in Fields(o)'
        BY <4>1, <4>2, <1>8 DEF Fields
      <4>4. Held(u, q)' >= Held(u, q) /\ Held(u, q) \in Nat /\ Held(u, q)' \in Nat
        <5>1. /\ Held(u, q) = owned[u][q] + Tok(code[u], q) /\ owned[u][q] \in Nat /\ Tok(code[u], q) \in Nat
              /\ Cnt(code[u], ByV(q)) \in Nat /\ Cnt(code[u], ByX(q)) \in Nat
          BY <4>1, HeldNat, CntPositive DEF Typed, TypeOK
        <5>2. code'[u] = code[u]
          BY <3>2 DEF Turn
        <5>3. Held(u, q)' = owned'[u][q] + Cnt(code[u], ByV(q)) + Cnt(code[u], ByX(q))
          BY <5>2 DEF Held
        <5>4. owned'[u][q] \in Nat /\ owned'[u][q] >= owned[u][q]
          BY <4>1 DEF Typed, TypeOK
        <5>5. Tok(code[u], q) = Cnt(code[u], ByV(q)) + Cnt(code[u], ByX(q))
          BY DEF Tok
        <5>6. QED
          BY <5>1, <5>3, <5>4, <5>5
      <4>5. QED
        BY <3>6, <4>3, <4>4 DEF Keeps
    <3>7. QED
      BY <3>3, <3>4, <3>5, <3>6
  <2>4. ASSUME NEW u \in Thread, NEW e \in Parts(u)'
        PROVE  /\ e.op \in {"get", "swap", "cellUnlock"} => tag'[e.v] = "ref"
               /\ e.op = "cellUnlock" => cellLock'[e.v] = u
               /\ e.op = "rewrite" => tag'[e.v] = "ctor"
    <3>1. CASE e.op = "drop"
      BY <3>1
    <3>2. CASE e.op # "drop"
      BY <3>2, <1>2, <1>5 DEF Alive
    <3>3. QED
      BY <3>1, <3>2
  <2>5. QED
    BY <2>1, <2>2, <2>3, <2>4 DEF Alive, Live
<1>14. Values(val)'
  <2>1. ASSUME NEW o \in Object, rc'[o] # val[o] PROVE \E u \in Thread : Has1(u, "store", o)'
    <3>1. PICK u \in Thread : Has1(u, "store", o)
      BY <2>1, <1>2 DEF Values
    <3>2. u # t
      BY <3>1, <1>1 DEF Has1
    <3>3. Has1(u, "store", o)'
      BY <3>1, <3>2, <1>6 DEF Has1
    <3>4. QED
      BY <3>3
  <2>2. ASSUME NEW u \in Thread, NEW e \in Parts(u)', e.op = "store" PROVE val[e.v] = e.w
    BY <2>2, <1>2, <1>5 DEF Values
  <2>3. QED
    BY <2>1, <2>2 DEF Values
<1>15. Bounded'
  BY <1>2, <1>10 DEF Bounded
<1>16. Freeing(val)'
  <2>1. ASSUME NEW u \in Thread, NEW e \in Parts(u)'
        PROVE  /\ e.op \in DyingOps => tag'[e.v] = "ctor" /\ Zero(val, e.v)
               /\ e.op = "rewrite" => val[e.v] = 1
    <3>1. CASE e.op = "drop"
      BY <3>1 DEF DyingOps
    <3>2. CASE e.op # "drop"
      BY <3>2, <1>2, <1>5 DEF Freeing
    <3>3. QED
      BY <3>1, <3>2
  <2>2. ASSUME NEW u \in Thread, NEW o \in Object PROVE Cnt(code'[u], Dying(o)) <= 1
    <3>1. CASE u # t
      BY <3>1, <1>2 DEF Turn, Freeing
    <3>2. CASE u = t
      <4>1. Cnt(code'[t], Dying(o)) = Cnt(r, Dying(o)) + Cnt(c, Dying(o))
        BY DEF Turn
      <4>2. Cnt(r, Dying(o)) = 0
        BY Nothing
      <4>3. Cnt(c, Dying(o)) \in Nat
        BY CntPositive DEF Turn
      <4>4. QED
        BY <4>1, <4>2, <4>3, <3>2
    <3>3. QED
      BY <3>1, <3>2
  <2>3. ASSUME NEW u \in Thread, NEW w \in Thread, NEW d \in Parts(u)', NEW e \in Parts(w)',
               d.op \in DyingOps, e.op \in DyingOps, d.v = e.v
        PROVE  u = w
    <3>1. d \in Parts(u) /\ e \in Parts(w)
      BY <2>3, <1>5 DEF DyingOps
    <3>2. QED
      BY <3>1, <2>3, <1>2 DEF Freeing
  <2>4. ASSUME NEW o \in Object, tag'[o] = "ctor", Zero(val, o)
        PROVE  \E u \in Thread : \E e \in Parts(u)' : e.op \in DyingOps /\ e.v = o
    <3>1. PICK u \in Thread : \E e \in Parts(u) : e.op \in DyingOps /\ e.v = o
      BY <2>4, <1>2 DEF Freeing
    <3>2. PICK e \in Parts(u) : e.op \in DyingOps /\ e.v = o
      BY <3>1
    <3>3. u # t
      BY <3>2, <1>1 DEF DyingOps
    <3>4. e \in Parts(u)'
      BY <3>3, <1>6
    <3>5. QED
      BY <3>2, <3>4
  <2>5. QED
    BY <2>1, <2>2, <2>3, <2>4 DEF Freeing, Zero, Dying
<1>17. QED
  BY <1>2, <1>11, <1>12, <1>13, <1>14, <1>15, <1>16 DEF Inv

(* The invariant holds with what the thread has marked given up.           *)
LEMMA Given ==
  ASSUME Typed, NEW own, NEW val, Inv(own, val), NEW t \in Thread,
         \A e \in Parts(t) : e.op \in {"give", "swap"}
  PROVE  \E m : /\ Inv(m, val)
                /\ \A o \in Object : m[o] = IF own[o] = t /\ Live(o) /\ IsShared(rc[o]) THEN Nil ELSE own[o]
<1>1. PICK m : m = [o \in Object |-> IF own[o] = t /\ Live(o) /\ IsShared(rc[o]) THEN Nil ELSE own[o]]
  OBVIOUS
<1>2. own \in [Object -> Thread \cup {Nil}]
  BY DEF Inv
<1>3. m \in [Object -> Thread \cup {Nil}]
  BY <1>1, <1>2
<1>4. \A o \in Object : m[o] = IF own[o] = t /\ Live(o) /\ IsShared(rc[o]) THEN Nil ELSE own[o]
  BY <1>1
<1>5. Inv(m, val)
  BY <1>3, <1>4, Shed
<1>6. QED
  BY <1>4, <1>5

(* Give: the value has been marked; the other thread has the reference.    *)
LEMMA GiveStep ==
  ASSUME Typed, Typed', NEW own, NEW val, Inv(own, val), NEW t \in Thread, Give(t)
  PROVE  \E m, n : Inv(m, n)'
<1>1. /\ Do(t, "give") /\ Then(t, <<>>) /\ UNCHANGED <<tag, rc, field, markLock, cellLock, ops>>
      /\ owned' = [owned EXCEPT ![X(t)][V(t)] = @ + 1]
  BY DEF Give
<1>2. PICK v, x, h, c : v = V(t) /\ x = X(t) /\ h = Head(code[t]) /\ c = <<>>
  OBVIOUS
<1>3. /\ h \in Item /\ h.op = "give" /\ h.v = v /\ v \in Object /\ h \in Parts(t) /\ own[v] \in {t, Nil} /\ Live(v)
  BY <1>1, <1>2, Ready
<1>4. h.x = x /\ x \in Thread /\ code[t] # <<>>
  <2>1. X(t) = Head(code[t]).x /\ code[t] # <<>>
    BY <1>1, Acting
  <2>2. QED
    BY <2>1, <1>2, <1>3, ItemFields
<1>5. Turn(t, c, <<h>>, c)
  <2>1. Rest(t) = <<>>
    BY <1>1, Final DEF LastOps
  <2>2. Turn(t, Rest(t), <<Head(code[t])>>, <<>>)
    BY <1>1, <1>4, DoneTurn
  <2>3. QED
    BY <2>1, <2>2, <1>2
<1>6. Items(c) = {} /\ Parts(t) = {h}
  <2>1. Items(c) = {}
    BY <1>2, Nothing
  <2>2. Parts(t) = {h} \cup Items(c)
    BY <1>3, <1>5, Executed
  <2>3. QED
    BY <2>1, <2>2
<1>7. PICK m : /\ Inv(m, val)
               /\ \A o \in Object : m[o] = IF own[o] = t /\ Live(o) /\ IsShared(rc[o]) THEN Nil ELSE own[o]
  BY <1>3, <1>6, Given
<1>8. IsShared(rc[v])
  <2>1. ~Has1(t, "shade", v)
    BY <1>3, <1>6 DEF Has1
  <2>2. QED
    BY <2>1, <1>3 DEF Inv, Marked
<1>9. m[v] = Nil
  BY <1>3, <1>7, <1>8
<1>10. owned \in [Thread -> [Object -> Nat]] /\ owned' \in [Thread -> [Object -> Nat]]
  BY DEF Typed, TypeOK
<1>11. \A u \in Thread : \A o \in Object : owned'[u][o] = owned[u][o] + (IF u = x /\ o = v THEN 1 ELSE 0)
  BY <1>1, <1>2, <1>3, <1>4, <1>10
<1>12. \A u \in Thread : \A o \in Object :
         /\ owned'[u][o] >= owned[u][o]
         /\ owned'[u][o] > 0 => owned[u][o] > 0 \/ (Live(o) /\ m[o] = Nil)
  BY <1>3, <1>9, <1>10, <1>11
<1>13. \A o \in Object : /\ Tok(<<h>>, o) = (IF o = v THEN 1 ELSE 0) /\ Tok(c, o) = 0 /\ Cnt(c, Dying(o)) <= 1
  <2>1. \A o \in Object : Tok(<<h>>, o) = Tok1(h, o) /\ Tok(c, o) = 0 /\ Cnt(c, Dying(o)) <= 1
    BY <1>2, <1>3, Single, Empty
  <2>2. QED
    BY <2>1, <1>3 DEF Tok1, HoldOps, MoveOps
<1>14. ASSUME NEW o \in Object PROVE Total(HeldBy(o))' = Total(HeldBy(o))
  <2>1. \A u \in Thread : Held(u, o) \in Nat /\ owned[u][o] \in Nat /\ Cnt(code[u], ByV(o)) \in Nat /\ Cnt(code[u], ByX(o)) \in Nat
    BY HeldNat, CntPositive DEF Typed, TypeOK
  <2>2. ASSUME NEW u \in Thread
        PROVE  Held(u, o)' = Held(u, o) - (IF u = t /\ o = v THEN 1 ELSE 0) + (IF u = x /\ o = v THEN 1 ELSE 0)
    <3>1. CASE u # t
      <4>1. code'[u] = code[u]
        BY <3>1, <1>5 DEF Turn
      <4>2. Held(u, o)' = owned'[u][o] + Cnt(code[u], ByV(o)) + Cnt(code[u], ByX(o))
        BY <4>1 DEF Held
      <4>3. Held(u, o) = owned[u][o] + Cnt(code[u], ByV(o)) + Cnt(code[u], ByX(o))
        BY DEF Held
      <4>4. QED
        BY <4>2, <4>3, <3>1, <2>1, <1>11
    <3>2. CASE u = t
      <4>1. /\ \A S : Cnt(code[t], S) = Cnt(c, S) + Cnt(<<h>>, S)
            /\ \A S : Cnt(code'[t], S) = Cnt(c, S) + Cnt(c, S)
        BY <1>5 DEF Turn
      <4>2. Held(t, o)' = owned'[t][o] + Cnt(code'[t], ByV(o)) + Cnt(code'[t], ByX(o))
        BY DEF Held
      <4>3. Held(t, o) = owned[t][o] + Cnt(code[t], ByV(o)) + Cnt(code[t], ByX(o))
        BY DEF Held
      <4>4. Cnt(c, ByV(o)) = 0 /\ Cnt(c, ByX(o)) = 0
        BY <1>2, Nothing
      <4>5. Cnt(<<h>>, ByV(o)) + Cnt(<<h>>, ByX(o)) = (IF o = v THEN 1 ELSE 0)
        BY <1>13 DEF Tok
      <4>6. Cnt(<<h>>, ByV(o)) \in Nat /\ Cnt(<<h>>, ByX(o)) \in Nat
        BY <2>1, <4>1, <4>4, CntPositive, <1>5 DEF Turn
      <4>7. QED
        BY <4>1, <4>2, <4>3, <4>4, <4>5, <4>6, <3>2, <2>1, <1>11
    <3>3. QED
      BY <3>1, <3>2
  <2>3. PICK b, d : b = HeldBy(o) /\ d = [b EXCEPT ![t] = b[t] - 1]
    OBVIOUS
  <2>4. b \in [Thread -> Nat] /\ \A u \in Thread : b[u] = Held(u, o)
    BY <2>1, <2>3 DEF HeldBy
  <2>5. HeldBy(o)' = [u \in Thread |-> Held(u, o)']
    BY DEF HeldBy
  <2>6. Total(HeldBy(o))' = Total(HeldBy(o)')
    BY DEF Total
  <2>7. CASE o # v
    <3>1. \A u \in Thread : Held(u, o)' = Held(u, o)
      BY <2>1, <2>2, <2>7
    <3>2. HeldBy(o)' = HeldBy(o)
      BY <3>1, <2>5 DEF HeldBy
    <3>3. QED
      BY <3>2, <2>6
  <2>8. CASE o = v
    <3>1. Held(t, o) >= 1
      BY <2>1, <2>8, <1>3, HeldNat DEF HoldOps
    <3>2. d \in [Thread -> Nat] /\ b[t] >= 1
      BY <3>1, <2>3, <2>4
    <3>3. HeldBy(o)' = [d EXCEPT ![x] = d[x] + 1]
      <4>1. \A u \in Thread : Held(u, o)' = Held(u, o) - (IF u = t THEN 1 ELSE 0) + (IF u = x THEN 1 ELSE 0)
        BY <2>2, <2>8
      <4>2. \A u \in Thread : d[u] = Held(u, o) - (IF u = t THEN 1 ELSE 0)
        BY <2>1, <2>3, <2>4
      <4>3. \A u \in Thread : Held(u, o)' = [d EXCEPT ![x] = d[x] + 1][u]
        BY <4>1, <4>2, <3>2, <1>4, <2>1
      <4>4. QED
        BY <4>3, <3>2, <2>5
    <3>4. PICK g : g = [d EXCEPT ![x] = d[x] + 1]
      OBVIOUS
    <3>5. Total(g) = Total(b)
      <4>1. b[t] \in Nat /\ b[t] - 1 \in Nat /\ d[x] \in Nat /\ d[x] + 1 \in Nat
        BY <3>2, <2>4, <1>4
      <4>2. Total([b EXCEPT ![t] = b[t] - 1]) = (Total(b) - b[t]) + (b[t] - 1)
        BY <4>1, <2>4, TotalStep
      <4>3. Total([d EXCEPT ![x] = d[x] + 1]) = (Total(d) - d[x]) + (d[x] + 1)
        BY <4>1, <3>2, <1>4, TotalStep
      <4>4. Total(b) \in Nat /\ Total(d) \in Nat
        BY <3>2, <2>4, TotalFinite
      <4>5. QED
        BY <4>1, <4>2, <4>3, <4>4, <3>4, <2>3
    <3>6. QED
      BY <3>3, <3>4, <3>5, <2>3, <2>6
  <2>9. QED
    BY <2>7, <2>8
<1>15. Balance(val)'
  <2>1. SUFFICES ASSUME NEW o \in Object
                 PROVE  /\ IsFiniteSet(Fields(o)')
                        /\ ~IsSaturated(val[o]) =>
                             Count(val[o]) + Cardinality(Incs(o)') = Total(HeldBy(o))' + Cardinality(Fields(o)')
    BY DEF Balance, HeldBy
  <2>2. Incs(o)' = Incs(o)
    BY <1>3, <1>5, <1>6, SameIncs DEF IncOps
  <2>4. Fields(o)' = Fields(o)
    <3>1. h.op \notin {"poison", "rewrite"} /\ \A e \in Items(c) : e.op \notin {"poison", "rewrite"}
      BY <1>3, <1>6
    <3>2. \A p \in Object : Sound(p)' <=> Sound(p)
      BY <3>1, <1>1, <1>3, <1>5, SameSound
    <3>3. QED
      BY <3>2, <1>1 DEF Fields
  <2>5. Total(HeldBy(o))' = Total(HeldBy(o))
    BY <1>14
  <2>6. QED
    BY <2>2, <2>4, <2>5 DEF Inv, Balance, HeldBy
<1>16. Inv(m, val)'
  <2>1. \A e \in Items(c) : e.op = "drop" /\ m[e.v] \in {t, Nil} /\ Live(e.v)
    BY <1>6
  <2>2. \A q \in Object : field'[q] = field[q] \/ Puts(m, t, q)
    BY <1>1
  <2>3. tag' = tag /\ rc' = rc /\ cellLock' = cellLock /\ h.op \in {"give", "swap"} /\ \A o \in Object : Cnt(c, Dying(o)) <= 1
    BY <1>1, <1>3, <1>13
  <2>4. QED
    BY <2>1, <2>2, <2>3, <1>2, <1>3, <1>5, <1>7, <1>12, <1>15, LastStep
<1>17. QED
  BY <1>16

(* Swap: the cell holds the new content; the old one is dropped.           *)
LEMMA SwapStep ==
  ASSUME Typed, Typed', NEW own, NEW val, Inv(own, val), NEW t \in Thread, Swap(t)
  PROVE  \E m, n : Inv(m, n)'
<1>1. /\ Do(t, "swap") /\ UNCHANGED <<tag, rc, owned, markLock, cellLock, ops>>
      /\ field' = [field EXCEPT ![V(t)] = X(t)] /\ (IsShared(rc[V(t)]) => cellLock[V(t)] = Nil)
  BY DEF Swap
<1>2. PICK v, x, f, h, r : v = V(t) /\ x = X(t) /\ f = field[v] /\ h = Head(code[t]) /\ r = Rest(t)
  OBVIOUS
<1>3. /\ h \in Item /\ h.op = "swap" /\ h.v = v /\ v \in Object /\ h \in Parts(t) /\ own[v] \in {t, Nil} /\ Live(v)
  BY <1>1, <1>2, Ready
<1>4. h.x = x /\ x \in (Object \cup {Nil}) \ {v} /\ code[t] # <<>>
  <2>1. X(t) = Head(code[t]).x /\ code[t] # <<>>
    BY <1>1, Acting
  <2>2. h.op \in MoveOps
    BY <1>3 DEF MoveOps
  <2>3. QED
    BY <2>1, <2>2, <1>2, <1>3, ItemFields
<1>5. r = <<>>
  BY <1>1, <1>2, Final DEF LastOps
<1>6. PICK c : /\ Turn(t, r, <<h>>, c)
               /\ \/ f = Nil /\ c = <<>>
                  \/ f # Nil /\ \E d \in Item : c = <<d>> /\ d.op = "drop" /\ d.v = f
  BY <1>2, SwapTurn
<1>7. /\ field \in [Object -> Object \cup {Nil}] /\ f \in Object \cup {Nil}
      /\ owned \in [Thread -> [Object -> Nat]]
  BY <1>2, <1>3 DEF Typed, TypeOK
<1>8. field'[v] = x /\ \A q \in Object : q # v => field'[q] = field[q]
  BY <1>1, <1>2, <1>3, <1>7
<1>9. Parts(t) = {h}
  <2>1. Parts(t) = {h} \cup Items(r) /\ Items(r) = {}
    BY <1>3, <1>5, <1>6, Executed, Nothing
  <2>2. QED
    BY <2>1
<1>10. PICK m : /\ Inv(m, val)
                /\ \A o \in Object : m[o] = IF own[o] = t /\ Live(o) /\ IsShared(rc[o]) THEN Nil ELSE own[o]
  BY <1>3, <1>9, Given
<1>11. /\ m[v] \in {t, Nil} /\ tag[v] = "ref" /\ Sound(v)
       /\ m[v] = t => ~IsShared(rc[v])
       /\ m[v] = Nil => IsShared(rc[v])
  <2>1. tag[v] = "ref"
    BY <1>3 DEF Inv, Alive
  <2>2. Sound(v)
    BY <2>1, <1>3, CellSound DEF Inv
  <2>3. QED
    BY <2>1, <2>2, <1>3, <1>10, Numbers DEF Inv, Owner
<1>12. x # Nil => /\ x \in Object /\ Live(x) /\ m[x] \in {m[v], Nil}
                  /\ IsShared(rc[v]) => IsShared(rc[x])
  <2>1. SUFFICES ASSUME x # Nil
                 PROVE  x \in Object /\ Live(x) /\ m[x] \in {m[v], Nil} /\ (IsShared(rc[v]) => IsShared(rc[x]))
    OBVIOUS
  <2>2. x \in Object /\ Mentions(t, x)
    BY <2>1, <1>3, <1>4, PartMentions DEF MoveOps
  <2>3. Live(x) /\ own[x] \in {t, Nil}
    BY <2>2 DEF Inv, Alive, Owner
  <2>4. ~Has1(t, "shade", x)
    BY <1>3, <1>9 DEF Has1
  <2>5. IsShared(rc[v]) => IsShared(rc[x])
    BY <2>1, <2>4, <1>3, <1>4 DEF Inv, Marked
  <2>6. QED
    BY <2>2, <2>3, <2>5, <1>10, <1>11
<1>13. f # Nil => f \in Object /\ Live(f) /\ m[f] \in {t, Nil} /\ f # v
  <2>1. f # Nil => f \in Object /\ Live(f) /\ m[f] \in {m[v], Nil} /\ f # v
    BY <1>2, <1>3, <1>10, <1>11, Content DEF Inv
  <2>2. QED
    BY <2>1, <1>11
<1>14. \A e \in Items(c) : e.op = "drop" /\ m[e.v] \in {t, Nil} /\ Live(e.v)
  <2>1. CASE f = Nil
    BY <2>1, <1>6, Nothing
  <2>2. CASE f # Nil
    <3>1. PICK d \in Item : c = <<d>> /\ d.op = "drop" /\ d.v = f
      BY <2>2, <1>6
    <3>2. Items(c) = {d}
      BY <3>1, List1
    <3>3. QED
      BY <3>1, <3>2, <2>2, <1>13
  <2>3. QED
    BY <2>1, <2>2
<1>15. \A o \in Object : /\ Tok(<<h>>, o) = (IF o = x THEN 1 ELSE 0)
                         /\ Tok(c, o) = (IF o = f THEN 1 ELSE 0) /\ Cnt(c, Dying(o)) <= 1
  <2>1. ASSUME NEW o \in Object PROVE Tok(<<h>>, o) = (IF o = x THEN 1 ELSE 0)
    <3>1. Tok(<<h>>, o) = Tok1(h, o)
      BY <1>3, Single
    <3>2. QED
      BY <3>1, <1>3, <1>4 DEF Tok1, HoldOps, MoveOps
  <2>2. ASSUME NEW o \in Object PROVE Tok(c, o) = (IF o = f THEN 1 ELSE 0) /\ Cnt(c, Dying(o)) <= 1
    <3>1. CASE f = Nil
      BY <3>1, <1>6, Empty, Numbers
    <3>2. CASE f # Nil
      <4>1. PICK d \in Item : c = <<d>> /\ d.op = "drop" /\ d.v = f
        BY <3>2, <1>6
      <4>2. Tok(c, o) = Tok1(d, o) /\ Cnt(c, Dying(o)) <= 1
        BY <4>1, Single
      <4>3. QED
        BY <4>1, <4>2 DEF Tok1, HoldOps, MoveOps
    <3>3. QED
      BY <3>1, <3>2
  <2>3. QED
    BY <2>1, <2>2
<1>16. \A q \in Object : field'[q] = field[q] \/ Puts(m, t, q)
  <2>1. Puts(m, t, v)
    BY <1>1, <1>2, <1>8, <1>11, <1>12 DEF Puts, Live
  <2>2. QED
    BY <2>1, <1>8
<1>17. \A u \in Thread : \A o \in Object :
         /\ owned'[u][o] >= owned[u][o]
         /\ owned'[u][o] > 0 => owned[u][o] > 0 \/ (Live(o) /\ m[o] = Nil)
  BY <1>1, <1>7
<1>18. \A p \in Object : Sound(p)' <=> Sound(p)
  <2>1. h.op \notin {"poison", "rewrite"} /\ \A e \in Items(c) : e.op \notin {"poison", "rewrite"}
    BY <1>3, <1>14
  <2>2. QED
    BY <2>1, <1>1, <1>3, <1>6, SameSound
<1>19. \A o \in Object : Fields(o)' = (Fields(o) \ {v}) \cup (IF o = x THEN {v} ELSE {})
  <2>1. SUFFICES ASSUME NEW o \in Object
                 PROVE  Fields(o)' = (Fields(o) \ {v}) \cup (IF o = x THEN {v} ELSE {})
    OBVIOUS
  <2>2. Fields(o)' = {q \in Object : Sound(q)' /\ field'[q] = o}
    BY DEF Fields
  <2>3. Fields(o) = {q \in Object : Sound(q) /\ field[q] = o}
    BY DEF Fields
  <2>4. \A q \in Object : (Sound(q)' /\ field'[q] = o) <=> ((q # v /\ Sound(q) /\ field[q] = o) \/ (q = v /\ o = x))
    BY <1>8, <1>11, <1>18
  <2>5. QED
    BY <2>2, <2>3, <2>4, <1>3
<1>20. Balance(val)'
  <2>1. SUFFICES ASSUME NEW o \in Object
                 PROVE  /\ IsFiniteSet(Fields(o)')
                        /\ ~IsSaturated(val[o]) =>
                             Count(val[o]) + Cardinality(Incs(o)') = Total(HeldBy(o))' + Cardinality(Fields(o)')
    BY DEF Balance, HeldBy
  <2>2. Incs(o)' = Incs(o)
    BY <1>3, <1>6, <1>14, SameIncs DEF IncOps
  <2>3. PICK F, G : F = Fields(o) /\ G = Fields(o) \ {v}
    OBVIOUS
  <2>4. IsFiniteSet(F) /\ Cardinality(F) \in Nat /\ (v \in F <=> o = f)
    BY <2>3, <1>2, <1>3, <1>11, FS_CardinalityType DEF Inv, Balance, Fields
  <2>5. IsFiniteSet(G) /\ Cardinality(G) = Cardinality(F) - (IF o = f THEN 1 ELSE 0) /\ v \notin G /\ Cardinality(G) \in Nat
    <3>1. CASE v \in F
      <4>1. IsFiniteSet(F \ {v}) /\ Cardinality(F \ {v}) = Cardinality(F) - 1
        BY <3>1, <2>4, FS_RemoveElement
      <4>2. G = F \ {v} /\ v \notin G
        BY <2>3
      <4>3. Cardinality(G) \in Nat
        BY <4>1, <4>2, FS_CardinalityType
      <4>4. QED
        BY <4>1, <4>2, <4>3, <3>1, <2>4
    <3>2. CASE v \notin F
      <4>1. G = F
        BY <3>2, <2>3
      <4>2. QED
        BY <4>1, <3>2, <2>4
    <3>3. QED
      BY <3>1, <3>2
  <2>6. IsFiniteSet(Fields(o)') /\ Cardinality(Fields(o)') = Cardinality(G) + (IF o = x THEN 1 ELSE 0)
    <3>1. CASE o = x
      <4>1. Fields(o)' = G \cup {v}
        BY <3>1, <2>3, <1>19
      <4>2. IsFiniteSet(G \cup {v}) /\ Cardinality(G \cup {v}) = Cardinality(G) + 1
        BY <2>5, FS_AddElement
      <4>3. QED
        BY <4>1, <4>2, <3>1
    <3>2. CASE o # x
      <4>1. Fields(o)' = G
        BY <3>2, <2>3, <1>19
      <4>2. QED
        BY <4>1, <3>2, <2>5
    <3>3. QED
      BY <3>1, <3>2
  <2>7. Total(HeldBy(o))' + (IF o = x THEN 1 ELSE 0) = Total(HeldBy(o)) + (IF o = f THEN 1 ELSE 0)
    <3>1. /\ Total(HeldBy(o)) \in Nat /\ Total(HeldBy(o))' \in Nat
          /\ Total(HeldBy(o))' + owned[t][o] + Tok(<<h>>, o) = Total(HeldBy(o)) + owned'[t][o] + Tok(c, o)
      BY <1>1, <1>6, TotalTurn
    <3>2. owned'[t][o] = owned[t][o] /\ owned[t][o] \in Nat
      BY <1>1, <1>7
    <3>3. QED
      BY <3>1, <3>2, <1>15
  <2>8. Total(HeldBy(o)) \in Nat /\ Total(HeldBy(o))' \in Nat
    BY <1>1, <1>6, TotalTurn
  <2>9. ~IsSaturated(val[o]) => Count(val[o]) + Cardinality(Incs(o)) = Total(HeldBy(o)) + Cardinality(F)
    BY <2>3 DEF Inv, Balance, HeldBy
  <2>10. Cardinality(Incs(o)) \in Nat
    BY IncsFinite
  <2>11. Count(val[o]) \in Nat
    BY Words DEF Inv
  <2>12. QED
    BY <2>2, <2>4, <2>5, <2>6, <2>7, <2>8, <2>9, <2>10, <2>11
<1>21. Inv(m, val)'
  <2>1. tag' = tag /\ rc' = rc /\ cellLock' = cellLock /\ h.op \in {"give", "swap"} /\ \A o \in Object : Cnt(c, Dying(o)) <= 1
    BY <1>1, <1>3, <1>15
  <2>2. QED
    BY <2>1, <1>3, <1>5, <1>6, <1>10, <1>14, <1>16, <1>17, <1>20, LastStep
<1>22. QED
  BY <1>21

-----------------------------------------------------------------------------
(* The invariant is inductive.                                             *)

(* A step of the runtime keeps the invariant.                              *)
LEMMA MicroStep ==
  ASSUME Typed, Typed', NEW own, NEW val, Inv(own, val), NEW t \in Thread, Micro(t)
  PROVE  \E m, n : Inv(m, n)'
<1>1. CASE DupRead(t)
  BY <1>1, DupReadStep
<1>2. CASE Store(t)
  BY <1>2, StoreStep
<1>3. CASE Add(t)
  BY <1>3, AddStep
<1>4. CASE Saturate(t)
  BY <1>4, SaturateStep
<1>5. CASE DropRead(t)
  BY <1>5, DropReadStep
<1>6. CASE DropCas(t)
  BY <1>6, DropCasStep
<1>7. CASE Free(t)
  BY <1>7, FreeStep
<1>8. CASE Poison(t)
  BY <1>8, PoisonStep
<1>9. CASE Locks(t)
  BY <1>9, LocksStep
<1>10. CASE Shade(t)
  BY <1>10, ShadeStep
<1>11. CASE OwnValue(t)
  BY <1>11, OwnValueStep
<1>12. CASE Give(t)
  BY <1>12, GiveStep
<1>13. CASE Alloc(t)
  BY <1>13, AllocStep
<1>14. CASE Rewrite(t)
  BY <1>14, RewriteStep
<1>15. CASE Swap(t)
  BY <1>15, SwapStep
<1>16. CASE CellGet(t)
  BY <1>16, CellGetStep
<1>17. QED
  BY <1>1, <1>2, <1>3, <1>4, <1>5, <1>6, <1>7, <1>8, <1>9, <1>10, <1>11, <1>12, <1>13, <1>14, <1>15, <1>16
     DEF Micro

(* The invariant is about the variables alone.                             *)
LEMMA StutterStep ==
  ASSUME NEW own, NEW val, Inv(own, val), UNCHANGED vars
  PROVE  Inv(own, val)'
<1>1. /\ tag' = tag /\ rc' = rc /\ field' = field /\ owned' = owned /\ code' = code
      /\ markLock' = markLock /\ cellLock' = cellLock
  BY DEF vars
<1>2. /\ \A t : Parts(t)' = Parts(t)
      /\ \A t, o : Held(t, o)' = Held(t, o)
      /\ \A o : Live(o)' <=> Live(o)
  BY <1>1 DEF Parts, Held, Live
<1>3. \A o : Broken(o)' <=> Broken(o)
  BY <1>2 DEF Broken
<1>4. /\ \A o : Sound(o)' <=> Sound(o)
      /\ \A o : Fields(o)' = Fields(o)
  BY <1>1, <1>2, <1>3 DEF Sound, Fields
<1>5. Owner(own)'
  BY <1>1, <1>2 DEF Inv, Owner, Mentions
<1>6. Marked(own)'
  <2>1. /\ \A t, o, v : Has1(t, o, v)' <=> Has1(t, o, v)
        /\ \A t, o : Carries(t, o)' <=> Carries(t, o)
    BY <1>2 DEF Has1, Carries
  <2>2. \A p \in Object :
          Sound(p)' /\ IsShared(rc'[p]) /\ field'[p] # Nil =>
            IsShared(rc'[field'[p]]) \/ (own[p] # Nil /\ \E e \in Parts(own[p])' : e.op = "shade" /\ e.v = field'[p])
    BY <1>1, <1>2, <1>4 DEF Inv, Marked, Has1
  <2>3. ASSUME NEW t \in Thread, NEW e \in Parts(t)'
        PROVE  /\ e.op = "give" => IsShared(rc'[e.v]) \/ Has1(t, "shade", e.v)'
               /\ e.op = "swap" /\ e.x # Nil /\ IsShared(rc'[e.v]) =>
                    IsShared(rc'[e.x]) \/ Has1(t, "shade", e.x)'
               /\ e.op = "swap" /\ (\E d \in Parts(t)' : d.op = "shade") => IsShared(rc'[e.v])
               /\ e.op = "shade" =>
                    IF e.k = "" THEN Carries(t, e.v)' ELSE \E q \in Fields(e.v)' : own[q] = t
               /\ e.op \in {"markLock", "markUnlock"} => Carries(t, e.v)'
    <3>1. e \in Parts(t) /\ Parts(t)' = Parts(t) /\ rc' = rc /\ Fields(e.v)' = Fields(e.v)
      BY <1>1, <1>2, <1>4
    <3>2. /\ e.op = "give" => IsShared(rc[e.v]) \/ Has1(t, "shade", e.v)
          /\ e.op = "swap" /\ e.x # Nil /\ IsShared(rc[e.v]) => IsShared(rc[e.x]) \/ Has1(t, "shade", e.x)
          /\ e.op = "swap" /\ (\E d \in Parts(t) : d.op = "shade") => IsShared(rc[e.v])
          /\ e.op = "shade" => IF e.k = "" THEN Carries(t, e.v) ELSE \E q \in Fields(e.v) : own[q] = t
          /\ e.op \in {"markLock", "markUnlock"} => Carries(t, e.v)
      BY <3>1 DEF Inv, Marked
    <3>3. QED
      BY <3>1, <3>2, <2>1
  <2>4. QED
    BY <2>2, <2>3 DEF Marked, Has1
<1>7. Alive(own)'
  <2>1. /\ \A t, o : Mentions(t, o)' <=> Mentions(t, o)
        /\ \A o : Incs(o)' = Incs(o)
        /\ \A t, p : Keeps(own, t, p)' <=> Keeps(own, t, p)
    BY <1>1, <1>2 DEF Mentions, Incs, Keeps
  <2>2. \A p \in Object : Sound(p)' /\ field'[p] # Nil => tag'[field'[p]] \in {"ctor", "ref"}
    BY <1>1, <1>4 DEF Inv, Alive, Live
  <2>3. QED
    BY <2>1, <2>2, <1>1, <1>2, <1>4 DEF Inv, Alive, Live
<1>8. Values(val)'
  BY <1>1, <1>2 DEF Inv, Values, Has1
<1>9. Balance(val)'
  BY <1>1, <1>2, <1>4 DEF Inv, Balance, Incs
<1>10. Bounded'
  BY <1>1, <1>2 DEF Inv, Bounded, Adds, Has1
<1>11. Freeing(val)'
  BY <1>1, <1>2 DEF Inv, Freeing
<1>12. QED
  BY <1>5, <1>6, <1>7, <1>8, <1>9, <1>10, <1>11 DEF Inv

(* Initially one thread owns all there is, and no bit is set.              *)
LEMMA InvInit ==
  ASSUME Init
  PROVE  \E own, val : Inv(own, val)
<1>1. PICK t \in Thread, a \in Object, b \in Object, k \in {"ctor", "ref"} :
        /\ a # b
        /\ tag = [o \in Object |-> IF o = a THEN k ELSE IF o = b THEN "ctor" ELSE "none"]
        /\ rc = [o \in Object |-> IF o \in {a, b} THEN 1 ELSE 0]
        /\ field = [o \in Object |-> IF o = a THEN b ELSE Nil]
        /\ owned = [u \in Thread |-> [o \in Object |-> IF u = t /\ o = a THEN 1 ELSE 0]]
        /\ code = [u \in Thread |-> <<>>]
  BY DEF Init
<1>2. PICK own, val : own = [o \in Object |-> t] /\ val = rc
  OBVIOUS
<1>3. \A u \in Thread : Parts(u) = {} /\ code[u] = <<>>
  BY <1>1, Nothing DEF Parts
<1>4. /\ \A o \in Object : ~Broken(o) /\ Incs(o) = {} /\ Adds(o) = {}
      /\ \A o \in Object : Sound(o) <=> o \in {a, b}
      /\ \A o \in Object : Live(o) <=> o \in {a, b}
  <2>1. \A o \in Object : ~Broken(o) /\ Incs(o) = {} /\ Adds(o) = {}
    BY <1>3 DEF Broken, Incs, Adds, Has1
  <2>2. \A o \in Object : Live(o) <=> o \in {a, b}
    BY <1>1 DEF Live
  <2>3. QED
    BY <2>1, <2>2 DEF Sound
<1>5. \A o \in Object : Fields(o) = IF o = b THEN {a} ELSE {}
  BY <1>1, <1>4, Numbers DEF Fields
<1>6. \A u \in Thread : \A o \in Object : Held(u, o) = (IF u = t /\ o = a THEN 1 ELSE 0) /\ owned[u][o] = Held(u, o)
  <2>1. \A S : Cnt(<<>>, S) = 0
    BY Nothing
  <2>2. \A u \in Thread : \A o \in Object : Cnt(code[u], ByV(o)) = 0 /\ Cnt(code[u], ByX(o)) = 0
    BY <2>1, <1>3
  <2>3. QED
    BY <2>2, <1>1 DEF Held
<1>7. \A o \in Object : /\ ~IsShared(rc[o]) /\ ~IsSaturated(rc[o]) /\ Count(rc[o]) = rc[o]
                        /\ rc[o] = (IF o \in {a, b} THEN 1 ELSE 0) /\ rc[o] \in 0..(2 * SHARED - 1) /\ rc[o] <= SATURATED
  <2>1. ASSUME NEW o \in Object
        PROVE  rc[o] = (IF o \in {a, b} THEN 1 ELSE 0) /\ rc[o] \in 0..(2 * SHARED - 1) /\ rc[o] < SATURATED
    BY <1>1, Numbers
  <2>2. \A o \in Object : ~IsShared(rc[o]) /\ ~IsSaturated(rc[o]) /\ Count(rc[o]) = rc[o]
    BY <2>1, Words
  <2>3. QED
    BY <2>1, <2>2, Numbers
<1>8. own \in [Object -> Thread \cup {Nil}] /\ val \in [Object -> 0..(2 * SHARED - 1)]
  BY <1>1, <1>2, <1>7
<1>9. \A u \in Thread : \A o \in Object : Mentions(u, o) => u = t /\ o = a
  BY <1>3, <1>6 DEF Mentions
<1>10. Owner(own)
  <2>1. \A o \in Object : own[o] = t /\ own[o] # Nil
    BY <1>2, Numbers
  <2>2. \A p \in Object : field[p] # Nil => field[p] = b /\ p = a
    BY <1>1
  <2>3. QED
    BY <2>1, <2>2, <1>1, <1>3, <1>9 DEF Owner
<1>11. Marked(own)
  BY <1>3, <1>7 DEF Marked
<1>12. Alive(own)
  <2>1. \A p \in Object : field[p] # Nil => Live(field[p])
    BY <1>1, <1>4
  <2>2. QED
    BY <2>1, <1>3, <1>4, <1>9 DEF Alive
<1>13. Values(val)
  BY <1>2, <1>3 DEF Values
<1>14. Balance(val)
  <2>1. SUFFICES ASSUME NEW o \in Object
                 PROVE  /\ IsFiniteSet(Fields(o))
                        /\ Count(val[o]) + Cardinality(Incs(o)) = Total(HeldBy(o)) + Cardinality(Fields(o))
    BY DEF Balance, HeldBy
  <2>2. /\ Cardinality({}) = 0 /\ IsFiniteSet({})
        /\ Cardinality({a}) = 1 /\ IsFiniteSet({a})
    BY FS_EmptySet, FS_Singleton
  <2>3. HeldBy(o) \in [Thread -> Nat] /\ \A u \in Thread : HeldBy(o)[u] = IF u = t /\ o = a THEN 1 ELSE 0
    BY <1>6 DEF HeldBy
  <2>4. Total(HeldBy(o)) = IF o = a THEN 1 ELSE 0
    <3>1. \A u \in Thread : u # t => HeldBy(o)[u] = 0
      BY <2>3
    <3>2. Total(HeldBy(o)) = HeldBy(o)[t]
      BY <3>1, <2>3, TotalZero
    <3>3. QED
      BY <3>2, <2>3
  <2>5. Count(val[o]) = IF o \in {a, b} THEN 1 ELSE 0
    BY <1>2, <1>7
  <2>6. Incs(o) = {} /\ Fields(o) = IF o = b THEN {a} ELSE {}
    BY <1>4, <1>5
  <2>7. CASE o = b
    BY <2>2, <2>4, <2>5, <2>6, <2>7, <1>1
  <2>8. CASE o # b
    BY <2>2, <2>4, <2>5, <2>6, <2>8, <1>1
  <2>9. QED
    BY <2>7, <2>8
<1>15. Bounded
  BY <1>7 DEF Bounded
<1>16. Freeing(val)
  <2>1. \A o \in Object : tag[o] = "ctor" => ~Zero(val, o)
    BY <1>1, <1>2, <1>7 DEF Zero
  <2>2. \A u \in Thread : \A o \in Object : Cnt(code[u], Dying(o)) <= 1
    BY <1>3, Nothing
  <2>3. QED
    BY <2>1, <2>2, <1>3 DEF Freeing
<1>17. Inv(own, val)
  BY <1>8, <1>10, <1>11, <1>12, <1>13, <1>14, <1>15, <1>16 DEF Inv
<1>18. QED
  BY <1>17

(* The counts, the owners, the marks and the liveness of values hold       *)
(* together in every reachable state: for every choice of objects and      *)
(* threads there are ghosts own and val with which the invariant holds.    *)
THEOREM Inductive == Spec => []IInv
<1>1. Init => IInv
  BY TypedInit, InvInit DEF IInv
<1>2. IInv /\ [Next]_vars => IInv'
  <2>1. SUFFICES ASSUME IInv, [Next]_vars PROVE IInv'
    OBVIOUS
  <2>2. Typed /\ Typed'
    BY <2>1, TypedStep DEF IInv
  <2>3. PICK own, val : Inv(own, val)
    BY <2>1 DEF IInv
  <2>4. ASSUME NEW t \in Thread, Micro(t) PROVE \E m, n : Inv(m, n)'
    BY <2>2, <2>3, <2>4, MicroStep
  <2>5. ASSUME NEW t \in Thread, Program(t) PROVE \E m, n : Inv(m, n)'
    <3>1. Inv(own, val)'
      BY <2>2, <2>3, <2>5, ProgramStep
    <3>2. QED
      BY <3>1
  <2>6. CASE UNCHANGED vars
    <3>1. Inv(own, val)'
      BY <2>3, <2>6, StutterStep
    <3>2. QED
      BY <3>1, <2>2 DEF IInv
  <2>7. CASE Next
    BY <2>2, <2>4, <2>5, <2>7 DEF Next, IInv
  <2>8. QED
    BY <2>1, <2>6, <2>7
<1>3. QED
  BY <1>1, <1>2, PTL DEF Spec

-----------------------------------------------------------------------------
(* What the invariant implies.                                             *)

(* What a thread is going to touch is mentioned in its code.               *)
LEMMA InFlightMentions ==
  ASSUME Typed, NEW t \in Thread, NEW o \in InFlight(t)
  PROVE  o \in Object /\ Mentions(t, o)
<1>1. code[t] \in Seq(Item) /\ DOMAIN code[t] = 1..Len(code[t])
  BY DEF Typed, TypeOK
<1>2. PICK i \in DOMAIN code[t] : o = code[t][i].v \/ (o = code[t][i].x /\ code[t][i].op \in {"swap", "rewrite"})
  BY DEF InFlight
<1>3. PICK e : e = code[t][i]
  OBVIOUS
<1>4. e \in Parts(t) /\ o # Nil
  BY <1>1, <1>2, <1>3 DEF Parts, Items, InFlight
<1>5. e \in Item
  BY <1>1, <1>2, <1>3
<1>6. CASE o = e.v
  BY <1>4, <1>5, <1>6, ItemFields DEF Mentions, Touch
<1>7. CASE o = e.x /\ e.op \in {"swap", "rewrite"}
  <2>1. e.op \in MoveOps
    BY <1>7 DEF MoveOps
  <2>2. QED
    BY <2>1, <1>4, <1>5, <1>7, ItemFields DEF Mentions, Touch
<1>8. QED
  BY <1>2, <1>3, <1>6, <1>7

(* The invariant excludes dangling references.                             *)
LEMMA NoDanglingState ==
  ASSUME IInv
  PROVE  NoDangling
<1>1. Typed
  BY DEF IInv
<1>2. PICK own, val : Inv(own, val)
  BY DEF IInv
<1>3. Alive(own)
  BY <1>2 DEF Inv
<1>4. ASSUME NEW o \in Object, tag[o] = "freed", NEW t \in Thread PROVE owned[t][o] = 0 /\ o \notin InFlight(t)
  <2>1. ~Mentions(t, o)
    BY <1>3, <1>4 DEF Alive, Live
  <2>2. owned[t][o] \in Nat
    BY <1>1, <1>4 DEF Typed, TypeOK
  <2>3. QED
    BY <2>1, <2>2, <1>1, InFlightMentions DEF Mentions
<1>5. ASSUME NEW o \in Object, Live(o), ~Torn(o), field[o] # Nil PROVE Live(field[o])
  <2>1. ASSUME NEW t \in Thread, NEW e \in Parts(t), e.op \in {"poison", "rewrite"}, e.v = o PROVE FALSE
    <3>1. code[t] \in Seq(Item)
      BY <1>1 DEF Typed, TypeOK
    <3>2. PICK i \in DOMAIN code[t] : e = code[t][i]
      BY <2>1, <3>1 DEF Parts, Items
    <3>3. QED
      BY <3>2, <2>1, <1>5 DEF Torn
  <2>2. Sound(o)
    BY <2>1, <1>5 DEF Sound, Broken
  <2>3. QED
    BY <2>2, <1>3, <1>5 DEF Alive
<1>6. QED
  BY <1>4, <1>5 DEF NoDangling

(* kassert_live: nobody holds or is about to touch a freed value, whatever *)
(* the threads copy, drop, reuse, overwrite and publish at the same time.  *)
THEOREM Dangling == Spec => []NoDangling
<1>1. IInv => NoDangling
  BY NoDanglingState
<1>2. QED
  BY <1>1, Inductive, PTL

(* The values of S belong to t or to nobody.                               *)
Within(own, t, S) == \A o \in S : o \in Object /\ tag[o] # "none" /\ own[o] \in {t, Nil}

(* What they hold belongs to t or to nobody too.                           *)
LEMMA StepWithin ==
  ASSUME Typed, NEW own, Owner(own), NEW t \in Thread, NEW S, Within(own, t, S)
  PROVE  Within(own, t, Step(S))
<1>1. ASSUME NEW o \in S, field[o] # Nil
      PROVE  field[o] \in Object /\ tag[field[o]] # "none" /\ own[field[o]] \in {t, Nil}
  <2>1. o \in Object /\ tag[o] # "none" /\ own[o] \in {t, Nil}
    BY DEF Within
  <2>2. field[o] \in Object /\ tag[field[o]] # "none"
    BY <2>1, <1>1 DEF Typed, TypeOK, Known
  <2>3. own[field[o]] \in {own[o], Nil}
    BY <2>1, <1>1 DEF Owner
  <2>4. QED
    BY <2>1, <2>2, <2>3
<1>2. QED
  BY <1>1 DEF Within, Step

(* All that a thread can reach belongs to it or to nobody.                 *)
LEMMA ReachWithin ==
  ASSUME Typed, NEW own, Owner(own), NEW t \in Thread
  PROVE  Within(own, t, Reach(t))
<1>1. PICK S : S = InFlight(t) \cup {o \in Object : owned[t][o] > 0}
  OBVIOUS
<1>2. \A o \in S : o \in Object /\ Mentions(t, o)
  BY <1>1, InFlightMentions DEF Mentions
<1>3. \A o \in Object : Mentions(t, o) => tag[o] # "none" /\ own[o] \in {t, Nil}
  BY DEF Typed, Known, Mentions, Owner
<1>4. Within(own, t, S)
  BY <1>2, <1>3 DEF Within
<1>5. Within(own, t, Step(S))
  BY <1>4, StepWithin
<1>6. Within(own, t, Step(Step(S)))
  BY <1>5, StepWithin
<1>7. Within(own, t, Step(Step(Step(S))))
  BY <1>6, StepWithin
<1>8. Reach(t) = Step(Step(Step(S)))
  BY <1>1 DEF Reach
<1>9. QED
  BY <1>7, <1>8

(* The contract of the shared bit, which is what makes the plain loads and *)
(* stores of kdup and kdrop safe: no two threads reach a value whose bit   *)
(* is clear.                                                               *)
THEOREM Private == Spec => []LocalIsPrivate
<1>1. IInv => LocalIsPrivate
  <2>1. SUFFICES ASSUME IInv, NEW o \in Object, Live(o), ~IsShared(rc[o]), NEW t \in Thread, NEW u \in Thread,
                        o \in Reach(t), o \in Reach(u)
                 PROVE  t = u
    BY DEF LocalIsPrivate
  <2>2. PICK own, val : Typed /\ Inv(own, val)
    BY <2>1 DEF IInv
  <2>3. Owner(own)
    BY <2>2 DEF Inv
  <2>4. own[o] # Nil
    BY <2>1, <2>3 DEF Owner
  <2>5. own[o] \in {t, Nil} /\ own[o] \in {u, Nil}
    BY <2>1, <2>2, <2>3, ReachWithin DEF Within
  <2>6. QED
    BY <2>4, <2>5
<1>2. QED
  BY <1>1, Inductive, PTL

(* The invariant says what the counts are when no operation is under way.  *)
LEMMA CountExactState ==
  ASSUME IInv
  PROVE  CountExact
<1>1. SUFFICES ASSUME \A t \in Thread : code[t] = <<>>, NEW o \in Object, Live(o), ~IsSaturated(rc[o])
               PROVE  /\ Count(rc[o]) = References(o)
                      /\ tag[o] = "ctor" => Count(rc[o]) > 0
  BY DEF CountExact
<1>2. PICK own, val : Typed /\ Inv(own, val)
  BY DEF IInv
<1>3. \A t \in Thread : Parts(t) = {}
  BY <1>1, Nothing DEF Parts
<1>4. rc[o] = val[o] /\ rc[o] \in 0..(2 * SHARED - 1)
  BY <1>2, <1>3 DEF Inv, Values, Has1, Typed, TypeOK
<1>5. Incs(o) = {} /\ Cardinality(Incs(o)) = 0
  BY <1>3, FS_EmptySet DEF Incs
<1>6. Fields(o) = {p \in Object : Live(p) /\ field[p] = o}
  BY <1>3 DEF Fields, Sound, Broken
<1>7. [t \in Thread |-> Held(t, o)] = [t \in Thread |-> owned[t][o]]
  <2>1. ASSUME NEW t \in Thread PROVE Held(t, o) = owned[t][o]
    <3>1. Cnt(code[t], ByV(o)) = 0 /\ Cnt(code[t], ByX(o)) = 0
      BY <1>1, Nothing
    <3>2. owned[t][o] \in Nat
      BY <1>2 DEF Typed, TypeOK
    <3>3. QED
      BY <3>1, <3>2 DEF Held
  <2>2. QED
    BY <2>1
<1>8. /\ Count(val[o]) + Cardinality(Incs(o)) = Total([t \in Thread |-> Held(t, o)]) + Cardinality(Fields(o))
      /\ Cardinality(Fields(o)) \in Nat
  BY <1>1, <1>2, <1>4, FS_CardinalityType DEF Inv, Balance
<1>9. Count(rc[o]) \in Nat /\ Total([t \in Thread |-> owned[t][o]]) \in Nat
  <2>1. [t \in Thread |-> owned[t][o]] \in [Thread -> Nat]
    BY <1>2 DEF Typed, TypeOK
  <2>2. QED
    BY <2>1, <1>4, Words, TotalFinite
<1>10. Count(rc[o]) = References(o)
  BY <1>4, <1>5, <1>6, <1>7, <1>8, <1>9 DEF References
<1>11. tag[o] = "ctor" => Count(rc[o]) > 0
  <2>1. tag[o] = "ctor" => ~Zero(val, o)
    BY <1>2, <1>3 DEF Inv, Freeing
  <2>2. QED
    BY <2>1, <1>1, <1>4, <1>9 DEF Zero
<1>12. QED
  BY <1>10, <1>11

(* No increment or decrement is lost or done twice: when no operation is   *)
(* under way, a count that has not overflowed is the number of references, *)
(* and a constructor that nobody holds has been freed.                     *)
THEOREM Exact == Spec => []CountExact
<1>1. IInv => CountExact
  BY CountExactState
<1>2. QED
  BY <1>1, Inductive, PTL
=============================================================================
