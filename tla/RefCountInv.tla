----------------------------- MODULE RefCountInv -----------------------------
(***************************************************************************)
(* The inductive invariant of module RefCount.                             *)
(*                                                                         *)
(* Two ghosts are bound by a quantifier instead of being variables:        *)
(* own[o] is the thread that alone can reach o, or Nil once o has been     *)
(* published; val[o] is the count word of o as it will be when the plain   *)
(* store under way, if any, has been executed.                             *)
(***************************************************************************)
EXTENDS RefCount

(* Operations by where they can stand in the code of a thread, and by what *)
(* they do to a count: those of IncOps are going to add a reference to v,  *)
(* those of HoldOps hold one to v.                                         *)
IncOps == {"dup", "add", "saturate"}
HeadOps == IncOps \cup {"store", "cas"}
LastOps == {"own", "give", "alloc", "rewrite", "swap", "get"}
HoldOps == {"drop", "cas", "own", "give", "alloc", "rewrite"}
MoveOps == {"swap", "rewrite"}
DyingOps == {"free", "poison"}
Ops == HeadOps \cup LastOps \cup DyingOps
         \cup {"drop", "markLock", "shade", "markUnlock", "cellUnlock"}
Tags == {"none", "ctor", "ref", "freed"}

RECORDS == [op : Ops, v : Object \cup {Nil}, w : Nat, x : Object \cup Thread \cup {Nil},
            k : Tags \cup {""}]

Item ==
  {e \in RECORDS :
     /\ e.op # "alloc" => e.v \in Object
     /\ e.op = "alloc" => e.k \in {"ctor", "ref"}
     /\ e.op = "give" => e.x \in Thread
     /\ e.op \in MoveOps => e.x \in (Object \cup {Nil}) \ {e.v}
     /\ e.op = "store" => e.w \in 0..SATURATED
     /\ e.op = "cas" => e.w \in 1..(2 * SHARED - 1)}

(* What may come before a shade, before a rewrite and before an unlock.    *)
ShadeOps == {"markLock", "dup", "store", "add", "saturate"}
RewriteOps == {"drop", "store", "cas", "free", "poison"}
UnlockOps == {"dup", "store", "add", "saturate"}

WellFormed(s) ==
  /\ s \in Seq(Item)
  /\ \A i \in 1..Len(s) :
       /\ s[i].op \in HeadOps => i = 1
       /\ s[i].op \in LastOps => i = Len(s)
       /\ \A j \in 1..(i - 1) :
            /\ s[i].op = "shade" => s[j].op \in ShadeOps
            /\ s[i].op = "rewrite" => s[j].op \in RewriteOps
            /\ s[i].op = "cellUnlock" => s[j].op \in UnlockOps

TypeOK ==
  /\ tag \in [Object -> Tags]
  /\ rc \in [Object -> 0..(2 * SHARED - 1)]
  /\ field \in [Object -> Object \cup {Nil}]
  /\ owned \in [Thread -> [Object -> Nat]]
  /\ code \in [Thread -> Seq(Item)]
  /\ markLock \in Thread \cup {Nil}
  /\ cellLock \in [Object -> Thread \cup {Nil}]
  /\ ops \in Nat

Items(s) == {s[i] : i \in 1..Len(s)}
Parts(t) == Items(code[t])

(* The item touches the value: it is about to access its word or field, or *)
(* to store a reference to it.                                             *)
Touch(e, o) == e.v = o \/ (e.op \in MoveOps /\ e.x = o)

(* What has a reference to it has been allocated.                          *)
Known ==
  /\ \A t \in Thread : \A o \in Object : owned[t][o] > 0 => tag[o] # "none"
  /\ \A t \in Thread : \A e \in Parts(t) : \A o \in Object : Touch(e, o) => tag[o] # "none"
  /\ \A o \in Object : field[o] # Nil => tag[field[o]] # "none" /\ field[o] # o

Typed == TypeOK /\ Known /\ \A t \in Thread : WellFormed(code[t])

-----------------------------------------------------------------------------
Mentions(t, o) == owned[t][o] > 0 \/ \E e \in Parts(t) : Touch(e, o)

Has1(t, o, v) == \E e \in Parts(t) : e.op = o /\ e.v = v

(* A value its one holder takes apart; one whose field holds a reference.  *)
Broken(p) == \E t \in Thread : \E e \in Parts(t) : e.op \in {"poison", "rewrite"} /\ e.v = p
Sound(p) == Live(p) /\ ~Broken(p)
Fields(o) == {p \in Object : Sound(p) /\ field[p] = o}

(* While the shared bit is clear one thread alone can reach the value.     *)
Owner(own) ==
  /\ \A t \in Thread : \A o \in Object : Mentions(t, o) => own[o] \in {t, Nil}
  /\ \A p \in Object :
       tag[p] # "none" /\ field[p] # Nil => own[field[p]] \in {own[p], Nil}
  /\ \A o \in Object : Live(o) /\ own[o] = Nil => IsShared(rc[o])
  /\ \A t \in Thread : \A e \in Parts(t) :
       /\ e.op \in {"store", "rewrite"} => own[e.v] = t /\ ~IsShared(rc[e.v])
       /\ e.op \in {"cas", "add", "saturate"} => IsShared(rc[e.v])
       /\ e.op = "cas" => e.w \in (SHARED + 1)..(SHARED + COUNT_MASK)

(* The operation ends with the publication of o.                           *)
Carries(t, o) == \E e \in Parts(t) : (e.op = "give" /\ e.v = o) \/ (e.op = "swap" /\ e.x = o)

(* What a shared value holds is shared, or the walk is about to reach it.  *)
Marked(own) ==
  /\ \A p \in Object :
       Sound(p) /\ IsShared(rc[p]) /\ field[p] # Nil =>
         IsShared(rc[field[p]]) \/ (own[p] # Nil /\ Has1(own[p], "shade", field[p]))
  /\ \A t \in Thread : \A e \in Parts(t) :
       /\ e.op = "give" => IsShared(rc[e.v]) \/ Has1(t, "shade", e.v)
       /\ e.op = "swap" /\ e.x # Nil /\ IsShared(rc[e.v]) =>
            IsShared(rc[e.x]) \/ Has1(t, "shade", e.x)
       /\ e.op = "swap" /\ (\E d \in Parts(t) : d.op = "shade") => IsShared(rc[e.v])
       /\ e.op = "shade" =>
            IF e.k = "" THEN Carries(t, e.v) ELSE \E p \in Fields(e.v) : own[p] = t
       /\ e.op \in {"markLock", "markUnlock"} => Carries(t, e.v)

-----------------------------------------------------------------------------
(* Cnt(s, S): how many items of s are in S.  ByV and ByX are the items     *)
(* that hold a reference to o.                                             *)
Cnt(s, S) == Cardinality({i \in 1..Len(s) : s[Len(s) + 1 - i] \in S})
ByV(o) == {e \in Item : e.v = o /\ e.op \in HoldOps}
ByX(o) == {e \in Item : e.x = o /\ e.op \in MoveOps}
Dying(o) == {e \in Item : e.v = o /\ e.op \in DyingOps}

Held(t, o) == owned[t][o] + Cnt(code[t], ByV(o)) + Cnt(code[t], ByX(o))
Incs(o) == {t \in Thread : \E e \in Parts(t) : e.op \in IncOps /\ e.v = o}
Adds(o) == {t \in Thread : Has1(t, "add", o)}

Keeps(own, t, p) ==
  \/ own[p] = t
  \/ own[p] = Nil /\ tag[p] = "ctor" /\ Held(t, p) > 0
  \/ own[p] = Nil /\ tag[p] = "ref" /\ cellLock[p] = t

(* An increment has a reference to pass on, and another one to read the    *)
(* value through, which stays where it is until the increment is done.     *)
Alive(own) ==
  /\ \A t \in Thread : \A o \in Object : Mentions(t, o) => Live(o)
  /\ \A p \in Object : Sound(p) /\ field[p] # Nil => Live(field[p])
  /\ \A t \in Thread : \A o \in Object : t \in Incs(o) =>
       /\ \E e \in Parts(t) : e.op \in HoldOps /\ e.v = o
       /\ owned[t][o] > 0 \/ \E p \in Fields(o) : Keeps(own, t, p)
  /\ \A t \in Thread : \A e \in Parts(t) :
       /\ e.op \in {"get", "swap", "cellUnlock"} => tag[e.v] = "ref"
       /\ e.op = "cellUnlock" => cellLock[e.v] = t
       /\ e.op = "rewrite" => tag[e.v] = "ctor"

Values(val) ==
  /\ \A o \in Object : rc[o] # val[o] => \E t \in Thread : Has1(t, "store", o)
  /\ \A t \in Thread : \A e \in Parts(t) : e.op = "store" => val[e.v] = e.w

Balance(val) ==
  \A o \in Object :
    /\ IsFiniteSet(Fields(o))
    /\ ~IsSaturated(val[o]) =>
         Count(val[o]) + Cardinality(Incs(o))
           = Total([t \in Thread |-> Held(t, o)]) + Cardinality(Fields(o))

(* The threads that add to a saturated count do not carry into its bits.   *)
Bounded ==
  \A o \in Object :
    IF IsShared(rc[o])
    THEN rc[o] + Cardinality(Adds(o)) <= SHARED + COUNT_MASK + Cardinality(Thread)
    ELSE rc[o] <= SATURATED

(* A constructor with a count of zero is about to be freed, once.          *)
Zero(val, o) == ~IsSaturated(val[o]) /\ Count(val[o]) = 0

Freeing(val) ==
  /\ \A t \in Thread : \A e \in Parts(t) :
       /\ e.op \in DyingOps => tag[e.v] = "ctor" /\ Zero(val, e.v)
       /\ e.op = "rewrite" => val[e.v] = 1
  /\ \A t \in Thread : \A o \in Object : Cnt(code[t], Dying(o)) <= 1
  /\ \A t, u \in Thread : \A d \in Parts(t), e \in Parts(u) :
       d.op \in DyingOps /\ e.op \in DyingOps /\ d.v = e.v => t = u
  /\ \A o \in Object : tag[o] = "ctor" /\ Zero(val, o) =>
       \E t \in Thread : \E e \in Parts(t) : e.op \in DyingOps /\ e.v = o

Inv(own, val) ==
  /\ own \in [Object -> Thread \cup {Nil}]
  /\ val \in [Object -> 0..(2 * SHARED - 1)]
  /\ Owner(own) /\ Marked(own) /\ Alive(own)
  /\ Values(val) /\ Balance(val) /\ Bounded /\ Freeing(val)

IInv == Typed /\ \E own, val : Inv(own, val)

=============================================================================
