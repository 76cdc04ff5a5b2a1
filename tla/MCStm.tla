-------------------------------- MODULE MCStm --------------------------------
(* Instances of Stm for TLC: a small program over two TVars, and the       *)
(* abstract specification it is checked against.                           *)
EXTENDS Stm, FiniteSetsExt

CONSTANTS f1, f2, f3, a, b

Then(m, n) == Bind(m, [v \in Value |-> n])
Set(tv, v) == Write(tv, v % 4)

(* Take one unit or wait for it; add one; move one from one to the other.  *)
Take(tv) == Bind(Read(tv), [v \in Value |->
              IF v = 0 THEN Retry ELSE Then(Write(tv, v - 1), Pure(v))])
Add(tv) == Bind(Read(tv), [v \in Value |-> Set(tv, v + 1)])
Move(x, y) == Bind(Read(x), [v \in Value |->
                IF v = 0 THEN Retry
                ELSE Bind(Read(y), [w \in Value |-> Then(Write(x, v - 1), Set(y, w + 1))])])

Start == [tv \in TVar |-> IF tv = a THEN 1 ELSE 0]

(* An orElse whose left branch writes a, which the right branch reads,     *)
(* before it retries; a consumer that becomes a producer; a transfer.      *)
Program == [f \in Fiber |->
  CASE f = f1 -> <<OrElse(Then(Write(a, 3), Take(b)), Take(a)), Add(a)>>
    [] f = f2 -> <<Take(a), Add(b)>>
    [] f = f3 -> <<Move(b, a)>>]

(* A tree with all its parts.                                              *)
RECURSIVE Parts(_)
Parts(m) ==
  {m} \cup CASE m.op = "bind" -> Parts(m.m) \cup UNION {Parts(m.k[v]) : v \in Value}
             [] m.op = "orElse" -> Parts(m.l) \cup Parts(m.r)
             [] OTHER -> {}

Trees == {Pure(v) : v \in Value}
           \cup UNION {UNION {Parts(Program[f][i]) : i \in DOMAIN Program[f]} : f \in Fiber}

(* How deep a tree is.                                                     *)
RECURSIVE Depth(_)
Depth(m) ==
  CASE m.op = "bind" -> 1 + Max({Depth(m.m)} \cup {Depth(m.k[v]) : v \in Value})
    [] m.op = "orElse" -> 1 + Max({Depth(m.l), Depth(m.r)})
    [] OTHER -> 0

Depths == [m \in Trees |-> Depth(m)]

=============================================================================
