------------------------------ MODULE AtomicStm ------------------------------
(***************************************************************************)
(* What atomically promises (Spec.md, 18.1.13 and 32.2.9): a transaction   *)
(* takes effect in one step, on one state of the TVars; a transaction that *)
(* retries there has no effect and waits; an interrupted one has none      *)
(* either.  The trees are those of module Stm.                             *)
(***************************************************************************)
EXTENDS Naturals, Sequences

CONSTANTS Fiber, TVar, Value, Tree, Txn, InitStore, Unit, Victim

VARIABLES store,  \* the value of each TVar
          out     \* how each fiber's transactions so far have ended

vars == <<store, out>>

Store == [TVar -> Value]

Blocks == [ok |-> FALSE]
Yields(v, st) == [ok |-> TRUE, val |-> v, store |-> st]

(* What a transaction does when nobody else runs: it yields a value and a  *)
(* new store, or it retries.  eval says what its parts do.                 *)
Effect(eval, m, st) ==
  CASE m.op = "pure"   -> Yields(m.val, st)
    [] m.op = "read"   -> Yields(st[m.tv], st)
    [] m.op = "write"  -> Yields(Unit, [st EXCEPT ![m.tv] = m.val])
    [] m.op = "retry"  -> Blocks
    [] m.op = "bind"   -> LET r == eval[m.m][st]
                          IN IF r.ok THEN eval[m.k[r.val]][r.store] ELSE Blocks
    [] m.op = "orElse" -> LET r == eval[m.l][st]
                          IN IF r.ok THEN r ELSE eval[m.r][st]

Eval[m \in Tree] == [st \in Store |-> Effect(Eval, m, st)]

Waiting(f) == Len(out[f]) < Len(Txn[f])
Now(f) == Eval[Txn[f][Len(out[f]) + 1]][store]

Atomically(f) ==
  /\ Waiting(f)
  /\ LET now == Now(f)
     IN /\ now.ok
        /\ store' = now.store
        /\ out' = [out EXCEPT ![f] = Append(@, [op |-> "committed", val |-> now.val])]

Interrupt(f) ==
  /\ Waiting(f) /\ f \in Victim
  /\ out' = [out EXCEPT ![f] = Append(@, [op |-> "interrupted"])]
  /\ UNCHANGED store

Init == store = InitStore /\ out = [f \in Fiber |-> <<>>]

Next == \E f \in Fiber : Atomically(f) \/ Interrupt(f)

Spec == Init /\ [][Next]_vars

(* No transaction is able to take effect for ever without doing so (weak   *)
(* fairness of Atomically, the transactions being finitely many).          *)
NotStarved == \A f \in Fiber : []<>~(Waiting(f) /\ Now(f).ok)

=============================================================================
