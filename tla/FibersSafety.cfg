SPECIFICATION Spec
CONSTANTS
  Fiber = {f1, f2, f3}
  Roots = {f1, f2}
  Thread = {t1, t2}
  Promise = {p1}
  Scope = {s1}
  Nil = Nil
  Ops = {"await", "complete", "cede", "interrupt", "interruptFork", "mask", "fork", "shutdown"}
  MaxOps = 4
SYMMETRY Symmetry
CHECK_DEADLOCK FALSE
INVARIANTS TypeOK SingleOwner NoLostWakeup NoLostInterrupt NoChildEscapes
