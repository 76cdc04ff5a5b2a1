SPECIFICATION Spec
CONSTANTS
  Fiber = {f1, f2}
  Roots = {f1, f2}
  Thread = {t1, t2}
  Promise = {p1}
  Scope = {}
  Nil = Nil
  Ops = {"interruptFork", "mask", "await"}
  MaxOps = 6
SYMMETRY Symmetry
CHECK_DEADLOCK FALSE
PROPERTY MaskedIsNotInterrupted
