SPECIFICATION Spec
CONSTANTS
  Fiber = {f1, f2}
  Roots = {f1, f2}
  Thread = {t1, t2}
  Promise = {p1, p2}
  Scope = {}
  Nil = Nil
  Ops = {"await", "complete", "interruptFork", "mask"}
  MaxOps = 5
SYMMETRY Symmetry
CHECK_DEADLOCK FALSE
PROPERTY ResumesWithItsValue
