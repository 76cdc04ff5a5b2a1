SPECIFICATION Spec
CONSTANTS
  Object = {o1, o2, o3}
  Thread = {t1, t2}
  Nil = Nil
  SATURATED = 4
  MaxOps = 6
SYMMETRY Symmetry
CHECK_DEADLOCK FALSE
INVARIANTS NoDangling LocalIsPrivate CountExact
