SPECIFICATION FairSpec
CONSTANTS
  Fiber = {f1, f2, f3}
  Roots = {f1, f2}
  Thread = {t1, t2}
  Promise = {p1}
  Scope = {s1}
  Nil = Nil
  Ops = {"await", "complete", "interruptFork", "mask", "fork", "shutdown"}
  MaxOps = 3
CHECK_DEADLOCK FALSE
PROPERTIES ResolvedWaiterRuns ParkedInterruptDelivered DrainReturns
