SPECIFICATION FairSpec
CONSTANTS
  f1 = f1
  f2 = f2
  f3 = f3
  a = a
  b = b
  Fiber = {f1, f2, f3}
  TVar = {a, b}
  Value = {0, 1, 2, 3}
  Unit = 0
  Txn <- Program
  Tree <- Trees
  Height <- Depths
  InitStore <- Start
  Victim = {f1}
CHECK_DEADLOCK FALSE
INVARIANTS VersionsNameValues NoStaleWatcher NoLostRetry BlockedMeansRetry
PROPERTIES CommitsAreAtomic Serializable NotStarved
