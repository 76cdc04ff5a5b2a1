SPECIFICATION FairSpec
CONSTANTS
  Fiber = {f1}
  Victim = {f1}
  Nil = Nil
  MaxParks = 2
CHECK_DEADLOCK FALSE
INVARIANT SlotsOwnTimers
PROPERTIES ShutdownEnds FirstSleepEnds
