SPECIFICATION FairSpec
CONSTANTS
  Fiber = {f1}
  Victim = {f1}
  Ops = {"blocking", "native", "await", "cede", "mask"}
  MaxOps = 6
CHECK_DEADLOCK FALSE
INVARIANTS OneRunner BodyOffPool DepthCountsFrames
PROPERTIES CallsAreTaken InterruptObserved
