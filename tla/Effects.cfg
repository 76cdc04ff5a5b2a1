SPECIFICATION FairSpec
CONSTANTS
  Program <- Programs
  MaxReqs = 1
  MaxScopes = 3
CHECK_DEADLOCK FALSE
INVARIANTS ExitActionsRunOnce NoInternalError CausesInOrder FinalizersMasked NoFrameIsLost
PROPERTIES FiberEnds InnerFirst AbandonedIsNotRun
