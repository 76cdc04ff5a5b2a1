SPECIFICATION FairSpec
CONSTANTS
  Fiber = {"main1", "main2", "racer", "left", "right", "watchL", "watchR",
           "d1", "d2", "d3", "d4", "child"}
  Program = {"race", "racePure", "timeout", "timeoutNow", "daemons"}
  TwoRuns = {"racePure", "daemons"}
  Mains <- MainFibers
  Calls <- NumberOfCalls
  Code <- CodeOf
  OnInterrupt <- CleanupOf
  Branches <- BranchesOf
  UserOperation <- UserOperations
  Operation <- Operations
CHECK_DEADLOCK FALSE
INVARIANTS WinnerCameFirst LoserIsDone StructuredFirst NoDaemonEscapes DrainedMeansGone
PROPERTY RunReturns
