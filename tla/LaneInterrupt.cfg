SPECIFICATION Spec
CONSTANTS
  Fiber = {f1}
  Victim = {f1}
  Ops = {"blocking", "native", "mask"}
  MaxOps = 5
CHECK_DEADLOCK FALSE
PROPERTY NotWokenInCall
