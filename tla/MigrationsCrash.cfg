SPECIFICATION Spec
CONSTANTS
  p1 = p1  p2 = p2
  Procs = {p1, p2}
  Last = 2
  Strategies = {"retry"}
  NoProc = NoProc
  Overlap = FALSE
  FaultStages <- AllStages
  MaxFaults = 2
INVARIANT ServingConsistent
