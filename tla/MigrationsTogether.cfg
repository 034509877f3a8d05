SPECIFICATION Spec
CONSTANTS
  p1 = p1  p2 = p2
  Procs = {p1, p2}
  Last = 2
  Strategies = {"retry", "skip"}
  NoProc = NoProc
  Overlap = TRUE
  FaultStages <- AllStages
  MaxFaults = 2
INVARIANT TypeOK
PROPERTY StartedServes
