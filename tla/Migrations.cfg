SPECIFICATION Spec
CONSTANTS
  p1 = p1  p2 = p2
  Procs = {p1, p2}
  Last = 2
  Strategies = {"", "skip"}
  NoProc = NoProc
  Overlap = FALSE
  FaultStages = {"up1", "force", "up2", "serving"}
  MaxFaults = 3
INVARIANTS ServingAtHead ServingConsistent
PROPERTY NoDropWhileServing
