SPECIFICATION Spec
CONSTANTS
  p1 = p1  p2 = p2
  Procs = {p1, p2}
  Last = 2
  Strategies = {"retry"}
  NoProc = NoProc
  Overlap = TRUE
  FaultStages = {"up1", "up2", "serving"}
  MaxFaults = 2
PROPERTY NoDropWhileServing
