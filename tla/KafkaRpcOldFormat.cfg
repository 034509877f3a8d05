SPECIFICATION Spec
CONSTANTS
  k1 = k1
  e1 = e1
  c1 = c1
  c2 = c2
  Callers <- MCCallers
  Others <- MCOneOther
  Actions <- MCActions
  Consumers <- MCConsumers
  NoOne = NoOne
  MaxCopies = 2
  MaxMoves = 1
  MaxFaults = 2
INVARIANT OldFormatCreates
CHECK_DEADLOCK FALSE
