SPECIFICATION Spec
CONSTANTS
  l1 = l1
  l2 = l2
  n1 = n1
  n2 = n2
  n3 = n3
  p0 = p0
  p1 = p1
  p2 = p2
  Levels <- MCLevels
  INFO = l1
  Names <- MCNames
  ToUpper <- MCToUpper
  Other = other
  Paths <- MCPaths
  Configs <- MCConfigs
  None = None
  Default = p0
  maxReopenRetries = 2
  MaxRotations = 2
  MaxFails = 2
INVARIANTS TypeOK Current LostOnlyDisturbed NoLeak
PROPERTY Refreshed
CHECK_DEADLOCK FALSE
