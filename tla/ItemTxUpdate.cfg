SPECIFICATION Spec
CONSTANTS
  r1 = r1  r2 = r2  r3 = r3
  Reqs = {r1, r2}
  Ops <- MCOps
  Names = {"old", "new", "upd"}
  MaxId = 3
  Table <- MCTable
  FirstId = 2
  Absent = "absent"
  MaxOpen = 3
  Pinned = 1
INVARIANT UpdateFindsItem
\* Every call is made once: when all are answered the system stops.
CHECK_DEADLOCK FALSE
