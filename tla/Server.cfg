SPECIFICATION Spec
CONSTANTS
  Requests = {r1, r2}
  Ops = {"get", "update", "upload", "download", "echo", "crash"}
INVARIANTS TypeOK OneResponse Problems RightBlame Authenticated OwnIdentity PanicRestarts CutOnlyLate LoggedWhileListening
PROPERTIES Ends
CHECK_DEADLOCK FALSE
