SPECIFICATION Spec
CONSTANTS
  None = None
  Keys = {k1, k2}
  Window = 3
  FreshFor = 0
  MaxTime = 1
  MaxEdits = 2
  Misfits = {1}
  MaxOthers = 1
  Touched = {"ingress"}
  MaxFaults = 2
INVARIANTS FinalVersionIsLast ReadyIsClosed
PROPERTY CeremonySettles
CHECK_DEADLOCK FALSE
