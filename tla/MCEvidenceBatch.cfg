SPECIFICATION FairSpec
CONSTANTS
  None = None
  Caller = {c1}
  Worker = {w1, w2}
  Observation = {o1}
  Slots = 2
  Shared <- SharedSlots
  Fresh = 1
  Admission = 1
  MaxClock = 2
  MaxFaults = 1
  MayLose = TRUE
PROPERTIES ImplementsOneBatch SealedBatchSettles
