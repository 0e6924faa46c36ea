\* The mirror of a head.
CONSTANTS
  e1 = e1
  e2 = e2
  k1 = k1
  r1 = r1
  r2 = r2
  r3 = r3
  Effects = {e1, e2}
  Keys = {k1}
  Runs = {r1, r2, r3}
  KeyOf <- OneKey
  EffectOf <- TwoRunsOfOne
  Exclusive = TRUE
  MAX_TRANSITIONS = 8
  MaxFaults = 3
  o1 = o1
  o2 = o2
  o3 = o3
  o4 = o4
  c1 = c1
  c2 = c2
  c3 = c3
  c4 = c4
  c5 = c5
  Objects = {o1, o2, o3, o4}
  Kind <- RecordsObservationHead
  WholeSecond = {}
  Calls = {c1, c2, c3, c4, c5}
  ObjectOf <- TwoCallsOfOne
  VERSION_LIMIT = 2
  RETENTION = 3
  MaxMishaps = 2
SPECIFICATION Spec
CHECK_DEADLOCK FALSE
INVARIANT WitnessTaken
