\* Two runs of one provisioning, or a provisioning and two finalizes of different
\* promotions, with a reissue and a fault; evidence that tells every second tick.
CONSTANTS
  q1 = q1
  q2 = q2
  d1 = d1
  d2 = d2
  r1 = r1
  r2 = r2
  r3 = r3
  Requests = {q1, q2}
  Promotion <- TwoPromotions
  DirectSlots = {d1}
  Freshness = 1
  MaxOrdinal = 2
  MaxClock = 2
  Runs = {r1, r2, r3}
  Jobs <- TwinsOrChain
  Second = 2
  MaxFaults = 1
SPECIFICATION RunnerFairSpec
CHECK_DEADLOCK FALSE
INVARIANTS
  CallsAuthorized
PROPERTIES
  ImplementsOnePlan
  SealedBatchCompletes
