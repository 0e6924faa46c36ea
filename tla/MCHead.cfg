\* Two heads with an intent each, a retry with a token of the other attempt, and a
\* snapshot that would roll back.
CONSTANTS
  a1 = a1
  a2 = a2
  a3 = a3
  i1 = i1
  i2 = i2
  j1 = j1
  j2 = j2
  j3 = j3
  r1 = r1
  r2 = r2
  r3 = r3
  s1 = s1
  s2 = s2
  s3 = s3
  Attempts = {a1, a2, a3}
  Callers = {a1, a2, a3}
  Intents = {i1, i2}
  Jtis = {j1, j2}
  Requests = {r1, r2, r3}
  Snapshots = {s1, s2, s3}
  RequestOf <- ThreeRequests
  JtiOf <- SharedJtis
  IntentOf <- TwoHeadIntents
  IntentSnapshot <- TwoSnapshotIntents
  SnapshotVersion <- TwoVersions
  Claims = {"admission", "recovery"}
  Reservations <- EffectIds
  TokenExpiry <- LongExpiries
  Grace = 1
  MaxGap = 1
  Capacity = 2
  Window = 1
  MaxClock = 2
  LedgerName = "github-oidc-v1"
SPECIFICATION FairSpec
CHECK_DEADLOCK FALSE
INVARIANTS JournalsInStep
PROPERTIES UsedOnlyUnderCurrentHead ImplementsOneUse AttemptsEnd
