\* The two replay ledgers: both protocols, pruning, a table of two rows, concurrent
\* callers.  The receipt chain: two interchangeable files and a manifest, two releases,
\* three leases.  A candidate: one call while both repositories move, or two of any
\* tokens and request ids; an archive of four bytes.
CONSTANTS
  j1 = j1
  j2 = j2
  r1 = r1
  r2 = r2
  c1 = c1
  c2 = c2
  Jtis = {j1, j2}
  Requests = {r1, r2}
  Claims = {c1, c2}
  Reservations = {v1, v2}
  Callers = {k1, k2}
  TokenExpiry <- TwoExpiries
  Grace = 1
  Capacity = 2
  MaxGap = 1
  MaxClock = 6
  LedgerName = "github-oidc-v1"
  Files = {wheel, sdist}
  Assets = {manifest}
  Releases = {1, 2}
  Ttl = 2
  Cadence = 1
  GuardTtl = 1
  MaxFence = 2
  MaxNow = 3
  x1 = x1
  x2 = x2
  t1 = t1
  q1 = q1
  a1 = a1
  o1 = o1
  Calls = {x1, x2}
  Tokens = {t1, t2}
  RequestIds = {q1, q2}
  Archives = {a1, a2}
  MaxAttempt = 2
  Facts = {f1}
  TagObjects = {o1, o2}
  Peels = {o1}
  Size = 4
  MaxChunks = 3
  MaxChunk = 3
SPECIFICATION Spec
SYMMETRY PartsSymmetry
CHECK_DEADLOCK FALSE
INVARIANTS JtiUsedOnce GrantsAgree NothingExternalAbandoned 
  OneArchivePerToken OpenedOnWhatStood EndMeansWhole
PROPERTIES AuthorizationIsFinal
