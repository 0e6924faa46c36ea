SPECIFICATION ComponentSpec
CONSTANTS
  a = a
  b = b
  alpha = alpha
  beta = beta
  route = route
  policy = policy
  v1 = v1
  v2 = v2
  v3 = v3
  Callers = {a, b}
  Sets = {alpha, beta}
  ComponentKinds = {route, policy}
  Pins = {"pins"}
  PinsOf <- OnePins
  Versions = {v1, v2, v3}
  Ttl = 0
  MaxLive = 2
  MaxLifetime = 3
  MaxClock = 1
SYMMETRY Symmetry
INVARIANTS TablesSound
PROPERTIES ImplementsOneSet
