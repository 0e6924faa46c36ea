SPECIFICATION FairSpec
CONSTANTS
  None = None
  Private = {p1}
  Ingress = ingress
  Request = {a1}
  Window = 0
  MaxClock = 1
  MaxDeploys = 2
  MaxIngress = 3
  MaxFaults = 1
  Verifiable = TRUE
INVARIANTS ActivationBracketsPromotion
PROPERTIES ImplementsOneActivation 
CHECK_DEADLOCK FALSE
