SPECIFICATION Spec
CONSTANTS
  None = None
  Roles <- MCRoles
  Apps = {}
  Window = 1
  Term = 1
  Paths = {"operation", "direct"}
  Trust <- MCTrust
  Requests <- MCRequests
  Start <- MCStart
  Promotions <- MCPromotions
  Redeployments <- MCRedeployments
  Together <- MCTogether
  Exposed <- MCExposed
  Selections <- MCSelections
  DirectSlots = {"CONTROLLER_ACTION", "TARGET_RULESET"}
  SelectionTerm = 1
  MaxOrdinal = 3
  MaxClock = 2
  MaxFaults = 1
INVARIANTS RecordIsOwnObservation ChainBinds NoLateRefusal VerifiesButMembership
  ProvisionedIsOneOperation ChainIsOneActivation
CHECK_DEADLOCK FALSE
