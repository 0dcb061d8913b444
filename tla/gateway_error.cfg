CONSTANTS
  Nodes = {1, 2}
  Requesters = {api}
  DisabledNodes = {}
  RefusingNodes = {}
  LateDelivery = FALSE
  GatewayErrors = TRUE
  LegacyDatabase = FALSE
  Budgets <- NothingFails
SPECIFICATION Spec
CHECK_DEADLOCK FALSE
INVARIANT Exclusion
