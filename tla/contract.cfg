CONSTANTS
  Nodes = {1, 2, 3}
  Requesters = {api, schedule}
  DisabledNodes = {}
  RefusingNodes = {}
  LateDelivery = FALSE
  GatewayErrors = FALSE
  LegacyDatabase = FALSE
  Budgets <- StopsOrRestarts
SYMMETRY RequesterSymmetry
SPECIFICATION Spec
CHECK_DEADLOCK FALSE
PROPERTY ImplementsContract
