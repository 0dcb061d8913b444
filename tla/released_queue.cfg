CONSTANTS
  Nodes = {1, 2}
  Requesters = {api}
  DisabledNodes = {}
  RefusingNodes = {}
  LateDelivery = FALSE
  GatewayErrors = FALSE
  LegacyDatabase = FALSE
  Budgets <- StopThenRestart
SPECIFICATION Spec
CHECK_DEADLOCK FALSE
INVARIANT ReleasedQueueHasNoOpenRun
