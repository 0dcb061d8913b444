CONSTANTS
  Nodes = {1, 2, 3}
  Requesters = {api}
  DisabledNodes = {2}
  RefusingNodes = {3}
  LateDelivery = TRUE
  GatewayErrors = TRUE
  LegacyDatabase = TRUE
  Budgets <- HostileNetwork
SPECIFICATION FairSpec
CHECK_DEADLOCK FALSE
INVARIANT VerdictMatchesRuns
PROPERTIES
  CommittedResultsStay
  QueueDrains
