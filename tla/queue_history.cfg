\* Two nodes and two requests; no crash loses an unsaved change.
CONSTANTS
  Nodes = {1, 2}
  Requesters = {api, schedule}
  DisabledNodes = {}
  RefusingNodes = {}
  LateDelivery = FALSE
  GatewayErrors = FALSE
  LegacyDatabase = FALSE
  Budgets <- NoLostWrites
SYMMETRY RequesterSymmetry
SPECIFICATION HistorySpec
CHECK_DEADLOCK FALSE
INVARIANTS
  TypeOK
  Exclusion
  SingleStart
  NoVacuousSuccess
  VerdictMatchesRuns
PROPERTIES
  AdmissionFailsClosed
  StoppedNodesNeverStart
