CONSTANTS
  Nodes = {1, 2, 3}
  Groups = {"a", "b"}
  JobIds = {1, 2, 3}
  Requesters = {api, schedule}
  Layouts <- Edited
  Budgets <- EditsAndFailures
SYMMETRY RequesterSymmetry
SPECIFICATION Spec
CHECK_DEADLOCK FALSE
INVARIANTS
  TypeOK
  NodeInOneJob
  RunningMatchesJobs
  ViewsAgree
  OfferedStartIsAccepted
PROPERTY OnlyAdmissionOrphans
