CONSTANTS
  Nodes = {1, 2, 3}
  Groups = {"a", "b"}
  JobIds = {1, 2}
  Requesters = {api}
  Layouts <- Removed
  Budgets <- OneEdit
SPECIFICATION Spec
CHECK_DEADLOCK FALSE
INVARIANT AlwaysRecoverable
