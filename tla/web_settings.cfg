CONSTANTS
  Pages = {tab1, tab2}
  GroupIds = {"hdd1", "hdd2", "hdd3", "unnamed"}
  NodeIds = {"n1", "n2", "n3", "n4"}
  RuleIds = {"r1", "r2"}
  GroupName <- MCGroupName
  Names = {0, 1, 2}
  Keys = {"k1", "short"}
  ValidKeys = {"k1"}
  Zones = {"", "UTC", "MSK"}
  Addresses <- MCAddresses
  PageTakes = {"u", "U", "w"}
  ServerTakes = {"u", "U", "v"}
  Clean <- MCClean
  Fold <- MCFold
  RawNodes <- MCRawNodes
  Calls = {1, 2, 3, 4}
  Initial <- MCInitial
  Budgets <- MCBudgets
SYMMETRY PageSymmetry
SPECIFICATION Spec
CHECK_DEADLOCK FALSE
INVARIANTS
  TypeOK
  DraftIsConsistent
  CalendarShowsSavedRules
  ShownOrderIsQueueOrder

  
