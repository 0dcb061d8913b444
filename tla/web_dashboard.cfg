CONSTANTS
  Loads = {1, 2}
  PageSize = 1
  SortKeys = {"started", "state"}
  Budgets <- MCBudgets
SPECIFICATION Spec
INVARIANTS
  TypeOK
  HistoryPageExists
PROPERTIES
  ShowsNewestAsSelected
  EndedSessionLeaves
  SignsIn
