CONSTANTS
  Rules = {1, 2}
  Groups = {"a", "b"}
  Targets = {"a", "b", "n"}
  SingleNode = {"n"}
  GroupOf <- MCGroupOf
  FirstTarget <- MCFirstTarget
  FirstWeekly = {2}
  Slots = 1
  MaxOccurrence = 2
  Budgets <- OneDisturbance
SPECIFICATION Spec
CHECK_DEADLOCK FALSE
PROPERTY DeferredStaysDue
