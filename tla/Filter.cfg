SPECIFICATION FilterSpec
CONSTANTS
  Null = Null
  First <- MCFirst
  More <- MCMore
  VisibilityLists <- MCVisibilityLists
  Row <- MCRow
  Now = 2
  MaxFilters = 2
CHECK_DEADLOCK FALSE
INVARIANTS
  SelectsOnlyMeant
  SelectsAllMeant
