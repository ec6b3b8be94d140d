CONSTANTS
  n1 = n1
  n2 = n2
  a = a
  b = b
  Nodes = {n1, n2}
  Containers = {a, b}
  NodeOf <- MCNodeOf
  HistoryRanges = {"30m", "1d"}
  DefaultRange = "30m"
  Lists <- MCLists
  Texts = {"error"}
  MaxClicks = 3
  MaxMishaps = 1
  Slots = {1, 2}
SPECIFICATION ScopeSpec
INVARIANTS ScopeIsKept SearchShownIsOfItsQuery
PROPERTIES ScopeIsServed
CHECK_DEADLOCK FALSE
