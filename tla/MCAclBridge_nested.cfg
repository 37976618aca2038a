SPECIFICATION Spec
CONSTANTS
  None = None
  net1 = net1
  net2 = net2
  Main = Main
  RuleIds = {"acl-1", "acl-10"}
  Workers = {w1}
  Networks <- Nets
  Bodies <- AllBodies
  Extending <- Nested
  Requests <- NestedRequests
  MaxSets = 2
  MaxCrashes = 1
  MaxFaults = 0
INVARIANT RestartHeals
CHECK_DEADLOCK FALSE
