SPECIFICATION Spec
CONSTANTS
  None = None
  net1 = net1
  net2 = net2
  Main = Main
  RuleIds = {"a", "b"}
  Workers = {w1}
  Networks <- Nets
  Bodies <- AllBodies
  Extending <- Apart
  Requests <- MoveRequests
  MaxSets = 3
  MaxCrashes = 1
  MaxFaults = 2
INVARIANT RestartEnforces
CHECK_DEADLOCK FALSE
