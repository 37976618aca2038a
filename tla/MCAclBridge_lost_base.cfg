SPECIFICATION Spec
CONSTANTS
  None = None
  net1 = net1
  net2 = net2
  Main = Main
  RuleIds = {"a", "b"}
  Workers = {w1, w2}
  Networks <- Nets
  Bodies <- AllBodies
  Extending <- Apart
  Requests <- RaceRequests
  MaxSets = 3
  MaxCrashes = 0
  MaxFaults = 0
INVARIANT EstablishedKept
CHECK_DEADLOCK FALSE
