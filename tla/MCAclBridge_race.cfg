SPECIFICATION Spec
CONSTANTS
  None = None
  net1 = net1
  net2 = net2
  Main = Main
  RuleIds = {"a", "b"}
  Workers = {w1, w2}
  Networks <- Nets
  Bodies <- ForwardBodies
  Extending <- Apart
  Requests <- RaceRequests
  MaxSets = 3
  MaxCrashes = 1
  MaxFaults = 1
INVARIANT AgentOnlyDrops TopBeforeEstablished RestartHeals
CHECK_DEADLOCK FALSE
