SPECIFICATION FairSpec
CONSTANTS
  None = None
  net1 = net1
  net2 = net2
  Main = Main
  RuleIds = {"a", "b"}
  Workers = {w1}
  Networks <- Nets
  Bodies <- AllBodies
  Extending <- Apart
  Requests <- SerialRequests
  MaxSets = 3
  MaxCrashes = 2
  MaxFaults = 0
INVARIANT TypeOK ExactlyInSync EstablishedKept
PROPERTY KeepsPromise Converges
CHECK_DEADLOCK FALSE
