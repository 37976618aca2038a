SPECIFICATION FairSpec
CONSTANTS
  Streams = {c1, c2}
  MaxClients = 1
  QueueSize = 1
  RingSize = 1
  Lines <- MCLines
  MaxEvents = 3
  MaxFiles = 2
  MaxTruncations = 1
  MaxRestarts = 1
INVARIANTS TypeOK ListedMissNothing RingLeads
PROPERTY CaughtUp
