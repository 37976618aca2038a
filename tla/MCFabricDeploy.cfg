SPECIFICATION Spec
CONSTANTS
  Hosts = {"WEB1", "DB", "APP"}
  Sudo = {"WEB1", "DB", "APP"}
  MaxTroubles = 2
INVARIANTS TypeOK CompleteIsDurable VerifyWouldPass
PROPERTIES StaysClosed Completes
