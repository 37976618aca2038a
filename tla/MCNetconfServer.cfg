SPECIFICATION FairSpec
CONSTANTS
  c1 = c1
  c2 = c2
  a1 = a1
  a2 = a2
  None = None
  Clients = {c1, c2}
  Addresses = {a1, a2}
  From <- Addressing
  Vocabulary <- Words
  Quota <- SmallQuota
  MaxIdle = 1
INVARIANTS TypeOK HandledAsSent ContextsOwned WaitingHelps
PROPERTIES Ordered AnsweredInTime ConnectionsEnd AcceptsNext
