SPECIFICATION Spec
CONSTANTS
  Threads = {t1, t2}
  Offered = {"post", "push", "read"}
  None = None
  MaxLogs = 2
  MaxEntries = 2
  MaxFaults = 2
  MaxStarts = 2
  Main = Main
INVARIANTS TypeOK LossBounded RingCurrent
PROPERTY StaysReadable
CHECK_DEADLOCK FALSE
