\* The timer runs out inside a call of alarm() and is lost for good.
CONSTANTS
  Clients = {c1, c2}
  Pids = {p1, p2}
  MAXUSERS = 1
  TICKET_AVAIL = free
  NoClient = nobody
  QueueLen = 2
  MaxCrashes = 0
SPECIFICATION FairSpec
CHECK_DEADLOCK FALSE
PROPERTIES DeadHolderReclaimed
