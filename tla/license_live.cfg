\* Two runs that can get the same pid and one ticket, no symmetry: TLC checks
\* liveness on the full state graph.  No deadlock check: a server that has
\* lost its timer waits for ever.
CONSTANTS
  Clients = {c1, c2}
  Pids = {p1, p2}
  MAXUSERS = 1
  TICKET_AVAIL = free
  NoClient = nobody
  QueueLen = 2
  MaxCrashes = 1
SPECIFICATION FairSpec
CHECK_DEADLOCK FALSE
PROPERTIES ReclaimedUnlessRaced QueuedRequestAnswered
