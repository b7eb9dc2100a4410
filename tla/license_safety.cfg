\* Three runs, as many pids, two tickets: all can run at once, and a pid can
\* come back while the previous owner's ticket is still out.  The queue is
\* shorter than the number of runs, so that datagrams are lost.  The server may
\* crash once.
\* No deadlock check: a server that has lost its timer waits for ever.
CONSTANTS
  Clients = {c1, c2, c3}
  Pids = {p1, p2, p3}
  MAXUSERS = 2
  TICKET_AVAIL = free
  NoClient = nobody
  QueueLen = 2
  MaxCrashes = 1
SPECIFICATION Spec
SYMMETRY Symmetry
CHECK_DEADLOCK FALSE
INVARIANTS TypeOK CountMatchesTable LicenseKept
PROPERTIES RefusedOnlyWhenFull PoolSpec
