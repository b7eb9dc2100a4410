\* Four runs, three pids and two tickets: the tickets of runs that died, a pid
\* that comes back, refusals; a queue that loses datagrams; one crash.
\* A run whose datagram is lost waits for ever (no deadlock check).
CONSTANTS
  Clients = {c1, c2, c3, c4}
  Pids = {p1, p2, p3}
  MAXUSERS = 2
  TICKET_AVAIL = free
  NoClient = nobody
  QueueLen = 2
  MaxCrashes = 1
SPECIFICATION Spec
SYMMETRY Symmetry
CHECK_DEADLOCK FALSE
INVARIANTS TypeOK
PROPERTIES PoolSpec
