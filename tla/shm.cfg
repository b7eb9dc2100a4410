\* Two servers that are started, interrupted and killed at any time, and two
\* clients that run at any time, before the semaphores are set too; three of the
\* four are started: every pair of two servers or two clients, and one of the
\* others.
CONSTANTS
  Servers = {s1, s2}
  Clients = {c1, c2}
  Rounds = 1
  MaxStarted = 3
  None = none
SPECIFICATION FairSpec
CHECK_DEADLOCK FALSE
INVARIANTS TypeOK SemaphoresCount ReadersExcludeWriter NoTornText
PROPERTIES NobodyWaitsForEver
