\* The threads: three requests, up to two at a time, one kind for each course process_rq
\* takes (notGET goes like missing); one of the clients sends nothing or hangs up; the
\* descriptor table can be full.  The processes: two requests, likewise (dir goes like
\* a .cgi that can be run), and process ids for two children: a child that has become
\* a server answers the other request, or finds no process left.
\* The requests come to an end (no deadlock check).
CONSTANTS
  Conns = {c1, c2, c3}
  Kinds = {"malformed", "status", "missing", "dir", "file", "unreadable"}
  MaxFd = 3
  MaxOverlap = 2
  MaxLost = 1
  Stdin = stdin
  None = none
  Clients = {k1, k2}
  Requests = {"malformed", "missing", "cgi", "file", "unreadable"}
  Procs = {p0, p1, p2}
  Main = p0
SPECIFICATION AllSpec
SYMMETRY Symmetry
CHECK_DEADLOCK FALSE
INVARIANTS AllTypeOK AnsweredAlone DescriptorsReturned BytesCounted AnsweredByChild ServersAccountedFor
