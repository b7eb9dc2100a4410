\* Two requests, one kind for each course process_rq takes (notGET goes like
\* missing, dir like a .cgi that can be run), and processes for two children: a
\* child that has become a server answers the other request, or finds no process
\* left.  All requests come to an end (no deadlock check).
CONSTANTS
  Conns = {c1, c2}
  Kinds = {"malformed", "missing", "cgi", "file", "unreadable"}
  Procs = {p0, p1, p2}
  Main = p0
  None = none
SPECIFICATION FairSpec
CHECK_DEADLOCK FALSE
PROPERTIES AnswerEnds
