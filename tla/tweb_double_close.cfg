\* Two requests at a time: the second close of a number takes it away from
\* the connection that has it by then.
CONSTANTS
  Conns = {c1, c2}
  Kinds = {"status", "dir", "file"}
  MaxFd = 3
  MaxOverlap = 2
  Stdin = stdin
  None = none
SPECIFICATION Spec
SYMMETRY Symmetry
CHECK_DEADLOCK FALSE
INVARIANTS AnsweredInFull
