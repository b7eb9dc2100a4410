\* Scripts of any length whose blocks have up to six lines; three names and a
\* table of two.  Lines of up to eight characters, read into a buffer that grows
\* by four, and up to four words in an array that grows by two.  The user may stop typing (no deadlock check).
CONSTANTS
  Names = {x, y, z}
  Values = {v1, v2}
  Empty = empty
  MAXVARS = 2
  Lines <- SomeLines
  MaxLines = 6
  BUFSIZ = 4
  SPOTS = 2
  MaxLength = 8
SPECIFICATION AllSpec
SYMMETRY NameSymmetry
CHECK_DEADLOCK FALSE
INVARIANTS AllTypeOK CommandLineRead BlocksAsWritten EnvironmentPassed
