\* Pipes that hold two texts, a command that writes up to four, eight questions
\* whose answers have up to two lines: enough for both pipes to fill.  Two file
\* servers, two clients, two turns.  A buffer of two records, up to five logins and
\* three changes.  The programs end (no deadlock check).
CONSTANTS
  PipeSize = 2
  MaxItems = 4
  MaxQuestions = 8
  MaxLines = 2
  FileServers = {f1, f2}
  FileClients = {g1, g2}
  FileRounds = 2
  NRECS = 2
  MaxRecords = 5
  MaxChanges = 3
SPECIFICATION AllSpec
CHECK_DEADLOCK FALSE
INVARIANTS AllTypeOK ReadersSeeWhatIsThere
PROPERTIES NobodyStuck
