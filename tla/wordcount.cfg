\* The four programs as they are, with two workers.  The process ends (no
\* deadlock check).
CONSTANTS
  Workers = {w1, w2}
  Main = main
  NULL = NULL
  MaxWords = 2
SPECIFICATION FairSpec
CHECK_DEADLOCK FALSE
INVARIANTS TypeOK TotalsComplete
PROPERTIES MailboxTakenWhenEmpty MainReturns
