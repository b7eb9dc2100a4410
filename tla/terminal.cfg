\* The words: all five programs, one word.  Three keys: enough to turn the word at
\* an edge, to type "q" behind another key, and to turn a word of one column so often
\* at the left edge that it is caught there.  Two keys where each sends SIGIO.  The
\* ball: a box of 3 rows and 4 columns, three keys that change the speeds.  The
\* question: all modes of the terminal, two keys.
\* The programs end (no deadlock check).
CONSTANTS
  w1 = w1
  Words = {w1}
  Hello = w1
  COLS = 5
  LEN = 1
  Start = 3
  Delay = 3
  INT_MAX = 7
  MaxKeys = 3
  MaxSignalled = 2
  TOP_ROW = 1
  BOT_ROW = 3
  LEFT_EDGE = 1
  RIGHT_EDGE = 4
  Y_INIT = 2
  X_INIT = 1
  Y_TTM = 2
  X_TTM = 1
  MaxSpeedKeys = 3
  TRIES = 3
  MaxTyped = 2
SPECIFICATION AllSpec
CHECK_DEADLOCK FALSE
INVARIANTS AllTypeOK StaysNear BallInBox TerminalGivenBack
PROPERTIES QuitObeyed ComesBack QuestionEnds
