----------------------------- MODULE MCTerminal -----------------------------
(***************************************************************************)
(* The programs that take over the terminal: the moving words, the ball in *)
(* its box and the yes/no question.  A behaviour is of one of them.        *)
(***************************************************************************)
EXTENDS Bounce

CONSTANTS TOP_ROW, BOT_ROW, LEFT_EDGE, RIGHT_EDGE, Y_INIT, X_INIT, Y_TTM, X_TTM,
          MaxSpeedKeys                           \* see Bounce2d
CONSTANTS TRIES, MaxTyped                        \* see PlayAgain
CONSTANTS
  MaxSignalled   \* bound: so many keys are typed where each sends SIGIO

VARIABLES y, x, ticker, display, loop, speedKeys
VARIABLES version, tty, original, at, catching, ignoring, handling, maxtries, response, pending,
          presses, found, died
VARIABLE system    \* what runs

ballVars == <<y, x, ticker, display, loop, speedKeys>>
questionVars == <<version, tty, original, at, catching, ignoring, handling, maxtries, response,
                  pending, presses, found, died>>

Ball == INSTANCE Bounce2d
Question == INSTANCE PlayAgain WITH typed <- presses

ASSUME TerminalAssumption == Ball!BoxAssumption /\ Question!QuestionAssumption

AllInit ==
  /\ system \in {"words", "ball", "question"}
  /\ Init /\ Ball!Init /\ Question!Init
  /\ system # "words" => program = "bounce1d"
  /\ system # "question" => version = 0 /\ tty = [canon |-> TRUE, echo |-> TRUE, ndelay |-> FALSE]

Runs(name) == system = name /\ UNCHANGED system

Bounded == program \in Handlers => typed <= MaxSignalled

AllNext ==
  \/ Runs("words") /\ Next /\ Bounded' /\ UNCHANGED <<ballVars, questionVars>>
  \/ Runs("ball") /\ Ball!Next /\ UNCHANGED <<vars, questionVars>>
  \/ Runs("question") /\ Question!Next /\ UNCHANGED <<vars, ballVars>>

\* Each program is scheduled as its module says.
AllSpec ==
  /\ AllInit
  /\ [][AllNext]_<<system, vars, ballVars, questionVars>>
  /\ \A w \in Words :
       /\ WF_vars(Runs("words") /\ w \in Active /\ Steps(w))
       /\ SF_vars(Runs("words") /\ Draw(w))
  /\ SF_vars(Runs("words") /\ InputSteps)
  /\ SF_vars(Runs("words") /\ MainSteps)
  /\ WF_questionVars(Runs("question") /\ Question!Steps)

\* The values of all variables.
AllTypeOK == TypeOK /\ Ball!TypeOK /\ Question!TypeOK

\* The ball stays in its box and goes on.
BallInBox == Ball!BallInBox

\* Who takes over the terminal gives it back: tanimate and bounce2d leave the
\* curses screen for good, and the question puts the modes back that it found.
TerminalGivenBack == TerminalRestored /\ Ball!ScreenRestored /\ Question!TerminalGivenBack

\* The question comes to an end.
QuestionEnds == Question!QuestionEnds
=============================================================================
