------------------------------ MODULE Bounce2d ------------------------------
(***************************************************************************)
(* bounce2d.c of "11": a ball moves in a box.  Each tick runs the handler  *)
(* ball_move, which counts y_ttg and x_ttg down and moves the ball by one  *)
(* row or column when they come to their end; main changes y_ttm and x_ttm *)
(* (ticks to move) with the keys, at any moment.                           *)
(*                                                                         *)
(* The handler interrupts main and is not interrupted: SIGALRM is ignored  *)
(* meanwhile.  Of a coordinate main only writes ttm, which the handler     *)
(* only reads, so a tick and a key are one step each.                      *)
(***************************************************************************)
EXTENDS Integers

CONSTANTS
  TOP_ROW, BOT_ROW, LEFT_EDGE, RIGHT_EDGE,   \* 5, 20, 10, 70 in the code
  Y_INIT, X_INIT, Y_TTM, X_TTM,              \* 10, 10, 8, 5
  MaxSpeedKeys                               \* bound: keys that change the speed

VARIABLES
  y, x,          \* each a record: pos, ttm, ttg and dir of the_ball
  ticker,        \* the interval timer runs
  display,       \* "curses", or "ended" by endwin
  loop,          \* where main is
  speedKeys      \* number of keys typed, for the bound

vars == <<y, x, ticker, display, loop, speedKeys>>

\* What the #defines satisfy.
BoxAssumption ==
  /\ {TOP_ROW, BOT_ROW, LEFT_EDGE, RIGHT_EDGE, Y_INIT, X_INIT, Y_TTM, X_TTM, MaxSpeedKeys} \subseteq Int
  /\ TOP_ROW <= Y_INIT /\ Y_INIT < BOT_ROW
  /\ LEFT_EDGE <= X_INIT /\ X_INIT < RIGHT_EDGE
  /\ Y_TTM > 0 /\ X_TTM > 0
  /\ MaxSpeedKeys >= 0
-----------------------------------------------------------------------------
(* ball_move, for one coordinate c *)

Due(c) == c.ttm > 0 /\ c.ttg = 1

\* The countdown: ttg is tested and decremented only when ttm is positive.
Counted(c) ==
  IF Due(c) THEN [c EXCEPT !.pos = @ + c.dir, !.ttg = c.ttm]
  ELSE [c EXCEPT !.ttg = IF c.ttm > 0 THEN @ - 1 ELSE @]

\* bounce_or_lose
Bounced(c, low, high) ==
  [c EXCEPT !.dir = IF c.pos = low THEN 1 ELSE IF c.pos = high THEN -1 ELSE @]

\* Mutant: one chain of else if, as if the ball met one edge at a time.
BallMoveOneEdge ==
  /\ ticker
  /\ LET moved == Due(y) \/ Due(x)
         atRowEdge == Counted(y).pos \in {TOP_ROW, BOT_ROW} IN
       /\ y' = IF moved THEN Bounced(Counted(y), TOP_ROW, BOT_ROW) ELSE Counted(y)
       /\ x' = IF moved /\ ~atRowEdge THEN Bounced(Counted(x), LEFT_EDGE, RIGHT_EDGE) ELSE Counted(x)
       /\ display' = IF moved THEN "curses" ELSE display
  /\ UNCHANGED <<ticker, loop, speedKeys>>

\* SIGALRM.  Both directions are looked at when the ball has moved at all, and
\* refresh draws the screen.
BallMove ==
  /\ ticker
  /\ LET moved == Due(y) \/ Due(x) IN
       /\ y' = IF moved THEN Bounced(Counted(y), TOP_ROW, BOT_ROW) ELSE Counted(y)
       /\ x' = IF moved THEN Bounced(Counted(x), LEFT_EDGE, RIGHT_EDGE) ELSE Counted(x)
       /\ display' = IF moved THEN "curses" ELSE display
  /\ UNCHANGED <<ticker, loop, speedKeys>>
-----------------------------------------------------------------------------
(* main *)

\* The keys w and s, d and a
SpeedKey ==
  /\ loop = "getchar"
  /\ speedKeys < MaxSpeedKeys
  /\ speedKeys' = speedKeys + 1
  /\ \E change \in {-1, 1} :
       \/ y' = [y EXCEPT !.ttm = @ + change] /\ UNCHANGED x
       \/ x' = [x EXCEPT !.ttm = @ + change] /\ UNCHANGED y
  /\ UNCHANGED <<ticker, display, loop>>

\* The key q: wrap_up stops the timer, and then leaves the curses screen.
WrapUp ==
  /\ \/ loop = "getchar" /\ loop' = "wrap_up" /\ UNCHANGED <<ticker, display>>
     \/ loop = "wrap_up" /\ loop' = "endwin" /\ ticker' = FALSE /\ UNCHANGED display
     \/ loop = "endwin" /\ loop' = "exit" /\ display' = "ended" /\ UNCHANGED ticker
  /\ UNCHANGED <<y, x, speedKeys>>

\* set_up
Init ==
  /\ y = [pos |-> Y_INIT, ttm |-> Y_TTM, ttg |-> Y_TTM, dir |-> 1]
  /\ x = [pos |-> X_INIT, ttm |-> X_TTM, ttg |-> X_TTM, dir |-> 1]
  /\ ticker = TRUE
  /\ display = "curses"
  /\ loop = "getchar"
  /\ speedKeys = 0

Next == BallMove \/ SpeedKey \/ WrapUp

Spec == Init /\ [][Next]_vars
-----------------------------------------------------------------------------
(* Properties *)

Coordinates == [pos : Int, ttm : Int, ttg : Int, dir : {-1, 1}]

\* The values the variables take.
TypeOK ==
  /\ y \in Coordinates /\ x \in Coordinates
  /\ ticker \in BOOLEAN
  /\ display \in {"curses", "ended"}
  /\ loop \in {"getchar", "wrap_up", "endwin", "exit"}
  /\ speedKeys \in 0 .. MaxSpeedKeys

\* The ball is in its box, and the countdown above 0: from 0 it would never
\* come to 1 again, and the ball would stand still for good.  The test for the
\* edges is an equality, so a ball that has once passed an edge would not turn;
\* the user may change, stop (ttm 0 or less) and restart it at any tick.
BallInBox ==
  /\ y.pos \in TOP_ROW .. BOT_ROW
  /\ x.pos \in LEFT_EDGE .. RIGHT_EDGE
  /\ y.ttg > 0 /\ x.ttg > 0

\* No tick draws on the screen after endwin.
ScreenRestored == loop = "exit" => display = "ended"
=============================================================================
