------------------------------- MODULE Bounce -------------------------------
(***************************************************************************)
(* The moving words of "11" (bounce1d.c, bounce_async.c, bounce_aio.c) and *)
(* of "22 pthread" (tbounce1d.c, tanimate.c).  A word moves to and fro on  *)
(* its row: a tick of the timer, or a thread, moves it by dir and turns    *)
(* dir at the edges; the user turns dir with a key at any moment.  Neither *)
(* dir=-dir nor the test at the edge is atomic.                            *)
(*                                                                         *)
(* Where the two meet differs.  bounce1d: SIGALRM interrupts main, which   *)
(* reads the keys.  bounce_async, bounce_aio: SIGALRM and SIGIO interrupt  *)
(* main, which only waits, and each other; a handler that has interrupted  *)
(* another ends first.  tbounce1d, tanimate: threads, all at once.         *)
(***************************************************************************)
EXTENDS Integers, Sequences, FiniteSets

CONSTANTS
  Words,    \* the strings of tanimate
  Hello,    \* the one word of the other programs
  COLS,     \* the width of the screen
  LEN,      \* the length of a word
  Start,    \* where hello starts; 10 in the code
  Delay,    \* the first delay; 200 or 100 ms in the code
  INT_MAX,
  MaxKeys   \* bound: so many keys are typed

ASSUME BounceAssumption ==
  /\ Hello \in Words
  /\ {COLS, LEN, Start, Delay, INT_MAX, MaxKeys} \subseteq Nat
  /\ Start + LEN < COLS
  /\ LEN + 3 < COLS          \* else rand()%(COLS-len-3) fails
  /\ Delay \in 1 .. INT_MAX

Signals == {"bounce1d", "bounce_async", "bounce_aio"}
Threads == {"tbounce1d", "tanimate"}
Handlers == {"bounce_async", "bounce_aio"}     \* of SIGIO

VARIABLES
  program,    \* which of the programs runs
  col, dir,   \* of each word
  delay,      \* in milliseconds: of the timer in bounce1d, of usleep in tbounce1d
  mover,      \* mover[w]: where the SIGALRM handler, or the thread, of w is;
              \* "sleep": it does not run, or is in usleep
  main,       \* where main is
  input,      \* where the SIGIO handler is; "idle": it does not run
  top,        \* of two handlers, the one that has interrupted the other
  negated,    \* between load and store of dir=-dir: the word and its -dir
  todo,       \* the words main has still to flip
  done,
  mx,         \* the mutex of tanimate: "held" once main has locked it for good
  keys,       \* what the tty has not been asked for yet
  aio,        \* the character aio_read has read, or "reading"
  sigio,      \* is SIGIO pending?
  screen,     \* "curses", or "ended" by endwin
  cancelled,  \* has main called pthread_cancel?
  typed,      \* history: the number of keys typed
  flips,      \* history: flips[w]: so often has dir=-dir been executed
  coalesced   \* history: was a SIGIO sent while one was pending?

wordVars == <<col, dir, mover, flips>>
inputVars == <<keys, aio, sigio, typed, coalesced>>
handlerVars == <<input, top>>
mainVars == <<main, todo, delay, done, cancelled>>
vars == <<program, wordVars, inputVars, handlerVars, mainVars, negated, mx, screen>>
-----------------------------------------------------------------------------
Active == IF program = "tanimate" THEN Words ELSE {Hello}

\* The keys that do something: 'f' and 's' change the speed in two programs; in
\* tanimate a digit flips the word it names.
Keys ==
  {" ", "q"} \union CASE program = "tanimate" -> Words
                      [] program \in {"bounce1d", "tbounce1d"} -> {"f", "s"}
                      [] program \in Handlers -> {}

Ended == main \in {"exit", "crashed"}

\* A process is in one place, unless it has threads.
MoverRuns(w) ==
  /\ ~Ended
  /\ program \in Threads \/ input = "idle" \/ top = "alarm"
InputRuns == ~Ended /\ input # "idle" /\ (mover[Hello] = "sleep" \/ top = "input")
MainRuns == ~Ended /\ (program \in Threads \/ (input = "idle" /\ mover[Hello] = "sleep"))

\* pause returns when a handler has.
PauseReturns == IF main = "pause" THEN "test" ELSE main

\* dir=-dir: a load and a store.
Load(w) == negated' = [word |-> w, dir |-> -dir[w]]
Store ==
  /\ dir' = [dir EXCEPT ![negated.word] = negated.dir]
  /\ flips' = [flips EXCEPT ![negated.word] = @ + 1]
-----------------------------------------------------------------------------
(* move_msg, on_alarm and animate *)

Moves(w, label) == mover' = [mover EXCEPT ![w] = label]
Finished == IF program \in Threads THEN "sleep" ELSE "return"
Step(w) == col' = [col EXCEPT ![w] = @ + dir[w]]

\* What tanimate passes to pthread_cancel is no thread.  The thread of
\* tbounce1d dies in usleep, or in the first write it has not begun.
Cancelled == cancelled /\ program = "tbounce1d"

\* SIGALRM is delivered, or usleep returns: there is no clock, and usleep may take
\* any time.  (tbounce1d passes it delay*1000, an int that wraps before delay does:
\* seven 'f' and 29 's' make it 0.)
Tick(w) ==
  /\ ~Ended
  /\ ~Cancelled
  /\ mover[w] = "sleep"
  /\ Moves(w, IF program = "tanimate" THEN "draw" ELSE "move")
  /\ top' = "alarm"
  /\ UNCHANGED <<program, col, dir, flips, inputVars, input, mainVars, negated, mx, screen>>

\* col+=dir, in all programs but tanimate.
Move(w) ==
  /\ MoverRuns(w)
  /\ ~Cancelled
  /\ mover[w] = "move"
  /\ Moves(w, "draw")
  /\ Step(w)
  /\ UNCHANGED <<program, dir, flips, inputVars, handlerVars, mainVars, negated, mx, screen>>

\* Mutant: pthread_mutex_unlock is forgotten.
DrawLocked(w) ==
  /\ MoverRuns(w)
  /\ mover[w] = "draw"
  /\ program = "tanimate" => mx = "free"
  /\ screen' = "curses"
  /\ Moves(w, "test")
  /\ IF program = "tanimate" THEN mx' = "held" /\ Step(w) ELSE UNCHANGED <<mx, col>>
  /\ UNCHANGED <<program, dir, flips, inputVars, handlerVars, mainVars, negated>>

\* Up to refresh, which brings the curses screen back after endwin; tanimate
\* draws first, and then moves the word.  It draws with the mutex locked: one
\* step for those that lock it too.
Draw(w) ==
  /\ MoverRuns(w)
  /\ mover[w] = "draw"
  /\ program = "tanimate" => mx = "free"
  /\ screen' = "curses"
  /\ Moves(w, "test")
  /\ IF program = "tanimate" THEN Step(w) ELSE UNCHANGED col
  /\ UNCHANGED <<program, dir, flips, inputVars, handlerVars, mainVars, negated, mx>>

\* The comparison with COLS.  In tanimate it is one of ints; in the others strlen
\* makes it one of size_t, where a negative sum is larger than any COLS.
AtRightEdge(w) ==
  \/ col[w] + LEN >= COLS
  \/ program # "tanimate" /\ col[w] + LEN < 0

\* Mutant: the word turns only when it is exactly at the edge.
TestExact(w) ==
  /\ MoverRuns(w)
  /\ mover[w] = "test"
  /\ Moves(w, IF dir[w] = -1 THEN IF col[w] = 0 THEN "set_right" ELSE Finished
                             ELSE IF col[w] + LEN = COLS THEN "set_left" ELSE Finished)
  /\ UNCHANGED <<program, col, dir, flips, inputVars, handlerVars, mainVars, negated, mx, screen>>

\* The two conditions at the edges.  dir is read for each of them, but one that
\* is turned in between satisfies neither, as before or after both.
Test(w) ==
  /\ MoverRuns(w)
  /\ mover[w] = "test"
  /\ Moves(w, IF dir[w] = -1 THEN IF col[w] <= 0 THEN "set_right" ELSE Finished
                             ELSE IF AtRightEdge(w) THEN "set_left" ELSE Finished)
  /\ UNCHANGED <<program, col, dir, flips, inputVars, handlerVars, mainVars, negated, mx, screen>>

\* dir=1 or dir=-1
Turn(w) ==
  /\ MoverRuns(w)
  /\ mover[w] \in {"set_right", "set_left"}
  /\ dir' = [dir EXCEPT ![w] = IF mover[w] = "set_right" THEN 1 ELSE -1]
  /\ Moves(w, Finished)
  /\ UNCHANGED <<program, col, flips, inputVars, handlerVars, mainVars, negated, mx, screen>>

\* The handler returns to what it has interrupted.
Return(w) ==
  /\ MoverRuns(w)
  /\ mover[w] = "return"
  /\ Moves(w, "sleep")
  /\ main' = PauseReturns
  /\ top' = "input"
  /\ UNCHANGED <<program, col, dir, flips, inputVars, input, todo, delay, done, cancelled, negated,
                 mx, screen>>

Steps(w) == Tick(w) \/ Move(w) \/ Draw(w) \/ Test(w) \/ Turn(w) \/ Return(w)
-----------------------------------------------------------------------------
(* The keyboard *)

\* In bounce_async each key sends SIGIO, and one that is pending already
\* stays one.
Type(k) ==
  /\ ~Ended
  /\ typed < MaxKeys
  /\ typed' = typed + 1
  /\ keys' = Append(keys, k)
  /\ sigio' = (sigio \/ program = "bounce_async")
  /\ coalesced' = (coalesced \/ (sigio /\ program = "bounce_async"))
  /\ UNCHANGED <<program, wordVars, aio, handlerVars, mainVars, negated, mx, screen>>

\* The read that aio_read has started comes to its end, and sends SIGIO.
AioCompletes ==
  /\ ~Ended
  /\ program = "bounce_aio"
  /\ aio = "reading"
  /\ keys # <<>>
  /\ aio' = Head(keys)
  /\ keys' = Tail(keys)
  /\ sigio' = TRUE
  /\ UNCHANGED <<program, wordVars, typed, coalesced, handlerVars, mainVars, negated, mx, screen>>
-----------------------------------------------------------------------------
(* on_input of bounce_async and bounce_aio *)

\* SIGIO is delivered (and blocked while its handler runs).
EnterInput ==
  /\ ~Ended
  /\ sigio
  /\ input = "idle"
  /\ sigio' = FALSE
  /\ input' = "read"
  /\ top' = "input"
  /\ UNCHANGED <<program, wordVars, keys, aio, typed, coalesced, mainVars, negated, mx, screen>>

\* What is done with the character c.
OnKey(c) ==
  /\ done' = (done \/ c = "q")
  /\ input' = IF c = " " THEN "load" ELSE "return"

\* One getch, or the character that aio_read has read.
OnInput ==
  /\ InputRuns
  /\ input = "read"
  /\ \/ /\ program = "bounce_async"
        /\ keys # <<>>
        /\ OnKey(Head(keys))
        /\ keys' = Tail(keys)
     \/ /\ program = "bounce_aio"
        /\ OnKey(aio)
        /\ UNCHANGED keys
  /\ UNCHANGED <<program, wordVars, aio, sigio, typed, coalesced, top, main, todo, delay, cancelled,
                 negated, mx, screen>>

\* dir=-dir
FlipInput ==
  /\ InputRuns
  /\ \/ input = "load" /\ Load(Hello) /\ input' = "store" /\ UNCHANGED <<dir, flips>>
     \/ input = "store" /\ Store /\ input' = "return" /\ UNCHANGED negated
  /\ UNCHANGED <<program, col, mover, inputVars, top, mainVars, mx, screen>>

\* Mutant: aio_read is not called again.
LeaveInputNoRead ==
  /\ InputRuns
  /\ input = "return"
  /\ input' = "idle"
  /\ main' = PauseReturns
  /\ UNCHANGED <<program, wordVars, inputVars, top, todo, delay, done, cancelled, negated, mx, screen>>

\* aio_read for the next character, in bounce_aio, and return.
LeaveInput ==
  /\ InputRuns
  /\ input = "return"
  /\ input' = "idle"
  /\ aio' = "reading"
  /\ main' = PauseReturns
  /\ UNCHANGED <<program, wordVars, keys, sigio, typed, coalesced, top, todo, delay, done, cancelled,
                 negated, mx, screen>>

InputSteps == AioCompletes \/ EnterInput \/ OnInput \/ FlipInput \/ LeaveInput
-----------------------------------------------------------------------------
(* main *)

\* The value of an int that has overflown.
Wrap(n) == IF n > INT_MAX THEN n - 2 * (INT_MAX + 1) ELSE n

NewDelay(k) ==
  CASE k = "f" /\ delay > 2 -> delay \div 2
    [] k = "s" -> Wrap(2 * delay)
    [] OTHER -> 0

\* Mutant: if(newdelay!=0)
SpeedNonZero(k) == delay' = IF NewDelay(k) # 0 THEN NewDelay(k) ELSE delay

\* 'f' and 's', in bounce1d and tbounce1d.
Speed(k) == delay' = IF NewDelay(k) > 0 THEN NewDelay(k) ELSE delay

\* The loop of bounce1d, tbounce1d and tanimate: one key.
Getch ==
  /\ MainRuns
  /\ main = "getch"
  /\ keys # <<>>
  /\ keys' = Tail(keys)
  /\ LET k == Head(keys) IN
       /\ todo' = IF k = " " THEN Active ELSE {k} \intersect Words
       /\ main' = IF k = "q" THEN "leave" ELSE IF todo' # {} THEN "load" ELSE "getch"
       /\ IF program = "tanimate" THEN UNCHANGED delay ELSE Speed(k)
  /\ UNCHANGED <<program, wordVars, aio, sigio, typed, coalesced, handlerVars, done, cancelled,
                 negated, mx, screen>>

\* dir=-dir, for one word after the other.
FlipMain ==
  /\ MainRuns
  /\ \/ /\ main = "load"
        /\ \E w \in todo : Load(w) /\ todo' = todo \ {w}
        /\ main' = "store"
        /\ UNCHANGED <<dir, flips>>
     \/ /\ main = "store"
        /\ Store
        /\ main' = IF todo = {} THEN "getch" ELSE "load"
        /\ UNCHANGED <<negated, todo>>
  /\ UNCHANGED <<program, col, mover, inputVars, handlerVars, delay, done, cancelled, mx, screen>>

\* while(done==false) pause(), in bounce_async and bounce_aio: a handler may
\* run after the test, before pause.
Pause ==
  /\ MainRuns
  /\ \/ main = "test" /\ main' = IF done THEN "leave" ELSE "call"
     \/ main = "call" /\ main' = "pause"
  /\ UNCHANGED <<program, wordVars, inputVars, handlerVars, todo, delay, done, cancelled, negated,
                 mx, screen>>

\* pthread_cancel, in the programs with threads, does not wait for the thread.
\* tanimate takes the mutex first, for good; it passes the address of the
\* thread's id, which the library rejects or dies of.
Leave ==
  /\ MainRuns
  /\ main = "leave"
  /\ program = "tanimate" => mx = "free"
  /\ mx' = IF program = "tanimate" THEN "held" ELSE mx
  /\ \/ main' = "endwin"
     \/ program = "tanimate" /\ main' = "crashed"
  /\ cancelled' = (program \in Threads)
  /\ UNCHANGED <<program, wordVars, inputVars, handlerVars, todo, delay, done, negated, screen>>

\* endwin, and return; the timer is still running in between.
Endwin ==
  /\ MainRuns
  /\ \/ main = "endwin" /\ screen' = "ended" /\ main' = "returning"
     \/ main = "returning" /\ main' = "exit" /\ UNCHANGED screen
  /\ UNCHANGED <<program, wordVars, inputVars, handlerVars, todo, delay, done, cancelled, negated, mx>>

MainSteps == Getch \/ FlipMain \/ Pause \/ Leave \/ Endwin

Init ==
  /\ program \in Signals \union Threads
  /\ col \in [Words -> 0 .. COLS - 1]
  /\ dir \in [Words -> {-1, 1}]
  /\ \A w \in Words : IF program = "tanimate" THEN col[w] < COLS - LEN - 3
                                             ELSE col[w] = Start /\ dir[w] = 1
  /\ delay = Delay
  /\ mover = [w \in Words |-> "sleep"]
  /\ main = IF program \in Handlers THEN "test" ELSE "getch"
  /\ input = "idle"
  /\ top = "input"
  /\ negated = [word |-> Hello, dir |-> 1]
  /\ todo = {}
  /\ done = FALSE
  /\ mx = "free"
  /\ keys = <<>>
  /\ aio = "reading"
  /\ sigio = FALSE
  /\ screen = "curses"
  /\ cancelled = FALSE
  /\ typed = 0
  /\ flips = [w \in Words |-> 0]
  /\ coalesced = FALSE

Next ==
  \/ \E w \in Active : Steps(w)
  \/ \E k \in Keys : Type(k)
  \/ InputSteps
  \/ MainSteps

Spec == Init /\ [][Next]_vars

\* A tick is due every delay milliseconds, or 20, which is far longer than what it
\* interrupts or keeps waiting at the mutex.  usleep returns, whatever it is given:
\* its argument is an unsigned int of microseconds, 72 minutes at most.
Fairness ==
  /\ \A w \in Words : WF_vars(w \in Active /\ Steps(w)) /\ SF_vars(Draw(w))
  /\ SF_vars(InputSteps)
  /\ SF_vars(MainSteps)

FairSpec == Spec /\ Fairness
-----------------------------------------------------------------------------
(* Properties *)

\* main is interrupted or it runs, a mutex has one owner, and delay, which bounce1d
\* gives to setitimer, is positive however often it has been doubled.
TypeOK ==
  /\ program \in Signals \union Threads
  /\ \A w \in Words : col[w] \in Int /\ dir[w] \in {-1, 1} /\ flips[w] \in 0 .. MaxKeys
  /\ \A w \in Words :
       mover[w] \in {"sleep", "draw", "move", "test", "set_right", "set_left", "return"}
  /\ delay \in 1 .. INT_MAX
  /\ main \in {"getch", "load", "store", "test", "call", "pause", "leave", "endwin", "returning",
               "exit", "crashed"}
  /\ input \in {"idle", "read", "load", "store", "return"}
  /\ mx \in {"free", "held"}
  /\ screen \in {"curses", "ended"}

\* The test at the edge and dir=-dir interleave.  Still a word is out of the
\* screen by at most one column for each time the user has turned it, and one
\* more in tanimate, where it may start at the left edge with dir -1.
StaysNear ==
  \A w \in Active :
    /\ col[w] >= -flips[w] - (IF program = "tanimate" THEN 1 ELSE 0)
    /\ col[w] + LEN <= COLS + flips[w]

\* tanimate leaves the terminal as endwin has set it: no thread refreshes the
\* screen between endwin and the end of the process.
TerminalRestored ==
  main = "exit" /\ program = "tanimate" => screen = "ended"

\* A 'q' ends the program, also one that is typed while a handler runs or
\* between the test of done and pause.  Only in bounce_async, where one SIGIO
\* may stand for two keys, it may be left unread.
QuitObeyed ==
  (\E i \in DOMAIN keys : keys[i] = "q") ~> (Ended \/ coalesced)

\* Beyond the left edge by more than its length a word that goes right is turned
\* left, as if it were at the right edge; it is turned left and right for ever.
Caught(w) == program # "tanimate" /\ col[w] + LEN < 0 /\ flips[w] >= LEN + 2

\* When the user lets go of the keyboard every word comes back and stays on
\* the screen, or the program ends.  Only a word that the user has turned LEN+2
\* times may be caught beyond the left edge.
ComesBack ==
  <>[](Ended \/ \A w \in Active : col[w] \in 0 .. (COLS - LEN) \/ Caught(w))
=============================================================================
