----------------------------- MODULE PlayAgain -----------------------------
(***************************************************************************)
(* "07 signal": play_again0.c to play_again4.c ask a yes/no question.  The *)
(* modes of the terminal are not the program's own: they belong to the     *)
(* terminal and stay when the program ends, so a program that changes them *)
(* must put them back however it ends.  From play_again1 on the tty hands  *)
(* over each key at once, from 2 on without echo, 3 and 4 do not wait for  *)
(* a key (O_NDELAY) and give up after some tries, and 4 handles SIGINT.    *)
(***************************************************************************)
EXTENDS Naturals, Sequences

CONSTANTS
  TRIES,    \* 3 in the code
  MaxTyped  \* bound: keys typed

QuestionAssumption == TRIES \in Nat /\ MaxTyped \in Nat

VARIABLES
  version,    \* which of the programs runs: 0 .. 4
  tty,        \* the modes: [canon, echo, ndelay |-> BOOLEAN]
  original,   \* original_mode and original_flags
  at,         \* where the program is
  catching,   \* SIGINT is caught
  ignoring,   \* SIGQUIT is ignored
  handling,   \* ctrl_c_handler runs; SIGINT is blocked meanwhile
  maxtries,
  response,   \* what get_response returned; NoResponse: nothing yet
  pending,    \* keys the program has not got
  typed,      \* number of keys typed, for the bound
  found,      \* history: the modes when the program was started
  died        \* history: a signal ended the program

settings == <<original, catching, ignoring, handling>>
question == <<maxtries, response>>
keyboard == <<pending, typed>>
vars == <<version, tty, at, settings, question, keyboard, found, died>>
-----------------------------------------------------------------------------
Modes == [canon : BOOLEAN, echo : BOOLEAN, ndelay : BOOLEAN]
Keys == {"y", "n", "other", "enter", "eof", "nul"}
NoResponse == 9
Ended == at = "exit"

GoTo(label) == at' = label

\* What the tty hands over: in canonical mode only lines that are complete.
Readable ==
  /\ pending # <<>>
  /\ tty.canon => \E i \in DOMAIN pending : pending[i] \in {"enter", "eof"}

AtLineStart == \A i \in DOMAIN pending : i = Len(pending) => pending[i] \in {"enter", "eof"}

\* The key that getchar returns; ^D is the end of the file in canonical mode only.
Key == IF Head(pending) = "eof" /\ ~tty.canon THEN "other" ELSE Head(pending)

\* Without a key getchar waits, or returns EOF when the tty does not wait.
WouldBlock == ~Readable /\ tty.ndelay
-----------------------------------------------------------------------------
(* main, before and after the question *)

\* tty_mode(0)
SaveMode ==
  /\ at = "save"
  /\ original' = tty
  /\ GoTo("set")
  /\ UNCHANGED <<version, tty, catching, ignoring, handling, question, keyboard, found, died>>

\* set_crmode or set_cr_noecho_mode
SetMode ==
  /\ at = "set"
  /\ tty' = [tty EXCEPT !.canon = FALSE, !.echo = @ /\ version = 1]
  /\ GoTo(IF version >= 3 THEN "nodelay" ELSE "ask")
  /\ UNCHANGED <<version, settings, question, keyboard, found, died>>

SetNodelayMode ==
  /\ at = "nodelay"
  /\ tty' = [tty EXCEPT !.ndelay = TRUE]
  /\ GoTo(IF version = 4 THEN "sigint" ELSE "sleep")
  /\ UNCHANGED <<version, settings, question, keyboard, found, died>>

\* signal(SIGINT,ctrl_c_handler), then signal(SIGQUIT,SIG_IGN)
SetSignals ==
  /\ \/ at = "sigint" /\ catching' = TRUE /\ GoTo("sigquit") /\ UNCHANGED ignoring
     \/ at = "sigquit" /\ ignoring' = TRUE /\ GoTo("sleep") /\ UNCHANGED catching
  /\ UNCHANGED <<version, tty, original, handling, question, keyboard, found, died>>

\* Mutant: the flags of the descriptor are not put back.
RestoreModeOnly ==
  /\ at \in {"restore", "restore_flags"}
  /\ tty' = [original EXCEPT !.ndelay = tty.ndelay]
  /\ GoTo("exit")
  /\ UNCHANGED <<version, settings, question, keyboard, found, died>>

\* tty_mode(1): tcsetattr, and F_SETFL in 3 and 4; the end.
RestoreMode ==
  /\ \/ /\ at = "restore"
        /\ tty' = [original EXCEPT !.ndelay = tty.ndelay]
        /\ GoTo(IF version >= 3 THEN "restore_flags" ELSE "exit")
     \/ /\ at = "restore_flags"
        /\ tty' = [tty EXCEPT !.ndelay = original.ndelay]
        /\ GoTo("exit")
  /\ UNCHANGED <<version, settings, question, keyboard, found, died>>
-----------------------------------------------------------------------------
(* get_response *)

Answered(r) ==
  /\ response' = r
  /\ GoTo(IF version = 0 THEN "exit" ELSE "restore")

\* The loop of versions 0, 1 and 2: one getchar.
AskKey ==
  /\ at = "ask"
  /\ \/ /\ Readable
        /\ pending' = Tail(pending)
        /\ CASE Key = "y" -> Answered(0)
             [] Key \in {"n", "eof"} -> Answered(1)
             [] OTHER -> UNCHANGED <<at, response>>
     \/ WouldBlock /\ Answered(1) /\ UNCHANGED pending
  /\ UNCHANGED <<version, tty, settings, maxtries, typed, found, died>>

\* Versions 3 and 4: sleep(SLEEPTIME)
Sleep ==
  /\ at = "sleep"
  /\ GoTo("get")
  /\ UNCHANGED <<version, tty, settings, question, keyboard, found, died>>

\* maxtries--==0
OneTryLess ==
  IF maxtries = 0
  THEN Answered(2) /\ UNCHANGED maxtries
  ELSE maxtries' = maxtries - 1 /\ GoTo("sleep") /\ UNCHANGED response

\* Mutant: every key that is no answer counts as a try, and none at all does not.
GetOkCharWaits ==
  /\ at = "get"
  /\ Readable
  /\ pending' = Tail(pending)
  /\ CASE Key = "y" -> Answered(0) /\ UNCHANGED maxtries
       [] Key = "n" -> Answered(1) /\ UNCHANGED maxtries
       [] OTHER -> OneTryLess
  /\ UNCHANGED <<version, tty, settings, typed, found, died>>

\* get_ok_char: one key; when there is none, one try less.  strchr finds the
\* character 0 (^@) too, at the end of "yYnN".
GetOkChar ==
  /\ at = "get"
  /\ \/ /\ Readable
        /\ pending' = Tail(pending)
        /\ CASE Key = "y" -> Answered(0) /\ UNCHANGED maxtries
             [] Key = "n" -> Answered(1) /\ UNCHANGED maxtries
             [] Key = "nul" -> OneTryLess
             [] OTHER -> UNCHANGED <<at, question>>
     \/ WouldBlock /\ OneTryLess /\ UNCHANGED pending
  /\ UNCHANGED <<version, tty, settings, typed, found, died>>
-----------------------------------------------------------------------------
(* The user *)

\* (^D behind other keys of a line only hands them over, as enter does.)
Type(k) ==
  /\ ~Ended
  /\ k = "eof" /\ tty.canon => AtLineStart
  /\ typed < MaxTyped
  /\ typed' = typed + 1
  /\ pending' = Append(pending, k)
  /\ UNCHANGED <<version, tty, at, settings, question, found, died>>

\* A signal without a handler
Die ==
  /\ GoTo("exit")
  /\ died' = TRUE
  /\ UNCHANGED <<version, tty, settings, question, keyboard, found>>

\* ^C.  ctrl_c_handler calls tty_mode(1), wherever main is, and exits.
Interrupt ==
  /\ ~Ended
  /\ \/ ~catching /\ Die
     \/ /\ catching /\ ~handling
        /\ handling' = TRUE
        /\ GoTo("restore")
        /\ UNCHANGED <<version, tty, original, catching, ignoring, question, keyboard, found, died>>

\* ^\
Quit == ~Ended /\ ~ignoring /\ Die

\* The terminal may be as another program has left it.
Init ==
  /\ version \in 0 .. 4
  /\ tty \in Modes
  /\ original = tty
  /\ at = IF version = 0 THEN "ask" ELSE "save"
  /\ catching = FALSE /\ ignoring = FALSE /\ handling = FALSE
  /\ maxtries = TRIES
  /\ response = NoResponse
  /\ pending = <<>>
  /\ typed = 0
  /\ found = tty
  /\ died = FALSE

Steps ==
  \/ SaveMode \/ SetMode \/ SetNodelayMode \/ SetSignals \/ RestoreMode
  \/ AskKey \/ Sleep \/ GetOkChar

Next ==
  \/ Steps
  \/ \E k \in Keys : Type(k)
  \/ Interrupt \/ Quit

Spec == Init /\ [][Next]_vars

\* The program goes on when it can; the user need do nothing.
FairSpec == Spec /\ WF_vars(Steps)
-----------------------------------------------------------------------------
(* Properties *)

\* The values the variables take; 2 is the answer of 3 and 4 only, after the
\* last try.
TypeOK ==
  /\ version \in 0 .. 4
  /\ {tty, original, found} \subseteq Modes
  /\ at \in {"save", "set", "nodelay", "sigint", "sigquit", "ask", "sleep", "get", "restore",
             "restore_flags", "exit"}
  /\ {catching, ignoring, handling, died} \subseteq BOOLEAN
  /\ maxtries \in 0 .. TRIES
  /\ response \in {0, 1, 2, NoResponse}
  /\ response = 2 => version >= 3 /\ maxtries = 0
  /\ Len(pending) <= typed /\ typed \in 0 .. MaxTyped

\* The terminal is given back as it was found, with its modes and the flag of
\* its descriptor, whenever the program ends and ^C or ^\ arrives: in
\* play_again4 from its two calls of signal on, in the others unless a signal
\* ends them.  play_again0 changes nothing.
TerminalGivenBack ==
  Ended =>
    \/ tty = found
    \/ died /\ version \in 1 .. 3
    \/ died /\ version = 4 /\ ~(catching /\ ignoring)

AnswerTyped ==
  \E i \in DOMAIN pending :
    /\ pending[i] \in {"y", "n"}
    /\ tty.canon => \E j \in i .. Len(pending) : pending[j] \in {"enter", "eof"}

\* play_again3 and 4 come to an end, also when no key is typed; in the others
\* a key that is an answer ends the question, once the tty hands it over.
QuestionEnds ==
  /\ version >= 3 ~> Ended
  /\ (at = "ask" /\ Readable /\ AnswerTyped) ~> Ended
=============================================================================
