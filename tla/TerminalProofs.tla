--------------------------- MODULE TerminalProofs ---------------------------
(***************************************************************************)
(* What the programs that take over the terminal keep to, for every size   *)
(* of the screen and of the box, any number of keys, typed at any moment,  *)
(* and any modes the terminal was found with.                              *)
(*                                                                         *)
(* The moving words: neither the test at the edge nor dir=-dir is atomic,  *)
(* so a word may be turned back to the edge behind the test, or before a   *)
(* turn that undoes it.  Whatever the order, a word needs one flip for     *)
(* each step beyond an edge, and each flip a key.                          *)
(* The ball: at an edge it is turned before it moves again.                *)
(* The question: what was saved is what was found, and each version undoes *)
(* what it has changed.                                                    *)
(***************************************************************************)
EXTENDS MCTerminal, TLAPS

-----------------------------------------------------------------------------
(* The moving words: where they are *)

\* The next thing that is done to w, and not to its direction only, is a step.
BeforeStep(w) ==
  mover[w] \in {"sleep", "return", IF program = "tanimate" THEN "draw" ELSE "move"}

\* The steps beyond the left edge that w may have made.
Allowed(w) == flips[w] + (IF program = "tanimate" THEN 1 ELSE 0)

Movers == {"sleep", "draw", "move", "test", "set_right", "set_left", "return"}

WordTypes ==
  /\ col \in [Words -> Int]
  /\ dir \in [Words -> {-1, 1}]
  /\ flips \in [Words -> Nat]
  /\ mover \in [Words -> Movers]
  /\ \A w \in Words : program = "tanimate" => mover[w] # "move"

\* Only known words are turned.
FlipTypes ==
  /\ negated \in [word : Words, dir : {-1, 1}]
  /\ todo \in SUBSET Words

\* The word is still where the test at the edge found it.
AtEdge(w) ==
  /\ mover[w] = "set_right" => col[w] <= 0
  /\ mover[w] = "set_left" => AtRightEdge(w)

\* A word that will step outwards at an edge or beyond has a flip left for it.
LeftOpen(w) == dir[w] = -1 /\ col[w] <= 0 /\ BeforeStep(w) => 1 - col[w] <= Allowed(w)
RightOpen(w) == dir[w] = 1 /\ col[w] + LEN >= COLS /\ BeforeStep(w) => col[w] + LEN + 1 <= COLS + flips[w]

\* The test of the right edge turns a word left that is far beyond the left one.
\* It has just made a step to the right, or been turned to the right.
TurnOpen(w) ==
  /\ program # "tanimate" /\ col[w] <= 0
  /\ mover[w] = "set_left" \/ (mover[w] \in {"draw", "test"} /\ dir[w] = 1)
  => 1 - col[w] <= Allowed(w)

Near(w) == -col[w] <= Allowed(w) /\ col[w] + LEN <= COLS + flips[w]

WordInv(w) == AtEdge(w) /\ LeftOpen(w) /\ RightOpen(w) /\ TurnOpen(w) /\ Near(w)

NearInv == WordTypes /\ FlipTypes /\ \A w \in Active : WordInv(w)

\* The screen is wider than the longest word.
LEMMA Screen == COLS \in Nat /\ LEN \in Nat /\ LEN < COLS /\ Hello \in Words /\ Start \in Nat /\ Start + LEN < COLS
  BY BounceAssumption

LEMMA NearInit == Init => NearInv
<1> SUFFICES ASSUME Init PROVE NearInv
  OBVIOUS
<1> USE Screen DEF Init
<1>1. WordTypes
  BY DEF WordTypes, Movers
<1>2. FlipTypes
  BY DEF FlipTypes
<1>3. ASSUME NEW w \in Active PROVE WordInv(w)
  <2>1. w \in Words /\ mover[w] = "sleep" /\ flips[w] = 0 /\ col[w] >= 0
    BY <1>3 DEF Active
  <2>2. CASE program = "tanimate"
    <3>1. col[w] + LEN + 3 < COLS
      BY <2>1, <2>2
    <3> QED
      BY <2>1, <2>2, <3>1, <1>1 DEF WordTypes, WordInv, AtEdge, AtRightEdge, LeftOpen, RightOpen, TurnOpen, Near, Allowed
  <2>3. CASE program # "tanimate"
    <3>1. col[w] = Start /\ dir[w] = 1
      BY <2>1, <2>3
    <3> QED
      BY <2>1, <2>3, <3>1 DEF WordInv, AtEdge, AtRightEdge, LeftOpen, RightOpen, TurnOpen, Near, Allowed
  <2> QED
    BY <2>2, <2>3
<1> QED
  BY <1>1, <1>2, <1>3 DEF NearInv

\* A step that leaves the words alone.
LEMMA WordsRest ==
  ASSUME NearInv, UNCHANGED <<program, wordVars>>, FlipTypes'
  PROVE  NearInv'
  BY DEF NearInv, WordTypes, WordInv, AtEdge, AtRightEdge, LeftOpen, RightOpen, TurnOpen, Near, Allowed, BeforeStep, Active, wordVars

\* A step of the handler or the thread of one word.
LEMMA OneMoves ==
  ASSUME NearInv, NEW w \in Active, UNCHANGED <<program, flips, negated, todo>>, WordTypes', WordInv(w)',
         \A v \in Words \ {w} : col'[v] = col[v] /\ dir'[v] = dir[v] /\ mover'[v] = mover[v]
  PROVE  NearInv'
<1>1. FlipTypes'
  BY DEF NearInv, FlipTypes
<1>2. ASSUME NEW v \in Active, v # w PROVE WordInv(v)'
  BY <1>2, Screen DEF NearInv, WordInv, AtEdge, AtRightEdge, LeftOpen, RightOpen, TurnOpen, Near, Allowed, BeforeStep, Active
<1>3. Active' = Active
  BY DEF Active
<1> QED
  BY <1>1, <1>2, <1>3 DEF NearInv

LEMMA MoverKeepsNear ==
  ASSUME NearInv, NEW w \in Active, Steps(w)
  PROVE  NearInv'
<1> USE Screen
<1>1. WordTypes /\ WordInv(w) /\ w \in Words
  BY DEF NearInv, Active
<1>2. CASE Tick(w)
  <2>1. WordTypes'
    BY <1>1, <1>2 DEF Tick, Moves, WordTypes, Movers
  <2>2. WordInv(w)'
    BY <1>1, <1>2 DEF Tick, Moves, WordTypes, WordInv, AtEdge, AtRightEdge, LeftOpen, RightOpen, TurnOpen, Near, Allowed, BeforeStep
  <2> QED
    BY <1>1, <1>2, <2>1, <2>2, OneMoves DEF Tick, Moves, WordTypes, mainVars
<1>3. CASE Move(w)
  <2>1. WordTypes'
    BY <1>1, <1>3 DEF Move, Moves, Step, WordTypes, Movers
  <2>2. WordInv(w)'
    BY <1>1, <1>3 DEF Move, Moves, Step, WordTypes, WordInv, AtEdge, AtRightEdge, LeftOpen, RightOpen, TurnOpen, Near, Allowed, BeforeStep
  <2> QED
    BY <1>1, <1>3, <2>1, <2>2, OneMoves DEF Move, Moves, Step, WordTypes, mainVars
<1>4. CASE Draw(w)
  <2>1. WordTypes'
    BY <1>1, <1>4 DEF Draw, Moves, Step, WordTypes, Movers
  <2>2. WordInv(w)'
    BY <1>1, <1>4 DEF Draw, Moves, Step, WordTypes, WordInv, AtEdge, AtRightEdge, LeftOpen, RightOpen, TurnOpen, Near, Allowed, BeforeStep
  <2> QED
    BY <1>1, <1>4, <2>1, <2>2, OneMoves DEF Draw, Moves, Step, WordTypes, mainVars
<1>5. CASE Test(w)
  <2>1. WordTypes'
    BY <1>1, <1>5 DEF Test, Moves, Finished, WordTypes, Movers
  <2>2. WordInv(w)'
    BY <1>1, <1>5 DEF Test, Moves, Finished, WordTypes, WordInv, AtEdge, AtRightEdge, LeftOpen, RightOpen, TurnOpen, Near, Allowed, BeforeStep
  <2> QED
    BY <1>1, <1>5, <2>1, <2>2, OneMoves DEF Test, Moves, WordTypes, mainVars
<1>6. CASE Turn(w)
  <2>1. WordTypes'
    BY <1>1, <1>6 DEF Turn, Moves, Finished, WordTypes, Movers
  <2>2. WordInv(w)'
    BY <1>1, <1>6 DEF Turn, Moves, Finished, WordTypes, WordInv, AtEdge, AtRightEdge, LeftOpen, RightOpen, TurnOpen, Near, Allowed, BeforeStep
  <2> QED
    BY <1>1, <1>6, <2>1, <2>2, OneMoves DEF Turn, Moves, WordTypes, mainVars
<1>7. CASE Return(w)
  <2>1. WordTypes'
    BY <1>1, <1>7 DEF Return, Moves, WordTypes, Movers
  <2>2. WordInv(w)'
    BY <1>1, <1>7 DEF Return, Moves, WordTypes, WordInv, AtEdge, AtRightEdge, LeftOpen, RightOpen, TurnOpen, Near, Allowed, BeforeStep
  <2> QED
    BY <1>1, <1>7, <2>1, <2>2, OneMoves DEF Return, Moves, WordTypes, mainVars
<1> QED
  BY <1>2, <1>3, <1>4, <1>5, <1>6, <1>7 DEF Steps

\* The store of dir=-dir pays for the step it may lead to.
LEMMA StoreKeepsNear ==
  ASSUME NearInv, Store, UNCHANGED <<program, col, mover>>, FlipTypes'
  PROVE  NearInv'
<1>1. negated.word \in Words /\ negated.dir \in {-1, 1}
  BY DEF NearInv, FlipTypes
<1>2. WordTypes'
  BY <1>1 DEF Store, NearInv, WordTypes
<1>3. \A w \in Words : flips'[w] = IF w = negated.word THEN flips[w] + 1 ELSE flips[w]
  BY DEF Store, NearInv, WordTypes
<1>4. \A w \in Words : w # negated.word => dir'[w] = dir[w]
  BY DEF Store, NearInv, WordTypes
<1>5. ASSUME NEW w \in Active PROVE WordInv(w)'
  <2>1. w \in Words /\ WordInv(w) /\ WordTypes
    BY Screen DEF Active, NearInv
  <2>2. Allowed(w) \in Nat /\ Allowed(w)' = Allowed(w) + (flips'[w] - flips[w])
    BY <1>3, <2>1 DEF Allowed, WordTypes
  <2>3. CASE w = negated.word
    BY <1>1, <1>3, <2>1, <2>2, <2>3, Screen
       DEF WordTypes, WordInv, AtEdge, AtRightEdge, LeftOpen, RightOpen, TurnOpen, Near, BeforeStep
  <2>4. CASE w # negated.word
    BY <1>3, <1>4, <2>1, <2>2, <2>4, Screen
       DEF WordTypes, WordInv, AtEdge, AtRightEdge, LeftOpen, RightOpen, TurnOpen, Near, BeforeStep
  <2> QED
    BY <2>3, <2>4
<1> QED
  BY <1>2, <1>5 DEF NearInv, Active

LEMMA NearStep == NearInv /\ [Next]_vars => NearInv'
<1> SUFFICES ASSUME NearInv, [Next]_vars PROVE NearInv'
  OBVIOUS
<1>1. FlipTypes /\ WordTypes /\ Active \subseteq Words
  BY Screen DEF NearInv, Active
<1>2. ASSUME UNCHANGED <<program, wordVars, negated, todo>> PROVE NearInv'
  BY <1>1, <1>2, WordsRest DEF FlipTypes
<1>3. ASSUME NEW w \in Words, Load(w), UNCHANGED <<program, wordVars>>, todo' \in SUBSET Words PROVE NearInv'
  <2>1. -dir[w] \in {-1, 1}
    BY <1>1 DEF WordTypes
  <2>2. FlipTypes'
    BY <1>3, <2>1 DEF Load, FlipTypes
  <2> QED
    BY <1>3, <2>2, WordsRest
<1>4. ASSUME Store, UNCHANGED <<program, col, mover, negated, todo>> PROVE NearInv'
  BY <1>1, <1>4, StoreKeepsNear DEF FlipTypes
<1>5. CASE UNCHANGED vars
  BY <1>2, <1>5 DEF vars, mainVars
<1>6. CASE \E w \in Active : Steps(w)
  BY <1>6, MoverKeepsNear
<1>7. CASE \E k \in Keys : Type(k)
  BY <1>2, <1>7 DEF Type, mainVars
<1>8. CASE AioCompletes \/ EnterInput \/ OnInput \/ LeaveInput
  BY <1>2, <1>8 DEF AioCompletes, EnterInput, OnInput, LeaveInput, mainVars
<1>9. CASE FlipInput
  BY <1>1, <1>3, <1>4, <1>9, Screen DEF FlipInput, mainVars, wordVars, FlipTypes
<1>10. CASE Getch
  <2>1. todo' \in SUBSET Words
    BY <1>1, <1>10 DEF Getch
  <2>2. FlipTypes'
    BY <1>1, <1>10, <2>1 DEF Getch, FlipTypes
  <2> QED
    BY <1>10, <2>2, WordsRest DEF Getch
<1>11. CASE FlipMain
  BY <1>1, <1>3, <1>4, <1>11 DEF FlipMain, wordVars, FlipTypes
<1>12. CASE Pause \/ Leave \/ Endwin
  BY <1>2, <1>12 DEF Pause, Leave, Endwin
<1> QED
  BY <1>5, <1>6, <1>7, <1>8, <1>9, <1>10, <1>11, <1>12 DEF Next, InputSteps, MainSteps

LEMMA NearMeans == NearInv => StaysNear
<1>. SUFFICES ASSUME NearInv, NEW w \in Active
              PROVE  /\ col[w] >= -flips[w] - (IF program = "tanimate" THEN 1 ELSE 0)
                     /\ col[w] + LEN <= COLS + flips[w]
  BY DEF StaysNear
<1>1. w \in Words /\ col[w] \in Int /\ flips[w] \in Nat /\ Near(w)
  BY Screen DEF NearInv, WordTypes, WordInv, Active
<1>. QED
  BY <1>1 DEF Near, Allowed

\* What main of bounce1d gives to setitimer is positive however often it has been
\* doubled or halved, also when the doubled int overflows.
DelayPositive == delay \in 1 .. INT_MAX

LEMMA DelayStep == DelayPositive /\ [Next]_vars => DelayPositive'
<1>. USE BounceAssumption
<1>. SUFFICES ASSUME DelayPositive, [Next]_vars PROVE DelayPositive'
  OBVIOUS
<1>1. ASSUME NEW k, Speed(k) PROVE DelayPositive'
  <2>1. NewDelay(k) > 0 => NewDelay(k) <= INT_MAX
    BY DEF NewDelay, Wrap, DelayPositive
  <2>2. NewDelay(k) \in Int
    BY DEF NewDelay, Wrap, DelayPositive
  <2>. QED
    BY <1>1, <2>1, <2>2 DEF Speed, DelayPositive
<1>2. CASE Getch
  BY <1>1, <1>2 DEF Getch, DelayPositive
<1>3. CASE UNCHANGED delay
  BY <1>3 DEF DelayPositive
<1>. QED
  BY <1>2, <1>3
     DEF Next, Steps, Tick, Move, Draw, Test, Turn, Return, Type, InputSteps, AioCompletes, EnterInput, OnInput,
         OnKey, FlipInput, LeaveInput, MainSteps, FlipMain, Pause, Leave, Endwin, vars, mainVars
-----------------------------------------------------------------------------
(* The moving words: their keys, and their end *)

MainPlaces ==
  {"getch", "load", "store", "test", "call", "pause", "leave", "endwin", "returning", "exit", "crashed"}
InputPlaces == {"idle", "read", "load", "store", "return"}

\* A program has the loop of main or the handler of SIGIO, and not both.
OneReader ==
  /\ program \in Signals \union Threads
  /\ main \in MainPlaces /\ input \in InputPlaces
  /\ program \in Handlers => main \notin {"getch", "load", "store"}
  /\ program \notin Handlers => input = "idle" /\ ~sigio
  /\ main = "store" => negated.word \notin todo

KeyTypes == keys \in Seq(Keys) /\ typed \in 0 .. MaxKeys

\* A dir=-dir of w has been begun, or main has it still to do.
Flipping(w) ==
  \/ main = "load" /\ w \in todo
  \/ main = "store" /\ (w = negated.word \/ w \in todo)
  \/ input = "load" /\ w = Hello
  \/ input = "store" /\ w = negated.word

Held == IF aio # "reading" /\ input \in {"idle", "read"} THEN 1 ELSE 0
Begun(w) == IF Flipping(w) THEN 1 ELSE 0

\* Each flip has had a key of its own.
Paid(w) == flips[w] + Begun(w) + Held + Len(keys) <= typed

\* tanimate ends the screen after it has locked the mutex that its threads draw with.
LockedAtEnd ==
  /\ mx \in {"free", "held"} /\ screen \in {"curses", "ended"}
  /\ program = "tanimate" =>
       /\ main \in {"endwin", "returning", "exit"} => mx = "held"
       /\ main \in {"returning", "exit"} => screen = "ended"

KeyInv == OneReader /\ KeyTypes /\ LockedAtEnd /\ \A w \in Words : Paid(w)

LEMMA KeyInit == Init => KeyInv
<1>. SUFFICES ASSUME Init PROVE KeyInv
  OBVIOUS
<1>1. OneReader
  BY DEF Init, OneReader, MainPlaces, InputPlaces, Handlers
<1>2. LockedAtEnd
  BY DEF Init, LockedAtEnd, Handlers
<1>3. keys = <<>> /\ typed = 0 /\ MaxKeys \in Nat
  BY BounceAssumption DEF Init
<1>4. KeyTypes
  BY <1>3 DEF KeyTypes
<1>5. ASSUME NEW w \in Words PROVE Paid(w)
  <2>1. flips[w] = 0 /\ ~Flipping(w) /\ aio = "reading"
    BY DEF Init, Flipping, Handlers
  <2>. QED
    BY <1>3, <2>1 DEF Paid, Begun, Held
<1>. QED
  BY <1>1, <1>2, <1>4, <1>5 DEF KeyInv

\* The numbers that Paid adds up.
LEMMA Counts ==
  ASSUME NearInv, KeyInv, NEW w \in Words
  PROVE  flips[w] \in Nat /\ Begun(w) \in 0 .. 1 /\ Held \in 0 .. 1 /\ Len(keys) \in Nat /\ typed \in Nat /\ Paid(w)
<1>1. flips[w] \in Nat
  BY DEF NearInv, WordTypes
<1>2. Len(keys) \in Nat /\ typed \in Nat /\ Paid(w)
  BY DEF KeyInv, KeyTypes
<1>. QED
  BY <1>1, <1>2 DEF Begun, Held

LEMMA OneKey ==
  ASSUME NEW S, NEW s \in Seq(S), NEW k \in S
  PROVE  Append(s, k) \in Seq(S) /\ Len(Append(s, k)) = Len(s) + 1
OBVIOUS

LEMMA TakeKey ==
  ASSUME NEW S, NEW s \in Seq(S), s # <<>>
  PROVE  Tail(s) \in Seq(S) /\ Len(Tail(s)) = Len(s) - 1
OBVIOUS

\* The same keys do something as before.
LEMMA SameKeys == ASSUME program' = program PROVE Keys' = Keys
BY DEF Keys

\* A step that neither takes a key nor turns a word.
LEMMA KeysRest ==
  ASSUME KeyInv, UNCHANGED <<program, flips, keys, aio, input, sigio, typed, todo, negated>>,
         main' = main \/ (main \notin {"load", "store"} /\ main' \in MainPlaces \ {"getch", "load", "store"}),
         LockedAtEnd'
  PROVE  KeyInv'
<1>1. OneReader' /\ KeyTypes'
  BY DEF KeyInv, OneReader, KeyTypes, MainPlaces, Keys
<1>2. ASSUME NEW w \in Words PROVE Paid(w)'
  <2>1. Flipping(w)' <=> Flipping(w)
    BY DEF Flipping
  <2>2. Paid(w)
    BY DEF KeyInv
  <2>. QED
    BY <2>1, <2>2 DEF Paid, Begun, Held
<1>. QED
  BY <1>1, <1>2 DEF KeyInv

LEMMA MoverKeepsKeys == ASSUME KeyInv, NEW w \in Active, Steps(w) PROVE KeyInv'
<1>1. UNCHANGED <<program, flips, keys, aio, input, sigio, typed, todo, negated, mx>>
  BY DEF Steps, Tick, Move, Draw, Test, Turn, Return, inputVars, handlerVars, mainVars
<1>2. main' = main \/ (main = "pause" /\ main' = "test")
  BY DEF Steps, Tick, Move, Draw, Test, Turn, Return, mainVars, PauseReturns
<1>3. screen' = screen \/ (screen' = "curses" /\ (program = "tanimate" => mx = "free"))
  BY DEF Steps, Tick, Move, Draw, Test, Turn, Return
<1>4. LockedAtEnd'
  BY <1>1, <1>2, <1>3 DEF KeyInv, LockedAtEnd
<1>. QED
  BY <1>1, <1>2, <1>4, KeysRest DEF MainPlaces

LEMMA TypeKeepsKeys == ASSUME NearInv, KeyInv, NEW k \in Keys, Type(k) PROVE KeyInv'
<1>1. /\ typed < MaxKeys /\ typed' = typed + 1 /\ keys' = Append(keys, k)
      /\ sigio' = (sigio \/ program = "bounce_async")
      /\ UNCHANGED <<program, flips, aio, input, main, todo, negated, mx, screen>>
  BY DEF Type, wordVars, handlerVars, mainVars
<1>2. OneReader' /\ LockedAtEnd'
  <2>1. program = "bounce_async" => program \in Handlers
    BY DEF Handlers
  <2>. QED
    BY <1>1, <2>1 DEF KeyInv, OneReader, LockedAtEnd
<1>3. keys' \in Seq(Keys) /\ Len(keys') = Len(keys) + 1 /\ typed' \in 0 .. MaxKeys /\ Keys' = Keys
  BY <1>1, BounceAssumption, OneKey, SameKeys DEF KeyInv, KeyTypes
<1>4. ASSUME NEW w \in Words PROVE Paid(w)'
  <2>1. Begun(w)' = Begun(w) /\ Held' = Held
    BY <1>1 DEF Begun, Flipping, Held
  <2>. QED
    BY <1>1, <1>3, <2>1, Counts DEF Paid
<1>. QED
  BY <1>2, <1>3, <1>4 DEF KeyInv, KeyTypes

LEMMA AioCompletesKeepsKeys == ASSUME NearInv, KeyInv, AioCompletes PROVE KeyInv'
<1>1. /\ program = "bounce_aio" /\ keys # <<>> /\ keys' = Tail(keys) /\ sigio' = TRUE /\ aio = "reading"
      /\ UNCHANGED <<program, flips, input, main, todo, negated, typed, mx, screen>>
  BY DEF AioCompletes, wordVars, handlerVars, mainVars
<1>2. OneReader' /\ LockedAtEnd'
  <2>1. program \in Handlers
    BY <1>1 DEF Handlers
  <2>. QED
    BY <1>1, <2>1 DEF KeyInv, OneReader, LockedAtEnd
<1>3. keys' \in Seq(Keys) /\ Len(keys') = Len(keys) - 1 /\ typed' \in 0 .. MaxKeys /\ Keys' = Keys
  BY <1>1, TakeKey, SameKeys DEF KeyInv, KeyTypes
<1>4. ASSUME NEW w \in Words PROVE Paid(w)'
  <2>1. Begun(w)' = Begun(w) /\ Held = 0 /\ Held' \in 0 .. 1
    BY <1>1 DEF Begun, Flipping, Held
  <2>. QED
    BY <1>1, <1>3, <2>1, Counts DEF Paid
<1>. QED
  BY <1>2, <1>3, <1>4 DEF KeyInv, KeyTypes

LEMMA EnterInputKeepsKeys == ASSUME NearInv, KeyInv, EnterInput PROVE KeyInv'
<1>1. /\ sigio /\ input = "idle" /\ sigio' = FALSE /\ input' = "read"
      /\ UNCHANGED <<program, flips, keys, aio, main, todo, negated, typed, mx, screen>>
  BY DEF EnterInput, wordVars, mainVars
<1>2. OneReader' /\ LockedAtEnd' /\ KeyTypes'
  BY <1>1 DEF KeyInv, OneReader, LockedAtEnd, InputPlaces, KeyTypes, Keys
<1>3. ASSUME NEW w \in Words PROVE Paid(w)'
  <2>1. Begun(w)' = Begun(w) /\ Held' = Held
    BY <1>1 DEF Begun, Flipping, Held
  <2>. QED
    BY <1>1, <2>1, Counts DEF Paid
<1>. QED
  BY <1>2, <1>3 DEF KeyInv

\* The character of a handler is taken from the keys, or has been by aio_read.
LEMMA OnInputKeepsKeys == ASSUME NearInv, KeyInv, OnInput PROVE KeyInv'
<1>1. /\ input = "read" /\ input' \in {"load", "return"}
      /\ UNCHANGED <<program, flips, aio, sigio, main, todo, negated, typed, mx, screen>>
  BY DEF OnInput, OnKey, wordVars
<1>2. program \in Handlers
  BY <1>1 DEF KeyInv, OneReader
<1>3. OneReader' /\ LockedAtEnd'
  BY <1>1, <1>2 DEF KeyInv, OneReader, LockedAtEnd, InputPlaces
<1>4. \/ keys # <<>> /\ keys' = Tail(keys)
      \/ keys' = keys /\ (input' = "load" => aio # "reading")
  BY DEF OnInput, OnKey
<1>5. /\ KeyTypes'
      /\ \/ Len(keys') = Len(keys) - 1
         \/ Len(keys') = Len(keys) /\ (input' = "load" => Held = 1)
  BY <1>1, <1>4, TakeKey, SameKeys DEF KeyInv, KeyTypes, Held
<1>6. ASSUME NEW w \in Words PROVE Paid(w)'
  <2>1. Begun(w) = 0 /\ Begun(w)' \in 0 .. 1 /\ (Begun(w)' = 1 => input' = "load") /\ Held' = 0
    BY <1>1, <1>2 DEF Begun, Flipping, Held, KeyInv, OneReader
  <2>. QED
    BY <1>1, <1>5, <2>1, Counts DEF Paid
<1>. QED
  BY <1>3, <1>5, <1>6 DEF KeyInv

LEMMA FlipInputKeepsKeys == ASSUME NearInv, KeyInv, FlipInput PROVE KeyInv'
<1>1. /\ input # "idle"
      /\ UNCHANGED <<program, keys, aio, sigio, main, todo, typed, mx, screen>>
  BY DEF FlipInput, InputRuns, inputVars, mainVars
<1>2. program \in Handlers /\ main \notin {"load", "store"}
  BY <1>1 DEF KeyInv, OneReader
<1>3. /\ input' \in {"store", "return"} /\ input \in {"load", "store"}
      /\ Held = 0 /\ Held' = 0
  BY <1>1 DEF FlipInput, Held
<1>4. OneReader' /\ LockedAtEnd' /\ KeyTypes'
  BY <1>1, <1>2, <1>3 DEF KeyInv, OneReader, LockedAtEnd, InputPlaces, KeyTypes, Keys
<1>5. ASSUME NEW w \in Words PROVE Paid(w)'
  <2>1. CASE input = "load"
    <3>1. negated'.word = Hello /\ input' = "store" /\ flips' = flips
      BY <2>1 DEF FlipInput, Load
    <3>2. Begun(w)' = Begun(w)
      BY <1>1, <1>2, <2>1, <3>1 DEF Begun, Flipping
    <3>. QED
      BY <1>1, <1>3, <3>1, <3>2, Counts DEF Paid
  <2>2. CASE input = "store"
    <3>1. /\ input' = "return" /\ negated' = negated
          /\ flips' = [flips EXCEPT ![negated.word] = @ + 1]
      BY <2>2 DEF FlipInput, Store
    <3>2. flips'[w] = IF w = negated.word THEN flips[w] + 1 ELSE flips[w]
      BY <3>1 DEF NearInv, WordTypes
    <3>3. Begun(w)' = 0 /\ Begun(w) = IF w = negated.word THEN 1 ELSE 0
      BY <1>1, <1>2, <2>2, <3>1 DEF Begun, Flipping
    <3>. QED
      BY <1>1, <1>3, <3>2, <3>3, Counts DEF Paid
  <2>. QED
    BY <1>3, <2>1, <2>2
<1>. QED
  BY <1>4, <1>5 DEF KeyInv

LEMMA LeaveInputKeepsKeys == ASSUME NearInv, KeyInv, LeaveInput PROVE KeyInv'
<1>1. /\ input = "return" /\ input' = "idle" /\ aio' = "reading"
      /\ main' = main \/ (main = "pause" /\ main' = "test")
      /\ UNCHANGED <<program, flips, keys, sigio, todo, negated, typed, mx, screen>>
  BY DEF LeaveInput, PauseReturns, wordVars
<1>2. OneReader' /\ LockedAtEnd' /\ KeyTypes'
  BY <1>1 DEF KeyInv, OneReader, LockedAtEnd, InputPlaces, MainPlaces, KeyTypes, Keys
<1>3. ASSUME NEW w \in Words PROVE Paid(w)'
  <2>1. Begun(w)' = Begun(w) /\ Held' = 0 /\ Held = 0
    BY <1>1 DEF Begun, Flipping, Held
  <2>. QED
    BY <1>1, <2>1, Counts DEF Paid
<1>. QED
  BY <1>2, <1>3 DEF KeyInv

LEMMA GetchKeepsKeys == ASSUME NearInv, KeyInv, Getch PROVE KeyInv'
<1>1. /\ main = "getch" /\ keys # <<>> /\ keys' = Tail(keys) /\ main' \in {"leave", "load", "getch"}
      /\ UNCHANGED <<program, flips, aio, sigio, input, negated, typed, mx, screen>>
  BY DEF Getch, wordVars, handlerVars
<1>2. program \notin Handlers /\ input = "idle"
  BY <1>1 DEF KeyInv, OneReader
<1>3. OneReader' /\ LockedAtEnd'
  BY <1>1, <1>2 DEF KeyInv, OneReader, LockedAtEnd, MainPlaces
<1>4. keys' \in Seq(Keys) /\ Len(keys') = Len(keys) - 1 /\ KeyTypes'
  BY <1>1, TakeKey, SameKeys DEF KeyInv, KeyTypes
<1>5. ASSUME NEW w \in Words PROVE Paid(w)'
  <2>1. Begun(w) = 0 /\ Begun(w)' \in 0 .. 1 /\ Held' = Held
    BY <1>1, <1>2 DEF Begun, Flipping, Held
  <2>. QED
    BY <1>1, <1>4, <2>1, Counts DEF Paid
<1>. QED
  BY <1>3, <1>4, <1>5 DEF KeyInv

LEMMA FlipMainKeepsKeys == ASSUME NearInv, KeyInv, FlipMain PROVE KeyInv'
<1>1. /\ main \in {"load", "store"}
      /\ UNCHANGED <<program, keys, aio, sigio, input, typed, mx, screen>>
  BY DEF FlipMain, inputVars, handlerVars
<1>2. program \notin Handlers /\ input = "idle"
  BY <1>1 DEF KeyInv, OneReader
<1>3. Held' = Held
  BY <1>1 DEF Held
<1>4. CASE main = "load"
  <2>1. PICK v \in todo : negated'.word = v /\ todo' = todo \ {v}
    BY <1>4 DEF FlipMain, Load
  <2>2. main' = "store" /\ flips' = flips
    BY <1>4 DEF FlipMain
  <2>3. OneReader' /\ LockedAtEnd' /\ KeyTypes'
    BY <1>1, <1>2, <2>1, <2>2 DEF KeyInv, OneReader, LockedAtEnd, MainPlaces, KeyTypes, Keys
  <2>4. ASSUME NEW w \in Words PROVE Paid(w)'
    <3>1. Begun(w)' = Begun(w)
      BY <1>1, <1>2, <1>4, <2>1, <2>2 DEF Begun, Flipping
    <3>. QED
      BY <1>1, <1>3, <2>2, <3>1, Counts DEF Paid
  <2>. QED
    BY <2>3, <2>4 DEF KeyInv
<1>5. CASE main = "store"
  <2>1. /\ main' \in {"getch", "load"} /\ UNCHANGED <<negated, todo>>
        /\ flips' = [flips EXCEPT ![negated.word] = @ + 1]
    BY <1>5 DEF FlipMain, Store
  <2>2. OneReader' /\ LockedAtEnd' /\ KeyTypes'
    BY <1>1, <1>2, <2>1 DEF KeyInv, OneReader, LockedAtEnd, MainPlaces, KeyTypes, Keys
  <2>3. negated.word \notin todo
    BY <1>5 DEF KeyInv, OneReader
  <2>4. ASSUME NEW w \in Words PROVE Paid(w)'
    <3>1. flips'[w] = IF w = negated.word THEN flips[w] + 1 ELSE flips[w]
      BY <2>1 DEF NearInv, WordTypes
    <3>2. Begun(w) \in 0 .. 1 /\ Begun(w)' \in 0 .. 1
      BY DEF Begun
    <3>3. CASE w = negated.word
      <4>1. Begun(w) = 1 /\ Begun(w)' = 0
        BY <1>1, <1>2, <1>5, <2>1, <2>3, <3>3 DEF Begun, Flipping
      <4>. QED
        BY <1>1, <1>3, <3>1, <3>3, <4>1, Counts DEF Paid
    <3>4. CASE w # negated.word
      <4>1. Begun(w)' = 1 => Begun(w) = 1
        BY <1>1, <1>2, <1>5, <2>1, <3>4 DEF Begun, Flipping
      <4>. QED
        BY <1>1, <1>3, <3>1, <3>2, <3>4, <4>1, Counts DEF Paid
    <3>. QED
      BY <3>3, <3>4
  <2>. QED
    BY <2>2, <2>4 DEF KeyInv
<1>. QED
  BY <1>1, <1>4, <1>5

LEMMA EndKeepsKeys == ASSUME KeyInv, Pause \/ Leave \/ Endwin PROVE KeyInv'
<1>1. UNCHANGED <<program, flips, keys, aio, input, sigio, typed, todo, negated>>
  BY DEF Pause, Leave, Endwin, wordVars, inputVars, handlerVars
<1>2. /\ main \in {"test", "call", "leave", "endwin", "returning"}
      /\ main' \in {"leave", "call", "pause", "endwin", "crashed", "returning", "exit"}
  BY DEF Pause, Leave, Endwin
<1>3. LockedAtEnd'
  BY DEF KeyInv, LockedAtEnd, Pause, Leave, Endwin
<1>. QED
  BY <1>1, <1>2, <1>3, KeysRest DEF MainPlaces

LEMMA KeyStep == ASSUME NearInv, KeyInv, [Next]_vars PROVE KeyInv'
<1>1. CASE UNCHANGED vars
  <2>1. UNCHANGED <<program, flips, keys, aio, input, sigio, typed, todo, negated, main, mx, screen>>
    BY <1>1 DEF vars, wordVars, inputVars, handlerVars, mainVars
  <2>2. LockedAtEnd'
    BY <2>1 DEF KeyInv, LockedAtEnd
  <2>. QED
    BY <2>1, <2>2, KeysRest
<1>2. CASE \E w \in Active : Steps(w)
  BY <1>2, MoverKeepsKeys
<1>3. CASE \E k \in Keys : Type(k)
  BY <1>3, TypeKeepsKeys
<1>4. CASE InputSteps
  BY <1>4, AioCompletesKeepsKeys, EnterInputKeepsKeys, OnInputKeepsKeys, FlipInputKeepsKeys, LeaveInputKeepsKeys
     DEF InputSteps
<1>5. CASE MainSteps
  BY <1>5, GetchKeepsKeys, FlipMainKeepsKeys, EndKeepsKeys DEF MainSteps
<1>. QED
  BY <1>1, <1>2, <1>3, <1>4, <1>5 DEF Next
WordsInv == NearInv /\ DelayPositive /\ KeyInv

LEMMA WordsInit == Init => WordsInv
<1>1. Init => DelayPositive
  BY BounceAssumption DEF Init, DelayPositive
<1>. QED
  BY <1>1, NearInit, KeyInit DEF WordsInv

LEMMA WordsStep == WordsInv /\ [Next]_vars => WordsInv'
BY NearStep, DelayStep, KeyStep DEF WordsInv

LEMMA WordsTyped == WordsInv => TypeOK
<1>. SUFFICES ASSUME WordsInv PROVE TypeOK
  OBVIOUS
<1>1. NearInv /\ KeyInv /\ delay \in 1 .. INT_MAX /\ WordTypes /\ OneReader /\ LockedAtEnd
  BY DEF WordsInv, NearInv, KeyInv, DelayPositive
<1>2. ASSUME NEW w \in Words PROVE flips[w] \in 0 .. MaxKeys
  <2>1. typed \in 0 .. MaxKeys /\ MaxKeys \in Nat
    BY <1>1, BounceAssumption DEF KeyInv, KeyTypes
  <2>. QED
    BY <1>1, <2>1, Counts DEF Paid
<1>. QED
  BY <1>1, <1>2 DEF TypeOK, WordTypes, Movers, OneReader, MainPlaces, InputPlaces, LockedAtEnd

LEMMA WordsRestored == WordsInv => TerminalRestored
BY DEF WordsInv, KeyInv, LockedAtEnd, TerminalRestored
-----------------------------------------------------------------------------
(* The ball *)

\* A coordinate between two edges.  At an edge its direction leads back, so that
\* the next move cannot pass it.
Kept(c, low, high) ==
  /\ c \in [pos : low .. high, ttm : Int, ttg : Int, dir : {-1, 1}]
  /\ c.ttg > 0
  /\ c.pos = low => c.dir = 1
  /\ c.pos = high => c.dir = -1

\* The timer is stopped before endwin, and so nothing is drawn after it.
Stopped ==
  /\ ticker \in BOOLEAN /\ display \in {"curses", "ended"} /\ speedKeys \in 0 .. MaxSpeedKeys
  /\ loop \in {"getchar", "wrap_up", "endwin", "exit"}
  /\ loop \in {"endwin", "exit"} => ~ticker
  /\ loop = "exit" => display = "ended"

BallInv == Kept(y, TOP_ROW, BOT_ROW) /\ Kept(x, LEFT_EDGE, RIGHT_EDGE) /\ Stopped

LEMMA Box ==
  ASSUME Ball!BoxAssumption
  PROVE  /\ TOP_ROW \in Int /\ BOT_ROW \in Int /\ TOP_ROW < BOT_ROW
         /\ LEFT_EDGE \in Int /\ RIGHT_EDGE \in Int /\ LEFT_EDGE < RIGHT_EDGE
BY DEF Ball!BoxAssumption

\* One tick keeps a coordinate, whether it is its turn to move or not.
LEMMA TickKeeps ==
  ASSUME NEW low \in Int, NEW high \in Int, low < high,
         NEW c, Kept(c, low, high)
  PROVE  /\ Kept(Ball!Bounced(Ball!Counted(c), low, high), low, high)
         /\ ~Ball!Due(c) => Kept(Ball!Counted(c), low, high)
<1>1. CASE Ball!Due(c)
  <2>1. c.pos + c.dir \in low .. high /\ c.ttm \in Int /\ c.ttm > 0
    BY <1>1 DEF Kept, Ball!Due
  <2>2. Ball!Counted(c) = [pos |-> c.pos + c.dir, ttm |-> c.ttm, ttg |-> c.ttm, dir |-> c.dir]
    BY <1>1 DEF Ball!Counted, Kept
  <2>3. c.dir \in {-1, 1}
    BY DEF Kept
  <2>. QED
    BY <1>1, <2>1, <2>2, <2>3 DEF Kept, Ball!Bounced
<1>2. CASE ~Ball!Due(c)
  <2>1. Ball!Counted(c) = [c EXCEPT !.ttg = IF c.ttm > 0 THEN @ - 1 ELSE @]
    BY <1>2 DEF Ball!Counted
  <2>2. Kept(Ball!Counted(c), low, high)
    BY <1>2, <2>1 DEF Kept, Ball!Due
  <2>. QED
    BY <2>2 DEF Kept, Ball!Bounced
<1>. QED
  BY <1>1, <1>2

LEMMA BallInit == ASSUME Ball!BoxAssumption, Ball!Init PROVE BallInv
BY DEF Ball!BoxAssumption, Ball!Init, BallInv, Kept, Stopped

LEMMA BallNext == ASSUME Ball!BoxAssumption, BallInv, Ball!Next PROVE BallInv'
<1>1. CASE Ball!BallMove
  <2>1. /\ Kept(Ball!Bounced(Ball!Counted(y), TOP_ROW, BOT_ROW), TOP_ROW, BOT_ROW)
        /\ ~Ball!Due(y) => Kept(Ball!Counted(y), TOP_ROW, BOT_ROW)
    BY Box, TickKeeps DEF BallInv
  <2>2. /\ Kept(Ball!Bounced(Ball!Counted(x), LEFT_EDGE, RIGHT_EDGE), LEFT_EDGE, RIGHT_EDGE)
        /\ ~Ball!Due(x) => Kept(Ball!Counted(x), LEFT_EDGE, RIGHT_EDGE)
    BY Box, TickKeeps DEF BallInv
  <2>3. Kept(y, TOP_ROW, BOT_ROW)' /\ Kept(x, LEFT_EDGE, RIGHT_EDGE)'
    BY <1>1, <2>1, <2>2 DEF Ball!BallMove
  <2>4. Stopped'
    BY <1>1 DEF Ball!BallMove, BallInv, Stopped
  <2>. QED
    BY <2>3, <2>4 DEF BallInv
<1>2. CASE Ball!SpeedKey
  <2>1. Kept(y, TOP_ROW, BOT_ROW)' /\ Kept(x, LEFT_EDGE, RIGHT_EDGE)'
    BY <1>2 DEF Ball!SpeedKey, BallInv, Kept
  <2>2. Stopped'
    BY <1>2 DEF Ball!SpeedKey, BallInv, Stopped, Ball!BoxAssumption
  <2>. QED
    BY <2>1, <2>2 DEF BallInv
<1>3. CASE Ball!WrapUp
  <2>1. y' = y /\ x' = x
    BY <1>3 DEF Ball!WrapUp
  <2>2. Stopped /\ speedKeys' = speedKeys
    BY <1>3 DEF Ball!WrapUp, BallInv
  <2>3. Stopped'
    <3>1. CASE loop = "getchar" /\ loop' = "wrap_up" /\ UNCHANGED <<ticker, display>>
      BY <2>2, <3>1 DEF Stopped
    <3>2. CASE loop = "wrap_up" /\ loop' = "endwin" /\ ticker' = FALSE /\ UNCHANGED display
      BY <2>2, <3>2 DEF Stopped
    <3>3. CASE loop = "endwin" /\ loop' = "exit" /\ display' = "ended" /\ UNCHANGED ticker
      BY <2>2, <3>3 DEF Stopped
    <3>. QED
      BY <1>3, <3>1, <3>2, <3>3 DEF Ball!WrapUp
  <2>. QED
    BY <2>1, <2>3 DEF BallInv, Kept
<1>. QED
  BY <1>1, <1>2, <1>3 DEF Ball!Next

LEMMA BallKept == ASSUME Ball!BoxAssumption, BallInv PROVE Ball!BallInBox
BY DEF Ball!BoxAssumption, BallInv, Kept, Ball!BallInBox

LEMMA BallTyped == ASSUME Ball!BoxAssumption, BallInv PROVE Ball!TypeOK
BY Box DEF BallInv, Kept, Stopped, Ball!TypeOK, Ball!Coordinates

LEMMA BallRestored == BallInv => Ball!ScreenRestored
BY DEF BallInv, Stopped, Ball!ScreenRestored
-----------------------------------------------------------------------------
(* The question *)

Places ==
  {"save", "set", "nodelay", "sigint", "sigquit", "ask", "sleep", "get", "restore",
   "restore_flags", "exit"}

QuestionTypes ==
  /\ version \in 0 .. 4
  /\ tty \in Question!Modes /\ found \in Question!Modes
  /\ at \in Places
  /\ catching \in BOOLEAN /\ ignoring \in BOOLEAN /\ handling \in BOOLEAN /\ died \in BOOLEAN
  /\ maxtries \in 0 .. TRIES
  /\ response \in {0, 1, 2, 9}
  /\ response = 2 => version >= 3 /\ maxtries = 0
  /\ pending \in Seq(Question!Keys) /\ Len(pending) <= presses
  /\ presses \in 0 .. MaxTyped

\* What the program will put back are the modes it has found.
Saved ==
  /\ original = found
  /\ at = "save" => tty = found

\* Which modes each version has changed where.
Changed ==
  /\ version = 0 => at \in {"ask", "exit"} /\ tty = found /\ ~catching
  /\ version < 3 =>
       /\ tty.ndelay = found.ndelay
       /\ at \notin {"nodelay", "sigint", "sigquit", "sleep", "get", "restore_flags"}
  /\ catching \/ at \in {"sigint", "sigquit"} => version = 4
  /\ at = "restore_flags" => tty.canon = found.canon /\ tty.echo = found.echo

\* What is left behind at the end.
LeftBehind ==
  at = "exit" =>
    \/ tty = found
    \/ died /\ version \in 1 .. 3
    \/ died /\ version = 4 /\ ~(catching /\ ignoring)

QuestionInv == QuestionTypes /\ Saved /\ Changed /\ LeftBehind

LEMMA QuestionInit == ASSUME Question!QuestionAssumption, Question!Init PROVE QuestionInv
<1>1. pending \in Seq(Question!Keys) /\ Len(pending) = 0
  BY DEF Question!Init
<1>2. maxtries \in 0 .. TRIES /\ presses \in 0 .. MaxTyped /\ response = 9
  BY DEF Question!Init, Question!QuestionAssumption, Question!NoResponse
<1>3. QuestionTypes
  <2>1. at \in Places /\ version \in 0 .. 4 /\ tty \in Question!Modes /\ found = tty
    BY DEF Question!Init, Places
  <2>2. /\ catching \in BOOLEAN /\ ignoring \in BOOLEAN /\ handling \in BOOLEAN /\ died \in BOOLEAN
        /\ presses = 0
    BY DEF Question!Init
  <2>. QED
    BY <1>1, <1>2, <2>1, <2>2 DEF QuestionTypes
<1>4. Saved /\ Changed /\ LeftBehind
  BY DEF Saved, Changed, LeftBehind, Question!Init
<1>. QED
  BY <1>3, <1>4 DEF QuestionInv

\* The modes with some fields changed.
LEMMA CrmodeSet ==
  ASSUME NEW m \in Question!Modes, NEW b \in BOOLEAN, NEW e \in BOOLEAN
  PROVE  /\ [m EXCEPT !.canon = b, !.echo = e] \in Question!Modes
         /\ [m EXCEPT !.canon = b, !.echo = e].ndelay = m.ndelay
BY DEF Question!Modes

LEMMA NdelaySet ==
  ASSUME NEW m \in Question!Modes, NEW b \in BOOLEAN
  PROVE  /\ [m EXCEPT !.ndelay = b] \in Question!Modes
         /\ [m EXCEPT !.ndelay = b].canon = m.canon /\ [m EXCEPT !.ndelay = b].echo = m.echo
         /\ [m EXCEPT !.ndelay = b].ndelay = b
BY DEF Question!Modes

LEMMA ModesEqual ==
  ASSUME NEW m \in Question!Modes, NEW n \in Question!Modes,
         m.canon = n.canon, m.echo = n.echo, m.ndelay = n.ndelay
  PROVE  m = n
BY DEF Question!Modes

LEMMA SaveModeKeeps == ASSUME QuestionInv, Question!SaveMode PROVE QuestionInv'
BY DEF QuestionInv, QuestionTypes, Saved, Changed, LeftBehind, Places, Question!SaveMode, Question!GoTo,
       Question!question, Question!keyboard

LEMMA SetModeKeeps == ASSUME QuestionInv, Question!SetMode PROVE QuestionInv'
<1>1. QuestionTypes /\ Saved /\ Changed /\ LeftBehind
  BY DEF QuestionInv
<1>2. /\ at = "set"
      /\ at' = IF version >= 3 THEN "nodelay" ELSE "ask"
      /\ UNCHANGED <<version, original, catching, ignoring, handling, maxtries, response, pending, presses, found, died>>
  BY DEF Question!SetMode, Question!GoTo, Question!settings, Question!question, Question!keyboard
<1>3. tty' \in Question!Modes /\ tty'.ndelay = tty.ndelay
  <2>1. tty \in Question!Modes /\ tty.echo \in BOOLEAN
    BY <1>1 DEF QuestionTypes, Question!Modes
  <2>2. (tty.echo /\ version = 1) \in BOOLEAN
    OBVIOUS
  <2>3. tty' = [tty EXCEPT !.canon = FALSE, !.echo = tty.echo /\ version = 1]
    BY DEF Question!SetMode
  <2>. QED
    BY <2>1, <2>2, <2>3, CrmodeSet
<1>4. QuestionTypes'
  BY <1>1, <1>2, <1>3 DEF QuestionTypes, Places
<1>5. Saved' /\ LeftBehind'
  BY <1>1, <1>2 DEF Saved, LeftBehind
<1>6. Changed'
  BY <1>1, <1>2, <1>3 DEF QuestionTypes, Changed
<1>. QED
  BY <1>4, <1>5, <1>6 DEF QuestionInv

LEMMA SetNodelayModeKeeps == ASSUME QuestionInv, Question!SetNodelayMode PROVE QuestionInv'
<1>1. QuestionTypes /\ Saved /\ Changed /\ LeftBehind
  BY DEF QuestionInv
<1>2. /\ at = "nodelay"
      /\ tty' = [tty EXCEPT !.ndelay = TRUE]
      /\ at' = IF version = 4 THEN "sigint" ELSE "sleep"
      /\ UNCHANGED <<version, original, catching, ignoring, handling, maxtries, response, pending, presses, found, died>>
  BY DEF Question!SetNodelayMode, Question!GoTo, Question!settings, Question!question, Question!keyboard
<1>3. tty' \in Question!Modes
  BY <1>1, <1>2, NdelaySet DEF QuestionTypes
<1>4. QuestionTypes'
  BY <1>1, <1>2, <1>3 DEF QuestionTypes, Places
<1>5. Saved' /\ LeftBehind'
  BY <1>1, <1>2 DEF Saved, LeftBehind
<1>6. Changed'
  BY <1>1, <1>2 DEF QuestionTypes, Changed
<1>. QED
  BY <1>4, <1>5, <1>6 DEF QuestionInv

LEMMA SetSignalsKeeps == ASSUME QuestionInv, Question!SetSignals PROVE QuestionInv'
<1>1. QuestionTypes /\ Saved /\ Changed /\ LeftBehind
  BY DEF QuestionInv
<1>2. /\ \/ at = "sigint" /\ catching' = TRUE /\ at' = "sigquit" /\ UNCHANGED ignoring
         \/ at = "sigquit" /\ ignoring' = TRUE /\ at' = "sleep" /\ UNCHANGED catching
      /\ UNCHANGED <<version, tty, original, handling, maxtries, response, pending, presses, found, died>>
  BY DEF Question!SetSignals, Question!GoTo, Question!question, Question!keyboard
<1>3. QuestionTypes'
  BY <1>1, <1>2 DEF QuestionTypes, Places
<1>4. Saved' /\ LeftBehind'
  BY <1>1, <1>2 DEF Saved, LeftBehind
<1>5. Changed'
  BY <1>1, <1>2 DEF QuestionTypes, Changed
<1>. QED
  BY <1>3, <1>4, <1>5 DEF QuestionInv

LEMMA RestoreModeKeeps == ASSUME QuestionInv, Question!RestoreMode PROVE QuestionInv'
<1>1. QuestionTypes /\ Saved /\ Changed /\ LeftBehind
  BY DEF QuestionInv
<1>2. UNCHANGED <<version, original, catching, ignoring, handling, maxtries, response, pending, presses, found, died>>
  BY DEF Question!RestoreMode, Question!settings, Question!question, Question!keyboard
<1>3. original = found /\ tty \in Question!Modes /\ found \in Question!Modes
      /\ tty.ndelay \in BOOLEAN /\ found.ndelay \in BOOLEAN
  BY <1>1 DEF QuestionTypes, Saved, Question!Modes
<1>4. CASE /\ at = "restore"
           /\ tty' = [original EXCEPT !.ndelay = tty.ndelay]
           /\ at' = IF version >= 3 THEN "restore_flags" ELSE "exit"
  <2>1. /\ tty' \in Question!Modes
        /\ tty'.canon = found.canon /\ tty'.echo = found.echo /\ tty'.ndelay = tty.ndelay
    BY <1>3, <1>4, NdelaySet
  <2>2. version < 3 => tty' = found
    <3>1. version < 3 => tty'.ndelay = found.ndelay
      BY <1>1, <2>1 DEF Changed
    <3>. QED
      BY <1>3, <2>1, <3>1, ModesEqual
  <2>3. QuestionTypes'
    BY <1>1, <1>2, <1>4, <2>1 DEF QuestionTypes, Places
  <2>4. Saved' /\ LeftBehind'
    BY <1>1, <1>2, <1>4, <2>2 DEF QuestionTypes, Saved, LeftBehind
  <2>5. Changed'
    BY <1>1, <1>2, <1>4, <2>1 DEF QuestionTypes, Changed
  <2>. QED
    BY <2>3, <2>4, <2>5 DEF QuestionInv
<1>5. CASE /\ at = "restore_flags"
           /\ tty' = [tty EXCEPT !.ndelay = original.ndelay]
           /\ at' = "exit"
  <2>1. /\ tty' \in Question!Modes
        /\ tty'.canon = tty.canon /\ tty'.echo = tty.echo /\ tty'.ndelay = found.ndelay
    BY <1>3, <1>5, NdelaySet
  <2>2. tty' = found
    <3>1. tty.canon = found.canon /\ tty.echo = found.echo
      BY <1>1, <1>5 DEF Changed
    <3>. QED
      BY <1>3, <2>1, <3>1, ModesEqual
  <2>3. QuestionTypes'
    BY <1>1, <1>2, <1>5, <2>1 DEF QuestionTypes, Places
  <2>4. Saved' /\ LeftBehind' /\ Changed'
    BY <1>1, <1>2, <1>5, <2>2 DEF Saved, LeftBehind, Changed
  <2>. QED
    BY <2>3, <2>4 DEF QuestionInv
<1>. QED
  BY <1>4, <1>5 DEF Question!RestoreMode, Question!GoTo

\* A step of get_response: it takes a key or finds none, and answers, goes on or
\* sleeps again.
LEMMA ResponseKeeps ==
  ASSUME QuestionInv, at \in {"ask", "sleep", "get"},
         UNCHANGED <<version, tty, original, catching, ignoring, handling, presses, found, died>>,
         pending' = pending \/ (pending # <<>> /\ pending' = Tail(pending)),
         at' \in {at, "restore", "sleep", "get"} \/ (version = 0 /\ at' = "exit"),
         at' # at /\ at' # "exit" => version > 0,
         at' # at /\ at' \in {"sleep", "get"} => version >= 3,
         maxtries' \in 0 .. maxtries,
         response' = response \/ response' \in {0, 1} \/ (response' = 2 /\ version >= 3 /\ maxtries' = 0)
  PROVE  QuestionInv'
<1>1. QuestionTypes /\ Saved /\ Changed /\ LeftBehind
  BY DEF QuestionInv
<1>2. pending' \in Seq(Question!Keys) /\ Len(pending') <= presses
  <2>1. CASE pending' = pending
    BY <1>1, <2>1 DEF QuestionTypes
  <2>2. CASE pending # <<>> /\ pending' = Tail(pending)
    <3>1. pending \in Seq(Question!Keys) /\ Len(pending) <= presses /\ presses \in Int
      BY <1>1 DEF QuestionTypes
    <3>2. Tail(pending) \in Seq(Question!Keys) /\ Len(Tail(pending)) = Len(pending) - 1 /\ Len(pending) \in Nat
      BY <2>2, <3>1
    <3>3. PICK n \in Nat : n = Len(pending)
      BY <3>2
    <3>4. n <= presses /\ Len(pending') = n - 1
      BY <2>2, <3>1, <3>2, <3>3
    <3>5. n - 1 <= presses
      BY <3>1, <3>4
    <3>. QED
      BY <2>2, <3>2, <3>4, <3>5
  <2>. QED
    BY <2>1, <2>2
<1>3. QuestionTypes'
  <2>1. maxtries' \in 0 .. TRIES /\ (maxtries = 0 => maxtries' = 0) /\ at' \in Places
    <3>1. TRIES \in Nat /\ maxtries \in 0 .. TRIES
      BY <1>1, TerminalAssumption DEF QuestionTypes, TerminalAssumption, Question!QuestionAssumption
    <3>2. at' \in Places
      BY DEF Places
    <3>. QED
      BY <3>1, <3>2
  <2>. QED
    BY <1>1, <1>2, <2>1 DEF QuestionTypes
<1>4. Saved'
  BY <1>1 DEF Saved
<1>5. Changed'
  BY <1>1 DEF QuestionTypes, Changed
<1>6. LeftBehind'
  BY <1>1 DEF LeftBehind, Changed
<1>. QED
  BY <1>3, <1>4, <1>5, <1>6 DEF QuestionInv

LEMMA AskKeyKeeps == ASSUME QuestionInv, Question!AskKey PROVE QuestionInv'
<1>1. /\ at = "ask"
      /\ UNCHANGED <<version, tty, original, catching, ignoring, handling, maxtries, presses, found, died>>
      /\ pending' = pending \/ (pending # <<>> /\ pending' = Tail(pending))
  BY DEF Question!AskKey, Question!Readable, Question!settings
<1>2. \/ UNCHANGED <<at, response>>
      \/ response' \in {0, 1} /\ at' = IF version = 0 THEN "exit" ELSE "restore"
  BY DEF Question!AskKey, Question!Answered, Question!GoTo
<1>3. version \in 0 .. 4 /\ maxtries \in 0 .. TRIES
  BY DEF QuestionInv, QuestionTypes
<1>. QED
  BY <1>1, <1>2, <1>3, ResponseKeeps

LEMMA SleepKeeps == ASSUME QuestionInv, Question!Sleep PROVE QuestionInv'
<1>1. /\ at = "sleep" /\ at' = "get"
      /\ UNCHANGED <<version, tty, original, catching, ignoring, handling, maxtries, response, pending, presses, found, died>>
  BY DEF Question!Sleep, Question!GoTo, Question!settings, Question!question, Question!keyboard
<1>2. version \in 0 .. 4 /\ maxtries \in 0 .. TRIES /\ version >= 3
  BY <1>1 DEF QuestionInv, QuestionTypes, Changed
<1>. QED
  BY <1>1, <1>2, ResponseKeeps

LEMMA GetOkCharKeeps == ASSUME QuestionInv, Question!GetOkChar PROVE QuestionInv'
<1>1. /\ at = "get"
      /\ UNCHANGED <<version, tty, original, catching, ignoring, handling, presses, found, died>>
      /\ pending' = pending \/ (pending # <<>> /\ pending' = Tail(pending))
  BY DEF Question!GetOkChar, Question!Readable, Question!settings
<1>2. version \in 0 .. 4 /\ maxtries \in 0 .. TRIES /\ version >= 3
  BY <1>1 DEF QuestionInv, QuestionTypes, Changed
<1>3. \/ UNCHANGED <<at, response, maxtries>>
      \/ response' \in {0, 1} /\ at' = "restore" /\ maxtries' = maxtries
      \/ maxtries = 0 /\ response' = 2 /\ at' = "restore" /\ maxtries' = maxtries
      \/ maxtries # 0 /\ maxtries' = maxtries - 1 /\ at' = "sleep" /\ response' = response
  BY <1>2 DEF Question!GetOkChar, Question!Answered, Question!OneTryLess, Question!GoTo, Question!question
<1>. QED
  BY <1>1, <1>2, <1>3, ResponseKeeps

LEMMA TypeKeeps == ASSUME QuestionInv, NEW k \in Question!Keys, Question!Type(k) PROVE QuestionInv'
<1>1. QuestionTypes /\ Saved /\ Changed /\ LeftBehind
  BY DEF QuestionInv
<1>2. /\ presses < MaxTyped /\ presses' = presses + 1 /\ pending' = Append(pending, k)
      /\ UNCHANGED <<version, tty, at, original, catching, ignoring, handling, maxtries, response, found, died>>
  BY DEF Question!Type, Question!settings, Question!question
<1>3. pending' \in Seq(Question!Keys) /\ Len(pending') <= presses' /\ presses' \in 0 .. MaxTyped
  BY <1>1, <1>2, TerminalAssumption DEF QuestionTypes, TerminalAssumption, Question!QuestionAssumption
<1>4. QuestionTypes'
  BY <1>1, <1>2, <1>3 DEF QuestionTypes
<1>. QED
  BY <1>1, <1>2, <1>4 DEF QuestionInv, Saved, Changed, LeftBehind

LEMMA SignalsKeep == ASSUME QuestionInv, Question!Interrupt \/ Question!Quit PROVE QuestionInv'
<1>1. QuestionTypes /\ Saved /\ Changed /\ LeftBehind
  BY DEF QuestionInv
<1>2. /\ at # "exit"
      /\ UNCHANGED <<version, tty, original, catching, ignoring, maxtries, response, pending, presses, found>>
  BY DEF Question!Interrupt, Question!Quit, Question!Die, Question!Ended, Question!settings, Question!question,
         Question!keyboard
<1>3. \/ at' = "exit" /\ died' = TRUE /\ handling' = handling /\ ~(catching /\ ignoring)
      \/ at' = "restore" /\ handling' = TRUE /\ died' = died /\ catching
  BY DEF Question!Interrupt, Question!Quit, Question!Die, Question!GoTo, Question!settings
<1>4. QuestionTypes'
  BY <1>1, <1>2, <1>3 DEF QuestionTypes, Places
<1>5. Saved'
  BY <1>1, <1>2, <1>3 DEF Saved
<1>6. Changed'
  BY <1>1, <1>2, <1>3 DEF QuestionTypes, Changed
<1>7. LeftBehind'
  <2>1. version = 0 \/ version \in 1 .. 3 \/ version = 4
    BY <1>1 DEF QuestionTypes
  <2>. QED
    BY <1>1, <1>2, <1>3, <2>1 DEF LeftBehind, Changed
<1>. QED
  BY <1>4, <1>5, <1>6, <1>7 DEF QuestionInv

LEMMA QuestionNext == ASSUME QuestionInv, Question!Next PROVE QuestionInv'
<1>1. CASE Question!Steps
  BY <1>1, SaveModeKeeps, SetModeKeeps, SetNodelayModeKeeps, SetSignalsKeeps, RestoreModeKeeps,
     AskKeyKeeps, SleepKeeps, GetOkCharKeeps DEF Question!Steps
<1>. QED
  BY <1>1, TypeKeeps, SignalsKeep DEF Question!Next
LEMMA QuestionTyped == QuestionInv => Question!TypeOK
<1>. SUFFICES ASSUME QuestionInv PROVE Question!TypeOK
  OBVIOUS
<1>1. QuestionTypes /\ original = found
  BY DEF QuestionInv, Saved
<1>2. {tty, original, found} \subseteq Question!Modes
  BY <1>1 DEF QuestionTypes
<1>3. {catching, ignoring, handling, died} \subseteq BOOLEAN
  BY <1>1 DEF QuestionTypes
<1>4. /\ version \in 0 .. 4 /\ maxtries \in 0 .. TRIES /\ response \in {0, 1, 2, 9}
      /\ response = 2 => version >= 3 /\ maxtries = 0
      /\ Len(pending) <= presses /\ presses \in 0 .. MaxTyped /\ at \in Places
  BY <1>1 DEF QuestionTypes
<1>. QED
  BY <1>2, <1>3, <1>4 DEF Places, Question!TypeOK, Question!NoResponse

LEMMA QuestionGivesBack == QuestionInv => Question!TerminalGivenBack
BY DEF QuestionInv, LeftBehind, Question!TerminalGivenBack, Question!Ended
-----------------------------------------------------------------------------
(* The three systems together *)

TerminalInv == WordsInv /\ BallInv /\ QuestionInv

LEMMA BallRests == BallInv /\ UNCHANGED ballVars => BallInv'
BY DEF BallInv, Kept, Stopped, ballVars

LEMMA QuestionRests == QuestionInv /\ UNCHANGED questionVars => QuestionInv'
BY DEF QuestionInv, QuestionTypes, Saved, Changed, LeftBehind, questionVars

LEMMA TerminalInit == AllInit => TerminalInv
BY WordsInit, BallInit, QuestionInit, TerminalAssumption DEF AllInit, TerminalInv, TerminalAssumption

LEMMA TerminalStep ==
  TerminalInv /\ [AllNext]_<<system, vars, ballVars, questionVars>> => TerminalInv'
<1>. SUFFICES ASSUME TerminalInv, [AllNext]_<<system, vars, ballVars, questionVars>>
              PROVE  TerminalInv'
  OBVIOUS
<1>1. WordsInv /\ BallInv /\ QuestionInv /\ Ball!BoxAssumption
  BY TerminalAssumption DEF TerminalInv, TerminalAssumption
<1>2. CASE Runs("words") /\ Next /\ UNCHANGED <<ballVars, questionVars>>
  BY <1>1, <1>2, WordsStep, BallRests, QuestionRests DEF TerminalInv
<1>3. CASE Runs("ball") /\ Ball!Next /\ UNCHANGED <<vars, questionVars>>
  BY <1>1, <1>3, WordsStep, BallNext, QuestionRests DEF TerminalInv
<1>4. CASE Runs("question") /\ Question!Next /\ UNCHANGED <<vars, ballVars>>
  BY <1>1, <1>4, WordsStep, BallRests, QuestionNext DEF TerminalInv
<1>5. CASE UNCHANGED <<system, vars, ballVars, questionVars>>
  BY <1>1, <1>5, WordsStep, BallRests, QuestionRests DEF TerminalInv
<1>. QED
  BY <1>2, <1>3, <1>4, <1>5 DEF AllNext

LEMMA TerminalAlways == AllSpec => []TerminalInv
BY TerminalInit, TerminalStep, PTL DEF AllSpec

\* A word is out of the screen by at most one column for each time the user has
\* turned it, and one more at the left in tanimate: for every screen, word and
\* sequence of keys, although neither the test at the edge nor dir=-dir is atomic,
\* and although the test of the right edge takes a column far beyond the left one
\* for one beyond the right (bounce1d.c, bounce_async.c, bounce_aio.c, tbounce1d.c;
\* not tanimate.c).
THEOREM WordsStayNear == AllSpec => []StaysNear
<1>1. TerminalInv => StaysNear
  BY NearMeans DEF TerminalInv, WordsInv
<1>. QED
  BY TerminalAlways, <1>1, PTL

\* ball_move tests the edges for equality (bounce2d.c: bounce_or_lose), and main
\* changes y_ttm and x_ttm at any moment: still the ball never leaves the box,
\* and its countdowns never stop for good.
THEOREM BallStays == AllSpec => []BallInBox
<1>1. TerminalInv => BallInBox
  BY BallKept, TerminalAssumption DEF TerminalInv, TerminalAssumption, BallInBox
<1>. QED
  BY TerminalAlways, <1>1, PTL

\* After the end of tanimate and of bounce2d nothing brings the curses screen
\* back, whatever threads and handlers still run, and the question leaves the
\* modes and the flag it found, wherever ^C and ^\ interrupt it (play_again*.c).
THEOREM TerminalBack == AllSpec => []TerminalGivenBack
<1>1. TerminalInv => TerminalGivenBack
  BY WordsRestored, BallRestored, QuestionGivesBack DEF TerminalInv, TerminalGivenBack
<1>. QED
  BY TerminalAlways, <1>1, PTL

\* The delay of the words is positive, no word is turned more often than a
\* key was typed, and the question is answered with 2 only after its last try.
THEOREM TerminalTyped == AllSpec => []AllTypeOK
<1>1. TerminalInv => AllTypeOK
  BY WordsTyped, BallTyped, QuestionTyped, TerminalAssumption DEF TerminalInv, AllTypeOK, TerminalAssumption
<1>. QED
  BY TerminalAlways, <1>1, PTL
=============================================================================
