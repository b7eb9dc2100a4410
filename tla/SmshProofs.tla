----------------------------- MODULE SmshProofs -----------------------------
(***************************************************************************)
(* The shell.  It reads every command line as it was typed and stores      *)
(* nothing outside of what it has allocated, for every length of the line, *)
(* every number of words and every BUFSIZ.  It runs the commands of a      *)
(* block as the block says, though all it keeps of it are two variables,   *)
(* and gives each program the exported variables with their last values,   *)
(* for every table, every set of names and scripts of any length.          *)
(***************************************************************************)
EXTENDS MCSmsh, SequenceTheorems, TLAPS
-----------------------------------------------------------------------------
(* The line reader *)

\* Where the two arrays end.  While the line is read the buffer has room for one
\* character more.
Room ==
  /\ bufspace \in Nat /\ spots \in Nat
  /\ Reader!pos > 0 => Reader!pos < bufspace
  /\ phase \in {"split", "word", "done"} => Reader!pos < bufspace /\ Reader!argnum < spots
  /\ phase = "word" => Reader!argnum + 1 < spots

\* What splitline has passed: no character 0, and the words that have ended.
Passed ==
  phase \in {"split", "word", "done"} =>
    /\ cp <= Reader!pos + 1
    /\ \A j \in 1 .. (cp - 1) : Reader!At(j) # "nul"
    /\ \A k \in DOMAIN args : Reader!IsWord(args[k]) /\ args[k].start + args[k].len <= cp
    /\ \A k, m \in DOMAIN args : k < m => args[k].start + args[k].len <= args[m].start

\* Every character it has passed is in a word it has found, or in the one it is
\* in.
Covered ==
  /\ phase \in {"split", "done"} =>
       \A i \in 1 .. (cp - 1) : Reader!At(i) = "char" => \E k \in DOMAIN args : Reader!InWordAt(args[k], i)
  /\ phase = "word" =>
       \A i \in 1 .. (start - 1) : Reader!At(i) = "char" => \E k \in DOMAIN args : Reader!InWordAt(args[k], i)

\* The word it is in: it begins where the one before it has ended, or later.
Word ==
  /\ phase = "word" =>
       /\ start < cp
       /\ \A i \in start .. (cp - 1) : Reader!At(i) = "char"
       /\ start > 1 => Reader!At(start - 1) # "char"
       /\ \A k \in DOMAIN args : args[k].start + args[k].len <= start
  /\ phase = "split" => cp = 1 \/ Reader!At(cp - 1) # "char" \/ Reader!At(cp) # "char"
  /\ phase = "done" => Reader!At(cp) = "nul"

SplitInv == Reader!TypeOK /\ Room /\ Passed /\ Covered /\ Word
-----------------------------------------------------------------------------
\* next_cmd keeps the invariant, and so does what comes between two lines.
LEMMA ReadingKeeps ==
  ASSUME Reader!BufferAssumption, SplitInv,
         (\E c \in Reader!Chars : Reader!Getc(c)) \/ Reader!Newline \/ Reader!EndOfFile \/
           Reader!NextCmd \/ Reader!Fatal
  PROVE  SplitInv'
<1>. USE Reader!BufferAssumption
     DEF Reader!BufferAssumption, SplitInv, Reader!TypeOK, Room, Passed, Covered, Word, Reader!pos, Reader!argnum
<1>1. ASSUME NEW c \in Reader!Chars, Reader!Getc(c) PROVE SplitInv'
  BY <1>1 DEF Reader!Getc, Reader!Grown
<1>2. CASE Reader!Newline
  BY <1>2 DEF Reader!Newline, Reader!Split, Reader!Grown
<1>3. CASE Reader!EndOfFile
  <2>1. CASE Reader!pos > 0
    <3>1. Reader!Split /\ UNCHANGED bufspace
      BY <1>3, <2>1 DEF Reader!EndOfFile
    <3>. QED
      BY <1>3, <2>1, <3>1 DEF Reader!Split, Reader!EndOfFile
  <2>2. CASE Reader!pos = 0
    BY <1>3, <2>2 DEF Reader!EndOfFile
  <2>. QED
    BY <2>1, <2>2
<1>4. CASE Reader!NextCmd
  BY <1>4 DEF Reader!NextCmd
<1>5. CASE Reader!Fatal
  BY <1>5 DEF Reader!Fatal
<1>. QED
  BY <1>1, <1>2, <1>3, <1>4, <1>5

\* While splitline works the line does not change.
LEMMA LineStays ==
  ASSUME UNCHANGED buf
  PROVE  /\ Reader!pos' = Reader!pos
         /\ \A i : Reader!At(i)' = Reader!At(i)
         /\ \A w : Reader!IsWord(w)' <=> Reader!IsWord(w)
BY DEF Reader!pos, Reader!At, Reader!IsWord, Reader!InWordAt

\* Nor do the words that are in the list, unless one is appended.
LEMMA WordsStay ==
  ASSUME UNCHANGED <<buf, args>>
  PROVE  \A k : Reader!IsWord(args[k])' <=> Reader!IsWord(args[k])
BY DEF Reader!pos, Reader!At, Reader!IsWord, Reader!InWordAt

\* The end of a word is a place in the line.
LEMMA WordEnds ==
  ASSUME Reader!TypeOK
  PROVE  \A k \in DOMAIN args : args[k].start + args[k].len \in Nat
<1>. SUFFICES ASSUME NEW k \in DOMAIN args PROVE args[k].start + args[k].len \in Nat
  OBVIOUS
<1>1. args \in Seq([start : Nat, len : Nat]) /\ k \in 1 .. Len(args)
  BY DEF Reader!TypeOK
<1>2. args[k] \in [start : Nat, len : Nat]
  BY <1>1, ElementOfSeq
<1>. QED
  BY <1>2

\* splitline, action by action
LEMMA SkipBlankKeeps == ASSUME Reader!BufferAssumption, SplitInv, Reader!SkipBlank PROVE SplitInv'
<1>. USE Reader!BufferAssumption DEF Reader!BufferAssumption, SplitInv, Reader!TypeOK, Reader!SkipBlank
<1>1. /\ Reader!pos' = Reader!pos /\ Reader!argnum' = Reader!argnum
      /\ \A i : Reader!At(i)' = Reader!At(i)
      /\ \A w : Reader!IsWord(w)' <=> Reader!IsWord(w)
  BY LineStays DEF Reader!argnum
<1>2. cp \in 1 .. Reader!pos /\ Reader!pos \in Nat
  BY DEF Reader!At, Reader!pos
<1>3. Room'
  BY <1>1 DEF Room
<1>4. Passed'
  <2>1. phase' \in {"split", "word"} /\ cp' = cp + 1 /\ cp \in Nat
    OBVIOUS
  <2>2. cp' <= Reader!pos' + 1
    BY <1>1, <1>2, <2>1
  <2>3. \A j \in 1 .. (cp' - 1) : Reader!At(j)' # "nul"
    BY <1>1, <1>2, <2>1 DEF Passed
  <2>4. \A k \in DOMAIN args : Reader!IsWord(args[k])' /\ args[k].start + args[k].len <= cp'
    <3>1. \A k \in DOMAIN args : args[k].start + args[k].len \in Nat
      BY WordEnds
    <3>2. \A k \in DOMAIN args : Reader!IsWord(args[k]) /\ args[k].start + args[k].len <= cp
      BY DEF Passed
    <3>3. \A k \in DOMAIN args : Reader!IsWord(args[k])'
      BY <3>2, WordsStay
    <3>. QED
      BY <2>1, <3>1, <3>2, <3>3
  <2>5. \A k, m \in DOMAIN args : k < m => args[k].start + args[k].len <= args[m].start
    BY DEF Passed
  <2>. QED
    BY <2>1, <2>2, <2>3, <2>4, <2>5 DEF Passed
<1>5. Covered'
  BY <1>1, <1>2 DEF Covered, Reader!InWordAt
<1>6. Word'
  BY <1>1, <1>2 DEF Word
<1>. QED
  BY <1>3, <1>4, <1>5, <1>6

\* A word begins; the list has grown for it and for NULL.
LEMMA StartWordKeeps == ASSUME Reader!BufferAssumption, SplitInv, Reader!StartWord PROVE SplitInv'
<1>. USE Reader!BufferAssumption DEF Reader!BufferAssumption, SplitInv, Reader!TypeOK, Reader!StartWord
<1>1. /\ Reader!pos' = Reader!pos /\ Reader!argnum' = Reader!argnum
      /\ \A i : Reader!At(i)' = Reader!At(i)
      /\ \A w : Reader!IsWord(w)' <=> Reader!IsWord(w)
  BY LineStays DEF Reader!argnum
<1>2. cp \in 1 .. Reader!pos /\ Reader!pos \in Nat /\ Reader!argnum \in Nat
  BY DEF Reader!At, Reader!pos, Reader!argnum
<1>3. Room'
  BY <1>1, <1>2 DEF Room
<1>4. Passed'
  <2>1. phase' \in {"split", "word"} /\ cp' = cp + 1 /\ cp \in Nat
    OBVIOUS
  <2>2. cp' <= Reader!pos' + 1
    BY <1>1, <1>2, <2>1
  <2>3. \A j \in 1 .. (cp' - 1) : Reader!At(j)' # "nul"
    BY <1>1, <1>2, <2>1 DEF Passed
  <2>4. \A k \in DOMAIN args : Reader!IsWord(args[k])' /\ args[k].start + args[k].len <= cp'
    <3>1. \A k \in DOMAIN args : args[k].start + args[k].len \in Nat
      BY WordEnds
    <3>2. \A k \in DOMAIN args : Reader!IsWord(args[k]) /\ args[k].start + args[k].len <= cp
      BY DEF Passed
    <3>3. \A k \in DOMAIN args : Reader!IsWord(args[k])'
      BY <3>2, WordsStay
    <3>. QED
      BY <2>1, <3>1, <3>2, <3>3
  <2>5. \A k, m \in DOMAIN args : k < m => args[k].start + args[k].len <= args[m].start
    BY DEF Passed
  <2>. QED
    BY <2>1, <2>2, <2>3, <2>4, <2>5 DEF Passed
<1>5. Covered'
  BY <1>1, <1>2 DEF Covered, Reader!InWordAt
<1>6. Word'
  BY <1>1, <1>2 DEF Word, Passed
<1>. QED
  BY <1>2, <1>3, <1>4, <1>5, <1>6

\* One more character of the word.
LEMMA InWordKeeps == ASSUME Reader!BufferAssumption, SplitInv, Reader!InWord PROVE SplitInv'
<1>. USE Reader!BufferAssumption DEF Reader!BufferAssumption, SplitInv, Reader!TypeOK, Reader!InWord
<1>1. /\ Reader!pos' = Reader!pos /\ Reader!argnum' = Reader!argnum
      /\ \A i : Reader!At(i)' = Reader!At(i)
      /\ \A w : Reader!IsWord(w)' <=> Reader!IsWord(w)
  BY LineStays DEF Reader!argnum
<1>2. cp \in 1 .. Reader!pos /\ Reader!pos \in Nat
  BY DEF Reader!At, Reader!pos
<1>3. Room'
  BY <1>1 DEF Room
<1>4. Passed'
  <2>1. phase' \in {"split", "word"} /\ cp' = cp + 1 /\ cp \in Nat
    OBVIOUS
  <2>2. cp' <= Reader!pos' + 1
    BY <1>1, <1>2, <2>1
  <2>3. \A j \in 1 .. (cp' - 1) : Reader!At(j)' # "nul"
    BY <1>1, <1>2, <2>1 DEF Passed
  <2>4. \A k \in DOMAIN args : Reader!IsWord(args[k])' /\ args[k].start + args[k].len <= cp'
    <3>1. \A k \in DOMAIN args : args[k].start + args[k].len \in Nat
      BY WordEnds
    <3>2. \A k \in DOMAIN args : Reader!IsWord(args[k]) /\ args[k].start + args[k].len <= cp
      BY DEF Passed
    <3>3. \A k \in DOMAIN args : Reader!IsWord(args[k])'
      BY <3>2, WordsStay
    <3>. QED
      BY <2>1, <3>1, <3>2, <3>3
  <2>5. \A k, m \in DOMAIN args : k < m => args[k].start + args[k].len <= args[m].start
    BY DEF Passed
  <2>. QED
    BY <2>1, <2>2, <2>3, <2>4, <2>5 DEF Passed
<1>5. Covered'
  BY <1>1, <1>2 DEF Covered, Reader!InWordAt
<1>6. Word'
  BY <1>1, <1>2 DEF Word
<1>. QED
  BY <1>2, <1>3, <1>4, <1>5, <1>6

\* The word that has ended is appended: it is a word, and stands behind the others.
LEMMA EndWordKeeps == ASSUME Reader!BufferAssumption, SplitInv, Reader!EndWord PROVE SplitInv'
<1>. USE Reader!BufferAssumption DEF Reader!BufferAssumption, SplitInv, Reader!TypeOK, Reader!EndWord
<1>. DEFINE w == [start |-> start, len |-> cp - start]
<1>1. /\ Reader!pos' = Reader!pos /\ Reader!argnum' = Reader!argnum + 1
      /\ \A i : Reader!At(i)' = Reader!At(i)
      /\ \A v : Reader!IsWord(v)' <=> Reader!IsWord(v)
  BY LineStays DEF Reader!argnum
<1>2. /\ start < cp /\ cp <= Reader!pos + 1 /\ Reader!pos \in Nat
      /\ w \in [start : Nat, len : Nat]
      /\ w.start = start /\ w.start + w.len = cp
  BY DEF Reader!pos, Word, Passed
<1>3. /\ DOMAIN args = 1 .. Reader!argnum /\ Reader!argnum \in Nat
      /\ args' = Append(args, w)
      /\ DOMAIN args' = 1 .. (Reader!argnum + 1)
      /\ \A k \in 1 .. Reader!argnum : args'[k] = args[k]
      /\ args'[Reader!argnum + 1] = w
  <2>1. args \in Seq([start : Nat, len : Nat]) /\ args' = Append(args, w)
    OBVIOUS
  <2>. HIDE DEF w, SplitInv, Reader!EndWord
  <2>. QED
    BY <1>2, <2>1 DEF Reader!argnum
<1>4. Reader!IsWord(w)
  BY <1>2 DEF Reader!IsWord, Reader!InWordAt, Word, Reader!At, Reader!pos
<1>5. Room'
  BY <1>1, <1>3 DEF Room
<1>6. Passed'
  BY <1>1, <1>2, <1>3, <1>4 DEF Passed, Word
<1>7. Covered'
  BY <1>1, <1>2, <1>3 DEF Covered, Reader!InWordAt
<1>8. Word'
  BY <1>1, <1>2 DEF Word
<1>9. Reader!TypeOK'
  BY <1>2, <1>3
<1>. QED
  BY <1>5, <1>6, <1>7, <1>8, <1>9

\* The character 0 ends the line.
LEMMA EndLineKeeps == ASSUME Reader!BufferAssumption, SplitInv, Reader!EndLine PROVE SplitInv'
<1>. USE Reader!BufferAssumption DEF Reader!BufferAssumption, SplitInv, Reader!TypeOK, Reader!EndLine
<1>1. /\ Reader!pos' = Reader!pos /\ Reader!argnum' = Reader!argnum
      /\ \A i : Reader!At(i)' = Reader!At(i)
      /\ \A w : Reader!IsWord(w)' <=> Reader!IsWord(w)
  BY LineStays DEF Reader!argnum
<1>. QED
  BY <1>1 DEF Room, Passed, Covered, Word, Reader!InWordAt

LEMMA ReaderInit == Reader!Init => SplitInv
BY DEF Reader!Init, SplitInv, Reader!TypeOK, Room, Passed, Covered, Word, Reader!pos, Reader!argnum

LEMMA ReaderStep == ASSUME Reader!BufferAssumption, SplitInv, Reader!Next PROVE SplitInv'
BY ReadingKeeps, SkipBlankKeeps, StartWordKeeps, InWordKeeps, EndWordKeeps, EndLineKeeps
   DEF Reader!Next

LEMMA ReaderRests == SplitInv /\ UNCHANGED splitVars => SplitInv'
BY DEF splitVars, SplitInv, Reader!TypeOK, Room, Passed, Covered, Word, Reader!pos, Reader!argnum,
       Reader!At, Reader!IsWord, Reader!InWordAt

LEMMA ReaderReads == SplitInv => CommandLineRead
<1>. SUFFICES ASSUME SplitInv PROVE CommandLineRead
  OBVIOUS
<1>1. Reader!StoresInBounds
  BY DEF SplitInv, Room, Reader!StoresInBounds
<1>2. Reader!WordsOfLine
  <2>. SUFFICES ASSUME phase = "done" PROVE Reader!WordsOfLine
    BY DEF Reader!WordsOfLine
  <2>1. /\ Reader!At(cp) = "nul" /\ cp \in Nat \ {0}
        /\ \A i \in 1 .. (cp - 1) : Reader!At(i) = "char" => \E k \in DOMAIN args : Reader!InWordAt(args[k], i)
        /\ \A k \in DOMAIN args : Reader!IsWord(args[k])
        /\ \A k, m \in DOMAIN args : k < m => args[k].start + args[k].len <= args[m].start
    BY DEF SplitInv, Reader!TypeOK, Passed, Covered, Word
  <2>2. ASSUME NEW i \in 1 .. Reader!pos, \A j \in 1 .. i : Reader!At(j) # "nul" PROVE i \in 1 .. (cp - 1)
    <3>1. i \in Nat \ {0}
      OBVIOUS
    <3>2. ~(cp \in 1 .. i)
      BY <2>1, <2>2
    <3>. QED
      BY <2>1, <3>1, <3>2
  <2>. QED
    BY <2>1, <2>2 DEF Reader!WordsOfLine
<1>. QED
  BY <1>1, <1>2 DEF CommandLineRead, Reader!CommandLineRead
-----------------------------------------------------------------------------
(* The lines *)

Ops == {"set", "export_bad", "program", "assign", "export"}

\* What a line can be.
LEMMA LineIs ==
  ASSUME NEW l \in AllLines
  PROVE  /\ l.ifs \in 0 .. 2
         /\ l.cmd \in Commands <=> l.cmd.op \in Ops
         /\ l.cmd \in Commands \/ l.cmd.op \in {"then", "fi"} \/ l.cmd = Blank
         /\ l.cmd.op = "assign" => l.cmd.name \in Names /\ l.cmd.val \in Values
         /\ l.cmd.op = "export" => l.cmd.name \in Names
<1>1. l.ifs \in 0 .. 2 /\ l.cmd \in Commands \union ControlWords \union {Blank}
  BY DEF AllLines
<1>2. CASE l.cmd \in [op : {"set", "export_bad", "program"}]
  BY <1>1, <1>2 DEF Commands, Ops
<1>3. CASE l.cmd \in [op : {"assign"}, name : Names, val : Values]
  BY <1>1, <1>3 DEF Commands, Ops
<1>4. CASE l.cmd \in [op : {"export"}, name : Names]
  BY <1>1, <1>4 DEF Commands, Ops
<1>5. ASSUME l.cmd \in ControlWords \/ l.cmd = Blank PROVE l.cmd \notin Commands /\ l.cmd.op \notin Ops
  <2>1. l.cmd.op \in {"then", "fi", "blank"}
    BY <1>5 DEF ControlWords, Blank
  <2>2. \A cmd \in Commands : cmd.op \in Ops
    BY DEF Commands, Ops
  <2>. QED
    BY <2>1, <2>2 DEF Ops
<1>. QED
  BY <1>1, <1>2, <1>3, <1>4, <1>5 DEF Commands, ControlWords, Blank

\* Its kind in a script.
LEMMA KindIs ==
  ASSUME NEW l \in AllLines
  PROVE  /\ Kind(l) \in Kinds
         /\ l.ifs > 0 => Kind(l) \in {"if", "badif"} /\ (Kind(l) = "if" => l.ifs = 1 /\ l.cmd \in Commands)
         /\ l.ifs = 0 =>
              /\ Kind(l) = "command" <=> l.cmd \in Commands
              /\ Kind(l) \in {"then", "fi"} => l.cmd.op = Kind(l)
              /\ Kind(l) = "blank" <=> l.cmd = Blank
              /\ Kind(l) \in {"command", "then", "fi", "blank"}
              /\ l.cmd.op \in {"then", "fi"} => Kind(l) = l.cmd.op
<1>1. /\ l.ifs \in 0 .. 2
      /\ l.cmd \in Commands <=> l.cmd.op \in Ops
      /\ l.cmd \in Commands \/ l.cmd.op \in {"then", "fi"} \/ l.cmd = Blank
  BY LineIs
<1>2. CASE l.ifs > 0
  BY <1>1, <1>2 DEF Kind, Kinds
<1>3. CASE l.ifs = 0
  <2>1. CASE l.cmd \in Commands
    <3>1. Kind(l) = "command" /\ l.cmd.op \in Ops
      BY <1>1, <1>3, <2>1 DEF Kind
    <3>2. l.cmd # Blank
      BY <3>1 DEF Blank, Ops
    <3>. QED
      BY <1>3, <2>1, <3>1, <3>2 DEF Kinds, Ops
  <2>2. CASE l.cmd \notin Commands
    <3>1. Kind(l) = l.cmd.op
      BY <1>3, <2>2 DEF Kind
    <3>2. CASE l.cmd.op \in {"then", "fi"}
      BY <1>3, <2>2, <3>1, <3>2 DEF Kinds, Blank
    <3>3. CASE l.cmd = Blank
      BY <1>3, <2>2, <3>1, <3>3 DEF Kinds, Blank
    <3>. QED
      BY <1>1, <2>2, <3>2, <3>3
  <2>. QED
    BY <2>1, <2>2
<1>. QED
  BY <1>1, <1>2, <1>3
-----------------------------------------------------------------------------
(* The types *)

Entries == [name : Names, val : Values \union {Empty}, global : BOOLEAN]
Records == [kind : Kinds, rv : {0, 1}, ran : BOOLEAN]

\* The shell waits exactly while it has a child, for a program that it may run.
Waiting ==
  /\ child # "none" => pc = "wait"
  /\ child = "zombie" => child_info \in {0, 1}
  /\ pc = "wait" =>
       /\ line.cmd.op = "program" /\ OkToExecute
       /\ line.ifs > 0 => if_state = "NEUTRAL"

ShellTypes == TypeOK /\ Waiting

\* What comes back to main.
LEMMA LogKeepsTypes ==
  ASSUME TypeOK, NEW rv \in {0, 1}, NEW ran \in BOOLEAN, Log(rv, ran)
  PROVE  /\ broken' \in BOOLEAN
         /\ script' \in Seq(Records)
         /\ broken' => script' = <<>>
         /\ ~broken' => /\ ~broken /\ WellFormed(script')
                        /\ script' = Append(script, [kind |-> Kind(line), rv |-> rv, ran |-> ran])
<1>. DEFINE record == [kind |-> Kind(line), rv |-> rv, ran |-> ran]
            new == Append(script, record)
<1>1. record \in Records
  <2>1. Kind(line) \in Kinds
    BY KindIs DEF TypeOK
  <2>. QED
    BY <2>1 DEF Records
<1>2. new \in Seq(Records)
  <2>1. script \in Seq(Records)
    BY DEF TypeOK, Records
  <2>. HIDE DEF record
  <2>. QED
    BY <1>1, <2>1
<1>3. broken' = (broken \/ ~WellFormed(new)) /\ script' = IF broken' THEN <<>> ELSE new
  BY DEF Log
<1>4. broken \in BOOLEAN
  BY Zenon DEF TypeOK
<1>5. broken' \in BOOLEAN
  BY <1>3, <1>4, Zenon
<1>6. <<>> \in Seq(Records)
  OBVIOUS
<1>. HIDE DEF record, new
<1>7. CASE broken'
  BY <1>3, <1>5, <1>6, <1>7
<1>8. CASE ~broken'
  <2>1. ~broken /\ WellFormed(new) /\ script' = new
    BY <1>3, <1>8, Zenon
  <2>. QED
    BY <1>2, <1>5, <1>8, <2>1 DEF new, record
<1>. QED
  BY <1>7, <1>8

States == {"NEUTRAL", "WANT_THEN", "THEN_BLOCK"}

\* The shell is ready for the next line.
Returned ==
  /\ if_state' \in States /\ if_result' \in {"SUCCESS", "FAIL"}
  /\ line' = line /\ pc' = "prompt"
  /\ script' \in Seq(Records) /\ broken' \in BOOLEAN

LEMMA ReturnKeepsTypes ==
  ASSUME TypeOK, NEW rv \in {0, 1}, NEW state \in States, NEW ran \in BOOLEAN, Return(rv, state, ran)
  PROVE  Returned
<1>1. script' \in Seq(Records) /\ broken' \in BOOLEAN
  BY LogKeepsTypes DEF Return
<1>2. if_state' \in States /\ if_result' \in {"SUCCESS", "FAIL"}
  BY DEF Return, ReturnUnlessIf, TypeOK, States
<1>. QED
  BY <1>1, <1>2 DEF Return, Returned

\* The table and the block, as sequences.
LEMMA TableIs ==
  ASSUME TypeOK
  PROVE  /\ tab \in Seq(Entries) /\ Len(tab) \in Nat /\ Len(tab) <= MAXVARS
         /\ DOMAIN tab = 1 .. Len(tab)
         /\ \A i \in DOMAIN tab : tab[i] \in Entries
<1>1. tab \in Seq(Entries) /\ Len(tab) <= MAXVARS
  BY DEF TypeOK, Entries
<1>2. Len(tab) \in Nat /\ DOMAIN tab = 1 .. Len(tab)
  BY <1>1
<1>3. \A i \in 1 .. Len(tab) : tab[i] \in Entries
  BY <1>1, <1>2, ElementOfSeq
<1>. QED
  BY <1>1, <1>2, <1>3

LEMMA ScriptIs == TypeOK => script \in Seq(Records)
BY DEF TypeOK, Records

\* An entry of the table is changed, or one is appended.
LEMMA EntriesKept ==
  ASSUME TypeOK, NEW name \in Names, NEW change,
         \A i \in DOMAIN tab : change[i] \in Entries,
         tab' = [i \in DOMAIN tab |-> IF i \in Found(name) THEN change[i] ELSE tab[i]]
  PROVE  tab' \in Seq(Entries) /\ Len(tab') = Len(tab)
<1>. DEFINE n == Len(tab)
<1>1. n \in Nat /\ tab \in [1 .. n -> Entries]
  BY TableIs, LenProperties
<1>2. tab' \in [1 .. n -> Entries]
  BY <1>1
<1>. QED
  BY <1>1, <1>2, SeqDef

LEMMA EntryAdded ==
  ASSUME TypeOK, NEW entry \in Entries, ~TabFull, tab' = Append(tab, entry)
  PROVE  tab' \in Seq(Entries) /\ Len(tab') <= MAXVARS
<1>1. tab \in Seq(Entries) /\ Len(tab) <= MAXVARS /\ Len(tab) # MAXVARS /\ MAXVARS \in Nat
  BY TableIs, SmshAssumption DEF TabFull
<1>. QED
  BY <1>1

\* What VLstore does, in its three cases.
LEMMA Stored ==
  ASSUME TypeOK, NEW name \in Names, NEW val \in Values \union {Empty}, VLstore(name, val)
  PROVE  /\ tab' \in Seq(Entries) /\ Len(tab') <= MAXVARS
         /\ Found(name) # {} =>
              /\ Len(tab') = Len(tab)
              /\ \A i \in 1 .. Len(tab) :
                   tab'[i] = IF i \in Found(name) THEN [tab[i] EXCEPT !.val = val] ELSE tab[i]
         /\ Found(name) = {} /\ ~TabFull =>
              tab' = Append(tab, [name |-> name, val |-> val, global |-> FALSE])
         /\ Found(name) = {} /\ TabFull => tab' = tab
<1>1. /\ tab \in Seq(Entries) /\ Len(tab) \in Nat /\ Len(tab) <= MAXVARS
      /\ DOMAIN tab = 1 .. Len(tab)
      /\ \A i \in DOMAIN tab : tab[i] \in Entries
  BY TableIs
<1>2. CASE Found(name) # {}
  <2>. DEFINE change == [i \in DOMAIN tab |-> [tab[i] EXCEPT !.val = val]]
  <2>1. \A i \in DOMAIN tab : change[i] \in Entries /\ change[i] = [tab[i] EXCEPT !.val = val]
    BY <1>1 DEF Entries
  <2>2. tab' = [i \in DOMAIN tab |-> IF i \in Found(name) THEN [tab[i] EXCEPT !.val = val] ELSE tab[i]]
    BY <1>2 DEF VLstore
  <2>3. tab' = [i \in DOMAIN tab |-> IF i \in Found(name) THEN change[i] ELSE tab[i]]
    BY <2>1, <2>2
  <2>. HIDE DEF change
  <2>4. tab' \in Seq(Entries) /\ Len(tab') = Len(tab)
    BY <2>1, <2>3, EntriesKept
  <2>. QED
    BY <1>1, <1>2, <2>2, <2>4
<1>3. CASE Found(name) = {} /\ ~TabFull
  <2>1. tab' = Append(tab, [name |-> name, val |-> val, global |-> FALSE])
    BY <1>3 DEF VLstore
  <2>2. [name |-> name, val |-> val, global |-> FALSE] \in Entries
    BY DEF Entries
  <2>. QED
    BY <1>3, <2>1, <2>2, EntryAdded
<1>4. CASE Found(name) = {} /\ TabFull
  BY <1>1, <1>4 DEF VLstore
<1>. QED
  BY <1>2, <1>3, <1>4

\* The mark of an exported variable.
LEMMA MarkSet ==
  ASSUME TypeOK, NEW name \in Names,
         tab' = [i \in DOMAIN tab |-> IF i \in Found(name) THEN [tab[i] EXCEPT !.global = TRUE] ELSE tab[i]]
  PROVE  /\ tab' \in Seq(Entries) /\ Len(tab') = Len(tab)
         /\ \A i \in 1 .. Len(tab) :
              tab'[i] = IF i \in Found(name) THEN [tab[i] EXCEPT !.global = TRUE] ELSE tab[i]
<1>1. /\ DOMAIN tab = 1 .. Len(tab)
      /\ \A i \in DOMAIN tab : tab[i] \in Entries
  BY TableIs
<1>. DEFINE change == [i \in DOMAIN tab |-> [tab[i] EXCEPT !.global = TRUE]]
<1>2. \A i \in DOMAIN tab : change[i] \in Entries /\ change[i] = [tab[i] EXCEPT !.global = TRUE]
  BY <1>1 DEF Entries
<1>3. tab' = [i \in DOMAIN tab |-> IF i \in Found(name) THEN change[i] ELSE tab[i]]
  BY <1>2
<1>. HIDE DEF change
<1>4. tab' \in Seq(Entries) /\ Len(tab') = Len(tab)
  BY <1>2, <1>3, EntriesKept
<1>. QED
  BY <1>1, <1>4

LEMMA TypesInit == Init => ShellTypes
<1>. SUFFICES ASSUME Init PROVE ShellTypes
  OBVIOUS
<1>1. tab \in Seq(Entries) /\ Len(tab) <= MAXVARS /\ \A i \in DOMAIN tab : tab[i].name \in Names
  <2>1. PICK n \in 0 .. MAXVARS : tab \in [1 .. n -> [name : Names, val : {Empty}, global : {TRUE}]]
    BY DEF Init, Environments, SeqOf
  <2>2. n \in Nat /\ n <= MAXVARS
    BY <2>1, SmshAssumption
  <2>3. tab \in [1 .. n -> Entries]
    BY <2>1 DEF Entries
  <2>4. tab \in Seq(Entries) /\ Len(tab) = n
    BY <2>2, <2>3, SeqDef
  <2>. QED
    BY <2>1, <2>2, <2>4
<1>2. line \in AllLines
  BY DEF Init, AllLines
<1>3. exported \in SUBSET Names
  BY <1>1 DEF Init
<1>4. broken \in BOOLEAN
  BY DEF Init
<1>5. TypeOK
  BY <1>1, <1>2, <1>3, <1>4 DEF Init, TypeOK, Entries
<1>. QED
  BY <1>5 DEF Init, ShellTypes, Waiting

LEMMA TypesNext == ASSUME ShellTypes, Next PROVE ShellTypes'
<1>0. TypeOK /\ Waiting
  BY DEF ShellTypes
<1>. DEFINE Old == UNCHANGED <<child_info, child_env>> /\ child = "none" /\ UNCHANGED child
            Quiet == UNCHANGED <<tab, assigned, exported>>
            TableTypes ==
              /\ tab' \in Seq(Entries) /\ Len(tab') <= MAXVARS
              /\ assigned' \in [Names -> Values \union {Empty}] /\ exported' \in SUBSET Names
            Back == Returned /\ Old /\ TableTypes
<1>1. Quiet => TableTypes
  BY <1>0 DEF TypeOK, Entries
<1>2. ASSUME Back PROVE ShellTypes'
  BY <1>0, <1>2 DEF Returned, ShellTypes, TypeOK, Waiting, Entries, Records, States
<1>3. ASSUME pc = "process", UNCHANGED childVars PROVE Old
  BY <1>0, <1>3 DEF Waiting, childVars
<1>4. if_state \in States /\ "NEUTRAL" \in States /\ "THEN_BLOCK" \in States
  BY <1>0 DEF TypeOK, States
<1>. HIDE DEF Old, Quiet, TableTypes
<1>5. CASE NextCmd
  <2>1. /\ pc = "prompt" /\ pc' = "process" /\ line' \in AllLines
        /\ UNCHANGED <<ifVars, tab, childVars, broken, assigned, exported>>
    BY <1>5, SmshAssumption DEF NextCmd
  <2>2. script' = <<>> \/ script' = script
    BY <1>5 DEF NextCmd
  <2>3. script' \in Seq(Records)
    <3>1. <<>> \in Seq(Records)
      OBVIOUS
    <3>. QED
      BY <1>0, <2>2, <3>1, ScriptIs, Zenon
  <2>. QED
    BY <1>0, <2>1, <2>3 DEF ShellTypes, TypeOK, Waiting, ifVars, childVars, Records
<1>6. CASE EndOfFile
  BY <1>0, <1>6 DEF EndOfFile, ShellTypes, TypeOK, Waiting, ifVars, childVars, scriptVars
<1>7. CASE IfUnexpected
  <2>1. /\ pc = "process" /\ if_state' = "NEUTRAL" /\ pc' = "prompt" /\ Log(1, FALSE)
        /\ UNCHANGED <<if_result, line, tab, childVars, assigned, exported>>
    BY <1>7 DEF IfUnexpected
  <2>2. script' \in Seq(Records) /\ broken' \in BOOLEAN
    BY <1>0, <2>1, LogKeepsTypes
  <2>3. Returned
    BY <1>0, <2>1, <2>2 DEF Returned, TypeOK, States
  <2>4. Old /\ TableTypes
    BY <1>1, <1>3, <2>1 DEF Quiet
  <2>. QED
    BY <1>2, <2>3, <2>4
<1>8. CASE DoBlank
  <2>1. pc = "process" /\ Return(0, if_state, FALSE) /\ UNCHANGED <<tab, childVars, assigned, exported>>
    BY <1>8 DEF DoBlank, Processing
  <2>. QED
    BY <1>0, <1>1, <1>2, <1>3, <1>4, <2>1, ReturnKeepsTypes DEF Quiet
<1>9. CASE DoControlCommand
  <2>1. pc = "process" /\ UNCHANGED <<tab, childVars, assigned, exported>>
    BY <1>9 DEF DoControlCommand, Processing
  <2>2. PICK rv \in {0, 1}, state \in {"THEN_BLOCK", "NEUTRAL"} : Return(rv, state, FALSE)
    BY <1>9 DEF DoControlCommand
  <2>3. Returned
    BY <1>0, <1>4, <2>2, ReturnKeepsTypes
  <2>. QED
    BY <1>1, <1>2, <1>3, <2>1, <2>3 DEF Quiet
<1>10. CASE NotExecuted
  <2>1. pc = "process" /\ UNCHANGED <<tab, childVars, assigned, exported>>
    BY <1>10 DEF NotExecuted, Processing
  <2>2. PICK state \in States : Return(0, state, FALSE)
    BY <1>4, <1>10 DEF NotExecuted
  <2>3. Returned
    BY <1>0, <2>2, ReturnKeepsTypes
  <2>. QED
    BY <1>1, <1>2, <1>3, <2>1, <2>3 DEF Quiet
<1>11. CASE Set
  <2>1. pc = "process" /\ UNCHANGED <<tab, childVars, assigned, exported>>
    BY <1>11 DEF Set, Executing, Processing
  <2>2. PICK rv \in {0, 1} : Return(rv, if_state, TRUE)
    BY <1>11 DEF Set
  <2>3. Returned
    BY <1>0, <1>4, <2>2, ReturnKeepsTypes
  <2>. QED
    BY <1>1, <1>2, <1>3, <2>1, <2>3 DEF Quiet
<1>12. CASE Assign
  <2>1. pc = "process" /\ line.cmd.op = "assign" /\ UNCHANGED <<childVars, exported>>
    BY <1>12 DEF Assign, Executing, Processing
  <2>2. line.cmd.name \in Names /\ line.cmd.val \in Values
    BY <1>0, <2>1, LineIs DEF TypeOK
  <2>3. tab' \in Seq(Entries) /\ Len(tab') <= MAXVARS
    BY <1>0, <1>12, <2>2, Stored DEF Assign
  <2>4. PICK rv \in {0, 1} : Return(rv, if_state, TRUE)
    BY <1>12 DEF Assign
  <2>5. Returned
    BY <1>0, <1>4, <2>4, ReturnKeepsTypes
  <2>6. assigned' \in [Names -> Values \union {Empty}] /\ exported' \in SUBSET Names
    BY <1>0, <1>12, <2>1, <2>2 DEF Assign, TypeOK
  <2>. QED
    BY <1>2, <1>3, <2>1, <2>3, <2>5, <2>6 DEF TableTypes
<1>13. CASE Export
  <2>1. pc = "process" /\ line.cmd.op = "export" /\ UNCHANGED childVars
    BY <1>13 DEF Export, Executing, Processing
  <2>2. line.cmd.name \in Names
    BY <1>0, <2>1, LineIs DEF TypeOK
  <2>3. CASE Found(line.cmd.name) # {}
    <3>1. /\ tab' = [i \in DOMAIN tab |->
                       IF i \in Found(line.cmd.name) THEN [tab[i] EXCEPT !.global = TRUE] ELSE tab[i]]
          /\ Return(0, if_state, TRUE)
          /\ exported' = exported \union {line.cmd.name} /\ UNCHANGED assigned
      BY <1>13, <2>3 DEF Export
    <3>2. Returned
      BY <1>0, <1>4, <3>1, ReturnKeepsTypes
    <3>3. tab' \in Seq(Entries) /\ Len(tab') = Len(tab)
      BY <1>0, <2>2, <3>1, MarkSet
    <3>4. TableTypes
      BY <1>0, <2>2, <3>1, <3>3 DEF TableTypes, TypeOK
    <3>. QED
      BY <1>2, <1>3, <2>1, <3>2, <3>4
  <2>4. CASE Found(line.cmd.name) = {} /\ ~TabFull
    <3>1. /\ VLstore(line.cmd.name, Empty) /\ Return(1, if_state, TRUE)
          /\ assigned' = [assigned EXCEPT ![line.cmd.name] = Empty] /\ UNCHANGED exported
      BY <1>13, <2>4 DEF Export
    <3>2. Returned
      BY <1>0, <1>4, <3>1, ReturnKeepsTypes
    <3>3. tab' \in Seq(Entries) /\ Len(tab') <= MAXVARS
      BY <1>0, <2>2, <3>1, Stored
    <3>4. TableTypes
      BY <1>0, <2>2, <3>1, <3>3 DEF TableTypes, TypeOK
    <3>. QED
      BY <1>2, <1>3, <2>1, <3>2, <3>4
  <2>5. CASE Found(line.cmd.name) = {} /\ TabFull
    <3>1. pc' = "crashed" /\ UNCHANGED <<ifVars, tab, line, scriptVars, assigned, exported>>
      BY <1>13, <2>5 DEF Export
    <3>. QED
      BY <1>0, <2>1, <3>1 DEF ShellTypes, TypeOK, Waiting, ifVars, childVars, scriptVars
  <2>. QED
    BY <2>3, <2>4, <2>5
<1>14. CASE Fork
  <2>1. /\ pc = "process" /\ line.cmd.op = "program" /\ OkToExecute
        /\ line.ifs > 0 => if_state = "NEUTRAL"
        /\ UNCHANGED <<tab, child_info, child_env, assigned, exported>>
    BY <1>14 DEF Fork, Executing, Processing
  <2>2. CASE child' = "forked" /\ pc' = "wait" /\ UNCHANGED <<ifVars, line, scriptVars>>
    BY <1>0, <2>1, <2>2 DEF ShellTypes, TypeOK, Waiting, OkToExecute, ifVars, scriptVars
  <2>3. CASE Return(1, if_state, FALSE) /\ UNCHANGED child
    <3>1. Returned
      BY <1>0, <1>4, <2>3, ReturnKeepsTypes
    <3>. QED
      BY <1>1, <1>2, <1>3, <2>1, <2>3, <3>1 DEF Quiet, childVars
  <2>. QED
    BY <1>14, <2>2, <2>3 DEF Fork
<1>15. CASE Exec
  <2>1. child_env' \subseteq Names \X (Values \union {Empty})
    <3>1. \A i \in DOMAIN tab : tab[i].name \in Names /\ tab[i].val \in Values \union {Empty}
      <4>1. \A i \in DOMAIN tab : tab[i] \in Entries
        BY <1>0, TableIs
      <4>. QED
        BY <4>1 DEF Entries
    <3>. QED
      BY <1>15, <3>1 DEF Exec, Environ
  <2>2. /\ child = "forked" /\ child' \in {"running", "zombie"}
        /\ child_info' \in {child_info, 1} /\ (child' = "zombie" => child_info' = 1)
        /\ UNCHANGED <<ifVars, tab, pc, line, scriptVars, assigned, exported>>
    BY <1>15 DEF Exec
  <2>. QED
    BY <1>0, <2>1, <2>2 DEF ShellTypes, TypeOK, Waiting, OkToExecute, ifVars, scriptVars
<1>16. CASE ProgramEnds
  BY <1>0, <1>16 DEF ProgramEnds, ShellTypes, TypeOK, Waiting, OkToExecute, ifVars, scriptVars
<1>17. CASE Wait
  <2>1. /\ child_info \in {0, 1} /\ Return(child_info, if_state, TRUE)
        /\ child' = "none" /\ child_info' = -1 /\ child_env' = {}
        /\ UNCHANGED <<tab, assigned, exported>>
    BY <1>0, <1>17 DEF Wait, Waiting
  <2>2. Returned
    BY <1>0, <1>4, <2>1, ReturnKeepsTypes
  <2>3. TableTypes
    BY <1>1, <2>1 DEF Quiet
  <2>. QED
    BY <1>0, <2>1, <2>2, <2>3
       DEF Returned, TableTypes, ShellTypes, TypeOK, Waiting, Entries, Records, States
<1>. QED
  BY <1>5, <1>6, <1>7, <1>8, <1>9, <1>10, <1>11, <1>12, <1>13, <1>14, <1>15, <1>16, <1>17 DEF Next
-----------------------------------------------------------------------------
(* The environment of a program *)

\* Each variable has one entry, with the value it was last given, marked if it is
\* exported.
OneEntry == \A i, j \in DOMAIN tab : tab[i].name = tab[j].name => i = j
Current == \A i \in DOMAIN tab : tab[i].val = assigned[tab[i].name]
Marked == exported = {tab[i].name : i \in {j \in DOMAIN tab : tab[j].global}}

TableInv == OneEntry /\ Current /\ Marked /\ EnvironmentPassed

\* The entry of a name, if it has one.
LEMMA FoundIs ==
  ASSUME TypeOK, OneEntry, NEW name
  PROVE  Found(name) = {i \in DOMAIN tab : tab[i].name = name}
<1>1. DOMAIN tab = 1 .. Len(tab) /\ Len(tab) \in Nat
  BY DEF TypeOK
<1>2. ASSUME NEW i \in DOMAIN tab, tab[i].name = name, NEW j \in 1 .. (i - 1) PROVE tab[j].name # name
  <2>1. j \in DOMAIN tab /\ j # i
    BY <1>1, <1>2
  <2>. QED
    BY <1>2, <2>1 DEF OneEntry
<1>. QED
  BY <1>2 DEF Found

\* Without a step of the table or the child nothing is lost.
LEMMA TableSame ==
  ASSUME TableInv, UNCHANGED <<tab, assigned, exported>>,
         child' # "running" \/ UNCHANGED <<child, child_env>>
  PROVE  TableInv'
BY DEF TableInv, OneEntry, Current, Marked, EnvironmentPassed

LEMMA TableInit == Init => TableInv
<1>. SUFFICES ASSUME Init PROVE TableInv
  OBVIOUS
<1>1. PICK n \in 0 .. MAXVARS : tab \in [1 .. n -> [name : Names, val : {Empty}, global : {TRUE}]]
  BY DEF Init, Environments, SeqOf
<1>2. DOMAIN tab = 1 .. n /\ \A i \in 1 .. n : tab[i].name \in Names /\ tab[i].val = Empty /\ tab[i].global
  BY <1>1
<1>3. OneEntry
  BY DEF Init, Environments, OneEntry
<1>4. Current
  BY <1>2 DEF Init, Current
<1>5. Marked
  <2>1. {j \in DOMAIN tab : tab[j].global} = DOMAIN tab
    BY <1>2
  <2>. QED
    BY <2>1 DEF Init, Marked
<1>. QED
  BY <1>3, <1>4, <1>5 DEF Init, TableInv, EnvironmentPassed

LEMMA TableNext == ASSUME ShellTypes, TableInv, Next PROVE TableInv'
<1>0. TypeOK /\ Waiting /\ OneEntry /\ Current /\ Marked
  BY DEF ShellTypes, TableInv
<1>1. DOMAIN tab = 1 .. Len(tab) /\ Len(tab) \in Nat /\ \A i \in DOMAIN tab : tab[i] \in Entries
  BY <1>0, TableIs
<1>2. pc = "process" => child = "none"
  BY <1>0 DEF Waiting
<1>3. CASE NextCmd \/ EndOfFile \/ IfUnexpected \/ DoBlank \/ DoControlCommand \/ NotExecuted \/ Set
  <2>1. UNCHANGED <<tab, assigned, exported, child, child_env>>
    BY <1>3 DEF NextCmd, EndOfFile, IfUnexpected, DoBlank, DoControlCommand, NotExecuted, Set, childVars
  <2>. QED
    BY <2>1, TableSame
<1>4. CASE Fork \/ ProgramEnds \/ Wait
  <2>1. UNCHANGED <<tab, assigned, exported>>
    BY <1>4 DEF Fork, ProgramEnds, Wait
  <2>2. child' # "running"
    <3>1. CASE Fork
      <4>1. child = "none" /\ child' \in {"forked", child}
        BY <1>2, <3>1 DEF Fork, Executing, Processing
      <4>. QED
        BY <4>1
    <3>2. CASE ProgramEnds \/ Wait
      BY <3>2 DEF ProgramEnds, Wait
    <3>. QED
      BY <1>4, <3>1, <3>2
  <2>. QED
    BY <2>1, <2>2, TableSame
<1>5. CASE Exec
  <2>1. child_env' = Environ /\ UNCHANGED <<tab, assigned, exported>>
    BY <1>5 DEF Exec
  <2>2. Environ = {<<name, assigned[name]>> : name \in exported}
    BY <1>0 DEF Environ, Marked, Current
  <2>. QED
    BY <1>0, <2>1, <2>2 DEF TableInv, OneEntry, Current, Marked, EnvironmentPassed
<1>6. ASSUME NEW name \in Names, NEW val \in Values \union {Empty}, VLstore(name, val), UNCHANGED exported,
             child' # "running",
             assigned' = IF Found(name) = {} /\ TabFull THEN assigned ELSE [assigned EXCEPT ![name] = val]
      PROVE  TableInv'
  <2>1. Found(name) = {i \in DOMAIN tab : tab[i].name = name}
    BY <1>0, FoundIs
  <2>2. assigned \in [Names -> Values \union {Empty}] /\ \A i \in DOMAIN tab : tab[i].name \in Names
    BY <1>0, <1>1 DEF TypeOK, Entries
  <2>3. EnvironmentPassed'
    BY <1>6 DEF EnvironmentPassed
  <2>4. CASE Found(name) # {}
    <3>1. /\ DOMAIN tab' = DOMAIN tab
          /\ \A i \in DOMAIN tab :
               /\ tab'[i].name = tab[i].name
               /\ tab'[i].global = tab[i].global
               /\ tab'[i].val = IF tab[i].name = name THEN val ELSE tab[i].val
      <4>1. /\ DOMAIN tab' = DOMAIN tab
            /\ \A i \in DOMAIN tab :
                 tab'[i] = IF tab[i].name = name THEN [tab[i] EXCEPT !.val = val] ELSE tab[i]
        <5>1. /\ Len(tab') = Len(tab) /\ tab' \in Seq(Entries)
              /\ \A i \in 1 .. Len(tab) :
                   tab'[i] = IF i \in Found(name) THEN [tab[i] EXCEPT !.val = val] ELSE tab[i]
          BY <1>0, <1>6, <2>4, Stored
        <5>. QED
          BY <1>1, <2>1, <5>1
      <4>. QED
        BY <1>1, <4>1 DEF Entries
    <3>2. OneEntry'
      BY <1>0, <3>1 DEF OneEntry
    <3>3. Current'
      BY <1>0, <1>6, <2>2, <2>4, <3>1 DEF Current
    <3>4. Marked'
      <4>1. {j \in DOMAIN tab' : tab'[j].global} = {j \in DOMAIN tab : tab[j].global}
        BY <3>1
      <4>. QED
        BY <1>0, <1>6, <3>1, <4>1 DEF Marked
    <3>. QED
      BY <2>3, <3>2, <3>3, <3>4 DEF TableInv
  <2>5. CASE Found(name) = {} /\ ~TabFull
    <3>. DEFINE entry == [name |-> name, val |-> val, global |-> FALSE]
    <3>1. /\ DOMAIN tab' = DOMAIN tab \union {Len(tab) + 1} /\ Len(tab) + 1 \notin DOMAIN tab
          /\ \A i \in DOMAIN tab : tab'[i] = tab[i]
          /\ tab'[Len(tab) + 1] = entry
      <4>1. tab' = Append(tab, entry) /\ tab' \in Seq(Entries)
        BY <1>0, <1>6, <2>5, Stored
      <4>2. tab \in Seq(Entries)
        BY <1>0, TableIs
      <4>3. entry \in Entries
        BY <1>6 DEF Entries
      <4>. HIDE DEF entry
      <4>. QED
        BY <1>1, <4>1, <4>2, <4>3
    <3>2. \A i \in DOMAIN tab : tab[i].name # name
      BY <2>1, <2>5
    <3>3. OneEntry'
      BY <1>0, <3>1, <3>2 DEF OneEntry
    <3>4. Current'
      BY <1>0, <1>6, <2>2, <2>5, <3>1, <3>2 DEF Current
    <3>5. Marked'
      <4>1. {j \in DOMAIN tab' : tab'[j].global} = {j \in DOMAIN tab : tab[j].global}
        BY <3>1
      <4>. QED
        BY <1>0, <1>6, <3>1, <4>1 DEF Marked
    <3>. QED
      BY <2>3, <3>3, <3>4, <3>5 DEF TableInv
  <2>6. CASE Found(name) = {} /\ TabFull
    <3>1. UNCHANGED <<tab, assigned, exported>>
      BY <1>0, <1>6, <2>6, Stored
    <3>. QED
      BY <1>6, <3>1, TableSame
  <2>. QED
    BY <2>4, <2>5, <2>6
<1>7. CASE Assign
  <2>1. /\ pc = "process" /\ line.cmd.op = "assign" /\ UNCHANGED <<exported, child>>
        /\ VLstore(line.cmd.name, line.cmd.val)
        /\ assigned' = IF Found(line.cmd.name) = {} /\ TabFull THEN assigned
                       ELSE [assigned EXCEPT ![line.cmd.name] = line.cmd.val]
    BY <1>7 DEF Assign, Executing, Processing, childVars
  <2>2. line.cmd.name \in Names /\ line.cmd.val \in Values
    BY <1>0, <2>1, LineIs DEF TypeOK
  <2>. QED
    BY <1>2, <1>6, <2>1, <2>2
<1>8. CASE Export
  <2>1. pc = "process" /\ line.cmd.op = "export" /\ UNCHANGED childVars
    BY <1>8 DEF Export, Executing, Processing
  <2>2. line.cmd.name \in Names /\ child' = "none"
    BY <1>0, <1>2, <2>1, LineIs DEF TypeOK, childVars
  <2>. DEFINE name == line.cmd.name
  <2>3. CASE Found(name) # {}
    <3>1. Found(name) = {i \in DOMAIN tab : tab[i].name = name}
      BY <1>0, FoundIs
    <3>2. /\ DOMAIN tab' = DOMAIN tab
          /\ \A i \in DOMAIN tab : tab'[i] = IF tab[i].name = name THEN [tab[i] EXCEPT !.global = TRUE] ELSE tab[i]
          /\ exported' = exported \union {name} /\ UNCHANGED assigned
      BY <1>8, <2>3, <3>1 DEF Export
    <3>3. \A i \in DOMAIN tab :
            /\ tab'[i].name = tab[i].name /\ tab'[i].val = tab[i].val
            /\ tab'[i].global <=> tab[i].global \/ tab[i].name = name
      BY <1>1, <3>2 DEF Entries
    <3>4. OneEntry'
      BY <1>0, <3>2, <3>3 DEF OneEntry
    <3>5. Current'
      BY <1>0, <3>2, <3>3 DEF Current
    <3>6. Marked'
      <4>1. PICK k \in DOMAIN tab : tab[k].name = name
        BY <2>3, <3>1
      <4>2. {j \in DOMAIN tab' : tab'[j].global} =
              {j \in DOMAIN tab : tab[j].global} \union {j \in DOMAIN tab : tab[j].name = name}
        BY <3>2, <3>3
      <4>. QED
        BY <1>0, <3>2, <3>3, <4>1, <4>2 DEF Marked
    <3>. QED
      BY <2>2, <3>4, <3>5, <3>6 DEF TableInv, EnvironmentPassed
  <2>4. CASE Found(name) = {} /\ ~TabFull
    <3>1. VLstore(name, Empty) /\ assigned' = [assigned EXCEPT ![name] = Empty] /\ UNCHANGED exported
      BY <1>8, <2>4 DEF Export
    <3>. QED
      BY <1>6, <2>2, <2>4, <3>1
  <2>5. CASE Found(name) = {} /\ TabFull
    <3>1. UNCHANGED <<tab, assigned, exported>>
      BY <1>8, <2>5 DEF Export
    <3>. QED
      BY <2>2, <3>1, TableSame
  <2>. QED
    BY <2>3, <2>4, <2>5
<1>. QED
  BY <1>3, <1>4, <1>5, <1>7, <1>8 DEF Next
-----------------------------------------------------------------------------
(* Blocks *)

ControlKinds == {"if", "then", "fi"}

\* The last control line of a block, if it has one, is of that kind.
Newest(block, kind) == FollowsA(block, Len(block) + 1, kind)

\* What if_state and if_result know of the block: which control line was the
\* last, and how its condition ended.
Inside ==
  /\ if_state = "NEUTRAL" =>
       /\ OutsideBlocks(script)
       /\ pc \in {"process", "wait"} => script = <<>>
  /\ if_state = "WANT_THEN" => Newest(script, "if")
  /\ if_state = "THEN_BLOCK" => Newest(script, "then")
  /\ if_state # "NEUTRAL" =>
       /\ \E k \in DOMAIN script : script[k].kind = "if"
       /\ \A k \in DOMAIN script :
            /\ script[k].kind # "fi"
            /\ script[k].kind = "if" => (script[k].rv = 0 <=> if_result = "SUCCESS")

BlockInv == (broken => script = <<>>) /\ (~broken => Inside) /\ BlocksAsWritten

\* A line more leaves the earlier lines of a block what they are, and the control
\* line before each of them is the same; the last one is the new line, or the last
\* one there was.
Extended(block, x, new) ==
  /\ Len(block) \in Nat /\ DOMAIN block = 1 .. Len(block)
  /\ DOMAIN new = 1 .. (Len(block) + 1)
  /\ \A i \in 1 .. Len(block) : new[i] = block[i]
  /\ new[Len(block) + 1] = x
  /\ \A i \in 1 .. (Len(block) + 1) : Controls(new, i) = Controls(block, i)
  /\ \A kind : \A i \in 1 .. (Len(block) + 1) : FollowsA(new, i, kind) <=> FollowsA(block, i, kind)
  /\ x.kind \in ControlKinds => Newest(new, x.kind)
  /\ x.kind \notin ControlKinds => \A kind : Newest(block, kind) => Newest(new, kind)

LEMMA Appended ==
  ASSUME NEW block \in Seq(Records), NEW x \in Records
  PROVE  Extended(block, x, Append(block, x))
<1>. DEFINE new == Append(block, x)
<1>. DEFINE n == Len(block)
<1>1. n \in Nat /\ DOMAIN block = 1 .. n
  BY LenProperties
<1>2. DOMAIN new = 1 .. (n + 1) /\ Len(new) = n + 1 /\ new[n + 1] = x /\ \A i \in 1 .. n : new[i] = block[i]
  BY AppendProperties
<1>. HIDE DEF n, new
<1>3. \A i \in 1 .. (n + 1) : Controls(new, i) = Controls(block, i)
  BY <1>1, <1>2 DEF Controls
<1>4. Controls(new, n + 2) = Controls(block, n + 1) \union (IF x.kind \in ControlKinds THEN {n + 1} ELSE {})
  BY <1>1, <1>2 DEF Controls, ControlKinds
<1>5. /\ n \in Nat /\ DOMAIN block = 1 .. n
      /\ DOMAIN new = 1 .. (n + 1) /\ Len(new) = n + 1
      /\ \A i \in 1 .. n : new[i] = block[i]
      /\ new[n + 1] = x
      /\ \A i \in 1 .. (n + 1) : Controls(new, i) = Controls(block, i)
      /\ Controls(new, n + 2) =
           Controls(block, n + 1) \union (IF x.kind \in ControlKinds THEN {n + 1} ELSE {})
  BY <1>1, <1>2, <1>3, <1>4
<1>6. \A i \in 1 .. (n + 1) : Controls(block, i) \subseteq 1 .. n
  BY <1>5 DEF Controls
<1>7. ASSUME NEW kind, NEW i \in 1 .. (n + 1) PROVE FollowsA(new, i, kind) <=> FollowsA(block, i, kind)
  <2>1. /\ Controls(new, i) = Controls(block, i) /\ Controls(block, i) \subseteq 1 .. n
        /\ \A j \in Controls(block, i) : new[j] = block[j]
    BY <1>5, <1>6
  <2>. QED
    BY <2>1 DEF FollowsA, Follows
<1>8. ASSUME x.kind \in ControlKinds PROVE Newest(new, x.kind)
  <2>1. n + 1 \in Controls(new, n + 2) /\ \A k \in Controls(new, n + 2) : k <= n + 1
    <3>1. Controls(block, n + 1) \subseteq 1 .. n
      BY <1>5, <1>6
    <3>2. Controls(new, n + 2) = Controls(block, n + 1) \union {n + 1}
      BY <1>5, <1>8
    <3>. QED
      BY <1>5, <3>1, <3>2
  <2>2. Len(new) + 1 = n + 2
    BY <1>5
  <2>. QED
    BY <1>5, <2>1, <2>2 DEF Newest, FollowsA, Follows
<1>9. ASSUME x.kind \notin ControlKinds, NEW kind, Newest(block, kind) PROVE Newest(new, kind)
  <2>1. Controls(new, n + 2) = Controls(block, n + 1)
    BY <1>5, <1>9
  <2>2. Controls(block, n + 1) \subseteq 1 .. n /\ Len(new) + 1 = n + 2
    BY <1>5, <1>6
  <2>3. PICK j \in Controls(block, n + 1) : Follows(block, n + 1, j) /\ block[j].kind = kind
    BY <1>9 DEF Newest, FollowsA, n
  <2>4. Follows(new, n + 2, j) /\ new[j].kind = kind
    BY <1>5, <2>1, <2>2, <2>3 DEF Follows
  <2>. QED
    BY <2>1, <2>2, <2>4 DEF Newest, FollowsA
<1>. QED
  BY <1>5, <1>7, <1>8, <1>9 DEF n, new, Extended

\* A block has one last control line.
LEMMA OneNewest ==
  ASSUME NEW block \in Seq(Records), NEW kind, Newest(block, kind), NEW other, Newest(block, other)
  PROVE  kind = other
<1>1. Len(block) \in Nat
  BY LenProperties
<1>2. Controls(block, Len(block) + 1) \subseteq Nat
  BY <1>1 DEF Controls
<1>3. PICK i \in Controls(block, Len(block) + 1) : Follows(block, Len(block) + 1, i) /\ block[i].kind = kind
  BY DEF Newest, FollowsA
<1>4. PICK j \in Controls(block, Len(block) + 1) : Follows(block, Len(block) + 1, j) /\ block[j].kind = other
  BY DEF Newest, FollowsA
<1>5. i <= j /\ j <= i
  BY <1>3, <1>4 DEF Follows
<1>. QED
  BY <1>2, <1>3, <1>4, <1>5

\* The condition of the block before line i failed.
Failed(block, i) ==
  \E j, k \in Controls(block, i) : block[j].kind = "then" /\ block[k].kind = "if" /\ block[k].rv # 0

\* Line i was run or not as the block says.
Written(block, i) ==
  block[i].kind = "command" =>
    /\ block[i].ran => ~Failed(block, i)
    /\ block[i].ran \/ Failed(block, i) \/ block[i].rv # 0

LEMMA AsWritten ==
  /\ BlocksAsWritten <=> \A i \in DOMAIN script : Written(script, i)
  /\ BlocksAsWritten' <=> \A i \in DOMAIN script' : Written(script', i)
BY DEF BlocksAsWritten, InFailedBlock, Written, Failed, Controls

\* A line more, run as the block says, leaves a block run as the block says.
LEMMA EarlierAsWritten ==
  ASSUME TypeOK, BlocksAsWritten, NEW x \in Records, script' = Append(script, x),
         x.kind = "command" =>
           /\ x.ran => ~Failed(script, Len(script) + 1)
           /\ x.ran \/ Failed(script, Len(script) + 1) \/ x.rv # 0
  PROVE  BlocksAsWritten'
<1>. DEFINE n == Len(script)
            new == script'
<1>1. /\ n \in Nat /\ DOMAIN script = 1 .. n
      /\ DOMAIN new = 1 .. (n + 1)
      /\ \A i \in 1 .. n : new[i] = script[i]
      /\ new[n + 1] = x
      /\ \A i \in 1 .. (n + 1) : Controls(new, i) = Controls(script, i)
  <2>1. Extended(script, x, new)
    BY ScriptIs, Appended
  <2>. QED
    BY <2>1 DEF Extended
<1>. HIDE DEF n, new
<1>2. ASSUME NEW i \in 1 .. (n + 1) PROVE Failed(new, i) <=> Failed(script, i)
  <2>1. Controls(script, i) \subseteq 1 .. n
    BY <1>1 DEF Controls
  <2>2. Controls(new, i) = Controls(script, i) /\ \A j \in Controls(script, i) : new[j] = script[j]
    BY <1>1, <2>1
  <2>. QED
    BY <2>2 DEF Failed
<1>3. ASSUME NEW i \in 1 .. n PROVE Written(new, i)
  <2>1. new[i] = script[i] /\ i \in DOMAIN script /\ (Failed(new, i) <=> Failed(script, i))
    BY <1>1, <1>2
  <2>2. Written(script, i)
    BY <2>1, AsWritten
  <2>. QED
    BY <2>1, <2>2 DEF Written
<1>4. Written(new, n + 1)
  <2>1. Failed(new, n + 1) <=> Failed(script, n + 1)
    BY <1>1, <1>2
  <2>. QED
    BY <1>1, <2>1 DEF n, Written
<1>5. \A i \in DOMAIN new : Written(new, i)
  BY <1>1, <1>3, <1>4
<1>. QED
  BY <1>5, AsWritten DEF new

\* Whether the block's condition failed, as the shell has it in if_result.
LEMMA FailedIsKnown ==
  ASSUME TypeOK, Inside
  PROVE  /\ if_state = "NEUTRAL" /\ script = <<>> => ~Failed(script, Len(script) + 1)
         /\ if_state = "THEN_BLOCK" => (Failed(script, Len(script) + 1) <=> if_result # "SUCCESS")
<1>. DEFINE n == Len(script)
<1>1. n \in Nat /\ DOMAIN script = 1 .. n
  BY ScriptIs, LenProperties
<1>. HIDE DEF n
<1>2. Controls(script, n + 1) = {j \in DOMAIN script : script[j].kind \in ControlKinds}
  BY <1>1 DEF Controls, ControlKinds
<1>3. if_state = "NEUTRAL" /\ script = <<>> => ~Failed(script, n + 1)
  BY <1>2 DEF Failed
<1>4. ASSUME if_state = "THEN_BLOCK" PROVE Failed(script, n + 1) <=> if_result # "SUCCESS"
  <2>1. PICK k \in DOMAIN script : script[k].kind = "if"
    BY <1>4 DEF Inside
  <2>2. \A m \in DOMAIN script : script[m].kind = "if" => (script[m].rv = 0 <=> if_result = "SUCCESS")
    BY <1>4 DEF Inside
  <2>3. PICK j \in Controls(script, n + 1) : script[j].kind = "then"
    BY <1>4 DEF Inside, Newest, FollowsA, n
  <2>4. k \in Controls(script, n + 1)
    BY <1>2, <2>1 DEF ControlKinds
  <2>5. \A m \in Controls(script, n + 1) : m \in DOMAIN script
    BY <1>2
  <2>. QED
    BY <2>1, <2>2, <2>3, <2>4, <2>5 DEF Failed
<1>. QED
  BY <1>3, <1>4 DEF n

\* What process makes of a line that is no condition: the state it goes on with,
\* and whether the command ran.
Obeyed(rv, state, ran) ==
  /\ line.ifs > 0 => if_state = "NEUTRAL"
  /\ line.ifs = 0 =>
       /\ line.cmd \in Commands =>
            /\ state = if_state \/ if_state = "WANT_THEN"
            /\ ran => OkToExecute
            /\ ran \/ rv # 0 \/ ~OkToExecute
       /\ line.cmd.op = "then" /\ if_state = "WANT_THEN" => state = "THEN_BLOCK"
       /\ line.cmd.op = "fi" => state = "NEUTRAL"
       /\ line.cmd = Blank => state = if_state

\* A line that was obeyed and belongs where it stands.
LEMMA ReturnKeepsBlocks ==
  ASSUME ShellTypes, BlockInv, pc \in {"process", "wait"},
         NEW rv \in {0, 1}, NEW state \in States, NEW ran \in BOOLEAN,
         Obeyed(rv, state, ran), Return(rv, state, ran)
  PROVE  BlockInv'
<1>. DEFINE n == Len(script)
            x == [kind |-> Kind(line), rv |-> rv, ran |-> ran]
<1>1. TypeOK /\ BlocksAsWritten /\ script \in Seq(Records) /\ line \in AllLines
  BY ScriptIs DEF ShellTypes, BlockInv, TypeOK
<1>2. /\ if_state' = IF line.ifs = 0 THEN state ELSE "WANT_THEN"
      /\ if_result' = IF line.ifs = 1 THEN (IF rv = 0 THEN "SUCCESS" ELSE "FAIL")
                      ELSE IF line.ifs = 0 THEN if_result ELSE "SUCCESS"
      /\ pc' = "prompt"
  BY DEF Return, ReturnUnlessIf
<1>3. CASE broken'
  <2>1. script' = <<>>
    BY <1>1, <1>3, LogKeepsTypes DEF Return
  <2>. QED
    BY <1>3, <2>1 DEF BlockInv, BlocksAsWritten
<1>4. CASE ~broken'
  <2>1. ~broken /\ WellFormed(script') /\ script' = Append(script, x)
    BY <1>1, <1>4, LogKeepsTypes DEF Return
  <2>2. Inside
    BY <2>1 DEF BlockInv
  <2>3. /\ x \in Records /\ x.kind = Kind(line) /\ x.rv = rv /\ x.ran = ran
    BY <1>1, KindIs DEF Records
  <2>. HIDE DEF x
  <2>4. /\ n \in Nat /\ DOMAIN script = 1 .. n /\ DOMAIN script' = 1 .. (n + 1)
        /\ \A i \in 1 .. n : script'[i] = script[i]
        /\ script'[n + 1] = x
        /\ \A i \in 1 .. (n + 1) : Controls(script', i) = Controls(script, i)
        /\ \A kind : FollowsA(script', n + 1, kind) <=> Newest(script, kind)
        /\ x.kind \in ControlKinds => Newest(script', x.kind)
        /\ x.kind \notin ControlKinds => \A kind : Newest(script, kind) => Newest(script', kind)
    <3>1. Extended(script, x, script')
      BY <1>1, <2>1, <2>3, Appended
    <3>. QED
      BY <3>1 DEF Extended, Newest
  <2>. HIDE DEF n
  <2>5. /\ x.kind # "badif"
        /\ x.kind = "if" => Controls(script, n + 1) = {}
        /\ x.kind = "then" => Newest(script, "if")
        /\ x.kind = "fi" => Newest(script, "then")
        /\ x.kind = "command" => ~Newest(script, "if")
    BY <2>1, <2>4 DEF WellFormed
  <2>6. if_state \in States /\ (if_state = "NEUTRAL" => script = <<>>)
    BY <1>1, <2>2 DEF Inside, TypeOK, States
  <2>7. Newest(<<>>, "if") = FALSE /\ Newest(<<>>, "then") = FALSE
    BY DEF Newest, FollowsA, Controls
  <2>8. CASE line.ifs > 0
    <3>1. x.kind = "if" /\ line.ifs = 1 /\ if_state = "NEUTRAL" /\ script = <<>>
      BY <1>1, <2>3, <2>5, <2>6, <2>8, KindIs DEF Obeyed
    <3>2. n = 0 /\ DOMAIN script' = {1} /\ script'[1] = x
      <4>1. n = 0
        BY <3>1 DEF n
      <4>. QED
        BY <2>4, <4>1
    <3>3. BlocksAsWritten'
      BY <1>1, <2>1, <2>3, <3>1, EarlierAsWritten
    <3>4. if_state' = "WANT_THEN" /\ (x.rv = 0 <=> if_result' = "SUCCESS")
      BY <1>2, <2>3, <3>1
    <3>5. Newest(script', "if")
      BY <2>4, <3>1 DEF ControlKinds
    <3>6. Inside'
      BY <1>2, <3>1, <3>2, <3>4, <3>5 DEF Inside, Newest
    <3>. QED
      BY <1>4, <3>3, <3>6 DEF BlockInv
  <2>9. CASE line.ifs = 0
    <3>1. if_state' = state /\ if_result' = if_result
      BY <1>2, <2>9
    <3>2. /\ Kind(line) = "command" <=> line.cmd \in Commands
          /\ Kind(line) \in {"then", "fi"} => line.cmd.op = Kind(line)
          /\ Kind(line) = "blank" <=> line.cmd = Blank
          /\ Kind(line) \in {"command", "then", "fi", "blank"}
      BY <1>1, <2>9, KindIs
    <3>3. CASE x.kind = "command"
      <4>1. /\ if_state # "WANT_THEN" /\ state = if_state
            /\ ran => OkToExecute
            /\ ran \/ rv # 0 \/ ~OkToExecute
        BY <2>2, <2>3, <2>5, <2>9, <3>2, <3>3 DEF Obeyed, Inside
      <4>2. Failed(script, n + 1) <=> ~OkToExecute
        BY <1>1, <2>2, <2>6, <4>1, FailedIsKnown DEF OkToExecute, States, n
      <4>3. BlocksAsWritten'
        BY <1>1, <2>1, <2>3, <4>1, <4>2, EarlierAsWritten DEF n
      <4>4. CASE if_state = "NEUTRAL"
        <5>1. n = 0
          BY <2>6, <4>4 DEF n
        <5>2. DOMAIN script' = {1} /\ script'[1].kind = "command"
          BY <2>4, <3>3, <5>1
        <5>3. Inside'
          BY <1>2, <3>1, <4>1, <4>4, <5>2 DEF Inside, OutsideBlocks
        <5>. QED
          BY <1>4, <4>3, <5>3 DEF BlockInv
      <4>5. CASE if_state = "THEN_BLOCK"
        <5>1. Newest(script', "then")
          BY <2>2, <2>4, <3>3, <4>5 DEF Inside, ControlKinds
        <5>2. Inside'
          BY <2>2, <2>4, <3>1, <3>3, <4>1, <4>5, <5>1 DEF Inside, Newest
        <5>. QED
          BY <1>4, <4>3, <5>2 DEF BlockInv
      <4>. QED
        BY <2>6, <4>1, <4>4, <4>5 DEF States
    <3>4. CASE x.kind # "command"
      <4>1. BlocksAsWritten'
        BY <1>1, <2>1, <2>3, <3>4, EarlierAsWritten
      <4>2. CASE x.kind = "then"
        <5>1. if_state = "WANT_THEN"
          <6>1. if_state # "NEUTRAL"
            BY <2>5, <2>6, <2>7, <4>2
          <6>2. if_state # "THEN_BLOCK"
            <7>1. Newest(script, "if")
              BY <2>5, <4>2
            <7>2. ~Newest(script, "then")
              BY <1>1, <7>1, OneNewest
            <7>. QED
              BY <2>2, <7>2 DEF Inside
          <6>. QED
            BY <2>6, <6>1, <6>2 DEF States
        <5>2. if_state' = "THEN_BLOCK"
          BY <2>3, <2>9, <3>1, <3>2, <4>2, <5>1 DEF Obeyed
        <5>3. Newest(script', "then")
          BY <2>4, <4>2 DEF ControlKinds
        <5>4. Inside'
          BY <2>2, <2>4, <3>1, <4>2, <5>1, <5>2, <5>3 DEF Inside, Newest
        <5>. QED
          BY <1>4, <4>1, <5>4 DEF BlockInv
      <4>3. CASE x.kind = "fi"
        <5>1. if_state' = "NEUTRAL"
          BY <2>3, <2>9, <3>1, <3>2, <4>3 DEF Obeyed
        <5>2. OutsideBlocks(script')
          BY <2>4, <4>3 DEF OutsideBlocks
        <5>3. Inside'
          BY <1>2, <5>1, <5>2 DEF Inside, OutsideBlocks
        <5>. QED
          BY <1>4, <4>1, <5>3 DEF BlockInv
      <4>4. CASE x.kind = "blank"
        <5>1. if_state' = if_state
          BY <2>3, <2>9, <3>1, <3>2, <4>4 DEF Obeyed
        <5>2. CASE if_state = "NEUTRAL"
          <6>1. n = 0
            BY <2>6, <5>2 DEF n
          <6>2. DOMAIN script' = {1} /\ script'[1].kind = "blank"
            BY <2>4, <4>4, <6>1
          <6>3. Inside'
            BY <1>2, <5>1, <5>2, <6>2 DEF Inside, OutsideBlocks
          <6>. QED
            BY <1>4, <4>1, <6>3 DEF BlockInv
        <5>3. CASE if_state # "NEUTRAL"
          <6>1. \A kind : Newest(script, kind) => Newest(script', kind)
            BY <2>4, <4>4 DEF ControlKinds
          <6>2. Inside'
            BY <2>2, <2>4, <3>1, <4>4, <5>1, <5>3, <6>1 DEF Inside, Newest
          <6>. QED
            BY <1>4, <4>1, <6>2 DEF BlockInv
        <5>. QED
          BY <5>2, <5>3
      <4>. QED
        BY <2>3, <3>2, <3>4, <4>2, <4>3, <4>4
    <3>. QED
      BY <3>3, <3>4
  <2>10. line.ifs \in 0 .. 2
    BY <1>1, LineIs
  <2>. QED
    BY <2>8, <2>9, <2>10
<1>. QED
  BY <1>3, <1>4

LEMMA BlockInit == Init => BlockInv
BY DEF Init, BlockInv, Inside, OutsideBlocks, BlocksAsWritten

LEMMA BlockRests ==
  BlockInv /\ UNCHANGED <<ifVars, scriptVars>> /\ (pc' \in {"process", "wait"} => pc \in {"process", "wait"})
    => BlockInv'
BY DEF BlockInv, Inside, BlocksAsWritten, InFailedBlock, Newest, FollowsA, Follows, Controls, OutsideBlocks,
       ifVars, scriptVars

\* What is no command, and what a command is.
LEMMA CommandIs ==
  ASSUME TypeOK
  PROVE  /\ line.cmd.op \in Ops <=> line.cmd \in Commands
         /\ line.cmd \in Commands => line.cmd.op \notin {"then", "fi"} /\ line.cmd # Blank
         /\ line.cmd = Blank => line.cmd.op \notin {"then", "fi"} /\ line.cmd \notin Commands
<1>1. line.cmd \in Commands <=> line.cmd.op \in Ops
  BY LineIs DEF TypeOK
<1>2. line.cmd = Blank => line.cmd.op = "blank"
  BY DEF Blank
<1>. QED
  BY <1>1, <1>2 DEF Ops

LEMMA BlockNext == ASSUME ShellTypes, BlockInv, Next PROVE BlockInv'
<1>0. TypeOK /\ Waiting
  BY DEF ShellTypes
<1>1. if_state \in States /\ \A state \in {"NEUTRAL", "WANT_THEN", "THEN_BLOCK"} : state \in States
  BY <1>0 DEF TypeOK, States
<1>2. /\ line.cmd.op \in Ops <=> line.cmd \in Commands
      /\ line.cmd \in Commands => line.cmd.op \notin {"then", "fi"} /\ line.cmd # Blank
      /\ line.cmd = Blank => line.cmd.op \notin {"then", "fi"} /\ line.cmd \notin Commands
  BY <1>0, CommandIs
\* A command that runs, or that fork refuses.
<1>3. ASSUME NEW rv \in {0, 1}, NEW ran \in BOOLEAN, ran \/ rv # 0, pc \in {"process", "wait"},
             line.ifs > 0 => if_state = "NEUTRAL", line.cmd.op \in Ops, OkToExecute,
             Return(rv, if_state, ran)
      PROVE  BlockInv'
  <2>1. Obeyed(rv, if_state, ran)
    BY <1>2, <1>3 DEF Obeyed
  <2>. QED
    BY <1>1, <1>3, <2>1, ReturnKeepsBlocks
<1>4. CASE NextCmd
  <2>1. pc = "prompt" /\ UNCHANGED <<ifVars, broken>>
    BY <1>4 DEF NextCmd
  <2>2. CASE OutsideBlocks(script) /\ script' = <<>>
    <3>1. BlocksAsWritten'
      BY <2>2 DEF BlocksAsWritten
    <3>2. ~broken => if_state = "NEUTRAL"
      BY <2>2 DEF BlockInv, Inside, OutsideBlocks
    <3>. QED
      BY <2>1, <2>2, <3>1, <3>2 DEF BlockInv, Inside, OutsideBlocks, ifVars
  <2>3. CASE ~OutsideBlocks(script) /\ UNCHANGED script
    <3>1. BlocksAsWritten'
      BY <2>3, AsWritten DEF BlockInv
    <3>2. ~broken => if_state # "NEUTRAL"
      BY <2>3 DEF BlockInv, Inside
    <3>. QED
      BY <2>1, <2>3, <3>1, <3>2 DEF BlockInv, Inside, Newest, ifVars
  <2>. QED
    BY <1>4, <2>2, <2>3 DEF NextCmd
<1>5. CASE EndOfFile \/ Exec \/ ProgramEnds
  <2>1. /\ UNCHANGED <<ifVars, scriptVars>>
        /\ pc' \in {"process", "wait"} => pc \in {"process", "wait"}
    BY <1>5 DEF EndOfFile, Exec, ProgramEnds
  <2>. QED
    BY <2>1, BlockRests
<1>6. CASE IfUnexpected
  <2>1. line.ifs > 0 /\ if_state # "NEUTRAL" /\ Log(1, FALSE)
    BY <1>6 DEF IfUnexpected
  <2>2. broken'
    <3>. SUFFICES ASSUME ~broken' PROVE FALSE
      OBVIOUS
    <3>. DEFINE x == [kind |-> Kind(line), rv |-> 1, ran |-> FALSE]
    <3>1. ~broken /\ WellFormed(script') /\ script' = Append(script, x)
      BY <1>0, <2>1, LogKeepsTypes
    <3>2. x \in Records /\ x.kind \in {"if", "badif"}
      BY <1>0, <2>1, KindIs DEF TypeOK, Records
    <3>. HIDE DEF x
    <3>3. Extended(script, x, script')
      BY <1>0, <3>1, <3>2, ScriptIs, Appended
    <3>4. Controls(script, Len(script) + 1) = {}
      BY <3>1, <3>2, <3>3 DEF Extended, WellFormed
    <3>5. \E kind : Newest(script, kind)
      BY <1>1, <2>1, <3>1 DEF BlockInv, Inside, States
    <3>. QED
      BY <3>4, <3>5 DEF Newest, FollowsA
  <2>3. script' = <<>>
    BY <1>0, <2>1, <2>2, LogKeepsTypes
  <2>. QED
    BY <2>2, <2>3 DEF BlockInv, BlocksAsWritten
<1>7. CASE DoBlank
  <2>1. Obeyed(0, if_state, FALSE) /\ Return(0, if_state, FALSE) /\ pc = "process"
    BY <1>2, <1>7 DEF DoBlank, Processing, Obeyed
  <2>. QED
    BY <1>1, <2>1, ReturnKeepsBlocks
<1>8. CASE DoControlCommand
  <2>1. /\ pc = "process" /\ (line.ifs > 0 => if_state = "NEUTRAL")
        /\ line.cmd.op \in {"then", "fi"}
    BY <1>8 DEF DoControlCommand, Processing
  <2>2. PICK rv \in {0, 1}, state \in {"THEN_BLOCK", "NEUTRAL"} :
          /\ Return(rv, state, FALSE)
          /\ line.cmd.op = "then" /\ if_state = "WANT_THEN" => state = "THEN_BLOCK"
          /\ line.cmd.op = "fi" => state = "NEUTRAL"
    BY <1>8 DEF DoControlCommand
  <2>3. Obeyed(rv, state, FALSE)
    BY <1>2, <2>1, <2>2 DEF Obeyed
  <2>. QED
    BY <1>1, <2>1, <2>2, <2>3, ReturnKeepsBlocks
<1>9. CASE NotExecuted
  <2>. DEFINE state == IF if_state = "WANT_THEN" THEN "NEUTRAL" ELSE if_state
  <2>1. /\ pc = "process" /\ (line.ifs > 0 => if_state = "NEUTRAL")
        /\ line.cmd \in Commands /\ ~OkToExecute
        /\ Return(0, state, FALSE)
    BY <1>9 DEF NotExecuted, Processing
  <2>2. Obeyed(0, state, FALSE)
    BY <1>2, <2>1 DEF Obeyed
  <2>3. state \in States
    BY <1>1
  <2>. QED
    BY <2>1, <2>2, <2>3, ReturnKeepsBlocks
<1>10. CASE Set
  <2>1. PICK rv \in {0, 1} : Return(rv, if_state, TRUE)
    BY <1>10 DEF Set
  <2>2. /\ pc = "process" /\ (line.ifs > 0 => if_state = "NEUTRAL")
        /\ line.cmd.op \in Ops /\ OkToExecute
    BY <1>10 DEF Set, Executing, Processing, Ops
  <2>. QED
    BY <1>3, <2>1, <2>2
<1>11. CASE Assign
  <2>1. PICK rv \in {0, 1} : Return(rv, if_state, TRUE)
    BY <1>11 DEF Assign
  <2>2. /\ pc = "process" /\ (line.ifs > 0 => if_state = "NEUTRAL")
        /\ line.cmd.op \in Ops /\ OkToExecute
    BY <1>11 DEF Assign, Executing, Processing, Ops
  <2>. QED
    BY <1>3, <2>1, <2>2
<1>12. CASE Export
  <2>1. /\ pc = "process" /\ (line.ifs > 0 => if_state = "NEUTRAL")
        /\ line.cmd.op \in Ops /\ OkToExecute
    BY <1>12 DEF Export, Executing, Processing, Ops
  <2>2. CASE pc' = "crashed" /\ UNCHANGED <<ifVars, scriptVars>>
    BY <2>2, BlockRests
  <2>3. ASSUME NEW rv \in {0, 1}, Return(rv, if_state, TRUE) PROVE BlockInv'
    BY <1>3, <2>1, <2>3
  <2>. QED
    BY <1>12, <2>2, <2>3 DEF Export
<1>13. CASE Fork
  <2>1. /\ pc = "process" /\ (line.ifs > 0 => if_state = "NEUTRAL")
        /\ line.cmd.op \in Ops /\ OkToExecute
    BY <1>13 DEF Fork, Executing, Processing, Ops
  <2>2. CASE UNCHANGED <<ifVars, scriptVars>>
    BY <2>1, <2>2, BlockRests
  <2>3. CASE Return(1, if_state, FALSE)
    <3>1. 1 \in {0, 1} /\ 1 # 0 /\ FALSE \in BOOLEAN
      OBVIOUS
    <3>. QED
      BY <1>3, <2>1, <2>3, <3>1, Zenon
  <2>. QED
    BY <1>13, <2>2, <2>3 DEF Fork
<1>14. CASE Wait
  <2>1. /\ pc = "wait" /\ child_info \in {0, 1} /\ Return(child_info, if_state, TRUE)
        /\ line.ifs > 0 => if_state = "NEUTRAL"
        /\ line.cmd.op \in Ops /\ OkToExecute
    BY <1>0, <1>14 DEF Wait, Waiting, Ops
  <2>. QED
    BY <1>3, <2>1
<1>. QED
  BY <1>4, <1>5, <1>6, <1>7, <1>8, <1>9, <1>10, <1>11, <1>12, <1>13, <1>14 DEF Next
-----------------------------------------------------------------------------
(* The two parts of the shell *)

ShellInv == ShellTypes /\ TableInv /\ BlockInv

LEMMA ShellRests == ShellInv /\ UNCHANGED vars => ShellInv'
<1>. SUFFICES ASSUME ShellInv, UNCHANGED vars PROVE ShellInv'
  OBVIOUS
<1>1. UNCHANGED <<ifVars, tab, pc, line, childVars, scriptVars, assigned, exported>>
  BY DEF vars
<1>2. TypeOK'
  BY <1>1 DEF ShellInv, ShellTypes, TypeOK, ifVars, childVars, scriptVars
<1>3. Waiting'
  BY <1>1 DEF ShellInv, ShellTypes, Waiting, OkToExecute, ifVars, childVars
<1>4. TableInv'
  BY <1>1, TableSame DEF ShellInv, childVars
<1>5. BlockInv'
  BY <1>1, BlockRests DEF ShellInv
<1>. QED
  BY <1>2, <1>3, <1>4, <1>5 DEF ShellInv, ShellTypes

LEMMA AllStart == AllInit => SplitInv /\ ShellInv
BY ReaderInit, TypesInit, TableInit, BlockInit DEF AllInit, ShellInv

LEMMA AllStep == SplitInv /\ ShellInv /\ [AllNext]_<<part, vars, splitVars>> => SplitInv' /\ ShellInv'
<1>. SUFFICES ASSUME SplitInv, ShellInv, [AllNext]_<<part, vars, splitVars>> PROVE SplitInv' /\ ShellInv'
  OBVIOUS
<1>1. CASE Next /\ UNCHANGED splitVars
  BY <1>1, ReaderRests, TypesNext, TableNext, BlockNext DEF ShellInv
<1>2. CASE Reader!Next /\ UNCHANGED vars
  BY <1>2, ReaderStep, ShellRests, ReaderAssumption
<1>3. CASE UNCHANGED <<part, vars, splitVars>>
  BY <1>3, ReaderRests, ShellRests
<1>. QED
  BY <1>1, <1>2, <1>3 DEF AllNext

LEMMA AllAlways == AllSpec => [](SplitInv /\ ShellInv)
BY AllStart, AllStep, PTL DEF AllSpec

\* next_cmd and splitline (splitline.c) find the words of every line and store
\* nothing outside of the buffer and the list, which grow as they fill up.
THEOREM LineRead == AllSpec => []CommandLineRead
BY AllAlways, ReaderReads, PTL

\* The table of variables (varlib.c) never has more than MAXVARS entries, and the
\* shell knows no state but the three of controlflow.c.
THEOREM ShellTyped == AllSpec => []AllTypeOK
<1>1. SplitInv /\ ShellInv => AllTypeOK
  BY DEF SplitInv, ShellInv, ShellTypes, AllTypeOK
<1>. QED
  BY AllAlways, <1>1, PTL

\* A command in a block is run exactly when the condition of that block returned
\* 0, and every other command is run, in scripts of any length: if_state and
\* if_result (controlflow.c) are enough to know where in the script the shell is.
THEOREM BlocksRun == AllSpec => []BlocksAsWritten
<1>1. ShellInv => BlocksAsWritten
  BY DEF ShellInv, BlockInv
<1>. QED
  BY AllAlways, <1>1, PTL

\* A program gets each exported variable once, with the value it was last given
\* (varlib.c: VLtable2environ), for every set of names and every size of the table.
THEOREM EnvironmentRight == AllSpec => []EnvironmentPassed
<1>1. ShellInv => EnvironmentPassed
  BY DEF ShellInv, TableInv
<1>. QED
  BY AllAlways, <1>1, PTL
=============================================================================
