----------------------------- MODULE SplitLine -----------------------------
(***************************************************************************)
(* How the shells of "13 smsh" read a command (next_cmd and splitline, the *)
(* same in smsh1.c to smsh4.c): a line is read character by character into *)
(* a buffer that grows by BUFSIZ, then cut into words whose addresses go   *)
(* into an array that grows by BUFSIZ bytes.  C sequences count from 0,    *)
(* these from 1: buf[pos] is what pos+1 is here.                           *)
(***************************************************************************)
EXTENDS Naturals, Sequences

CONSTANTS
  BUFSIZ,
  SPOTS,        \* BUFSIZ/sizeof(char *): addresses in BUFSIZ bytes
  MaxLength     \* bound: characters of a line

VARIABLES
  phase,      \* "read": in next_cmd; "split", "word": in splitline; "done"; "exit"
  buf,        \* the characters stored in the buffer; pos is its length
  bufspace,   \* bytes of the buffer
  args,       \* the words found: the start and the length of each; argnum is its length
  spots,      \* addresses args has room for
  cp,         \* the character splitline looks at
  start       \* where the word it is in starts

vars == <<phase, buf, bufspace, args, spots, cp, start>>

\* What stdio.h defines; an address is smaller than BUFSIZ.
BufferAssumption == BUFSIZ \in Nat /\ BUFSIZ >= 2 /\ SPOTS \in Nat \ {0} /\ MaxLength \in Nat

\* A character of a word, a blank or tab, and the character 0, which ^@ types.
Chars == {"char", "blank", "nul"}

pos == Len(buf)
argnum == Len(args)

\* The line ends where next_cmd has put a '\0' behind it.
At(i) == IF i \in 1 .. pos THEN buf[i] ELSE "nul"
-----------------------------------------------------------------------------
(* next_cmd *)

\* Mutant: pos>bufspace.
GrownLate == IF pos > bufspace \/ bufspace = 0 THEN bufspace + BUFSIZ ELSE bufspace

\* emalloc or erealloc, for this character and a '\0' behind it.
Grown == IF pos + 1 >= bufspace THEN bufspace + BUFSIZ ELSE bufspace

Getc(c) ==
  /\ phase = "read"
  /\ pos < MaxLength
  /\ bufspace' = Grown
  /\ buf' = Append(buf, c)
  /\ UNCHANGED <<phase, args, spots, cp, start>>

\* splitline begins: args=emalloc(BUFSIZ).
Split ==
  /\ phase' = "split"
  /\ args' = <<>>
  /\ spots' = SPOTS
  /\ cp' = 1
  /\ UNCHANGED <<buf, start>>

\* '\n', for which the buffer has grown before the loop is left
Newline == phase = "read" /\ bufspace' = Grown /\ Split

\* EOF, or the character 255, which a char does not distinguish from it: the
\* line ends here; without a character next_cmd returns NULL, and the shell
\* ends.
EndOfFile ==
  /\ phase = "read"
  /\ \/ pos > 0 /\ UNCHANGED bufspace /\ Split
     \/ pos = 0 /\ phase' = "exit" /\ UNCHANGED <<buf, bufspace, args, spots, cp, start>>
-----------------------------------------------------------------------------
(* splitline *)

SkipBlank ==
  /\ phase = "split"
  /\ At(cp) = "blank"
  /\ cp' = cp + 1
  /\ UNCHANGED <<phase, buf, bufspace, args, spots, start>>

\* args has room for this word and the NULL behind the last one.
StartWord ==
  /\ phase = "split"
  /\ At(cp) = "char"
  /\ spots' = IF argnum + 1 >= spots THEN spots + SPOTS ELSE spots
  /\ start' = cp
  /\ cp' = cp + 1
  /\ phase' = "word"
  /\ UNCHANGED <<buf, bufspace, args>>

\* while(*++cp!='\0' && !is_delim(*cp))
InWord ==
  /\ phase = "word"
  /\ At(cp) = "char"
  /\ cp' = cp + 1
  /\ UNCHANGED <<phase, buf, bufspace, args, spots, start>>

\* args[argnum++]=newstr(start,len)
EndWord ==
  /\ phase = "word"
  /\ At(cp) # "char"
  /\ args' = Append(args, [start |-> start, len |-> cp - start])
  /\ phase' = "split"
  /\ UNCHANGED <<buf, bufspace, spots, cp, start>>

\* args[argnum]=NULL; main gets the list.
EndLine ==
  /\ phase = "split"
  /\ At(cp) = "nul"
  /\ phase' = "done"
  /\ UNCHANGED <<buf, bufspace, args, spots, cp, start>>
-----------------------------------------------------------------------------
\* main frees the line and the list and asks for the next line.
NextCmd ==
  /\ phase = "done"
  /\ phase' = "read"
  /\ buf' = <<>> /\ bufspace' = 0
  /\ args' = <<>> /\ spots' = 0
  /\ cp' = 1 /\ start' = 1

\* emalloc or erealloc fails.
Fatal ==
  /\ phase \in {"read", "split", "word"}
  /\ phase' = "exit"
  /\ UNCHANGED <<buf, bufspace, args, spots, cp, start>>

Init ==
  /\ phase = "read"
  /\ buf = <<>> /\ bufspace = 0
  /\ args = <<>> /\ spots = 0
  /\ cp = 1 /\ start = 1

Next ==
  \/ \E c \in Chars : Getc(c)
  \/ Newline \/ EndOfFile
  \/ SkipBlank \/ StartWord \/ InWord \/ EndWord \/ EndLine
  \/ NextCmd \/ Fatal

Spec == Init /\ [][Next]_vars
-----------------------------------------------------------------------------
(* Properties *)

\* The values the variables take.
TypeOK ==
  /\ phase \in {"read", "split", "word", "done", "exit"}
  /\ buf \in Seq(Chars)
  /\ bufspace \in Nat /\ spots \in Nat
  /\ args \in Seq([start : Nat, len : Nat])
  /\ cp \in Nat \ {0} /\ start \in Nat \ {0}

\* Every character is stored inside the buffer, the '\0' behind the last one
\* as well; every address in the array, with the NULL behind the last one.
StoresInBounds ==
  /\ pos > 0 => pos < bufspace
  /\ phase \in {"split", "word", "done"} => pos < bufspace /\ argnum < spots

InWordAt(w, i) == w.start <= i /\ i < w.start + w.len

\* w is a word of the line: the longest run of its characters around each.
IsWord(w) ==
  /\ w.len > 0
  /\ \A i \in 1 .. pos : InWordAt(w, i) => At(i) = "char"
  /\ w.start + w.len <= pos + 1 /\ At(w.start + w.len) # "char"
  /\ w.start > 1 => At(w.start - 1) # "char"

\* The list holds the words of the line in their order, all of them; after a
\* character 0 in the line nothing is looked at.
WordsOfLine ==
  phase = "done" =>
    /\ \A k \in DOMAIN args : IsWord(args[k])
    /\ \A k, m \in DOMAIN args : k < m => args[k].start + args[k].len <= args[m].start
    /\ \A i \in 1 .. pos :
         (\A j \in 1 .. i : At(j) # "nul") /\ At(i) = "char"
           => \E k \in DOMAIN args : InWordAt(args[k], i)

\* The command is what was typed, whatever its length and the number of its
\* words, and nothing is stored outside of what was allocated.
CommandLineRead == StoresInBounds /\ WordsOfLine
=============================================================================
