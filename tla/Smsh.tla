-------------------------------- MODULE Smsh --------------------------------
(***************************************************************************)
(* The small shell of "13 smsh", smsh4.c: it reads a line, obeys the       *)
(* control words if, then and fi, keeps a table of variables, and runs     *)
(* every other command in a child process that gets the exported variables *)
(* as its environment.                                                     *)
(*                                                                         *)
(* A command's result is 0 or 1 here: the shell only asks whether it is 0. *)
(***************************************************************************)
EXTENDS Integers, Sequences, SequencesExt

CONSTANTS
  Names,     \* the names of variables
  Values,    \* the values a user assigns
  Empty,     \* the value "" that export gives a new variable
  MAXVARS,   \* the size of the table; 200 in the code
  Lines,     \* the lines the user types, out of AllLines
  MaxLines   \* bound: lines of one block, from if to fi

\* set, name=value, export name, a program; the last is also what "1x=3" is
\* once assign has refused the name.
Commands ==
  [op : {"set", "export_bad", "program"}] \union
  [op : {"assign"}, name : Names, val : Values] \union
  [op : {"export"}, name : Names]
ControlWords == [op : {"then", "fi"}]
Blank == [op |-> "blank"]

\* A line is a command behind zero or more times the word "if".
AllLines == [ifs : 0 .. 2, cmd : Commands \union ControlWords \union {Blank}]

ASSUME SmshAssumption ==
  /\ MAXVARS \in Nat \ {0}
  /\ Lines \subseteq AllLines

VARIABLES
  if_state, if_result,
  tab,        \* the used part of the table: a sequence of records
  pc,         \* of the shell
  line,       \* the line being processed
  child,      \* "none", "forked", "running" (execvp has succeeded), "zombie"
  child_info,
  child_env,  \* what the child got as its environment
  script,     \* history: the block the last line was in, or that line alone; with
              \* the result of each line, and whether it ran
  broken,     \* history: the lines so far are no script
  assigned,   \* history: the value the user last gave each name
  exported    \* history: the names inherited, or exported with result 0

ifVars == <<if_state, if_result>>
childVars == <<child, child_info, child_env>>
scriptVars == <<script, broken>>
vars == <<ifVars, tab, pc, line, childVars, scriptVars, assigned, exported>>
-----------------------------------------------------------------------------
(* What a script is: the reference for if_state and if_result. *)

Kinds == {"if", "badif", "command", "then", "fi", "blank"}

\* One command is the condition of an if.
Kind(l) ==
  IF l.ifs > 0 THEN (IF l.ifs = 1 /\ l.cmd \in Commands THEN "if" ELSE "badif")
  ELSE IF l.cmd \in Commands THEN "command" ELSE l.cmd.op

Controls(block, i) == {j \in 1 .. (i - 1) : block[j].kind \in {"if", "then", "fi"}}
\* j is the last control line before line i.
Follows(block, i, j) == j \in Controls(block, i) /\ \A k \in Controls(block, i) : k <= j
FollowsA(block, i, kind) == \E j \in Controls(block, i) : Follows(block, i, j) /\ block[j].kind = kind

\* if opens a block, then comes next, fi ends it; blocks do not nest.
WellFormed(block) ==
  \A i \in DOMAIN block :
    /\ block[i].kind # "badif"
    /\ block[i].kind = "if" => Controls(block, i) = {}
    /\ block[i].kind = "then" => FollowsA(block, i, "if")
    /\ block[i].kind = "fi" => FollowsA(block, i, "then")
    /\ block[i].kind = "command" => ~FollowsA(block, i, "if")

OutsideBlocks(block) ==
  \/ \A i \in DOMAIN block : block[i].kind # "if"
  \/ \E i \in DOMAIN block : block[i].kind = "fi"
-----------------------------------------------------------------------------
(* The table of variables *)

\* find_item(name, 0), as a set: the first entry with that name, if any.
Found(name) ==
  {i \in DOMAIN tab : tab[i].name = name /\ \A j \in 1 .. (i - 1) : tab[j].name # name}

TabFull == Len(tab) = MAXVARS

\* Mutant: find_item always returns the first blank entry.
VLstoreAppends(name, val) ==
  tab' = IF TabFull THEN tab ELSE Append(tab, [name |-> name, val |-> val, global |-> FALSE])

\* Mutant: find_item does not look whether the table has a blank entry.
VLstoreUnbounded(name, val) ==
  tab' = IF Found(name) # {}
         THEN [i \in DOMAIN tab |-> IF i \in Found(name) THEN [tab[i] EXCEPT !.val = val] ELSE tab[i]]
         ELSE Append(tab, [name |-> name, val |-> val, global |-> FALSE])

\* VLstore: a known variable stays exported, a new one is not.
VLstore(name, val) ==
  tab' = IF Found(name) # {}
         THEN [i \in DOMAIN tab |-> IF i \in Found(name) THEN [tab[i] EXCEPT !.val = val] ELSE tab[i]]
         ELSE IF TabFull THEN tab
         ELSE Append(tab, [name |-> name, val |-> val, global |-> FALSE])

\* VLtable2environ
Environ == {<<tab[i].name, tab[i].val>> : i \in {j \in DOMAIN tab : tab[j].global}}
-----------------------------------------------------------------------------
(* process, and what it calls *)

\* Mutant: if_result keeps the outcome of the last command, whatever it was.
ReturnUnlessIfStale(rv, state) ==
  /\ if_state' = IF line.ifs = 0 THEN state ELSE "WANT_THEN"
  /\ if_result' = IF rv = 0 THEN "SUCCESS" ELSE "FAIL"

\* The command of the line has returned rv and left if_state at state.  Each
\* "if" in front of it takes a result: the innermost this one, the next the 0
\* that do_control_command returned.
ReturnUnlessIf(rv, state) ==
  /\ if_state' = IF line.ifs = 0 THEN state ELSE "WANT_THEN"
  /\ if_result' = IF line.ifs = 1 THEN (IF rv = 0 THEN "SUCCESS" ELSE "FAIL")
                  ELSE IF line.ifs = 0 THEN if_result ELSE "SUCCESS"

Log(rv, ran) ==
  LET new == Append(script, [kind |-> Kind(line), rv |-> rv, ran |-> ran]) IN
    /\ broken' = (broken \/ ~WellFormed(new))
    /\ script' = IF broken' THEN <<>> ELSE new

\* process returns to main, which reads the next line.
Return(rv, state, ran) ==
  /\ ReturnUnlessIf(rv, state)
  /\ Log(rv, ran)
  /\ pc' = "prompt"
  /\ UNCHANGED line

\* "if" in the middle of an if: syn_err, the rest of the line is not looked at.
IfUnexpected ==
  /\ pc = "process"
  /\ line.ifs > 0
  /\ if_state # "NEUTRAL"
  /\ if_state' = "NEUTRAL"
  /\ Log(1, FALSE)
  /\ pc' = "prompt"
  /\ UNCHANGED <<if_result, line, tab, childVars, assigned, exported>>

\* The command of the line is looked at.
Processing == pc = "process" /\ (line.ifs > 0 => if_state = "NEUTRAL")

DoBlank ==
  /\ Processing
  /\ line.cmd = Blank
  /\ Return(0, if_state, FALSE)
  /\ UNCHANGED <<tab, childVars, assigned, exported>>

DoControlCommand ==
  /\ Processing
  /\ \/ line.cmd.op = "then" /\ if_state = "WANT_THEN" /\ Return(0, "THEN_BLOCK", FALSE)
     \/ line.cmd.op = "then" /\ if_state # "WANT_THEN" /\ Return(1, "NEUTRAL", FALSE)
     \/ line.cmd.op = "fi" /\ if_state = "THEN_BLOCK" /\ Return(0, "NEUTRAL", FALSE)
     \/ line.cmd.op = "fi" /\ if_state # "THEN_BLOCK" /\ Return(1, "NEUTRAL", FALSE)
  /\ UNCHANGED <<tab, childVars, assigned, exported>>

OkToExecute ==
  \/ if_state = "NEUTRAL"
  \/ if_state = "THEN_BLOCK" /\ if_result = "SUCCESS"

Executing(op) == Processing /\ line.cmd.op = op /\ OkToExecute

\* A command in a block whose condition failed is skipped; one between if and
\* then is a syntax error.
NotExecuted ==
  /\ Processing
  /\ line.cmd \in Commands
  /\ ~OkToExecute
  /\ Return(0, IF if_state = "WANT_THEN" THEN "NEUTRAL" ELSE if_state, FALSE)
  /\ UNCHANGED <<tab, childVars, assigned, exported>>

\* builtin_command: set, and export without a good name.
Set ==
  /\ \/ Executing("set") /\ Return(0, if_state, TRUE)
     \/ Executing("export_bad") /\ Return(1, if_state, TRUE)
  /\ UNCHANGED <<tab, childVars, assigned, exported>>

\* builtin_command: name=value.
Assign ==
  /\ Executing("assign")
  /\ VLstore(line.cmd.name, line.cmd.val)
  /\ \/ /\ Found(line.cmd.name) # {} \/ ~TabFull
        /\ Return(0, if_state, TRUE)
        /\ assigned' = [assigned EXCEPT ![line.cmd.name] = line.cmd.val]
     \/ /\ Found(line.cmd.name) = {} /\ TabFull
        /\ Return(1, if_state, TRUE)
        /\ UNCHANGED assigned
  /\ UNCHANGED <<childVars, exported>>

\* builtin_command: export name.  VLexport calls VLstore for a new name, and
\* then itself when VLstore has FAILED: a new name is stored but not exported
\* (the result is 1), and with a full table the recursion has no end.
Export ==
  /\ Executing("export")
  /\ \/ /\ Found(line.cmd.name) # {}
        /\ tab' = [i \in DOMAIN tab |->
                     IF i \in Found(line.cmd.name) THEN [tab[i] EXCEPT !.global = TRUE] ELSE tab[i]]
        /\ Return(0, if_state, TRUE)
        /\ exported' = exported \union {line.cmd.name}
        /\ UNCHANGED assigned
     \/ /\ Found(line.cmd.name) = {} /\ ~TabFull
        /\ VLstore(line.cmd.name, Empty)
        /\ Return(1, if_state, TRUE)
        /\ assigned' = [assigned EXCEPT ![line.cmd.name] = Empty]
        /\ UNCHANGED exported
     \/ /\ Found(line.cmd.name) = {} /\ TabFull
        /\ pc' = "crashed"
        /\ UNCHANGED <<ifVars, tab, line, scriptVars, assigned, exported>>
  /\ UNCHANGED childVars
-----------------------------------------------------------------------------
(* execute *)

\* fork; when it fails execute returns -1.
Fork ==
  /\ Executing("program")
  /\ \/ /\ child' = "forked"
        /\ pc' = "wait"
        /\ UNCHANGED <<ifVars, line, scriptVars>>
     \/ /\ Return(1, if_state, FALSE)
        /\ UNCHANGED child
  /\ UNCHANGED <<tab, child_info, child_env, assigned, exported>>

\* The child: its environment, its signals, execvp; exit(1) if that fails.
Exec ==
  /\ child = "forked"
  /\ child_env' = Environ
  /\ \/ child' = "running" /\ UNCHANGED child_info
     \/ child' = "zombie" /\ child_info' = 1
  /\ UNCHANGED <<ifVars, tab, pc, line, scriptVars, assigned, exported>>

\* The program ends, well or not, or is interrupted from the keyboard, which
\* the shell itself ignores.
ProgramEnds ==
  /\ child = "running"
  /\ child' = "zombie"
  /\ child_info' \in {0, 1}
  /\ UNCHANGED <<ifVars, tab, pc, line, child_env, scriptVars, assigned, exported>>

\* wait(&child_info)
Wait ==
  /\ pc = "wait"
  /\ child = "zombie"
  /\ Return(child_info, if_state, TRUE)
  /\ child' = "none"
  /\ child_info' = -1
  /\ child_env' = {}
  /\ UNCHANGED <<tab, assigned, exported>>
-----------------------------------------------------------------------------
(* main *)

\* next_cmd and splitline
NextCmd ==
  /\ pc = "prompt"
  /\ line' \in Lines
  /\ pc' = "process"
  /\ \/ OutsideBlocks(script) /\ script' = <<>>
     \/ ~OutsideBlocks(script) /\ Len(script) < MaxLines /\ UNCHANGED script
  /\ UNCHANGED <<ifVars, tab, childVars, broken, assigned, exported>>

EndOfFile ==
  /\ pc = "prompt"
  /\ pc' = "exit"
  /\ UNCHANGED <<ifVars, tab, line, childVars, scriptVars, assigned, exported>>

\* VLenviron2table: as much of the environment as the table has room for.
Environments ==
  {e \in SeqOf([name : Names, val : {Empty}, global : {TRUE}], MAXVARS) :
     \A i, j \in DOMAIN e : e[i].name = e[j].name => i = j}

Init ==
  /\ if_state = "NEUTRAL"
  /\ if_result = "SUCCESS"
  /\ tab \in Environments
  /\ pc = "prompt"
  /\ line = [ifs |-> 0, cmd |-> Blank]
  /\ child = "none"
  /\ child_info = -1
  /\ child_env = {}
  /\ script = <<>>
  /\ broken = FALSE
  /\ assigned = [name \in Names |-> Empty]
  /\ exported = {tab[i].name : i \in DOMAIN tab}

Next ==
  \/ NextCmd \/ EndOfFile
  \/ IfUnexpected \/ DoBlank \/ DoControlCommand \/ NotExecuted
  \/ Set \/ Assign \/ Export
  \/ Fork \/ Exec \/ ProgramEnds \/ Wait

Spec == Init /\ [][Next]_vars
-----------------------------------------------------------------------------
(* Properties *)

TypeOK ==
  /\ if_state \in {"NEUTRAL", "WANT_THEN", "THEN_BLOCK"}
  /\ if_result \in {"SUCCESS", "FAIL"}
  /\ tab \in Seq([name : Names, val : Values \union {Empty}, global : BOOLEAN])
  /\ Len(tab) <= MAXVARS
  /\ pc \in {"prompt", "process", "wait", "exit", "crashed"}
  /\ line \in AllLines
  /\ child \in {"none", "forked", "running", "zombie"}
  /\ child_info \in {-1, 0, 1}
  /\ child_env \subseteq Names \X (Values \union {Empty})
  /\ script \in Seq([kind : Kinds, rv : {0, 1}, ran : BOOLEAN])
  /\ broken \in BOOLEAN
  /\ assigned \in [Names -> Values \union {Empty}]
  /\ exported \in SUBSET Names

\* The if whose block line i is in had a condition that failed.
InFailedBlock(i) ==
  \E j, k \in Controls(script, i) :
    script[j].kind = "then" /\ script[k].kind = "if" /\ script[k].rv # 0

\* if_state and if_result, which the shell keeps from line to line, do what a
\* script says: a command in a block is run exactly when the condition of
\* that block, the one command after if, returned 0, and every other command
\* is run (or fork failed).
BlocksAsWritten ==
  \A i \in DOMAIN script :
    script[i].kind = "command" =>
      /\ script[i].ran => ~InFailedBlock(i)
      /\ script[i].ran \/ InFailedBlock(i) \/ script[i].rv # 0

\* A program gets each exported variable once, with the value it was last
\* given, and no other: however the table was filled, by the environment, by
\* assignments before or after the export, up to its last entry.
EnvironmentPassed ==
  child = "running" => child_env = {<<name, assigned[name]>> : name \in exported}
=============================================================================
