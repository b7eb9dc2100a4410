------------------------------- MODULE MCSmsh -------------------------------
(***************************************************************************)
(* Instances for TLC of the two parts of the shell, as the line between    *)
(* them is abstract: how its characters are read and cut into words        *)
(* (SplitLine), and what is done with its words (Smsh).  A behaviour is of *)
(* one of the two.                                                         *)
(***************************************************************************)
EXTENDS Smsh, TLC

CONSTANTS BUFSIZ, SPOTS, MaxLength      \* see SplitLine

VARIABLES phase, buf, bufspace, args, spots, cp, start
VARIABLE part                           \* "words" or "commands"

splitVars == <<phase, buf, bufspace, args, spots, cp, start>>

Reader == INSTANCE SplitLine

ASSUME ReaderAssumption == Reader!BufferAssumption

NameSymmetry == Permutations(Names)

Line(ifs, cmd) == [ifs |-> ifs, cmd |-> cmd]
Program == [op |-> "program"]
Fi == [op |-> "fi"]

\* Every command; the control words, also where they do not belong.
SomeLines ==
  {Line(0, cmd) : cmd \in Commands \union ControlWords \union {Blank}} \union
  {Line(1, cmd) : cmd \in {Program, Fi, [op |-> "set"], [op |-> "export_bad"]}} \union
  {Line(2, Program)}

AllInit ==
  /\ part \in {"words", "commands"}
  /\ Init /\ Reader!Init
  /\ part = "words" => tab = <<>>

AllNext ==
  /\ UNCHANGED part
  /\ \/ part = "commands" /\ Next /\ UNCHANGED splitVars
     \/ part = "words" /\ Reader!Next /\ UNCHANGED vars

AllSpec == AllInit /\ [][AllNext]_<<part, vars, splitVars>>

\* The values of all variables.
AllTypeOK == TypeOK /\ Reader!TypeOK

\* The words of each line are found, and nothing is stored out of bounds.
CommandLineRead == Reader!CommandLineRead
=============================================================================
