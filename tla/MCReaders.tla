------------------------------ MODULE MCReaders ------------------------------
(***************************************************************************)
(* Three small systems in which one process reads what others write: the   *)
(* pipes of chapters 15 and 16, the file clock with record locks and the   *)
(* list of logins.  They have nothing in common: a behaviour chooses one.  *)
(***************************************************************************)
EXTENDS Pipes

CONSTANTS FileServers, FileClients, FileRounds   \* see FileTime
CONSTANTS NRECS, MaxRecords, MaxChanges          \* see Who

VARIABLES exists, file, lock, at, offset, now, shown, locked, emptied
VARIABLES who, utmp, changes, where, position, utmpbuf, copied, cur_rec, num_recs,
          seen, opened, failed
VARIABLE system    \* the system that runs

clockVars == <<exists, file, lock, at, offset, now, shown, locked, emptied>>
loginVars ==
  <<who, utmp, changes, where, position, utmpbuf, copied, cur_rec, num_recs, seen, opened, failed>>

FileClock == INSTANCE FileTime
Logins == INSTANCE Who

ASSUME ReadersAssumption == FileClock!FileAssumption /\ Logins!LoginAssumption

AllInit ==
  /\ system \in {"pipes", "file", "who"}
  /\ Init /\ FileClock!Init /\ Logins!Init
  /\ system # "pipes" => program = "pipe"
  /\ system # "file" => ~exists
  /\ system # "who" => who = "who2" /\ utmp = <<>>

Runs(name) == system = name /\ UNCHANGED system

AllNext ==
  \/ Runs("pipes") /\ Next /\ UNCHANGED <<clockVars, loginVars>>
  \/ Runs("file") /\ FileClock!Next /\ UNCHANGED <<vars, loginVars>>
  \/ Runs("who") /\ Logins!Next /\ UNCHANGED <<vars, clockVars>>

AllSpec ==
  /\ AllInit
  /\ [][AllNext]_<<system, vars, clockVars, loginVars>>
  /\ WF_vars(Runs("pipes") /\ ParentSteps)
  /\ WF_vars(Runs("pipes") /\ ChildSteps)

\* The values of all variables.
AllTypeOK == TypeOK /\ FileClock!TypeOK /\ Logins!TypeOK

\* Each reader gets what the others have written, as it was meant: the answer of
\* the calculator behind its question and the whole output of a command, the
\* time as it was when the file was locked, and every login in order.
ReadersSeeWhatIsThere ==
  /\ ReadsWhatWasMeant
  /\ FileClock!ReadsWhatItLocked
  /\ Logins!ShowsEveryRecord
=============================================================================
