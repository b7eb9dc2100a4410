-------------------------------- MODULE Who --------------------------------
(***************************************************************************)
(* "02 who": who2.c reads the file of logins record by record; who3.c     *)
(* takes its records from utmplib.c, which reads NRECS of them at a time   *)
(* into utmpbuf.  Meanwhile login and logout write records: one is         *)
(* changed in its place or added at the end, without a lock.               *)
(*                                                                         *)
(* The value of a record is the number of times it has been written.  The  *)
(* read of a buffer copies record after record.                            *)
(***************************************************************************)
EXTENDS Integers, Sequences

CONSTANTS
  NRECS,        \* records utmpbuf holds; 16 in the code
  MaxRecords,   \* bound: records in the file
  MaxChanges    \* bound: records written while the program runs

LoginAssumption == NRECS \in Nat \ {0} /\ MaxRecords \in Nat /\ MaxChanges \in Nat

VARIABLES
  who,        \* the program that runs
  utmp,       \* the file
  changes,    \* records written so far, for the bound
  where,      \* where the program is
  position,   \* the position of fd_utmp, in records
  utmpbuf,    \* the buffer
  copied,     \* records the read in progress has copied
  cur_rec,
  num_recs,
  seen,       \* the records show_info got
  opened,     \* history: the file when it was opened
  failed      \* history: the open or a read has failed

bufferVars == <<utmpbuf, copied, cur_rec, num_recs>>
fileVars == <<utmp, changes>>
vars == <<who, fileVars, where, position, bufferVars, seen, opened, failed>>
-----------------------------------------------------------------------------
Unwritten == -1                  \* the zeros of a static buffer
Huge == -1                       \* amt_read / UTSIZE for amt_read = -1: a number
                                 \* cur_rec does not reach

\* login or logout writes a record.
LoginWrites ==
  /\ changes < MaxChanges
  /\ \/ \E i \in DOMAIN utmp : utmp' = [utmp EXCEPT ![i] = @ + 1]
     \/ Len(utmp) < MaxRecords /\ utmp' = Append(utmp, 0)
  /\ changes' = changes + 1
  /\ UNCHANGED <<who, where, position, bufferVars, seen, opened, failed>>

\* utmp_open, or the open of who2, which may fail
UtmpOpen ==
  /\ where = "open"
  /\ opened' = utmp
  /\ cur_rec' = 0 /\ num_recs' = 0
  /\ \/ where' = "next" /\ UNCHANGED failed
     \/ where' = "exit" /\ failed' = TRUE
  /\ UNCHANGED <<who, fileVars, position, utmpbuf, copied, seen>>

\* who2: read of one record, and show_info.  A read that returns less, or -1,
\* ends the loop.
ReadRecord ==
  /\ who = "who2" /\ where = "next"
  /\ IF position < Len(utmp)
     THEN /\ seen' = Append(seen, utmp[position + 1])
          /\ position' = position + 1
          /\ UNCHANGED where
     ELSE where' = "exit" /\ UNCHANGED <<seen, position>>
  /\ UNCHANGED <<who, fileVars, bufferVars, opened, failed>>

ReadRecordFails ==
  /\ who = "who2" /\ where = "next"
  /\ failed' = TRUE
  /\ where' = "exit"
  /\ UNCHANGED <<who, fileVars, position, bufferVars, seen, opened>>

\* utmp_next while the buffer holds a record, and show_info.  After a read that
\* failed it goes on behind the end of utmpbuf, where the program crashes sooner
\* or later.
UtmpNext ==
  /\ who = "who3" /\ where = "next"
  /\ cur_rec # num_recs
  /\ IF cur_rec < NRECS
     THEN /\ seen' = Append(seen, utmpbuf[cur_rec + 1])
          /\ cur_rec' = cur_rec + 1
          /\ UNCHANGED where
     ELSE where' = "crashed" /\ UNCHANGED <<seen, cur_rec>>
  /\ UNCHANGED <<who, fileVars, position, utmpbuf, copied, num_recs, opened, failed>>

\* Mutant: the buffer is read again when its last record has not been shown.
ReloadStartsEarly ==
  /\ who = "who3" /\ where = "next"
  /\ cur_rec = num_recs \/ cur_rec = num_recs - 1
  /\ copied' = 0
  /\ where' = "reload"
  /\ UNCHANGED <<who, fileVars, position, utmpbuf, cur_rec, num_recs, seen, opened, failed>>

\* utmp_next calls utmp_reload.
ReloadStarts ==
  /\ who = "who3" /\ where = "next"
  /\ cur_rec = num_recs
  /\ copied' = 0
  /\ where' = "reload"
  /\ UNCHANGED <<who, fileVars, position, utmpbuf, cur_rec, num_recs, seen, opened, failed>>

\* The read copies one record more.
ReloadCopies ==
  /\ where = "reload"
  /\ copied < NRECS /\ position < Len(utmp)
  /\ utmpbuf' = [utmpbuf EXCEPT ![copied + 1] = utmp[position + 1]]
  /\ copied' = copied + 1
  /\ position' = position + 1
  /\ UNCHANGED <<who, fileVars, where, cur_rec, num_recs, seen, opened, failed>>

\* The read ends, when the buffer is full or at the end of the file; with no
\* record utmp_next returns NULLUT, and main closes the file.
ReloadEnds ==
  /\ where = "reload"
  /\ copied = NRECS \/ position >= Len(utmp)
  /\ num_recs' = copied
  /\ cur_rec' = 0
  /\ where' = IF copied = 0 THEN "exit" ELSE "next"
  /\ UNCHANGED <<who, fileVars, position, utmpbuf, copied, seen, opened, failed>>

\* read returns -1.
ReloadFails ==
  /\ where = "reload" /\ copied = 0
  /\ num_recs' = Huge
  /\ cur_rec' = 0
  /\ where' = "next"
  /\ failed' = TRUE
  /\ UNCHANGED <<who, fileVars, position, utmpbuf, copied, seen, opened>>

Init ==
  /\ who \in {"who2", "who3"}
  /\ \E k \in 0 .. MaxRecords : utmp = [i \in 1 .. k |-> 0]
  /\ changes = 0
  /\ where = "open"
  /\ position = 0
  /\ utmpbuf = [i \in 1 .. NRECS |-> Unwritten]
  /\ copied = 0
  /\ cur_rec = 0 /\ num_recs = 0
  /\ seen = <<>>
  /\ opened = <<>>
  /\ failed = FALSE

Next ==
  \/ LoginWrites \/ UtmpOpen \/ ReadRecord \/ ReadRecordFails
  \/ UtmpNext \/ ReloadStarts \/ ReloadCopies \/ ReloadEnds \/ ReloadFails

Spec == Init /\ [][Next]_vars
-----------------------------------------------------------------------------
(* Properties *)

Values == 0 .. MaxChanges

\* The values the variables take; without a failure cur_rec never passes
\* num_recs, and only what a read has filled is used.
TypeOK ==
  /\ who \in {"who2", "who3"}
  /\ Len(utmp) <= MaxRecords /\ \A i \in DOMAIN utmp : utmp[i] \in Values
  /\ changes \in 0 .. MaxChanges
  /\ where \in {"open", "next", "reload", "exit", "crashed"}
  /\ position \in 0 .. Len(utmp)
  /\ utmpbuf \in [1 .. NRECS -> Values \union {Unwritten}]
  /\ copied \in 0 .. NRECS
  /\ num_recs \in 0 .. NRECS \union {Huge}
  /\ cur_rec \in 0 .. NRECS
  /\ ~failed => where # "crashed" /\ cur_rec <= num_recs

\* Unless the open or a read fails, show_info gets the records of the file in their order,
\* none twice and none left out: the i-th is record i as it was at some moment
\* since the program opened the file, and when the program ends it has shown
\* every record that was there at the start.
ShowsEveryRecord ==
  ~failed =>
    /\ \A i \in DOMAIN seen :
         /\ i \in DOMAIN utmp /\ seen[i] \in 0 .. utmp[i]
         /\ i \in DOMAIN opened => seen[i] >= opened[i]
    /\ where = "exit" => Len(seen) >= Len(opened)
=============================================================================
