------------------------------ MODULE FileTime ------------------------------
(***************************************************************************)
(* "23 IPC": file_timeserver.c writes the time into a file once a second,  *)
(* file_timeclnt.c prints the file.  Both lock the whole file with         *)
(* fcntl(F_SETLKW): any number of readers or one writer.  The locks only   *)
(* bind those who ask for them: open(O_TRUNC) of a second server empties   *)
(* the file under the eyes of a client that has locked it.                 *)
(*                                                                         *)
(* A text is two halves, as its bytes are copied one after the other.      *)
(***************************************************************************)
EXTENDS Naturals, Sequences

CONSTANTS
  FileServers,   \* the runs of file_timeserver
  FileClients,   \* the runs of file_timeclnt
  FileRounds     \* bound: turns of a server's loop

FileAssumption == FileServers \intersect FileClients = {} /\ FileRounds \in Nat

VARIABLES
  exists,    \* the file is there
  file,      \* its halves
  lock,      \* lock[p]: the lock p holds: "none", "read" or "write"
  at,        \* at[p]: where process p is
  offset,    \* offset[p]: the position of p's descriptor, in halves
  now,       \* now[s]: the time server s has read, named by the turn of its loop
  shown,     \* shown[c]: what client c has read and printed
  locked,    \* history: locked[c]: the file when client c got its lock
  emptied    \* history: the clients in whose locked file a server was opened

serverVars == <<now>>
clientVars == <<shown, locked>>
fileVars == <<exists, file>>
vars == <<fileVars, lock, at, offset, serverVars, clientVars, emptied>>
-----------------------------------------------------------------------------
Processes == FileServers \union FileClients
Stamp(s) == <<s, now[s]>>
Zero == <<>>                      \* the bytes of a hole
GoTo(p, label) == at' = [at EXCEPT ![p] = label]

\* fcntl(F_SETLKW): p waits until no other lock is in the way.
LockOperation(p, op) ==
  /\ \A q \in Processes \ {p} : op = "read" => lock[q] # "write"
  /\ \A q \in Processes \ {p} : op = "write" => lock[q] = "none"
  /\ lock' = [lock EXCEPT ![p] = op]

PutAt(position, half) ==
  [k \in 1 .. (IF Len(file) < position THEN position ELSE Len(file)) |->
     IF k = position THEN half ELSE IF k <= Len(file) THEN file[k] ELSE Zero]
-----------------------------------------------------------------------------
(* file_timeserver.c *)

\* open(O_CREAT|O_TRUNC|O_WRONLY): no lock is asked for.  The kernel does not
\* empty a file in the middle of a write.
OpenServer(s) ==
  /\ at[s] = "start"
  /\ \A other \in FileServers : at[other] # "writing"
  /\ exists' = TRUE
  /\ file' = <<>>
  /\ emptied' = emptied \union {c \in FileClients : lock[c] = "read"}
  /\ GoTo(s, "time")
  /\ UNCHANGED <<lock, offset, serverVars, clientVars>>

\* time and ctime, before the lock
Time(s) ==
  /\ at[s] = "time"
  /\ now[s] < FileRounds
  /\ now' = [now EXCEPT ![s] = @ + 1]
  /\ GoTo(s, "lock")
  /\ UNCHANGED <<fileVars, lock, offset, clientVars, emptied>>

\* Mutant: no lseek.
ServerAppends(s) ==
  /\ at[s] = "lock"
  /\ LockOperation(s, "write")
  /\ GoTo(s, "write")
  /\ UNCHANGED <<fileVars, offset, serverVars, clientVars, emptied>>

\* F_WRLCK, then lseek to the start
ServerLocks(s) ==
  /\ at[s] = "lock"
  /\ LockOperation(s, "write")
  /\ GoTo(s, "write")
  /\ offset' = [offset EXCEPT ![s] = 0]
  /\ UNCHANGED <<fileVars, serverVars, clientVars, emptied>>

\* One write of the text: its first half, then its second.
Write(s) ==
  /\ \/ at[s] = "write" /\ GoTo(s, "writing")
     \/ at[s] = "writing" /\ GoTo(s, "unlock")
  /\ \A other \in FileServers \ {s} : at[other] # "writing"
  /\ file' = PutAt(offset[s] + 1, Stamp(s))
  /\ offset' = [offset EXCEPT ![s] = @ + 1]
  /\ UNCHANGED <<exists, lock, serverVars, clientVars, emptied>>

\* F_UNLCK, sleep(1) and the next turn
ServerUnlocks(s) ==
  /\ at[s] = "unlock"
  /\ LockOperation(s, "none")
  /\ GoTo(s, "time")
  /\ UNCHANGED <<fileVars, offset, serverVars, clientVars, emptied>>
-----------------------------------------------------------------------------
(* file_timeclnt.c *)

OpenClient(c) ==
  /\ at[c] = "start"
  /\ GoTo(c, IF exists THEN "lock" ELSE "exit")
  /\ UNCHANGED <<fileVars, lock, offset, serverVars, clientVars, emptied>>

ClientLocks(c) ==
  /\ at[c] = "lock"
  /\ LockOperation(c, "read")
  /\ locked' = [locked EXCEPT ![c] = file]
  /\ GoTo(c, "read")
  /\ UNCHANGED <<fileVars, offset, serverVars, shown, emptied>>

\* read and write(1, ...), a half at a time, until read returns 0
Read(c) ==
  /\ at[c] = "read"
  /\ IF offset[c] < Len(file)
     THEN /\ shown' = [shown EXCEPT ![c] = Append(@, file[offset[c] + 1])]
          /\ offset' = [offset EXCEPT ![c] = @ + 1]
          /\ UNCHANGED at
     ELSE GoTo(c, "unlock") /\ UNCHANGED <<shown, offset>>
  /\ UNCHANGED <<fileVars, lock, serverVars, locked, emptied>>

\* F_UNLCK, close and the end
ClientUnlocks(c) ==
  /\ at[c] = "unlock"
  /\ LockOperation(c, "none")
  /\ GoTo(c, "exit")
  /\ UNCHANGED <<fileVars, offset, serverVars, clientVars, emptied>>
-----------------------------------------------------------------------------
\* A process is killed: the kernel drops its lock.  A write is not broken off.
Kill(p) ==
  /\ at[p] \notin {"start", "writing", "exit"}
  /\ lock' = [lock EXCEPT ![p] = "none"]
  /\ GoTo(p, "exit")
  /\ UNCHANGED <<fileVars, offset, serverVars, clientVars, emptied>>

\* The file is missing, empty or holds the time of an earlier server.
Init ==
  /\ \/ exists = FALSE /\ file = <<>>
     \/ exists = TRUE /\ file = <<>>
     \/ exists = TRUE /\ file = <<Zero, Zero>>
  /\ lock = [p \in Processes |-> "none"]
  /\ at = [p \in Processes |-> "start"]
  /\ offset = [p \in Processes |-> 0]
  /\ now = [s \in FileServers |-> 0]
  /\ shown = [c \in FileClients |-> <<>>]
  /\ locked = [c \in FileClients |-> <<>>]
  /\ emptied = {}

Next ==
  \/ \E s \in FileServers :
       OpenServer(s) \/ Time(s) \/ ServerLocks(s) \/ Write(s) \/ ServerUnlocks(s)
  \/ \E c \in FileClients :
       OpenClient(c) \/ ClientLocks(c) \/ Read(c) \/ ClientUnlocks(c)
  \/ \E p \in Processes : Kill(p)

Spec == Init /\ [][Next]_vars
-----------------------------------------------------------------------------
(* Properties *)

Halves == {Zero} \union (FileServers \X (1 .. FileRounds))

\* The values the variables take; a lock of a writer is the only one.
TypeOK ==
  /\ exists \in BOOLEAN
  /\ file \in {<<>>} \union UNION {[1 .. k -> Halves] : k \in 1 .. 2}
  /\ lock \in [Processes -> {"none", "read", "write"}]
  /\ \A p, q \in Processes : lock[p] = "write" /\ q # p => lock[q] = "none"
  /\ at \in [Processes -> {"start", "time", "lock", "write", "writing", "read", "unlock", "exit"}]
  /\ offset \in [Processes -> 0 .. 2]
  /\ now \in [FileServers -> 0 .. FileRounds]
  /\ emptied \in SUBSET FileClients

\* A client prints the whole file as it was when it got its lock: nothing, when
\* no server has written since the file was made, or one time from its first
\* character to its last.  Only a server that is opened in between, which empties the
\* file without a lock, can leave the client with the first part of it.
ReadsWhatItLocked ==
  \A c \in FileClients : at[c] = "unlock" =>
    /\ locked[c] \in {<<>>} \union {<<half, half>> : half \in Halves}
    /\ shown[c] = locked[c] \/ (c \in emptied /\ shown[c] = SubSeq(locked[c], 1, Len(shown[c])))
=============================================================================
