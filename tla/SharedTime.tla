----------------------------- MODULE SharedTime -----------------------------
(***************************************************************************)
(* "23 IPC": shm_timeserver2.c writes the time into a System V shared      *)
(* memory segment, shm_timeclnt2.c prints it.  Two semaphores keep them    *)
(* apart: sem[0] counts the readers, sem[1] the writers; a writer waits    *)
(* until sem[0] is 0 and adds 1 to sem[1] in ONE semop, a reader the other *)
(* way round.  Both objects are found by key, outlive the processes, and   *)
(* are removed by cleanup(), which SIGINT calls as well.  SEM_UNDO makes   *)
(* the kernel take back the operations of a process that ends.             *)
(*                                                                         *)
(* The text in the segment is two halves: strcpy and printf are not atomic. *)
(***************************************************************************)
EXTENDS Integers, FiniteSets

CONSTANTS
  Servers,      \* the runs of shm_timeserver2; each is started once
  Clients,      \* the runs of shm_timeclnt2
  Rounds,       \* turns of the server's loop; 60 in the code
  MaxStarted,   \* bound: how many of them are started
  None          \* no segment, no semaphore set

ASSUME SharedTimeAssumption ==
  /\ Servers \intersect Clients = {}
  /\ IsFiniteSet(Clients)
  /\ None \notin Servers
  /\ Rounds \in Nat \ {0}

VARIABLES
  \* The kernel.  A segment and a semaphore set are named by the server that
  \* created them: no server creates two.
  segment,      \* segment[s]: "none", "live" (its key finds it), "removed"
  mem,          \* mem[s]: the two halves of the text in segment s
  semset,       \* semset[s]: "none", "live" or "removed"
  n_readers,    \* n_readers[s]: sem[0] of set s
  n_writers,    \* n_writers[s]: sem[1] of set s
  semadj,       \* semadj[p]: what the kernel adds to p's semaphore when p ends
  \* The processes.
  pc,
  seg_id,       \* seg_id[p]: the segment p has found
  semset_id,    \* semset_id[p]: the set p has found; None: semget returned -1
  n,            \* n[s]: the server's loop counter
  handler,      \* handler[s]: where cleanup is, when SIGINT called it; else "idle"
  text,         \* text[c]: the two halves the client has printed
  interrupted,  \* history: the servers SIGINT has reached
  cut,          \* history: the times whose strcpy a signal ended half-way
  early         \* history: the sets a client locked before they were set to 0

kernelVars == <<segment, mem, semset, n_readers, n_writers, semadj>>
serverVars == <<n, handler, interrupted, cut, early>>
memoryVars == <<seg_id, semset_id, text>>
vars == <<kernelVars, serverVars, pc, memoryVars>>
-----------------------------------------------------------------------------
Processes == Servers \union Clients
Blank == <<None, 0, None>>            \* a fresh segment is zero bytes
Stamp(s) == <<s, n[s], semset_id[s]>> \* ctime(&now) of this turn of the loop; who
                                      \* wrote it, behind which semaphores

\* The runs of a program are alike: they are started in one order.
Started == {p \in Processes : pc[p] # "new"}
MayStart(p, runs) ==
  /\ p \notin Started
  /\ p = CHOOSE q \in runs : q \notin Started
  /\ Cardinality(Started) < MaxStarted

Running(p) == pc[p] \notin {"new", "exit"}
LiveSegments == {s \in Servers : segment[s] = "live"}
LiveSets == {s \in Servers : semset[s] = "live"}

\* A removed segment lasts as long as a process is attached to it.
Attached(p, s) == Running(p) /\ seg_id[p] = s /\ pc[p] # "shmat"
Usable(s) == segment[s] = "live" \/ \E p \in Processes : Attached(p, s)

GoTo(p, label) == pc' = [pc EXCEPT ![p] = label]

\* The semaphore a process operates on: its own side's counter.
Undone(count, p) ==
  IF semset_id[p] = None \/ semadj[p] = 0 THEN count
  ELSE [count EXCEPT ![semset_id[p]] = IF @ + semadj[p] < 0 THEN 0 ELSE @ + semadj[p]]

\* exit, oops or a fatal signal: the kernel applies semadj, and the memory of
\* the process is gone.
Exit(p) ==
  /\ GoTo(p, "exit")
  /\ semadj' = [semadj EXCEPT ![p] = 0]
  /\ n_readers' = IF p \in Clients THEN Undone(n_readers, p) ELSE n_readers
  /\ n_writers' = IF p \in Servers THEN Undone(n_writers, p) ELSE n_writers
  /\ seg_id' = [seg_id EXCEPT ![p] = None]
  /\ semset_id' = [semset_id EXCEPT ![p] = None]
  /\ text' = IF p \in Clients THEN [text EXCEPT ![p] = <<Blank, Blank>>] ELSE text

\* semop on a set that does not exist, or is removed while p waits, fails: oops.
SemopFails(p) ==
  /\ IF semset_id[p] = None THEN TRUE ELSE semset[semset_id[p]] # "live"
  /\ Exit(p)

Unremoved == UNCHANGED <<segment, mem, semset>>
-----------------------------------------------------------------------------
(* shm_timeserver2.c *)

\* The server's main runs unless the handler does.
ServerAt(s, label) == pc[s] = label /\ handler[s] = "idle"

\* shmget(TIME_MEM_KEY, IPC_CREAT): finds the segment or creates one.
Shmget(s) ==
  /\ MayStart(s, Servers)
  /\ \/ /\ LiveSegments # {}
        /\ \E old \in LiveSegments : seg_id' = [seg_id EXCEPT ![s] = old]
        /\ UNCHANGED <<segment, mem>>
     \/ /\ LiveSegments = {}
        /\ seg_id' = [seg_id EXCEPT ![s] = s]
        /\ segment' = [segment EXCEPT ![s] = "live"]
        /\ mem' = [mem EXCEPT ![s] = <<Blank, Blank>>]
  /\ GoTo(s, "shmat")
  /\ UNCHANGED <<semset, n_readers, n_writers, semadj, semset_id, serverVars, text>>

Shmat(p, next) ==
  /\ pc[p] = "shmat"
  /\ \/ /\ Usable(seg_id[p])
        /\ GoTo(p, next)
        /\ UNCHANGED <<n_readers, n_writers, semadj>>
        /\ UNCHANGED memoryVars
     \/ /\ ~Usable(seg_id[p])
        /\ Exit(p)
  /\ Unremoved
  /\ UNCHANGED serverVars

\* semget(TIME_SEM_KEY, 2, IPC_CREAT|IPC_EXCL): another server's set is an error.
Semget(s) ==
  /\ ServerAt(s, "semget")
  /\ \/ /\ LiveSets = {}
        /\ semset' = [semset EXCEPT ![s] = "live"]
        /\ semset_id' = [semset_id EXCEPT ![s] = s]
        /\ GoTo(s, "set_readers")
        /\ UNCHANGED <<n_readers, n_writers, semadj, seg_id, text>>
     \/ /\ LiveSets # {}
        /\ Exit(s)
        /\ UNCHANGED semset
  /\ UNCHANGED <<segment, mem, serverVars>>

\* SETVAL also forgets what the processes of one side would undo.  (It cannot
\* fail: only the server that created the set removes it.)
Forget(side, s) ==
  semadj' = [p \in Processes |->
               IF p \in side /\ semset_id[p] = semset_id[s] THEN 0 ELSE semadj[p]]

\* set_sem_value(semset_id,0,0)
SetReaders(s) ==
  /\ ServerAt(s, "set_readers")
  /\ n_readers' = [n_readers EXCEPT ![semset_id[s]] = 0]
  /\ Forget(Clients, s)
  /\ GoTo(s, "set_writers")
  /\ Unremoved
  /\ UNCHANGED <<n_writers, serverVars, memoryVars>>

\* set_sem_value(semset_id,1,0) and signal(SIGINT, cleanup)
SetWriters(s) ==
  /\ ServerAt(s, "set_writers")
  /\ n_writers' = [n_writers EXCEPT ![semset_id[s]] = 0]
  /\ Forget(Servers, s)
  /\ GoTo(s, "lock")
  /\ Unremoved
  /\ UNCHANGED <<n_readers, serverVars, memoryVars>>

\* Mutant: the server only counts itself, it does not wait for the readers.
ServerLockNoWait(s) ==
  /\ ServerAt(s, "lock")
  /\ \/ /\ semset[semset_id[s]] = "live"
        /\ n_writers' = [n_writers EXCEPT ![semset_id[s]] = @ + 1]
        /\ semadj' = [semadj EXCEPT ![s] = @ - 1]
        /\ GoTo(s, "strcpy1")
        /\ UNCHANGED n_readers
        /\ UNCHANGED memoryVars
     \/ SemopFails(s)
  /\ Unremoved
  /\ UNCHANGED serverVars

\* Mutant: without SEM_UNDO.
ServerLockNoUndo(s) ==
  /\ ServerAt(s, "lock")
  /\ \/ /\ semset[semset_id[s]] = "live"
        /\ n_readers[semset_id[s]] = 0
        /\ n_writers' = [n_writers EXCEPT ![semset_id[s]] = @ + 1]
        /\ GoTo(s, "strcpy1")
        /\ UNCHANGED <<n_readers, semadj>>
        /\ UNCHANGED memoryVars
     \/ SemopFails(s)
  /\ Unremoved
  /\ UNCHANGED serverVars

\* wait_and_lock: both operations of the semop or none.
ServerLock(s) ==
  /\ ServerAt(s, "lock")
  /\ \/ /\ semset[semset_id[s]] = "live"
        /\ n_readers[semset_id[s]] = 0
        /\ n_writers' = [n_writers EXCEPT ![semset_id[s]] = @ + 1]
        /\ semadj' = [semadj EXCEPT ![s] = @ - 1]
        /\ GoTo(s, "strcpy1")
        /\ UNCHANGED n_readers
        /\ UNCHANGED memoryVars
     \/ SemopFails(s)
  /\ Unremoved
  /\ UNCHANGED serverVars

\* strcpy(mem_ptr, ctime(&now)), half by half.
Strcpy(s) ==
  /\ \/ /\ ServerAt(s, "strcpy1")
        /\ mem' = [mem EXCEPT ![seg_id[s]][1] = Stamp(s)]
        /\ GoTo(s, "strcpy2")
     \/ /\ ServerAt(s, "strcpy2")
        /\ mem' = [mem EXCEPT ![seg_id[s]][2] = Stamp(s)]
        /\ GoTo(s, "unlock")
  /\ UNCHANGED <<segment, semset, n_readers, n_writers, semadj, serverVars,
                 memoryVars>>

\* sleep(5) and release_lock.
ServerUnlock(s) ==
  /\ ServerAt(s, "unlock")
  /\ \/ /\ semset[semset_id[s]] = "live"
        /\ n_writers[semset_id[s]] > 0
        /\ n_writers' = [n_writers EXCEPT ![semset_id[s]] = @ - 1]
        /\ semadj' = [semadj EXCEPT ![s] = @ + 1]
        /\ GoTo(s, "sleep")
        /\ UNCHANGED n_readers
        /\ UNCHANGED memoryVars
     \/ SemopFails(s)
  /\ Unremoved
  /\ UNCHANGED serverVars

\* Mutant: n<=60.
NextRoundOneMore(s) ==
  /\ ServerAt(s, "sleep")
  /\ n' = [n EXCEPT ![s] = @ + 1]
  /\ GoTo(s, IF n[s] + 1 <= Rounds THEN "lock" ELSE "rm_segment")
  /\ UNCHANGED <<kernelVars, handler, interrupted, cut, early, memoryVars>>

\* sleep(1), n++ and the test of the loop.
NextRound(s) ==
  /\ ServerAt(s, "sleep")
  /\ n' = [n EXCEPT ![s] = @ + 1]
  /\ GoTo(s, IF n[s] + 1 < Rounds THEN "lock" ELSE "rm_segment")
  /\ UNCHANGED <<kernelVars, handler, interrupted, cut, early, memoryVars>>

\* The two calls of cleanup; both fail harmlessly on what is removed already.
RemoveSegment(s) == segment' = [segment EXCEPT ![seg_id[s]] = "removed"]

RemoveSet(s) == semset' = [semset EXCEPT ![semset_id[s]] = "removed"]

\* cleanup(0) after the loop.
Cleanup(s) ==
  \/ /\ ServerAt(s, "rm_segment")
     /\ RemoveSegment(s)
     /\ GoTo(s, "rm_set")
     /\ UNCHANGED <<mem, semset, n_readers, n_writers, semadj, serverVars, memoryVars>>
  \/ /\ ServerAt(s, "rm_set")
     /\ RemoveSet(s)
     /\ Exit(s)
     /\ UNCHANGED <<segment, mem, serverVars>>

\* SIGINT, once the handler is installed.
Interrupt(s) ==
  /\ pc[s] \in {"lock", "strcpy1", "strcpy2", "unlock", "sleep", "rm_segment", "rm_set"}
  /\ handler[s] = "idle"
  /\ s \notin interrupted
  /\ handler' = [handler EXCEPT ![s] = "rm_segment"]
  /\ interrupted' = interrupted \union {s}
  /\ UNCHANGED <<kernelVars, n, cut, early, pc, memoryVars>>

\* The handler is cleanup, and returns to main.
Handler(s) ==
  /\ \/ /\ handler[s] = "rm_segment"
        /\ RemoveSegment(s)
        /\ handler' = [handler EXCEPT ![s] = "rm_set"]
        /\ UNCHANGED semset
     \/ /\ handler[s] = "rm_set"
        /\ RemoveSet(s)
        /\ handler' = [handler EXCEPT ![s] = "idle"]
        /\ UNCHANGED segment
  /\ UNCHANGED <<mem, n_readers, n_writers, semadj, n, interrupted, cut, early, pc, memoryVars>>
-----------------------------------------------------------------------------
(* shm_timeclnt2.c *)

ClientShmget(c) ==
  /\ MayStart(c, Clients)
  /\ \/ /\ \E s \in LiveSegments : seg_id' = [seg_id EXCEPT ![c] = s]
        /\ GoTo(c, "shmat")
     \/ /\ LiveSegments = {}
        /\ GoTo(c, "exit")
        /\ UNCHANGED seg_id
  /\ UNCHANGED <<kernelVars, serverVars, semset_id, text>>

\* The sets whose semaphores are about to be set to 0.
Uninitialised == {s \in LiveSets : pc[s] \in {"set_readers", "set_writers"}}

\* semget(TIME_SEM_KEY, 2, 0): the result is not checked.
ClientSemget(c) ==
  /\ pc[c] = "semget"
  /\ \/ \E s \in LiveSets : semset_id' = [semset_id EXCEPT ![c] = s]
     \/ LiveSets = {} /\ UNCHANGED semset_id
  /\ GoTo(c, "lock")
  /\ UNCHANGED <<kernelVars, serverVars, seg_id, text>>

\* wait_and_lock
ClientLock(c) ==
  /\ pc[c] = "lock"
  /\ \/ /\ semset_id[c] # None
        /\ semset[semset_id[c]] = "live"
        /\ n_writers[semset_id[c]] = 0
        /\ n_readers' = [n_readers EXCEPT ![semset_id[c]] = @ + 1]
        /\ semadj' = [semadj EXCEPT ![c] = @ - 1]
        /\ GoTo(c, "print1")
        /\ early' = early \union ({semset_id[c]} \intersect Uninitialised)
        /\ UNCHANGED n_writers
        /\ UNCHANGED memoryVars
     \/ SemopFails(c) /\ UNCHANGED early
  /\ Unremoved
  /\ UNCHANGED <<n, handler, interrupted, cut>>

\* printf("...%s\n", mem_ptr), half by half.
Printf(c) ==
  /\ \/ /\ pc[c] = "print1"
        /\ text' = [text EXCEPT ![c][1] = mem[seg_id[c]][1]]
        /\ GoTo(c, "print2")
     \/ /\ pc[c] = "print2"
        /\ text' = [text EXCEPT ![c][2] = mem[seg_id[c]][2]]
        /\ GoTo(c, "unlock")
  /\ UNCHANGED <<kernelVars, serverVars, seg_id, semset_id>>

\* release_lock
ClientUnlock(c) ==
  /\ pc[c] = "unlock"
  /\ \/ /\ semset[semset_id[c]] = "live"
        /\ n_readers[semset_id[c]] > 0
        /\ n_readers' = [n_readers EXCEPT ![semset_id[c]] = @ - 1]
        /\ semadj' = [semadj EXCEPT ![c] = @ + 1]
        /\ GoTo(c, "shmdt")
        /\ UNCHANGED n_writers
        /\ UNCHANGED memoryVars
     \/ SemopFails(c)
  /\ Unremoved
  /\ UNCHANGED serverVars

\* shmdt and return
ClientReturn(c) ==
  /\ pc[c] = "shmdt"
  /\ Exit(c)
  /\ Unremoved
  /\ UNCHANGED serverVars
-----------------------------------------------------------------------------
\* A signal without a handler ends the process.
Kill(p) ==
  /\ Running(p)
  /\ Exit(p)
  /\ handler' = IF p \in Servers THEN [handler EXCEPT ![p] = "idle"] ELSE handler
  /\ cut' = IF p \in Servers /\ pc[p] = "strcpy2" THEN cut \union {Stamp(p)} ELSE cut
  /\ Unremoved
  /\ UNCHANGED <<n, interrupted, early>>

Init ==
  /\ segment = [s \in Servers |-> "none"]
  /\ mem = [s \in Servers |-> <<Blank, Blank>>]
  /\ semset = [s \in Servers |-> "none"]
  /\ n_readers = [s \in Servers |-> 0]
  /\ n_writers = [s \in Servers |-> 0]
  /\ semadj = [p \in Processes |-> 0]
  /\ pc = [p \in Processes |-> "new"]
  /\ seg_id = [p \in Processes |-> None]
  /\ semset_id = [p \in Processes |-> None]
  /\ n = [s \in Servers |-> 0]
  /\ handler = [s \in Servers |-> "idle"]
  /\ text = [c \in Clients |-> <<Blank, Blank>>]
  /\ interrupted = {}
  /\ cut = {}
  /\ early = {}

ServerSteps(s) ==
  \/ (handler[s] = "idle" /\ Shmat(s, "semget"))
  \/ Semget(s) \/ SetReaders(s) \/ SetWriters(s)
  \/ ServerLock(s) \/ Strcpy(s) \/ ServerUnlock(s) \/ NextRound(s)
  \/ Cleanup(s) \/ Handler(s)

ClientSteps(c) ==
  \/ Shmat(c, "semget") \/ ClientSemget(c)
  \/ ClientLock(c) \/ Printf(c) \/ ClientUnlock(c) \/ ClientReturn(c)

Next ==
  \/ \E s \in Servers : Shmget(s) \/ ServerSteps(s) \/ Interrupt(s)
  \/ \E c \in Clients : ClientShmget(c) \/ ClientSteps(c)
  \/ \E p \in Processes : Kill(p)

Spec == Init /\ [][Next]_vars

\* Every process that can run does.  A process that waits in semop is resumed
\* by the semop that makes its own possible, so it is not overtaken (SF).
Fairness ==
  /\ \A s \in Servers : WF_vars(ServerSteps(s))
  /\ \A c \in Clients : SF_vars(ClientSteps(c))

FairSpec == Spec /\ Fairness
-----------------------------------------------------------------------------
(* Properties *)

ServerLabels ==
  {"new", "shmat", "semget", "set_readers", "set_writers", "lock", "strcpy1", "strcpy2",
   "unlock", "sleep", "rm_segment", "rm_set", "exit"}
ClientLabels == {"new", "shmat", "semget", "lock", "print1", "print2", "unlock", "shmdt", "exit"}
Texts == ({None} \union Servers) \X (0 .. Rounds) \X ({None} \union Servers)

\* The values the variables take; semadj stays between -1 and 1.
TypeOK ==
  /\ segment \in [Servers -> {"none", "live", "removed"}]
  /\ mem \in [Servers -> Texts \X Texts]
  /\ semset \in [Servers -> {"none", "live", "removed"}]
  /\ n_readers \in [Servers -> 0 .. Cardinality(Clients)]
  /\ n_writers \in [Servers -> 0 .. 1]
  /\ semadj \in [Processes -> -1 .. 1]
  /\ pc \in [Processes -> ServerLabels \union ClientLabels]
  /\ seg_id \in [Processes -> Servers \union {None}]
  /\ semset_id \in [Processes -> Servers \union {None}]
  /\ n \in [Servers -> 0 .. Rounds]
  /\ handler \in [Servers -> {"idle", "rm_segment", "rm_set"}]
  /\ text \in [Clients -> Texts \X Texts]
  /\ interrupted \in SUBSET Servers
  /\ cut \in SUBSET Texts
  /\ early \in SUBSET Servers

Reading(c) == pc[c] \in {"print1", "print2", "unlock"}
Writing(s) == pc[s] \in {"strcpy1", "strcpy2", "unlock"}

\* The comment at shm_timeserver2.c:31, "sem[0] is n_readers" (and :35, "sem[1]
\* is n_writers"): the counts of a live set are the processes between their
\* lock and their release, whoever was killed in between.  (A client that has
\* locked between semget, line 64, and SETVAL, lines 68-69, is forgotten.)
SemaphoresCount ==
  \A s \in (LiveSets \ Uninitialised) \ early :
    /\ n_readers[s] = Cardinality({c \in Clients : Reading(c) /\ semset_id[c] = s})
    /\ n_writers[s] = Cardinality({w \in Servers : Writing(w) /\ semset_id[w] = s})

\* The comment at shm_timeserver2.c:33, "wait til no readers": no client is
\* between its lock and its release while a server that uses the same
\* semaphores is, even when cleanup removes them meanwhile.
ReadersExcludeWriter ==
  \A s \in Servers, c \in Clients :
    semset_id[s] = semset_id[c] /\ semset_id[c] \notin early => ~(Writing(s) /\ Reading(c))

\* A client prints one time, never half of one and half of another, unless a
\* fatal signal hit a server inside strcpy, which leaves half a text while
\* SEM_UNDO opens the lock.  It takes that the client uses the semaphores of the
\* servers that wrote what it reads: cleanup removes the segment and the set one
\* after the other, and who comes in between finds two that do not belong
\* together.
NoTornText ==
  \A c \in Clients :
    LET times == {text[c][1], text[c][2]} IN
      /\ pc[c] \in {"unlock", "shmdt"}
      /\ times \intersect cut = {}
      /\ \A t \in times \ {Blank} : t[3] = semset_id[c]
      /\ semset_id[c] \notin early
      => text[c][1] = text[c][2]

\* A process that waits for the other side's semaphore gets the lock, or an error
\* and ends, whoever is killed or removes the semaphores meanwhile.  Unless a
\* client locked early: its release then waits for a count that SETVAL has
\* reset, and its undo leaves the count above 0.
NobodyWaitsForEver ==
  \A p \in Processes : pc[p] = "lock" ~> (pc[p] # "lock" \/ semset_id[p] \in early)
=============================================================================
