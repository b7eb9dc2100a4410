-------------------------- MODULE SharedTimeProofs --------------------------
(***************************************************************************)
(* The semaphores of "23 IPC" count the processes that are behind them, and *)
(* keep readers and writer apart, for every number of servers and clients  *)
(* that are started, interrupted and killed at any time.                   *)
(***************************************************************************)
EXTENDS SharedTime, FiniteSetTheorems, TLAPS

\* What main does with the set its server has created; SIGINT is caught then.
Setting == {"set_readers", "set_writers"}
Working == {"lock", "strcpy1", "strcpy2", "unlock", "sleep", "rm_segment", "rm_set"}

Readers(s) == {c \in Clients : Reading(c) /\ semset_id[c] = s}

\* The values that the semaphores depend on.  The bounds of the counts are
\* part of what is to be shown.
SemTypes ==
  /\ semset \in [Servers -> {"none", "live", "removed"}]
  /\ n_readers \in [Servers -> Int]
  /\ n_writers \in [Servers -> Int]
  /\ semadj \in [Processes -> Int]
  /\ pc \in [Processes -> ServerLabels \union ClientLabels]
  /\ semset_id \in [Processes -> Servers \union {None}]
  /\ handler \in [Servers -> {"idle", "rm_segment", "rm_set"}]
  /\ early \in SUBSET Servers

\* A server uses the set it has created, and only that server removes it.
OwnSet ==
  \A s \in Servers :
    /\ pc[s] \in Setting \union Working \union {"new", "shmat", "semget", "exit"}
    /\ pc[s] \in {"new", "shmat", "semget"} => semset[s] = "none"
    /\ pc[s] \in Setting => semset[s] = "live"
    /\ pc[s] \in Working => semset[s] # "none"
    /\ semset_id[s] = IF pc[s] \in Setting \union Working THEN s ELSE None
    /\ handler[s] # "idle" => pc[s] \in Working

\* A client uses a set that has been created, from semget on.
FoundSet ==
  \A c \in Clients :
    /\ pc[c] \in {"new", "shmat", "semget"} => semset_id[c] = None
    /\ Reading(c) => semset_id[c] # None
    /\ semset_id[c] # None => semset[semset_id[c]] # "none"

\* What SEM_UNDO takes back is what the process has done.
Adjusted ==
  /\ \A s \in Servers : semadj[s] = IF Writing(s) THEN -1 ELSE 0
  /\ \A c \in Clients : semset_id[c] \notin early => semadj[c] = IF Reading(c) THEN -1 ELSE 0

\* While a set can be used its semaphores count; the set that nobody locked early
\* has no reader before SETVAL.
Counted ==
  \A s \in Servers :
    /\ semset[s] # "removed" => n_writers[s] = IF Writing(s) THEN 1 ELSE 0
    /\ semset[s] # "removed" /\ s \notin early => n_readers[s] = Cardinality(Readers(s))
    /\ pc[s] \in Setting /\ s \notin early => Readers(s) = {}

SemInv == SemTypes /\ OwnSet /\ FoundSet /\ Adjusted /\ Counted /\ ReadersExcludeWriter
-----------------------------------------------------------------------------
LEMMA ReadersFinite == \A s : IsFiniteSet(Readers(s)) /\ Cardinality(Readers(s)) \in Nat
<1>. SUFFICES ASSUME NEW s PROVE IsFiniteSet(Readers(s)) /\ Cardinality(Readers(s)) \in Nat
  OBVIOUS
<1>1. Readers(s) \in SUBSET Clients
  BY DEF Readers
<1>2. IsFiniteSet(Readers(s))
  BY <1>1, SharedTimeAssumption, FS_Subset
<1>. QED
  BY <1>2, FS_CardinalityType

\* A step of main that changes no semaphore and keeps the process on its side of
\* the lock: strcpy, printf, sleep, shmget, shmat, the removal of the segment.
LEMMA QuietKeeps ==
  ASSUME SemInv, NEW p \in Processes, NEW label \in ServerLabels \union ClientLabels,
         GoTo(p, label),
         UNCHANGED <<semset, n_readers, n_writers, semadj, semset_id, handler, early>>,
         p \in Servers => \/ /\ pc[p] \in {"new", "shmat", "semget"}
                             /\ label \in {"new", "shmat", "semget"}
                          \/ /\ pc[p] \in Working /\ label \in Working
                             /\ Writing(p) <=> label \in {"strcpy1", "strcpy2", "unlock"},
         p \in Clients => /\ Reading(p) <=> label \in {"print1", "print2", "unlock"}
                          /\ label \in {"new", "shmat", "semget"}
                               => pc[p] \in {"new", "shmat", "semget"}
  PROVE  SemInv'
<1>. USE SharedTimeAssumption DEF SemInv
<1>1. pc' = [pc EXCEPT ![p] = label] /\ \A q \in Processes : pc'[q] = IF q = p THEN label ELSE pc[q]
  BY DEF GoTo, SemTypes
<1>2. \A s \in Servers : Writing(s)' <=> Writing(s)
  BY <1>1 DEF Writing, Processes
<1>3. \A c \in Clients : Reading(c)' <=> Reading(c)
  BY <1>1 DEF Reading, Processes
<1>4. \A s : Readers(s)' = Readers(s)
  BY <1>3 DEF Readers
<1>5. SemTypes'
  BY <1>1 DEF SemTypes
<1>6. OwnSet'
  BY <1>1 DEF OwnSet, Processes, Setting, Working
<1>7. FoundSet'
  BY <1>1, <1>3 DEF FoundSet, Processes
<1>8. Adjusted'
  BY <1>2, <1>3 DEF Adjusted
<1>9. Counted'
  BY <1>1, <1>2, <1>4 DEF Counted, Processes, Setting, Working
<1>10. ReadersExcludeWriter'
  BY <1>2, <1>3 DEF ReadersExcludeWriter
<1>. QED
  BY <1>5, <1>6, <1>7, <1>8, <1>9, <1>10

\* A process ends: the kernel takes back what it has added to a semaphore, which is
\* right as long as Adjusted holds.  A server may have removed its set.
LEMMA ExitKeeps ==
  ASSUME SemInv, NEW p \in Processes, Exit(p), UNCHANGED early,
         \A s \in Servers : handler'[s] = IF s = p THEN "idle" ELSE handler[s],
         handler' \in [Servers -> {"idle", "rm_segment", "rm_set"}],
         UNCHANGED semset \/ (p \in Servers /\ pc[p] \in Working /\ RemoveSet(p))
  PROVE  SemInv'
<1>. USE SharedTimeAssumption DEF SemInv
<1>1. /\ \A q \in Processes : pc'[q] = IF q = p THEN "exit" ELSE pc[q]
      /\ \A q \in Processes : semadj'[q] = IF q = p THEN 0 ELSE semadj[q]
      /\ \A q \in Processes : semset_id'[q] = IF q = p THEN None ELSE semset_id[q]
  BY DEF Exit, GoTo, SemTypes
<1>2. \A s \in Servers : semset'[s] = semset[s] \/ (s = p /\ semset'[s] = "removed")
  BY DEF RemoveSet, SemTypes, OwnSet
<1>3. \A s \in Servers : Writing(s)' <=> Writing(s) /\ s # p
  BY <1>1 DEF Writing, Processes
<1>4. \A c \in Clients : Reading(c)' <=> Reading(c) /\ c # p
  BY <1>1 DEF Reading, Processes
<1>5. \A s \in Servers : Readers(s)' = Readers(s) \ {p}
  BY <1>1, <1>4 DEF Readers, Processes
<1>6. /\ n_readers' = IF p \in Clients THEN Undone(n_readers, p) ELSE n_readers
      /\ n_writers' = IF p \in Servers THEN Undone(n_writers, p) ELSE n_writers
  BY DEF Exit
<1>7. ASSUME NEW count \in [Servers -> Int] PROVE Undone(count, p) \in [Servers -> Int]
  BY DEF Undone, SemTypes
<1>8. SemTypes'
  <2>1. n_readers' \in [Servers -> Int] /\ n_writers' \in [Servers -> Int]
    BY <1>6, <1>7 DEF SemTypes
  <2>2. semset' \in [Servers -> {"none", "live", "removed"}]
    BY DEF RemoveSet, SemTypes
  <2>3. pc' \in [Processes -> ServerLabels \union ClientLabels]
    BY DEF Exit, GoTo, SemTypes, ServerLabels
  <2>4. semadj' \in [Processes -> Int] /\ semset_id' \in [Processes -> Servers \union {None}]
    BY DEF Exit, SemTypes
  <2>. QED
    BY <2>1, <2>2, <2>3, <2>4 DEF SemTypes
<1>9. OwnSet'
  <2>. SUFFICES ASSUME NEW s \in Servers PROVE OwnSet!(s)'
    BY DEF OwnSet
  <2>1. CASE s = p
    BY <1>1, <1>2, <2>1 DEF OwnSet, Processes, Setting, Working
  <2>2. CASE s # p
    BY <1>1, <1>2, <2>2 DEF OwnSet, Processes
  <2>. QED
    BY <2>1, <2>2
<1>10. FoundSet'
  <2>. SUFFICES ASSUME NEW c \in Clients PROVE FoundSet!(c)'
    BY DEF FoundSet
  <2>1. CASE c = p
    BY <1>1, <1>4, <2>1 DEF FoundSet, Processes
  <2>2. CASE c # p
    <3>1. semset_id'[c] = semset_id[c] /\ pc'[c] = pc[c] /\ semset_id[c] \in Servers \union {None}
      BY <1>1, <2>2 DEF Processes, SemTypes
    <3>. QED
      BY <1>2, <1>4, <3>1 DEF FoundSet
  <2>. QED
    BY <2>1, <2>2
<1>11. Adjusted'
  BY <1>1, <1>3, <1>4 DEF Adjusted, Processes
<1>12. Counted'
  <2>. SUFFICES ASSUME NEW s \in Servers PROVE Counted!(s)'
    BY DEF Counted
  <2>1. ASSUME semset'[s] # "removed" PROVE n_writers'[s] = IF Writing(s)' THEN 1 ELSE 0
    <3>1. semset[s] # "removed" /\ n_writers[s] = IF Writing(s) THEN 1 ELSE 0
      BY <1>2, <2>1 DEF Counted
    <3>2. CASE p \in Servers
      <4>1. semset_id[p] = p \/ semset_id[p] = None
        BY <3>2 DEF OwnSet
      <4>2. semadj[p] = IF Writing(p) THEN -1 ELSE 0
        BY <3>2 DEF Adjusted
      <4>3. CASE s = p
        <5>1. Writing(p) => semset_id[p] = p
          BY <3>2 DEF OwnSet, Writing, Setting, Working
        <5>. QED
          BY <1>3, <1>6, <3>1, <3>2, <4>1, <4>2, <4>3, <5>1 DEF Undone, SemTypes
      <4>4. CASE s # p
        BY <1>3, <1>6, <3>1, <3>2, <4>1, <4>4 DEF Undone, SemTypes
      <4>. QED
        BY <4>3, <4>4
    <3>3. CASE p \notin Servers
      BY <1>3, <1>6, <3>1, <3>3
    <3>. QED
      BY <3>2, <3>3
  <2>2. ASSUME semset'[s] # "removed", s \notin early'
        PROVE  n_readers'[s] = Cardinality(Readers(s)')
    <3>1. semset[s] # "removed" /\ n_readers[s] = Cardinality(Readers(s))
      BY <1>2, <2>2 DEF Counted
    <3>2. CASE p \in Clients /\ semset_id[p] = s
      <4>1. semadj[p] = IF Reading(p) THEN -1 ELSE 0
        BY <2>2, <3>2 DEF Adjusted
      <4>2. p \in Readers(s) <=> Reading(p)
        BY <3>2 DEF Readers
      <4>3. s # None
        OBVIOUS
      <4>4. CASE Reading(p)
        <5>1. Cardinality(Readers(s) \ {p}) = Cardinality(Readers(s)) - 1
          BY <4>2, <4>4, ReadersFinite, FS_RemoveElement
        <5>2. Cardinality(Readers(s) \ {p}) \in Nat
          BY <1>5, ReadersFinite, FS_RemoveElement, FS_CardinalityType
        <5>3. n_readers'[s] = n_readers[s] - 1
          BY <1>6, <3>1, <3>2, <4>1, <4>3, <4>4, <5>1, <5>2, ReadersFinite DEF Undone, SemTypes
        <5>. QED
          BY <1>5, <3>1, <5>1, <5>3
      <4>5. CASE ~Reading(p)
        <5>1. Readers(s) \ {p} = Readers(s)
          BY <4>2, <4>5
        <5>2. n_readers' = n_readers
          BY <1>6, <3>2, <4>1, <4>5 DEF Undone
        <5>. QED
          BY <1>5, <3>1, <5>1, <5>2
      <4>. QED
        BY <4>4, <4>5
    <3>3. CASE ~(p \in Clients /\ semset_id[p] = s)
      <4>1. p \notin Readers(s)
        BY <3>3 DEF Readers
      <4>2. Readers(s) \ {p} = Readers(s)
        BY <4>1
      <4>3. n_readers'[s] = n_readers[s]
        BY <1>6, <3>3 DEF Undone, SemTypes
      <4>. QED
        BY <1>5, <3>1, <4>2, <4>3
    <3>. QED
      BY <3>2, <3>3
  <2>3. ASSUME pc'[s] \in Setting, s \notin early' PROVE Readers(s)' = {}
    BY <1>1, <1>5, <2>3 DEF Counted, Processes, Setting
  <2>. QED
    BY <2>1, <2>2, <2>3
<1>13. ReadersExcludeWriter'
  BY <1>1, <1>3, <1>4 DEF ReadersExcludeWriter, Processes
<1>. QED
  BY <1>8, <1>9, <1>10, <1>11, <1>12, <1>13

LEMMA SemopFailsKeeps ==
  ASSUME SemInv, NEW p \in Processes, SemopFails(p), UNCHANGED <<early, handler, semset>>,
         p \in Servers => handler[p] = "idle"
  PROVE  SemInv'
<1>1. handler \in [Servers -> {"idle", "rm_segment", "rm_set"}]
  BY DEF SemInv, SemTypes
<1>2. Exit(p)
  BY DEF SemopFails
<1>. QED
  BY <1>1, <1>2, ExitKeeps
-----------------------------------------------------------------------------
(* The steps of a server *)

LEMMA ServerStartKeeps ==
  ASSUME SemInv, NEW s \in Servers,
         Shmget(s) \/ (handler[s] = "idle" /\ Shmat(s, "semget"))
  PROVE  SemInv'
<1>. USE SharedTimeAssumption
<1>1. s \in Processes /\ s \notin Clients
  BY DEF Processes
<1>2. CASE Shmget(s)
  <2>1. pc[s] = "new"
    BY <1>1, <1>2 DEF Shmget, MayStart, Started
  <2>. QED
    BY <1>1, <1>2, <2>1, QuietKeeps DEF Shmget, serverVars, ServerLabels
<1>3. CASE handler[s] = "idle" /\ Shmat(s, "semget") /\ GoTo(s, "semget") /\ UNCHANGED memoryVars
           /\ UNCHANGED <<n_readers, n_writers, semadj>>
  BY <1>1, <1>3, QuietKeeps DEF Shmat, serverVars, memoryVars, Unremoved, ServerLabels
<1>4. CASE handler[s] = "idle" /\ Shmat(s, "semget") /\ Exit(s)
  BY <1>1, <1>4, ExitKeeps DEF Shmat, serverVars, Unremoved, SemInv, SemTypes
<1>. QED
  BY <1>2, <1>3, <1>4 DEF Shmat

LEMMA SemgetKeeps == ASSUME SemInv, NEW s \in Servers, Semget(s) PROVE SemInv'
<1>. USE SharedTimeAssumption
<1>1. s \in Processes /\ s \notin Clients /\ UNCHANGED <<handler, early>> /\ ServerAt(s, "semget")
  BY DEF Processes, Semget, serverVars
<1>2. CASE Exit(s) /\ UNCHANGED semset
  BY <1>1, <1>2, ExitKeeps DEF ServerAt, SemInv, SemTypes
<1>3. CASE /\ semset' = [semset EXCEPT ![s] = "live"]
           /\ semset_id' = [semset_id EXCEPT ![s] = s]
           /\ GoTo(s, "set_readers")
           /\ UNCHANGED <<n_readers, n_writers, semadj>>
  <2>1. /\ \A q \in Processes : pc'[q] = IF q = s THEN "set_readers" ELSE pc[q]
        /\ \A q \in Processes : semset_id'[q] = IF q = s THEN s ELSE semset_id[q]
        /\ \A q \in Servers : semset'[q] = IF q = s THEN "live" ELSE semset[q]
    BY <1>1, <1>3 DEF SemInv, SemTypes, GoTo
  <2>2. \A q \in Servers : Writing(q)' <=> Writing(q)
    BY <1>1, <2>1 DEF Writing, Processes, ServerAt
  <2>3. \A c \in Clients : /\ Reading(c)' <=> Reading(c)
                           /\ semset_id'[c] = semset_id[c] /\ pc'[c] = pc[c]
    BY <1>1, <2>1 DEF Reading, Processes
  <2>4. \A q : Readers(q)' = Readers(q)
    BY <2>3 DEF Readers
  <2>5. semset[s] = "none"
    BY <1>1 DEF SemInv, OwnSet, ServerAt
  <2>6. Readers(s) = {}
    BY <2>5 DEF SemInv, FoundSet, Readers
  <2>7. SemTypes'
    BY <1>1, <1>3 DEF SemInv, SemTypes, GoTo, ServerLabels, Processes
  <2>8. OwnSet'
    BY <1>1, <2>1 DEF SemInv, OwnSet, ServerAt, Setting, Working, Processes
  <2>9. FoundSet'
    BY <2>1, <2>3 DEF SemInv, FoundSet, SemTypes, Processes
  <2>10. Adjusted'
    BY <1>1, <1>3, <2>2, <2>3 DEF SemInv, Adjusted
  <2>11. Counted'
    BY <1>1, <1>3, <2>1, <2>2, <2>4, <2>5, <2>6 DEF SemInv, Counted, Processes
  <2>12. ReadersExcludeWriter'
    <3>. SUFFICES ASSUME NEW q \in Servers, NEW c \in Clients, Writing(q)', Reading(c)',
                         semset_id'[q] = semset_id'[c], semset_id'[c] \notin early'
                  PROVE  FALSE
      BY DEF ReadersExcludeWriter
    <3>1. q # s
      BY <2>1, <1>1 DEF Writing, Processes
    <3>. QED
      BY <1>1, <2>1, <2>2, <2>3, <3>1 DEF SemInv, ReadersExcludeWriter, Processes
  <2>. QED
    BY <2>7, <2>8, <2>9, <2>10, <2>11, <2>12 DEF SemInv
<1>. QED
  BY <1>2, <1>3 DEF Semget

\* SETVAL: nobody is behind a semaphore of the set, unless he was early.
LEMMA SetvalKeeps ==
  ASSUME SemInv, NEW s \in Servers, SetReaders(s) \/ SetWriters(s)
  PROVE  SemInv'
<1>. USE SharedTimeAssumption
<1>1. /\ s \in Processes /\ s \notin Clients /\ UNCHANGED <<semset, semset_id, handler, early>>
      /\ pc[s] \in Setting /\ semset_id[s] = s
  BY DEF Processes, SetReaders, SetWriters, serverVars, memoryVars, Unremoved, ServerAt, Setting,
         SemInv, OwnSet
<1>2. PICK label \in {"set_writers", "lock"} :
        /\ GoTo(s, label)
        /\ \A q \in Processes : pc'[q] = IF q = s THEN label ELSE pc[q]
  BY DEF SetReaders, SetWriters, GoTo, SemInv, SemTypes
<1>3. \A q \in Servers : Writing(q)' <=> Writing(q)
  BY <1>1, <1>2 DEF Writing, Processes, Setting
<1>4. \A c \in Clients : (Reading(c)' <=> Reading(c)) /\ pc'[c] = pc[c]
  BY <1>1, <1>2 DEF Reading, Processes
<1>5. \A q : Readers(q)' = Readers(q)
  BY <1>1, <1>4 DEF Readers
<1>6. /\ n_readers' \in [Servers -> Int] /\ n_writers' \in [Servers -> Int]
      /\ \A q \in Servers : n_readers'[q] = n_readers[q] \/ (q = s /\ n_readers'[q] = 0)
      /\ \A q \in Servers : n_writers'[q] = n_writers[q] \/ (q = s /\ n_writers'[q] = 0)
  BY <1>1 DEF SetReaders, SetWriters, SemInv, SemTypes
<1>7. /\ semadj' \in [Processes -> Int]
      /\ \A q \in Processes : semadj'[q] = semadj[q] \/ (semset_id[q] = s /\ semadj'[q] = 0)
  BY <1>1 DEF SetReaders, SetWriters, Forget, SemInv, SemTypes
<1>8. SemTypes'
  BY <1>1, <1>2, <1>6, <1>7 DEF SemInv, SemTypes, GoTo, ServerLabels
<1>9. OwnSet'
  BY <1>1, <1>2 DEF SemInv, OwnSet, Setting, Working, Processes
<1>10. FoundSet'
  BY <1>1, <1>4 DEF SemInv, FoundSet
<1>11. ~Writing(s) /\ (s \notin early => Readers(s) = {})
  BY <1>1 DEF SemInv, Counted, Writing, Setting
<1>12. Adjusted'
  <2>1. \A q \in Servers : semadj'[q] = IF Writing(q)' THEN -1 ELSE 0
    <3>. SUFFICES ASSUME NEW q \in Servers PROVE semadj'[q] = IF Writing(q) THEN -1 ELSE 0
      BY <1>3
    <3>1. semset_id[q] = s => q = s
      BY DEF SemInv, OwnSet
    <3>. QED
      BY <1>7, <1>11, <3>1 DEF SemInv, Adjusted, Processes
  <2>2. ASSUME NEW c \in Clients, semset_id[c] \notin early
        PROVE  semadj'[c] = IF Reading(c) THEN -1 ELSE 0
    <3>1. semset_id[c] = s => ~Reading(c)
      BY <1>11, <2>2 DEF Readers
    <3>. QED
      BY <1>7, <2>2, <3>1 DEF SemInv, Adjusted, Processes
  <2>. QED
    BY <1>1, <1>4, <2>1, <2>2 DEF Adjusted
<1>13. Counted'
  <2>1. s \notin early => Cardinality(Readers(s)) = 0
    BY <1>11, FS_EmptySet
  <2>. QED
    BY <1>1, <1>2, <1>3, <1>5, <1>6, <1>11, <2>1 DEF SemInv, Counted, Processes, Setting
<1>14. ReadersExcludeWriter'
  BY <1>1, <1>3, <1>4 DEF SemInv, ReadersExcludeWriter
<1>. QED
  BY <1>8, <1>9, <1>10, <1>12, <1>13, <1>14 DEF SemInv

\* Entering and leaving the writer's side: the server and its own semaphore.
LEMMA WriterKeeps ==
  ASSUME SemInv, NEW s \in Servers, NEW label \in {"strcpy1", "sleep"}, NEW d \in {-1, 1},
         pc[s] \in Working, GoTo(s, label), semset[s] # "removed",
         label = "strcpy1" => d = 1 /\ ~Writing(s)
                              /\ (s \in early \/ Cardinality(Readers(s)) = 0),
         label = "sleep" => d = -1 /\ Writing(s),
         n_writers' = [n_writers EXCEPT ![s] = @ + d],
         semadj' = [semadj EXCEPT ![s] = @ - d],
         UNCHANGED <<semset, n_readers, semset_id, handler, early>>
  PROVE  SemInv'
<1>. USE SharedTimeAssumption
<1>1. s \in Processes /\ s \notin Clients /\ semset_id[s] = s
  BY DEF Processes, SemInv, OwnSet
<1>2. \A q \in Processes : pc'[q] = IF q = s THEN label ELSE pc[q]
  BY DEF GoTo, SemInv, SemTypes
<1>3. \A q \in Servers : Writing(q)' <=> IF q = s THEN label = "strcpy1" ELSE Writing(q)
  BY <1>2 DEF Writing, Processes
<1>4. \A c \in Clients : (Reading(c)' <=> Reading(c)) /\ pc'[c] = pc[c]
  BY <1>1, <1>2 DEF Reading, Processes
<1>5. \A q : Readers(q)' = Readers(q)
  BY <1>4 DEF Readers
<1>6. /\ \A q \in Servers : n_writers'[q] = IF q = s THEN n_writers[q] + d ELSE n_writers[q]
      /\ \A q \in Processes : semadj'[q] = IF q = s THEN semadj[q] - d ELSE semadj[q]
  BY DEF SemInv, SemTypes
<1>7. SemTypes'
  <2>1. label \in ServerLabels
    BY DEF ServerLabels
  <2>. QED
    BY <1>1, <2>1 DEF SemInv, SemTypes, GoTo
<1>8. OwnSet'
  BY <1>1, <1>2 DEF SemInv, OwnSet, Setting, Working, Processes
<1>9. FoundSet'
  BY <1>4 DEF SemInv, FoundSet
<1>10. Adjusted'
  BY <1>1, <1>3, <1>4, <1>6 DEF SemInv, Adjusted, Processes
<1>11. Counted'
  BY <1>1, <1>2, <1>3, <1>5, <1>6 DEF SemInv, Counted, Processes, Setting, Working
<1>12. ReadersExcludeWriter'
  <2>. SUFFICES ASSUME NEW q \in Servers, NEW c \in Clients, Writing(q)', Reading(c),
                       semset_id[q] = semset_id[c], semset_id[c] \notin early
                PROVE  FALSE
    BY <1>4 DEF ReadersExcludeWriter
  <2>1. CASE q = s
    <3>1. Readers(s) = {}
      BY <1>1, <1>3, <2>1, ReadersFinite, FS_EmptySet
    <3>. QED
      BY <1>1, <2>1, <3>1 DEF Readers
  <2>2. CASE q # s
    BY <1>3, <2>2 DEF SemInv, ReadersExcludeWriter
  <2>. QED
    BY <2>1, <2>2
<1>. QED
  BY <1>7, <1>8, <1>9, <1>10, <1>11, <1>12 DEF SemInv

\* wait_and_lock and release_lock of the server
LEMMA ServerSemopKeeps ==
  ASSUME SemInv, NEW s \in Servers, ServerLock(s) \/ ServerUnlock(s)
  PROVE  SemInv'
<1>. USE SharedTimeAssumption
<1>1. /\ s \in Processes /\ handler[s] = "idle" /\ UNCHANGED <<semset, handler, early>>
      /\ pc[s] \in Working /\ semset_id[s] = s
  BY DEF Processes, ServerLock, ServerUnlock, serverVars, Unremoved, ServerAt, Working, SemInv, OwnSet
<1>2. CASE SemopFails(s)
  BY <1>1, <1>2, SemopFailsKeeps
<1>3. CASE ServerLock(s) /\ ~SemopFails(s)
  <2>1. /\ pc[s] = "lock" /\ semset[s] = "live" /\ n_readers[s] = 0
        /\ n_writers' = [n_writers EXCEPT ![s] = @ + 1]
        /\ semadj' = [semadj EXCEPT ![s] = @ - 1]
        /\ GoTo(s, "strcpy1")
        /\ UNCHANGED <<n_readers, semset_id>>
    BY <1>1, <1>3 DEF ServerLock, ServerAt, memoryVars
  <2>2. ~Writing(s) /\ (s \in early \/ Cardinality(Readers(s)) = 0)
    BY <2>1 DEF Writing, SemInv, Counted
  <2>. QED
    BY <1>1, <2>1, <2>2, WriterKeeps
<1>4. CASE ServerUnlock(s) /\ ~SemopFails(s)
  <2>1. /\ pc[s] = "unlock" /\ semset[s] = "live"
        /\ n_writers' = [n_writers EXCEPT ![s] = @ - 1]
        /\ semadj' = [semadj EXCEPT ![s] = @ + 1]
        /\ GoTo(s, "sleep")
        /\ UNCHANGED <<n_readers, semset_id>>
    BY <1>1, <1>4 DEF ServerUnlock, ServerAt, memoryVars
  <2>2. Writing(s) /\ n_writers[s] \in Int /\ semadj[s] \in Int
    BY <1>1, <2>1 DEF Writing, SemInv, SemTypes
  <2>3. n_writers[s] - 1 = n_writers[s] + (-1) /\ semadj[s] + 1 = semadj[s] - (-1)
    BY <2>2
  <2>4. /\ n_writers' = [n_writers EXCEPT ![s] = @ + (-1)]
        /\ semadj' = [semadj EXCEPT ![s] = @ - (-1)]
    BY <2>1, <2>3
  <2>. QED
    BY <1>1, <2>1, <2>2, <2>4, WriterKeeps
<1>. QED
  BY <1>2, <1>3, <1>4

\* strcpy, the sleep and the first call of cleanup change no semaphore.
LEMMA ServerWorkKeeps ==
  ASSUME SemInv, NEW s \in Servers, Strcpy(s) \/ NextRound(s) \/ Cleanup(s)
  PROVE  SemInv'
<1>. USE SharedTimeAssumption
<1>1. s \in Processes /\ s \notin Clients /\ UNCHANGED <<handler, early>> /\ handler[s] = "idle"
  BY DEF Processes, Strcpy, NextRound, Cleanup, serverVars, ServerAt
<1>2. CASE Strcpy(s)
  <2>1. PICK label \in {"strcpy2", "unlock"} : GoTo(s, label) /\ pc[s] \in {"strcpy1", "strcpy2"}
    BY <1>2 DEF Strcpy, ServerAt
  <2>. QED
    BY <1>1, <1>2, <2>1, QuietKeeps DEF Strcpy, memoryVars, ServerLabels, Working, Writing
<1>3. CASE NextRound(s)
  <2>1. PICK label \in {"lock", "rm_segment"} : GoTo(s, label) /\ pc[s] = "sleep"
    BY <1>3 DEF NextRound, ServerAt
  <2>. QED
    BY <1>1, <1>3, <2>1, QuietKeeps
       DEF NextRound, kernelVars, memoryVars, ServerLabels, Working, Writing
<1>4. CASE Cleanup(s) /\ pc[s] = "rm_segment"
  <2>1. GoTo(s, "rm_set") /\ UNCHANGED <<semset, n_readers, n_writers, semadj, semset_id>>
    BY <1>4 DEF Cleanup, ServerAt, memoryVars
  <2>. QED
    BY <1>1, <1>4, <2>1, QuietKeeps DEF ServerLabels, Working, Writing
<1>5. CASE Cleanup(s) /\ pc[s] = "rm_set"
  <2>1. RemoveSet(s) /\ Exit(s)
    BY <1>5 DEF Cleanup, ServerAt
  <2>. QED
    BY <1>1, <1>5, <2>1, ExitKeeps DEF Working, SemInv, SemTypes
<1>. QED
  BY <1>2, <1>3, <1>4, <1>5 DEF Cleanup, ServerAt

\* SIGINT, and cleanup as its handler, which removes the set under everybody.
LEMMA HandlerKeeps ==
  ASSUME SemInv, NEW s \in Servers, Interrupt(s) \/ Handler(s)
  PROVE  SemInv'
<1>. USE SharedTimeAssumption
<1>1. /\ s \in Processes
      /\ UNCHANGED <<n_readers, n_writers, semadj, semset_id, pc, early>>
      /\ pc[s] \in Working
  BY DEF Processes, Interrupt, Handler, kernelVars, memoryVars, SemInv, OwnSet, Working
<1>2. /\ \A q \in Servers : semset'[q] = semset[q] \/ (q = s /\ semset'[q] = "removed")
      /\ semset' \in [Servers -> {"none", "live", "removed"}]
  BY <1>1 DEF Interrupt, Handler, kernelVars, RemoveSet, SemInv, OwnSet, SemTypes
<1>3. /\ \A q \in Servers \ {s} : handler'[q] = handler[q]
      /\ handler' \in [Servers -> {"idle", "rm_segment", "rm_set"}]
  BY DEF Interrupt, Handler, SemInv, SemTypes
<1>4. /\ \A q \in Servers : Writing(q)' <=> Writing(q)
      /\ \A c \in Clients : Reading(c)' <=> Reading(c)
      /\ \A q : Readers(q)' = Readers(q)
  BY <1>1 DEF Writing, Reading, Readers
<1>5. SemTypes'
  BY <1>1, <1>2, <1>3 DEF SemInv, SemTypes
<1>6. OwnSet'
  BY <1>1, <1>2, <1>3 DEF SemInv, OwnSet, Working, Setting
<1>7. FoundSet'
  <2>. SUFFICES ASSUME NEW c \in Clients, semset_id[c] # None
                PROVE  semset'[semset_id[c]] # "none"
    BY <1>1, <1>4 DEF SemInv, FoundSet
  <2>1. semset_id[c] \in Servers /\ semset[semset_id[c]] # "none"
    BY DEF SemInv, SemTypes, FoundSet, Processes
  <2>. QED
    BY <1>2, <2>1
<1>8. Adjusted'
  BY <1>1, <1>4 DEF SemInv, Adjusted
<1>9. Counted'
  BY <1>1, <1>2, <1>4 DEF SemInv, Counted
<1>10. ReadersExcludeWriter'
  BY <1>1, <1>4 DEF SemInv, ReadersExcludeWriter
<1>. QED
  BY <1>5, <1>6, <1>7, <1>8, <1>9, <1>10 DEF SemInv
-----------------------------------------------------------------------------
(* The steps of a client *)

LEMMA ClientStartKeeps ==
  ASSUME SemInv, NEW c \in Clients, ClientShmget(c) \/ Shmat(c, "semget") \/ Printf(c)
  PROVE  SemInv'
<1>. USE SharedTimeAssumption
<1>1. c \in Processes /\ c \notin Servers
  BY DEF Processes
<1>2. UNCHANGED <<handler, early, semset>>
  BY DEF ClientShmget, Shmat, Printf, serverVars, kernelVars, Unremoved
<1>3. CASE ClientShmget(c)
  <2>1. PICK label \in {"shmat", "exit"} : GoTo(c, label)
    BY <1>3 DEF ClientShmget
  <2>2. pc[c] = "new"
    BY <1>1, <1>3 DEF ClientShmget, MayStart, Started
  <2>3. UNCHANGED <<n_readers, n_writers, semadj, semset_id>>
    BY <1>3 DEF ClientShmget, kernelVars
  <2>4. ~Reading(c) /\ label \in ServerLabels
    BY <2>2 DEF Reading, ServerLabels
  <2>. QED
    BY <1>1, <1>2, <2>1, <2>2, <2>3, <2>4, QuietKeeps
<1>4. CASE Shmat(c, "semget") /\ Exit(c)
  BY <1>1, <1>2, <1>4, ExitKeeps DEF SemInv, SemTypes
<1>5. CASE Shmat(c, "semget") /\ ~Exit(c)
  <2>1. GoTo(c, "semget") /\ pc[c] = "shmat" /\ UNCHANGED <<n_readers, n_writers, semadj, semset_id>>
    BY <1>5 DEF Shmat, memoryVars
  <2>2. ~Reading(c) /\ "semget" \in ServerLabels
    BY <2>1 DEF Reading, ServerLabels
  <2>. QED
    BY <1>1, <1>2, <2>1, <2>2, QuietKeeps
<1>6. CASE Printf(c)
  <2>1. PICK label \in {"print2", "unlock"} : GoTo(c, label) /\ pc[c] \in {"print1", "print2"}
    BY <1>6 DEF Printf
  <2>2. UNCHANGED <<n_readers, n_writers, semadj, semset_id>>
    BY <1>6 DEF Printf, kernelVars
  <2>3. Reading(c) /\ label \in ServerLabels \union ClientLabels
    BY <2>1 DEF Reading, ClientLabels
  <2>. QED
    BY <1>1, <1>2, <2>1, <2>2, <2>3, QuietKeeps
<1>. QED
  BY <1>3, <1>4, <1>5, <1>6

LEMMA ClientSemgetKeeps == ASSUME SemInv, NEW c \in Clients, ClientSemget(c) PROVE SemInv'
<1>. USE SharedTimeAssumption
<1>1. /\ c \in Processes /\ c \notin Servers /\ pc[c] = "semget" /\ GoTo(c, "lock")
      /\ UNCHANGED <<semset, n_readers, n_writers, semadj, handler, early>>
  BY DEF Processes, ClientSemget, kernelVars, serverVars
<1>2. PICK found \in Servers \union {None} :
        /\ semset_id' = [semset_id EXCEPT ![c] = found]
        /\ found # None => semset[found] = "live"
  <2>1. semset_id[c] = None /\ semset_id = [semset_id EXCEPT ![c] = semset_id[c]]
    BY <1>1 DEF SemInv, FoundSet, SemTypes
  <2>. QED
    BY <2>1 DEF ClientSemget, LiveSets
<1>3. /\ \A q \in Processes : pc'[q] = IF q = c THEN "lock" ELSE pc[q]
      /\ \A q \in Processes : semset_id'[q] = IF q = c THEN found ELSE semset_id[q]
  BY <1>1, <1>2 DEF GoTo, SemInv, SemTypes
<1>4. /\ \A q \in Servers : Writing(q)' <=> Writing(q)
      /\ \A q \in Clients : Reading(q)' <=> Reading(q)
      /\ ~Reading(c)
  BY <1>1, <1>3 DEF Writing, Reading, Processes
<1>5. \A q : Readers(q)' = Readers(q)
  BY <1>3, <1>4 DEF Readers, Processes
<1>6. SemTypes'
  <2>1. "lock" \in ServerLabels
    BY DEF ServerLabels
  <2>. QED
    BY <1>1, <1>2, <2>1 DEF SemInv, SemTypes, GoTo
<1>7. OwnSet'
  BY <1>1, <1>3 DEF SemInv, OwnSet, Processes
<1>8. FoundSet'
  <2>. SUFFICES ASSUME NEW q \in Clients PROVE FoundSet!(q)'
    BY DEF FoundSet
  <2>1. CASE q = c
    BY <1>1, <1>2, <1>3, <1>4, <2>1 DEF SemInv, SemTypes
  <2>2. CASE q # c
    BY <1>1, <1>3, <1>4, <2>2 DEF SemInv, FoundSet, Processes
  <2>. QED
    BY <2>1, <2>2
<1>9. Adjusted'
  <2>1. semset_id[c] \notin early
    BY <1>1 DEF SemInv, FoundSet, SemTypes
  <2>2. semadj[c] = 0
    BY <1>4, <2>1 DEF SemInv, Adjusted
  <2>3. ASSUME NEW q \in Clients, semset_id'[q] \notin early'
        PROVE  semadj'[q] = IF Reading(q)' THEN -1 ELSE 0
    BY <1>1, <1>3, <1>4, <2>2, <2>3 DEF SemInv, Adjusted, Processes
  <2>. QED
    BY <1>1, <1>4, <2>3 DEF SemInv, Adjusted
<1>10. Counted'
  BY <1>1, <1>3, <1>4, <1>5 DEF SemInv, Counted, Processes
<1>11. ReadersExcludeWriter'
  BY <1>1, <1>3, <1>4 DEF SemInv, ReadersExcludeWriter, Processes
<1>. QED
  BY <1>6, <1>7, <1>8, <1>9, <1>10, <1>11 DEF SemInv

\* wait_and_lock of a client: one more reader, and no writer, unless it is early.
LEMMA ClientLockKeeps == ASSUME SemInv, NEW c \in Clients, ClientLock(c) PROVE SemInv'
<1>. USE SharedTimeAssumption
<1>1. /\ c \in Processes /\ c \notin Servers /\ pc[c] = "lock" /\ UNCHANGED <<semset, handler>>
  BY DEF Processes, ClientLock, Unremoved
<1>2. CASE SemopFails(c) /\ UNCHANGED early
  BY <1>1, <1>2, SemopFailsKeeps
<1>3. CASE ~(SemopFails(c) /\ UNCHANGED early)
  <2>. DEFINE set == semset_id[c]
  <2>1. /\ set \in Servers /\ semset[set] = "live" /\ n_writers[set] = 0
        /\ n_readers' = [n_readers EXCEPT ![set] = @ + 1]
        /\ semadj' = [semadj EXCEPT ![c] = @ - 1]
        /\ GoTo(c, "print1")
        /\ early' = early \union ({set} \intersect Uninitialised)
        /\ UNCHANGED <<n_writers, semset_id>>
    BY <1>1, <1>3 DEF ClientLock, memoryVars, SemInv, SemTypes
  <2>2. \A q \in Processes : pc'[q] = IF q = c THEN "print1" ELSE pc[q]
    BY <2>1 DEF GoTo, SemInv, SemTypes
  <2>3. /\ \A q \in Servers : Writing(q)' <=> Writing(q)
        /\ \A q \in Clients : Reading(q)' <=> Reading(q) \/ q = c
        /\ ~Reading(c)
    BY <1>1, <2>2 DEF Writing, Reading, Processes
  <2>4. /\ Readers(set)' = Readers(set) \union {c} /\ c \notin Readers(set)
        /\ \A q \in Servers \ {set} : Readers(q)' = Readers(q)
    BY <2>1, <2>3 DEF Readers
  <2>5. /\ early \subseteq early' /\ early' \subseteq early \union {set} /\ early' \in SUBSET Servers
        /\ set \notin early' => pc[set] \notin Setting
    BY <2>1 DEF Uninitialised, LiveSets, Setting, SemInv, SemTypes
  <2>6. SemTypes'
    <3>1. "print1" \in ClientLabels
      BY DEF ClientLabels
    <3>. QED
      BY <1>1, <2>1, <2>5, <3>1 DEF SemInv, SemTypes, GoTo
  <2>7. OwnSet'
    BY <1>1, <2>1, <2>2 DEF SemInv, OwnSet, Processes
  <2>8. FoundSet'
    BY <1>1, <2>1, <2>2, <2>3 DEF SemInv, FoundSet, Processes
  <2>9. Adjusted'
    <3>1. \A q \in Servers : semadj'[q] = semadj[q]
      BY <1>1, <2>1 DEF SemInv, SemTypes, Processes
    <3>2. ASSUME NEW q \in Clients, semset_id[q] \notin early'
          PROVE  semadj'[q] = IF Reading(q)' THEN -1 ELSE 0
      <4>1. semadj[q] = IF Reading(q) THEN -1 ELSE 0
        BY <2>5, <3>2 DEF SemInv, Adjusted
      <4>2. semadj'[q] = IF q = c THEN semadj[q] - 1 ELSE semadj[q]
        BY <2>1 DEF SemInv, SemTypes, Processes
      <4>. QED
        BY <2>3, <4>1, <4>2
    <3>. QED
      BY <2>1, <2>3, <3>1, <3>2 DEF SemInv, Adjusted
  <2>10. Counted'
    <3>. SUFFICES ASSUME NEW s \in Servers PROVE Counted!(s)'
      BY DEF Counted
    <3>1. pc'[s] = pc[s] /\ n_readers'[s] = IF s = set THEN n_readers[s] + 1 ELSE n_readers[s]
      BY <1>1, <2>1, <2>2 DEF Processes, SemInv, SemTypes
    <3>2. CASE s # set
      BY <1>1, <2>1, <2>3, <2>4, <2>5, <3>1, <3>2 DEF SemInv, Counted
    <3>3. CASE s = set
      <4>1. Cardinality(Readers(set) \union {c}) = Cardinality(Readers(set)) + 1
        BY <2>4, ReadersFinite, FS_AddElement
      <4>. QED
        BY <1>1, <2>1, <2>3, <2>4, <2>5, <3>1, <3>3, <4>1 DEF SemInv, Counted
    <3>. QED
      BY <3>2, <3>3
  <2>11. ReadersExcludeWriter'
    <3>. SUFFICES ASSUME NEW q \in Servers, NEW d \in Clients, Writing(q), Reading(d)',
                         semset_id[q] = semset_id[d], semset_id[d] \notin early'
                  PROVE  FALSE
      BY <2>1, <2>3 DEF ReadersExcludeWriter
    <3>1. CASE d = c
      <4>1. q = set
        BY <2>1, <3>1 DEF SemInv, OwnSet
      <4>. QED
        BY <2>1, <4>1 DEF SemInv, Counted
    <3>2. CASE d # c
      BY <2>3, <2>5, <3>2 DEF SemInv, ReadersExcludeWriter
    <3>. QED
      BY <3>1, <3>2
  <2>. QED
    BY <2>6, <2>7, <2>8, <2>9, <2>10, <2>11 DEF SemInv
<1>. QED
  BY <1>2, <1>3

\* release_lock of a client: one reader less.
LEMMA ClientUnlockKeeps == ASSUME SemInv, NEW c \in Clients, ClientUnlock(c) PROVE SemInv'
<1>. USE SharedTimeAssumption
<1>1. /\ c \in Processes /\ c \notin Servers /\ pc[c] = "unlock"
      /\ UNCHANGED <<semset, handler, early>>
  BY DEF Processes, ClientUnlock, Unremoved, serverVars
<1>2. CASE SemopFails(c)
  BY <1>1, <1>2, SemopFailsKeeps
<1>3. CASE ~SemopFails(c)
  <2>. DEFINE set == semset_id[c]
  <2>1. Reading(c) /\ set \in Servers
    BY <1>1 DEF Reading, SemInv, FoundSet, SemTypes
  <2>2. /\ semset[set] = "live"
        /\ n_readers' = [n_readers EXCEPT ![set] = @ - 1]
        /\ semadj' = [semadj EXCEPT ![c] = @ + 1]
        /\ GoTo(c, "shmdt")
        /\ UNCHANGED <<n_writers, semset_id>>
    BY <1>3 DEF ClientUnlock, memoryVars
  <2>3. \A q \in Processes : pc'[q] = IF q = c THEN "shmdt" ELSE pc[q]
    BY <2>2 DEF GoTo, SemInv, SemTypes
  <2>4. /\ \A q \in Servers : Writing(q)' <=> Writing(q)
        /\ \A q \in Clients : Reading(q)' <=> Reading(q) /\ q # c
    BY <1>1, <2>3 DEF Writing, Reading, Processes
  <2>5. /\ Readers(set)' = Readers(set) \ {c} /\ c \in Readers(set)
        /\ \A q \in Servers \ {set} : Readers(q)' = Readers(q)
    BY <2>1, <2>2, <2>4 DEF Readers
  <2>6. SemTypes'
    <3>1. "shmdt" \in ClientLabels
      BY DEF ClientLabels
    <3>. QED
      BY <1>1, <2>1, <2>2, <3>1 DEF SemInv, SemTypes, GoTo
  <2>7. OwnSet'
    BY <1>1, <2>2, <2>3 DEF SemInv, OwnSet, Processes
  <2>8. FoundSet'
    BY <1>1, <2>2, <2>3, <2>4 DEF SemInv, FoundSet, Processes
  <2>9. Adjusted'
    <3>1. \A q \in Processes : semadj'[q] = IF q = c THEN semadj[q] + 1 ELSE semadj[q]
      BY <2>2 DEF SemInv, SemTypes
    <3>. QED
      BY <1>1, <2>1, <2>2, <2>4, <3>1 DEF SemInv, Adjusted, Processes
  <2>10. Counted'
    <3>. SUFFICES ASSUME NEW s \in Servers PROVE Counted!(s)'
      BY DEF Counted
    <3>1. pc'[s] = pc[s] /\ n_readers'[s] = IF s = set THEN n_readers[s] - 1 ELSE n_readers[s]
      BY <1>1, <2>1, <2>2, <2>3 DEF Processes, SemInv, SemTypes
    <3>2. CASE s # set
      BY <1>1, <2>2, <2>4, <2>5, <3>1, <3>2 DEF SemInv, Counted
    <3>3. CASE s = set
      <4>1. Cardinality(Readers(set) \ {c}) = Cardinality(Readers(set)) - 1
        BY <2>5, ReadersFinite, FS_RemoveElement
      <4>. QED
        BY <1>1, <2>2, <2>4, <2>5, <3>1, <3>3, <4>1 DEF SemInv, Counted
    <3>. QED
      BY <3>2, <3>3
  <2>11. ReadersExcludeWriter'
    BY <1>1, <2>2, <2>4 DEF SemInv, ReadersExcludeWriter
  <2>. QED
    BY <2>6, <2>7, <2>8, <2>9, <2>10, <2>11 DEF SemInv
<1>. QED
  BY <1>2, <1>3

LEMMA ClientReturnKeeps == ASSUME SemInv, NEW c \in Clients, ClientReturn(c) PROVE SemInv'
<1>1. /\ c \in Processes /\ c \notin Servers /\ Exit(c) /\ UNCHANGED <<semset, handler, early>>
  BY SharedTimeAssumption DEF Processes, ClientReturn, Unremoved, serverVars
<1>. QED
  BY <1>1, ExitKeeps DEF SemInv, SemTypes

LEMMA KillKeeps == ASSUME SemInv, NEW p \in Processes, Kill(p) PROVE SemInv'
<1>1. Exit(p) /\ UNCHANGED <<semset, early>>
  BY DEF Kill, Unremoved
<1>2. /\ handler' \in [Servers -> {"idle", "rm_segment", "rm_set"}]
      /\ \A s \in Servers : handler'[s] = IF s = p THEN "idle" ELSE handler[s]
  BY DEF Kill, SemInv, SemTypes
<1>. QED
  BY <1>1, <1>2, ExitKeeps
-----------------------------------------------------------------------------
LEMMA SemInvInit == Init => SemInv
<1>. USE SharedTimeAssumption
<1>. SUFFICES ASSUME Init PROVE SemInv
  OBVIOUS
<1>1. \A p \in Processes : pc[p] = "new" /\ semset_id[p] = None /\ semadj[p] = 0
  BY DEF Init
<1>2. /\ \A s \in Servers : semset[s] = "none" /\ n_readers[s] = 0 /\ n_writers[s] = 0
      /\ \A s \in Servers : handler[s] = "idle"
      /\ early = {}
  BY DEF Init
<1>3. (\A s \in Servers : ~Writing(s)) /\ (\A c \in Clients : ~Reading(c))
  BY <1>1 DEF Writing, Reading, Processes
<1>4. \A s : Readers(s) = {}
  BY <1>3 DEF Readers
<1>5. "new" \in ServerLabels
  BY DEF ServerLabels
<1>6. SemTypes
  BY <1>5 DEF Init, SemTypes
<1>7. OwnSet /\ FoundSet
  BY <1>1, <1>2, <1>3 DEF OwnSet, FoundSet, Processes, Setting, Working
<1>8. Adjusted /\ ReadersExcludeWriter
  BY <1>1, <1>3 DEF Adjusted, ReadersExcludeWriter, Processes
<1>9. Counted
  BY <1>1, <1>2, <1>3, <1>4, FS_EmptySet DEF Counted, Processes
<1>. QED
  BY <1>6, <1>7, <1>8, <1>9 DEF SemInv

LEMMA SemInvNext == SemInv /\ [Next]_vars => SemInv'
<1>. SUFFICES ASSUME SemInv, [Next]_vars PROVE SemInv'
  OBVIOUS
<1>1. ASSUME NEW s \in Servers, Shmget(s) PROVE SemInv'
  BY <1>1, ServerStartKeeps
<1>2. ASSUME NEW s \in Servers, ServerSteps(s) PROVE SemInv'
  BY <1>2, ServerStartKeeps, SemgetKeeps, SetvalKeeps, ServerSemopKeeps, ServerWorkKeeps,
     HandlerKeeps DEF ServerSteps
<1>3. ASSUME NEW s \in Servers, Interrupt(s) PROVE SemInv'
  BY <1>3, HandlerKeeps
<1>4. ASSUME NEW c \in Clients, ClientShmget(c) PROVE SemInv'
  BY <1>4, ClientStartKeeps
<1>5. ASSUME NEW c \in Clients, ClientSteps(c) PROVE SemInv'
  BY <1>5, ClientStartKeeps, ClientSemgetKeeps, ClientLockKeeps, ClientUnlockKeeps,
     ClientReturnKeeps DEF ClientSteps
<1>6. ASSUME NEW p \in Processes, Kill(p) PROVE SemInv'
  BY <1>6, KillKeeps
<1>7. CASE UNCHANGED vars
  <2>1. UNCHANGED <<semset, n_readers, n_writers, semadj, pc, semset_id, handler, early>>
    BY <1>7 DEF vars, kernelVars, serverVars, memoryVars
  <2>2. /\ \A q : Writing(q)' = Writing(q) /\ Reading(q)' = Reading(q)
        /\ \A q : Readers(q)' = Readers(q)
    BY <2>1 DEF Writing, Reading, Readers
  <2>3. SemTypes' /\ OwnSet'
    BY <2>1 DEF SemInv, SemTypes, OwnSet
  <2>4. FoundSet' /\ Adjusted'
    BY <2>1, <2>2 DEF SemInv, FoundSet, Adjusted
  <2>5. Counted' /\ ReadersExcludeWriter'
    BY <2>1, <2>2 DEF SemInv, Counted, ReadersExcludeWriter
  <2>. QED
    BY <2>3, <2>4, <2>5 DEF SemInv
<1>. QED
  BY <1>1, <1>2, <1>3, <1>4, <1>5, <1>6, <1>7 DEF Next

\* "wait til no readers" (shm_timeserver2.c:33) keeps what it promises: in each
\* pair of a server and a client behind the same semaphores one is outside, also
\* while SIGINT removes the set and SIGKILL ends the one that holds it.
THEOREM Exclusion == Spec => []ReadersExcludeWriter
<1>1. SemInv => ReadersExcludeWriter
  BY DEF SemInv
<1>. QED
  BY <1>1, SemInvInit, SemInvNext, PTL DEF Spec

\* sem[0] is the number of readers and sem[1] the number of writers
\* (shm_timeserver2.c:31 and 35), whoever dies between lock and release: what
\* SEM_UNDO takes back is what its owner has added.
THEOREM Counts == Spec => []SemaphoresCount
<1>1. SemInv => SemaphoresCount
  <2>. SUFFICES ASSUME SemInv, NEW s \in (LiveSets \ Uninitialised) \ early
                PROVE  SemaphoresCount!(s)
    BY DEF SemaphoresCount
  <2>1. s \in Servers /\ semset[s] # "removed" /\ s \notin early
    BY DEF LiveSets
  <2>2. n_readers[s] = Cardinality(Readers(s))
    BY <2>1 DEF SemInv, Counted
  <2>3. {w \in Servers : Writing(w) /\ semset_id[w] = s} = IF Writing(s) THEN {s} ELSE {}
    BY <2>1, SharedTimeAssumption DEF SemInv, OwnSet, Writing, Working, Setting
  <2>4. n_writers[s] = Cardinality({w \in Servers : Writing(w) /\ semset_id[w] = s})
    BY <2>1, <2>3, FS_EmptySet, FS_Singleton DEF SemInv, Counted
  <2>. QED
    BY <2>2, <2>4 DEF Readers
<1>. QED
  BY <1>1, SemInvInit, SemInvNext, PTL DEF Spec
-----------------------------------------------------------------------------
(* Segments, texts and bounds *)

\* A process that runs has found a segment that was created, and a segment that
\* was not is zero bytes.  The loop counter has not reached Rounds before the loop
\* ends.
Placed ==
  /\ \A p \in Processes : Running(p) <=> seg_id[p] # None
  /\ \A p \in Processes : seg_id[p] # None => segment[seg_id[p]] # "none"
  /\ \A s \in Servers : pc[s] = "new" => segment[s] = "none"
  /\ \A s \in Servers : segment[s] = "none" => mem[s] = <<Blank, Blank>>
  /\ \A s \in Servers : n[s] < Rounds \/ pc[s] \in {"rm_segment", "rm_set", "exit"}

\* The clients that have locked and will not add 1 to sem[0] of s when they end.
Taken(s) ==
  {c \in Clients : /\ pc[c] \in {"print1", "print2", "unlock", "shmdt", "exit"}
                   /\ ~(semset_id[c] = s /\ semadj[c] = 1)}

\* SETVAL forgets what a client that locked early would undo, which makes its
\* release one too many; the end of the process sets that right, so that the
\* count never exceeds the clients that have locked.
Owed ==
  /\ \A c \in Clients :
       semadj[c] \in IF Reading(c) THEN {-1, 0} ELSE IF pc[c] = "shmdt" THEN {0, 1} ELSE {0}
  /\ \A s \in Servers : n_readers[s] \in 0 .. Cardinality(Taken(s))
  /\ \A s \in Servers : n_writers[s] \in {0, 1}

\* The types of the variables that SemTypes leaves out.
TextTypes ==
  /\ segment \in [Servers -> {"none", "live", "removed"}]
  /\ mem \in [Servers -> Texts \X Texts]
  /\ seg_id \in [Processes -> Servers \union {None}]
  /\ n \in [Servers -> 0 .. Rounds]
  /\ text \in [Clients -> Texts \X Texts]
  /\ interrupted \in SUBSET Servers
  /\ cut \in SUBSET Texts

TextInv == TextTypes /\ Placed /\ Owed

\* One half of a pair.
LEMMA Halves ==
  ASSUME NEW T, NEW pair \in T \X T, NEW t \in T
  PROVE  /\ [pair EXCEPT ![1] = t] = <<t, pair[2]>>
         /\ [pair EXCEPT ![2] = t] = <<pair[1], t>>
         /\ pair[1] \in T /\ pair[2] \in T
OBVIOUS

LEMMA StampIsText ==
  ASSUME SemInv, TextTypes, NEW s \in Servers
  PROVE  Stamp(s) \in Texts /\ (s # None => Stamp(s) # Blank) /\ Stamp(s)[3] = semset_id[s]
<1>1. n[s] \in 0 .. Rounds /\ semset_id[s] \in Servers \union {None}
  BY DEF TextTypes, SemInv, SemTypes, Processes
<1>. QED
  BY <1>1 DEF Stamp, Texts, Blank

LEMMA BlankIsText == <<Blank, Blank>> \in Texts \X Texts
BY SharedTimeAssumption DEF Blank, Texts

\* strcpy writes one half of the segment of its server, and nothing else.
LEMMA StrcpyWrites ==
  ASSUME SemInv, TextInv, NEW s \in Servers, Strcpy(s)
  PROVE  /\ semset_id[s] = s /\ seg_id[s] \in Servers
         /\ \/ /\ pc[s] = "strcpy1" /\ GoTo(s, "strcpy2")
               /\ mem' = [mem EXCEPT ![seg_id[s]] = <<Stamp(s), mem[seg_id[s]][2]>>]
            \/ /\ pc[s] = "strcpy2" /\ GoTo(s, "unlock")
               /\ mem' = [mem EXCEPT ![seg_id[s]] = <<mem[seg_id[s]][1], Stamp(s)>>]
<1>1. pc[s] \in {"strcpy1", "strcpy2"} /\ s \in Processes
  BY DEF Strcpy, ServerAt, Processes
<1>2. semset_id[s] = s
  BY <1>1 DEF SemInv, OwnSet, Working
<1>3. seg_id[s] \in Servers
  BY <1>1 DEF TextInv, Placed, TextTypes, Running
<1>4. mem[seg_id[s]] \in Texts \X Texts /\ Stamp(s) \in Texts
  BY <1>3, StampIsText DEF TextInv, TextTypes
<1>5. /\ [mem[seg_id[s]] EXCEPT ![1] = Stamp(s)] = <<Stamp(s), mem[seg_id[s]][2]>>
      /\ [mem[seg_id[s]] EXCEPT ![2] = Stamp(s)] = <<mem[seg_id[s]][1], Stamp(s)>>
  BY <1>4, Halves
<1>6. CASE pc[s] = "strcpy1"
  BY <1>2, <1>3, <1>5, <1>6 DEF Strcpy, ServerAt
<1>7. CASE pc[s] = "strcpy2"
  BY <1>2, <1>3, <1>5, <1>7 DEF Strcpy, ServerAt
<1>. QED
  BY <1>1, <1>6, <1>7

\* printf reads one half of the segment.
LEMMA PrintfReads ==
  ASSUME SemInv, TextInv, NEW c \in Clients, Printf(c)
  PROVE  /\ seg_id[c] \in Servers
         /\ \/ /\ pc[c] = "print1" /\ GoTo(c, "print2")
               /\ text' = [text EXCEPT ![c] = <<mem[seg_id[c]][1], text[c][2]>>]
            \/ /\ pc[c] = "print2" /\ GoTo(c, "unlock")
               /\ text' = [text EXCEPT ![c] = <<text[c][1], mem[seg_id[c]][2]>>]
<1>1. pc[c] \in {"print1", "print2"} /\ c \in Processes
  BY DEF Printf, Processes
<1>2. seg_id[c] \in Servers
  BY <1>1 DEF TextInv, Placed, TextTypes, Running
<1>3. mem[seg_id[c]][1] \in Texts /\ mem[seg_id[c]][2] \in Texts /\ text[c] \in Texts \X Texts
  BY <1>2, Halves DEF TextInv, TextTypes
<1>4. /\ [text[c] EXCEPT ![1] = mem[seg_id[c]][1]] = <<mem[seg_id[c]][1], text[c][2]>>
      /\ [text[c] EXCEPT ![2] = mem[seg_id[c]][2]] = <<text[c][1], mem[seg_id[c]][2]>>
  BY <1>3, Halves
<1>5. CASE pc[c] = "print1"
  BY <1>2, <1>4, <1>5 DEF Printf
<1>6. CASE pc[c] = "print2"
  BY <1>2, <1>4, <1>6 DEF Printf
<1>. QED
  BY <1>1, <1>5, <1>6
-----------------------------------------------------------------------------
LEMMA TakenGrows ==
  ASSUME NEW s, Taken(s) \subseteq Taken(s)'
  PROVE  /\ Cardinality(Taken(s)) \in Nat /\ Cardinality(Taken(s)') \in Nat
         /\ Cardinality(Taken(s)) =< Cardinality(Taken(s)')
<1>1. Taken(s) \in SUBSET Clients /\ Taken(s)' \in SUBSET Clients
  BY DEF Taken
<1>2. IsFiniteSet(Taken(s)) /\ IsFiniteSet(Taken(s)')
  BY <1>1, SharedTimeAssumption, FS_Subset
<1>3. Taken(s) \in SUBSET (Taken(s)')
  OBVIOUS
<1>4. Cardinality(Taken(s)) =< Cardinality(Taken(s)')
  BY <1>2, <1>3, FS_Subset
<1>. QED
  BY <1>2, <1>4, FS_CardinalityType

\* A count that does not grow stays below the clients that have locked.
LEMMA CountsLess ==
  ASSUME Owed, NEW s \in Servers, Taken(s) \subseteq Taken(s)',
         n_readers'[s] \in 0 .. n_readers[s]
  PROVE  n_readers'[s] \in 0 .. Cardinality(Taken(s)')
<1>1. n_readers[s] \in 0 .. Cardinality(Taken(s))
  BY DEF Owed
<1>. QED
  BY <1>1, TakenGrows

\* A process ends: only it loses its segment, and the kernel adds semadj to the
\* semaphore of its side.
LEMMA ExitKeepsText ==
  ASSUME SemInv, TextInv, NEW p \in Processes, Exit(p), pc[p] # "new",
         UNCHANGED <<segment, mem, n, interrupted>>, cut' \in SUBSET Texts
  PROVE  TextInv'
<1>. USE SharedTimeAssumption DEF TextInv
<1>1. /\ \A q \in Processes : pc'[q] = IF q = p THEN "exit" ELSE pc[q]
      /\ \A q \in Processes : seg_id'[q] = IF q = p THEN None ELSE seg_id[q]
      /\ \A q \in Processes : semset_id'[q] = IF q = p THEN None ELSE semset_id[q]
      /\ \A q \in Processes : semadj'[q] = IF q = p THEN 0 ELSE semadj[q]
  BY DEF Exit, GoTo, SemInv, SemTypes, TextTypes
<1>2. TextTypes'
  <2>1. seg_id' \in [Processes -> Servers \union {None}]
    BY DEF Exit, TextTypes
  <2>2. text' \in [Clients -> Texts \X Texts]
    BY BlankIsText DEF Exit, TextTypes
  <2>. QED
    BY <2>1, <2>2 DEF TextTypes
<1>3. Placed'
  <2>1. \A q \in Processes : Running(q)' <=> Running(q) /\ q # p
    BY <1>1 DEF Running
  <2>2. \A q \in Processes : seg_id'[q] # None => seg_id'[q] = seg_id[q]
    BY <1>1
  <2>3. \A q \in Processes : (Running(q) <=> seg_id[q] # None)'
    BY <1>1, <2>1 DEF Placed
  <2>4. \A s \in Servers : (n[s] < Rounds \/ pc[s] \in {"rm_segment", "rm_set", "exit"})'
    BY <1>1 DEF Placed, Processes
  <2>. QED
    BY <1>1, <2>2, <2>3, <2>4 DEF Placed, Processes
<1>4. Owed'
  <2>1. \A c \in Clients : Reading(c)' <=> Reading(c) /\ c # p
    BY <1>1 DEF Reading, Processes
  <2>2. ASSUME NEW s \in Servers PROVE n_readers'[s] \in 0 .. Cardinality(Taken(s)')
    <3>1. Taken(s) \subseteq Taken(s)'
      BY <1>1 DEF Taken, Processes
    <3>2. n_readers[s] \in Nat /\ n_readers[s] \in 0 .. Cardinality(Taken(s)) /\ Cardinality(Taken(s)) \in Nat
      BY <3>1, TakenGrows DEF Owed
    <3>3. CASE p \notin Clients \/ semset_id[p] # s \/ semadj[p] = 0
      <4>1. n_readers'[s] = n_readers[s]
        BY <3>3 DEF Exit, Undone, SemInv, SemTypes
      <4>. QED
        BY <3>1, <3>2, <4>1, CountsLess
    <3>4. CASE p \in Clients /\ semset_id[p] = s /\ semadj[p] # 0
      <4>0. n_readers'[s] = IF n_readers[s] + semadj[p] < 0 THEN 0 ELSE n_readers[s] + semadj[p]
        BY <3>4 DEF Exit, Undone, SemInv, SemTypes
      <4>1. CASE semadj[p] = -1
        <5>. n_readers'[s] \in 0 .. n_readers[s]
          BY <3>2, <4>0, <4>1
        <5>. QED
          BY <3>1, CountsLess
      <4>2. CASE semadj[p] = 1
        <5>1. p \notin Taken(s) /\ p \in Taken(s)' /\ Taken(s) \union {p} \subseteq Taken(s)'
          BY <1>1, <3>1, <3>4, <4>2 DEF Taken, Processes
        <5>2. /\ IsFiniteSet(Taken(s)) /\ IsFiniteSet(Taken(s)')
              /\ Taken(s) \union {p} \in SUBSET (Taken(s)')
          BY <5>1, FS_Subset DEF Taken
        <5>3. Cardinality(Taken(s)) + 1 =< Cardinality(Taken(s)')
          <6>1. Cardinality(Taken(s) \union {p}) = Cardinality(Taken(s)) + 1
            BY <5>1, <5>2, FS_AddElement
          <6>2. Cardinality(Taken(s) \union {p}) =< Cardinality(Taken(s)')
            BY <5>2, FS_Subset
          <6>. QED
            BY <6>1, <6>2
        <5>. QED
          BY <3>1, <3>2, <4>0, <4>2, <5>3, TakenGrows
      <4>. QED
        BY <3>4, <4>1, <4>2 DEF Owed
    <3>. QED
      BY <3>3, <3>4
  <2>3. ASSUME NEW s \in Servers PROVE n_writers'[s] \in {0, 1}
    <3>1. p \in Servers => semadj[p] \in {-1, 0}
      BY DEF SemInv, Adjusted
    <3>2. n_writers[s] \in {0, 1}
      BY DEF Owed
    <3>3. n_writers'[s] = n_writers[s]
            \/ (p \in Servers /\ n_writers'[s] = IF n_writers[s] + semadj[p] < 0 THEN 0 ELSE n_writers[s] + semadj[p])
      BY DEF Exit, Undone, SemInv, SemTypes
    <3>. QED
      BY <3>1, <3>2, <3>3
  <2>. QED
    BY <1>1, <2>1, <2>2, <2>3 DEF Owed, Processes
<1>. QED
  BY <1>2, <1>3, <1>4

\* A step of a process that stays on its way and leaves segments and texts alone.
LEMMA PlacesKept ==
  ASSUME SemInv, TextInv, NEW p \in Processes, NEW label, GoTo(p, label), Running(p),
         label \notin {"new", "exit"},
         UNCHANGED <<segment, mem, seg_id, n, text, interrupted, cut>>,
         p \in Servers => n[p] < Rounds \/ label \in {"rm_segment", "rm_set"}
  PROVE  TextTypes' /\ Placed'
<1>. USE SharedTimeAssumption DEF TextInv
<1>1. \A q \in Processes : pc'[q] = IF q = p THEN label ELSE pc[q]
  BY DEF GoTo, SemInv, SemTypes
<1>2. \A q \in Processes : Running(q)' <=> Running(q)
  BY <1>1 DEF Running
<1>3. TextTypes'
  BY DEF TextTypes
<1>4. \A s \in Servers : (n[s] < Rounds \/ pc[s] \in {"rm_segment", "rm_set", "exit"})'
  BY <1>1 DEF Placed, Processes
<1>5. \A s \in Servers : (pc[s] = "new" => segment[s] = "none")'
  BY <1>1 DEF Placed, Processes
<1>. QED
  BY <1>2, <1>3, <1>4, <1>5 DEF Placed

\* A step that no client's count depends on.
LEMMA OwedKept ==
  ASSUME Owed, UNCHANGED <<n_readers, n_writers, semadj>>,
         \A c \in Clients : (Reading(c)' <=> Reading(c)) /\ (pc[c] = "shmdt" => pc'[c] = "shmdt"),
         \A s \in Servers : Taken(s) \subseteq Taken(s)'
  PROVE  Owed'
<1>1. ASSUME NEW s \in Servers PROVE n_readers'[s] \in 0 .. Cardinality(Taken(s)')
  <2>1. n_readers[s] \in 0 .. Cardinality(Taken(s)) /\ Cardinality(Taken(s)) \in Nat
    BY TakenGrows DEF Owed
  <2>. QED
    BY <2>1, CountsLess
<1>2. ASSUME NEW c \in Clients
      PROVE  (semadj[c] \in IF Reading(c) THEN {-1, 0} ELSE IF pc[c] = "shmdt" THEN {0, 1} ELSE {0})'
  BY DEF Owed
<1>. QED
  BY <1>1, <1>2 DEF Owed
-----------------------------------------------------------------------------
LEMMA ServerStartText ==
  ASSUME SemInv, TextInv, NEW s \in Servers,
         Shmget(s) \/ (handler[s] = "idle" /\ Shmat(s, "semget"))
  PROVE  TextInv'
<1>. USE SharedTimeAssumption DEF TextInv
<1>1. s \in Processes /\ s \notin Clients
  BY DEF Processes
<1>2. CASE Shmget(s)
  <2>1. pc[s] = "new" /\ segment[s] = "none" /\ mem[s] = <<Blank, Blank>>
    BY <1>1, <1>2 DEF Shmget, MayStart, Started, Placed
  <2>2. /\ \A q \in Processes : pc'[q] = IF q = s THEN "shmat" ELSE pc[q]
        /\ UNCHANGED <<n_readers, n_writers, semadj, semset_id, n, interrupted, cut, text>>
    BY <1>2 DEF Shmget, GoTo, serverVars, SemInv, SemTypes
  <2>3. PICK found \in Servers :
          /\ seg_id' = [seg_id EXCEPT ![s] = found]
          /\ \/ UNCHANGED <<segment, mem>> /\ segment[found] = "live"
             \/ found = s /\ segment' = [segment EXCEPT ![s] = "live"]
                /\ mem' = [mem EXCEPT ![s] = <<Blank, Blank>>]
    BY <1>2 DEF Shmget, LiveSegments
  <2>4. mem' = mem
    BY <2>1, <2>3 DEF TextTypes
  <2>5. \A q \in Processes : seg_id'[q] = IF q = s THEN found ELSE seg_id[q]
    BY <2>3 DEF TextTypes
  <2>6. /\ segment' \in [Servers -> {"none", "live", "removed"}]
        /\ \A q \in Servers : segment'[q] = segment[q] \/ (q = s /\ segment'[q] = "live")
        /\ segment'[found] = "live"
    BY <2>3 DEF TextTypes
  <2>7. TextTypes'
    BY <1>1, <2>2, <2>3, <2>4, <2>6 DEF TextTypes
  <2>8. \A q \in Processes : (Running(q) <=> seg_id[q] # None)'
    BY <2>2, <2>5 DEF Placed, Running
  <2>9. \A q \in Processes : (seg_id[q] # None => segment[seg_id[q]] # "none")'
    <3>. SUFFICES ASSUME NEW q \in Processes, q # s, seg_id[q] # None
                  PROVE  segment'[seg_id[q]] # "none"
      BY <2>5, <2>6
    <3>1. seg_id[q] \in Servers /\ segment[seg_id[q]] # "none"
      BY DEF TextTypes, Placed
    <3>. QED
      BY <2>6, <3>1
  <2>10. \A q \in Servers : /\ (pc[q] = "new" => segment[q] = "none")'
                            /\ (segment[q] = "none" => mem[q] = <<Blank, Blank>>)'
                            /\ (n[q] < Rounds \/ pc[q] \in {"rm_segment", "rm_set", "exit"})'
    BY <1>1, <2>1, <2>2, <2>4, <2>6 DEF Placed, Processes
  <2>11. Owed'
    <3>1. \A c \in Clients : (Reading(c)' <=> Reading(c)) /\ pc'[c] = pc[c]
      BY <1>1, <2>2 DEF Reading, Processes
    <3>. QED
      BY <2>2, <3>1, OwedKept DEF Taken
  <2>. QED
    BY <2>7, <2>8, <2>9, <2>10, <2>11 DEF Placed
<1>3. CASE Shmat(s, "semget") /\ Exit(s)
  BY <1>1, <1>3, ExitKeepsText DEF Shmat, serverVars, Unremoved, TextTypes, Exit
<1>4. CASE Shmat(s, "semget") /\ ~Exit(s)
  <2>1. /\ pc[s] = "shmat" /\ GoTo(s, "semget")
        /\ UNCHANGED <<segment, mem, n_readers, n_writers, semadj, seg_id, semset_id, text, n,
                       interrupted, cut>>
    BY <1>4 DEF Shmat, serverVars, memoryVars, Unremoved
  <2>2. n[s] < Rounds /\ Running(s)
    BY <2>1 DEF Placed, Running
  <2>3. TextTypes' /\ Placed'
    BY <1>1, <2>1, <2>2, PlacesKept
  <2>4. \A c \in Clients : (Reading(c)' <=> Reading(c)) /\ pc'[c] = pc[c]
    BY <1>1, <2>1 DEF Reading, GoTo, SemInv, SemTypes
  <2>. QED
    BY <2>1, <2>3, <2>4, OwedKept DEF Taken
<1>. QED
  BY <1>2, <1>3, <1>4

LEMMA SemgetText == ASSUME SemInv, TextInv, NEW s \in Servers, Semget(s) PROVE TextInv'
<1>. USE SharedTimeAssumption DEF TextInv
<1>1. s \in Processes /\ s \notin Clients /\ pc[s] = "semget" /\ UNCHANGED <<n, interrupted, cut>>
  BY DEF Processes, Semget, serverVars, ServerAt
<1>2. CASE Exit(s)
  BY <1>1, <1>2, ExitKeepsText DEF Semget, TextTypes
<1>3. CASE ~Exit(s)
  <2>1. /\ GoTo(s, "set_readers")
        /\ UNCHANGED <<segment, mem, n_readers, n_writers, semadj, seg_id, text>>
        /\ semset_id' = [semset_id EXCEPT ![s] = s]
    BY <1>3 DEF Semget
  <2>2. n[s] < Rounds /\ Running(s)
    BY <1>1 DEF Placed, Running
  <2>3. TextTypes' /\ Placed'
    BY <1>1, <2>1, <2>2, PlacesKept
  <2>4. \A c \in Clients : /\ (Reading(c)' <=> Reading(c)) /\ pc'[c] = pc[c]
                           /\ semset_id'[c] = semset_id[c]
    BY <1>1, <2>1 DEF Reading, GoTo, SemInv, SemTypes, Processes
  <2>. QED
    BY <2>1, <2>3, <2>4, OwedKept DEF Taken
<1>. QED
  BY <1>2, <1>3

\* SETVAL resets a count together with what its side would undo.
LEMMA SetvalText ==
  ASSUME SemInv, TextInv, NEW s \in Servers, SetReaders(s) \/ SetWriters(s)
  PROVE  TextInv'
<1>. USE SharedTimeAssumption DEF TextInv
<1>1. /\ s \in Processes /\ s \notin Clients /\ pc[s] \in Setting
      /\ UNCHANGED <<segment, mem, seg_id, semset_id, text, n, interrupted, cut>>
  BY DEF Processes, SetReaders, SetWriters, serverVars, memoryVars, Unremoved, ServerAt, Setting
<1>2. PICK label \in {"set_writers", "lock"} : GoTo(s, label)
  BY DEF SetReaders, SetWriters
<1>3. n[s] < Rounds /\ Running(s)
  BY <1>1 DEF Placed, Running, Setting
<1>4. TextTypes' /\ Placed'
  BY <1>1, <1>2, <1>3, PlacesKept
<1>5. \A c \in Clients : (Reading(c)' <=> Reading(c)) /\ pc'[c] = pc[c]
  BY <1>1, <1>2 DEF Reading, GoTo, SemInv, SemTypes
<1>6. /\ \A q \in Servers : n_readers'[q] = n_readers[q] \/ n_readers'[q] = 0
      /\ \A q \in Servers : n_writers'[q] = n_writers[q] \/ n_writers'[q] = 0
      /\ \A q \in Processes : semadj'[q] = semadj[q] \/ semadj'[q] = 0
  BY DEF SetReaders, SetWriters, Forget, SemInv, SemTypes
<1>7. ASSUME NEW q \in Servers PROVE n_readers'[q] \in 0 .. Cardinality(Taken(q)')
  <2>1. Taken(q) \subseteq Taken(q)'
    BY <1>1, <1>5, <1>6 DEF Taken, Processes
  <2>2. n_readers[q] \in Nat
    BY <2>1, TakenGrows DEF Owed
  <2>. QED
    BY <1>6, <2>1, <2>2, CountsLess
<1>8. ASSUME NEW c \in Clients
      PROVE  (semadj[c] \in IF Reading(c) THEN {-1, 0} ELSE IF pc[c] = "shmdt" THEN {0, 1} ELSE {0})'
  BY <1>5, <1>6 DEF Owed, Processes
<1>. QED
  BY <1>4, <1>6, <1>7, <1>8 DEF Owed

\* wait_and_lock and release_lock of the server
LEMMA ServerSemopText ==
  ASSUME SemInv, TextInv, NEW s \in Servers, ServerLock(s) \/ ServerUnlock(s)
  PROVE  TextInv'
<1>. USE SharedTimeAssumption DEF TextInv
<1>1. /\ s \in Processes /\ s \notin Clients /\ pc[s] \in {"lock", "unlock"} /\ semset_id[s] = s
      /\ UNCHANGED <<segment, mem, n, interrupted, cut>>
  BY DEF Processes, ServerLock, ServerUnlock, serverVars, Unremoved, ServerAt, SemInv, OwnSet, Working
<1>2. CASE SemopFails(s)
  BY <1>1, <1>2, ExitKeepsText DEF SemopFails, TextTypes
<1>3. CASE ~SemopFails(s)
  <2>1. PICK label \in {"strcpy1", "sleep"} :
          /\ GoTo(s, label)
          /\ UNCHANGED <<n_readers, seg_id, semset_id, text>>
          /\ semset[s] = "live"
          /\ \/ pc[s] = "lock" /\ n_writers' = [n_writers EXCEPT ![s] = @ + 1]
                /\ semadj' = [semadj EXCEPT ![s] = @ - 1]
             \/ pc[s] = "unlock" /\ n_writers' = [n_writers EXCEPT ![s] = @ - 1]
                /\ semadj' = [semadj EXCEPT ![s] = @ + 1] /\ n_writers[s] > 0
    BY <1>1, <1>3 DEF ServerLock, ServerUnlock, memoryVars, ServerAt
  <2>2. n[s] < Rounds /\ Running(s)
    BY <1>1 DEF Placed, Running
  <2>3. TextTypes' /\ Placed'
    BY <1>1, <2>1, <2>2, PlacesKept
  <2>4. \A c \in Clients : /\ (Reading(c)' <=> Reading(c)) /\ pc'[c] = pc[c]
                           /\ semadj'[c] = semadj[c]
    BY <1>1, <2>1 DEF Reading, GoTo, SemInv, SemTypes, Processes
  <2>5. ASSUME NEW q \in Servers PROVE n_writers'[q] \in {0, 1}
    <3>1. n_writers[q] \in {0, 1}
      BY DEF Owed
    <3>2. pc[s] = "lock" => n_writers[s] = 0
      BY <2>1 DEF SemInv, Counted, Writing
    <3>. QED
      BY <2>1, <3>1, <3>2 DEF SemInv, SemTypes
  <2>6. ASSUME NEW q \in Servers PROVE n_readers'[q] \in 0 .. Cardinality(Taken(q)')
    <3>1. Taken(q) \subseteq Taken(q)'
      BY <2>1, <2>4 DEF Taken
    <3>2. n_readers[q] \in Nat
      BY <3>1, TakenGrows DEF Owed
    <3>. QED
      BY <2>1, <3>1, <3>2, CountsLess
  <2>. QED
    BY <2>3, <2>4, <2>5, <2>6 DEF Owed
<1>. QED
  BY <1>2, <1>3

LEMMA ServerWorkText ==
  ASSUME SemInv, TextInv, NEW s \in Servers,
         Strcpy(s) \/ NextRound(s) \/ Cleanup(s) \/ Interrupt(s) \/ Handler(s)
  PROVE  TextInv'
<1>. USE SharedTimeAssumption DEF TextInv
<1>1. s \in Processes /\ s \notin Clients /\ UNCHANGED <<cut, early>>
  BY DEF Processes, Strcpy, NextRound, Cleanup, Interrupt, Handler, serverVars
<1>2. ASSUME UNCHANGED <<n_readers, n_writers, semadj, semset_id>>, \A c \in Clients : pc'[c] = pc[c]
      PROVE  Owed'
  BY <1>2, OwedKept DEF Reading, Taken
<1>3. CASE Strcpy(s)
  <2>1. /\ UNCHANGED <<segment, n_readers, n_writers, semadj, seg_id, semset_id, n, text, interrupted>>
        /\ pc[s] \in {"strcpy1", "strcpy2"}
    BY <1>3 DEF Strcpy, serverVars, memoryVars, ServerAt
  <2>2. PICK pair \in Texts \X Texts : mem' = [mem EXCEPT ![seg_id[s]] = pair]
    <3>1. seg_id[s] \in Servers /\ Stamp(s) \in Texts /\ mem[seg_id[s]] \in Texts \X Texts
      BY <1>3, StrcpyWrites, StampIsText DEF TextTypes
    <3>2. mem[seg_id[s]][1] \in Texts /\ mem[seg_id[s]][2] \in Texts
      BY <3>1, Halves
    <3>. QED
      BY <1>3, <3>1, <3>2, StrcpyWrites
  <2>3. PICK label \in {"strcpy2", "unlock"} : GoTo(s, label)
    BY <1>3, StrcpyWrites
  <2>4. \A q \in Processes : pc'[q] = IF q = s THEN label ELSE pc[q]
    BY <2>3 DEF GoTo, SemInv, SemTypes
  <2>5. TextTypes'
    BY <1>1, <2>1, <2>2 DEF TextTypes
  <2>6. segment[seg_id[s]] # "none" /\ n[s] < Rounds
    BY <1>1, <2>1 DEF Placed, Running
  <2>7. \A q \in Processes : Running(q)' <=> Running(q)
    BY <2>1, <2>4 DEF Running
  <2>8. \A q \in Servers : /\ (pc[q] = "new" => segment[q] = "none")'
                           /\ (segment[q] = "none" => mem[q] = <<Blank, Blank>>)'
                           /\ (n[q] < Rounds \/ pc[q] \in {"rm_segment", "rm_set", "exit"})'
    BY <1>1, <2>1, <2>2, <2>4, <2>6 DEF Placed, Processes, TextTypes
  <2>9. Placed'
    BY <2>1, <2>7, <2>8 DEF Placed
  <2>10. Owed'
    BY <1>1, <1>2, <2>1, <2>4 DEF Processes
  <2>. QED
    BY <2>5, <2>9, <2>10
<1>4. CASE NextRound(s)
  <2>1. /\ UNCHANGED <<segment, mem, n_readers, n_writers, semadj, seg_id, semset_id, text, interrupted>>
        /\ pc[s] = "sleep" /\ n' = [n EXCEPT ![s] = @ + 1]
        /\ GoTo(s, IF n[s] + 1 < Rounds THEN "lock" ELSE "rm_segment")
    BY <1>4 DEF NextRound, kernelVars, memoryVars, ServerAt
  <2>2. \A q \in Processes :
          pc'[q] = IF q = s THEN (IF n[s] + 1 < Rounds THEN "lock" ELSE "rm_segment") ELSE pc[q]
    BY <2>1 DEF GoTo, SemInv, SemTypes
  <2>3. n[s] < Rounds /\ n[s] \in 0 .. Rounds
    BY <1>1, <2>1 DEF Placed, TextTypes
  <2>4. n' \in [Servers -> 0 .. Rounds]
    BY <2>1, <2>3 DEF TextTypes
  <2>5. TextTypes'
    BY <1>1, <2>1, <2>4 DEF TextTypes
  <2>6. \A q \in Processes : Running(q)' <=> Running(q)
    BY <2>1, <2>2 DEF Running
  <2>7. \A q \in Servers : /\ (pc[q] = "new" => segment[q] = "none")'
                           /\ (n[q] < Rounds \/ pc[q] \in {"rm_segment", "rm_set", "exit"})'
    BY <1>1, <2>1, <2>2 DEF Placed, Processes, TextTypes
  <2>8. Placed'
    BY <2>1, <2>6, <2>7 DEF Placed
  <2>9. Owed'
    BY <1>1, <1>2, <2>1, <2>2 DEF Processes
  <2>. QED
    BY <2>5, <2>8, <2>9
<1>5. ASSUME UNCHANGED <<mem, n_readers, n_writers, semadj, seg_id, semset_id, text, n>>,
             interrupted' \in SUBSET Servers,
             segment' \in [Servers -> {"none", "live", "removed"}],
             \A q \in Servers : segment'[q] = segment[q] \/ (segment'[q] = "removed" /\ segment[q] # "none"),
             \A q \in Processes : pc'[q] = pc[q] \/ (q = s /\ pc[q] = "rm_segment" /\ pc'[q] = "rm_set")
      PROVE  TextInv'
  <2>1. TextTypes'
    BY <1>1, <1>5 DEF TextTypes
  <2>2. \A q \in Processes : Running(q)' <=> Running(q)
    BY <1>5 DEF Running
  <2>3. \A q \in Processes : (seg_id[q] # None => segment[seg_id[q]] # "none")'
    <3>. SUFFICES ASSUME NEW q \in Processes, seg_id[q] # None PROVE segment'[seg_id[q]] # "none"
      BY <1>5
    <3>1. seg_id[q] \in Servers /\ segment[seg_id[q]] # "none"
      BY DEF TextTypes, Placed
    <3>. QED
      BY <1>5, <3>1
  <2>4. \A q \in Servers : /\ (pc[q] = "new" => segment[q] = "none")'
                           /\ (segment[q] = "none" => mem[q] = <<Blank, Blank>>)'
                           /\ (n[q] < Rounds \/ pc[q] \in {"rm_segment", "rm_set", "exit"})'
    BY <1>5 DEF Placed, Processes
  <2>5. Placed'
    BY <1>5, <2>2, <2>3, <2>4 DEF Placed
  <2>6. Owed'
    BY <1>1, <1>2, <1>5 DEF Processes
  <2>. QED
    BY <2>1, <2>5, <2>6
<1>6. CASE Cleanup(s) /\ pc[s] = "rm_set"
  BY <1>1, <1>6, ExitKeepsText DEF Cleanup, ServerAt, serverVars, TextTypes
<1>7. pc[s] \in Working => seg_id[s] \in Servers /\ segment[seg_id[s]] # "none"
  BY <1>1 DEF Working, Placed, TextTypes, Running
<1>8. CASE Cleanup(s) /\ pc[s] = "rm_segment"
  <2>1. /\ UNCHANGED <<mem, n_readers, n_writers, semadj, seg_id, semset_id, text, n, interrupted>>
        /\ RemoveSegment(s) /\ GoTo(s, "rm_set")
    BY <1>8 DEF Cleanup, ServerAt, serverVars, memoryVars
  <2>2. pc[s] \in Working
    BY <1>8 DEF Working
  <2>. QED
    BY <1>1, <1>5, <1>7, <1>8, <2>1, <2>2 DEF RemoveSegment, GoTo, SemInv, SemTypes, TextTypes
<1>9. CASE Interrupt(s)
  BY <1>5, <1>9 DEF Interrupt, kernelVars, memoryVars, TextTypes
<1>10. CASE Handler(s)
  <2>1. pc[s] \in Working /\ UNCHANGED <<mem, n_readers, n_writers, semadj, seg_id, semset_id, text, n, interrupted, pc>>
    BY <1>10 DEF Handler, SemInv, OwnSet, memoryVars
  <2>2. segment' = segment \/ RemoveSegment(s)
    BY <1>10 DEF Handler
  <2>. QED
    BY <1>5, <1>7, <2>1, <2>2 DEF RemoveSegment, TextTypes
<1>. QED
  BY <1>3, <1>4, <1>6, <1>8, <1>9, <1>10 DEF Cleanup, ServerAt
-----------------------------------------------------------------------------
LEMMA ClientStartText ==
  ASSUME SemInv, TextInv, NEW c \in Clients,
         ClientShmget(c) \/ Shmat(c, "semget") \/ ClientSemget(c)
  PROVE  TextInv'
<1>. USE SharedTimeAssumption DEF TextInv
<1>1. c \in Processes /\ c \notin Servers
  BY DEF Processes
<1>2. UNCHANGED <<segment, mem, n, interrupted, cut>>
  BY DEF ClientShmget, Shmat, ClientSemget, serverVars, kernelVars, Unremoved
<1>3. CASE ClientShmget(c)
  <2>1. pc[c] = "new" /\ UNCHANGED <<n_readers, n_writers, semadj, semset_id, text>>
    BY <1>1, <1>3 DEF ClientShmget, MayStart, Started, kernelVars
  <2>2. PICK label \in {"shmat", "exit"}, found \in Servers \union {None} :
          /\ GoTo(c, label) /\ seg_id' = [seg_id EXCEPT ![c] = found]
          /\ label = "shmat" => found # None /\ segment[found] = "live"
          /\ label = "exit" => found = None
    <3>1. CASE GoTo(c, "shmat") /\ \E s \in LiveSegments : seg_id' = [seg_id EXCEPT ![c] = s]
      BY <3>1 DEF LiveSegments
    <3>2. CASE GoTo(c, "exit") /\ UNCHANGED seg_id
      <4>1. seg_id[c] = None /\ seg_id = [seg_id EXCEPT ![c] = None]
        BY <1>1, <2>1 DEF Placed, Running, TextTypes
      <4>. QED
        BY <3>2, <4>1
    <3>. QED
      BY <1>3, <3>1, <3>2 DEF ClientShmget
  <2>3. /\ \A q \in Processes : pc'[q] = IF q = c THEN label ELSE pc[q]
        /\ \A q \in Processes : seg_id'[q] = IF q = c THEN found ELSE seg_id[q]
    BY <2>2 DEF GoTo, SemInv, SemTypes, TextTypes
  <2>4. TextTypes'
    BY <1>1, <1>2, <2>1, <2>2 DEF TextTypes
  <2>5. \A q \in Processes : (Running(q) <=> seg_id[q] # None)'
    BY <2>2, <2>3 DEF Placed, Running
  <2>6. \A q \in Processes : (seg_id[q] # None => segment[seg_id[q]] # "none")'
    BY <1>2, <2>2, <2>3 DEF Placed
  <2>7. \A q \in Servers : pc'[q] = pc[q]
    BY <1>1, <2>3 DEF Processes
  <2>8. Placed'
    BY <1>2, <2>5, <2>6, <2>7 DEF Placed
  <2>9. \A q \in Clients : (Reading(q)' <=> Reading(q)) /\ (pc[q] = "shmdt" => pc'[q] = "shmdt")
    BY <2>1, <2>2, <2>3 DEF Reading, Processes
  <2>10. \A s \in Servers : Taken(s) \subseteq Taken(s)'
    BY <2>1, <2>2, <2>3 DEF Taken, Processes
  <2>. QED
    BY <2>1, <2>4, <2>8, <2>9, <2>10, OwedKept
<1>4. CASE Shmat(c, "semget") /\ Exit(c)
  BY <1>1, <1>2, <1>4, ExitKeepsText DEF Shmat, TextTypes
<1>5. CASE (Shmat(c, "semget") /\ ~Exit(c)) \/ ClientSemget(c)
  <2>1. PICK label \in {"semget", "lock"} :
          /\ GoTo(c, label) /\ pc[c] \in {"shmat", "semget"}
          /\ UNCHANGED <<n_readers, n_writers, semadj, seg_id, text>>
          /\ \A q \in Processes : semset_id'[q] = semset_id[q] \/ q = c
    BY <1>5 DEF Shmat, ClientSemget, kernelVars, memoryVars, SemInv, SemTypes
  <2>2. Running(c)
    BY <2>1 DEF Running
  <2>3. TextTypes' /\ Placed'
    BY <1>1, <1>2, <2>1, <2>2, PlacesKept
  <2>4. \A q \in Processes : pc'[q] = IF q = c THEN label ELSE pc[q]
    BY <2>1 DEF GoTo, SemInv, SemTypes
  <2>5. \A q \in Clients : (Reading(q)' <=> Reading(q)) /\ (pc[q] = "shmdt" => pc'[q] = "shmdt")
    BY <2>1, <2>4 DEF Reading, Processes
  <2>6. \A s \in Servers : Taken(s) \subseteq Taken(s)'
    BY <2>1, <2>4 DEF Taken, Processes
  <2>. QED
    BY <2>1, <2>3, <2>5, <2>6, OwedKept
<1>. QED
  BY <1>3, <1>4, <1>5

LEMMA PrintfText == ASSUME SemInv, TextInv, NEW c \in Clients, Printf(c) PROVE TextInv'
<1>. USE SharedTimeAssumption DEF TextInv
<1>1. /\ c \in Processes /\ c \notin Servers /\ pc[c] \in {"print1", "print2"}
      /\ UNCHANGED <<segment, mem, seg_id, n, interrupted, cut>>
      /\ UNCHANGED <<n_readers, n_writers, semadj, semset_id>>
  BY DEF Processes, Printf, kernelVars, serverVars
<1>2. PICK label \in {"print2", "unlock"} : GoTo(c, label)
  BY PrintfReads
<1>3. \A q \in Processes : pc'[q] = IF q = c THEN label ELSE pc[q]
  BY <1>2 DEF GoTo, SemInv, SemTypes
<1>4. text' \in [Clients -> Texts \X Texts]
  <2>1. seg_id[c] \in Servers
    BY PrintfReads
  <2>2. /\ mem[seg_id[c]][1] \in Texts /\ mem[seg_id[c]][2] \in Texts
        /\ text[c][1] \in Texts /\ text[c][2] \in Texts
    BY <2>1, Halves DEF TextTypes
  <2>. QED
    BY <2>2, PrintfReads DEF TextTypes
<1>5. TextTypes'
  BY <1>1, <1>4 DEF TextTypes
<1>6. (\A q \in Processes : Running(q)' <=> Running(q)) /\ \A q \in Servers : pc'[q] = pc[q]
  BY <1>1, <1>3 DEF Running, Processes
<1>7. Placed'
  BY <1>1, <1>6 DEF Placed
<1>8. \A q \in Clients : (Reading(q)' <=> Reading(q)) /\ (pc[q] = "shmdt" => pc'[q] = "shmdt")
  BY <1>1, <1>3 DEF Reading, Processes
<1>9. \A s \in Servers : Taken(s) \subseteq Taken(s)'
  BY <1>1, <1>3 DEF Taken, Processes
<1>. QED
  BY <1>1, <1>5, <1>7, <1>8, <1>9, OwedKept

LEMMA ClientLockText == ASSUME SemInv, TextInv, NEW c \in Clients, ClientLock(c) PROVE TextInv'
<1>. USE SharedTimeAssumption DEF TextInv
<1>1. /\ c \in Processes /\ c \notin Servers /\ pc[c] = "lock"
      /\ UNCHANGED <<segment, mem, n, interrupted, cut>>
  BY DEF Processes, ClientLock, Unremoved
<1>2. CASE SemopFails(c)
  BY <1>1, <1>2, ExitKeepsText DEF SemopFails, TextTypes
<1>3. CASE ~SemopFails(c)
  <2>. DEFINE set == semset_id[c]
  <2>1. /\ set \in Servers
        /\ n_readers' = [n_readers EXCEPT ![set] = @ + 1]
        /\ semadj' = [semadj EXCEPT ![c] = @ - 1]
        /\ GoTo(c, "print1")
        /\ UNCHANGED <<n_writers, seg_id, semset_id, text>>
    BY <1>1, <1>3 DEF ClientLock, memoryVars, SemInv, SemTypes
  <2>2. /\ \A q \in Processes : pc'[q] = IF q = c THEN "print1" ELSE pc[q]
        /\ \A q \in Processes : semadj'[q] = IF q = c THEN semadj[q] - 1 ELSE semadj[q]
        /\ \A q \in Servers : n_readers'[q] = IF q = set THEN n_readers[q] + 1 ELSE n_readers[q]
    BY <2>1 DEF GoTo, SemInv, SemTypes
  <2>3. Running(c)
    BY <1>1 DEF Running
  <2>4. TextTypes' /\ Placed'
    BY <1>1, <2>1, <2>3, PlacesKept
  <2>5. semadj[c] = 0 /\ semadj'[c] = -1
    BY <1>1, <2>2 DEF Owed, Reading
  <2>6. ASSUME NEW q \in Clients
        PROVE  (semadj[q] \in IF Reading(q) THEN {-1, 0} ELSE IF pc[q] = "shmdt" THEN {0, 1} ELSE {0})'
    BY <2>2, <2>5 DEF Owed, Reading, Processes
  <2>7. ASSUME NEW s \in Servers PROVE n_readers'[s] \in 0 .. Cardinality(Taken(s)')
    <3>1. Taken(s)' = Taken(s) \union {c} /\ c \notin Taken(s)
      BY <1>1, <2>1, <2>2, <2>5 DEF Taken, Processes
    <3>2. IsFiniteSet(Taken(s))
      BY FS_Subset DEF Taken
    <3>3. Cardinality(Taken(s)') = Cardinality(Taken(s)) + 1 /\ Cardinality(Taken(s)) \in Nat
      BY <3>1, <3>2, FS_AddElement, FS_CardinalityType
    <3>4. n_readers[s] \in 0 .. Cardinality(Taken(s))
      BY DEF Owed
    <3>. QED
      BY <2>2, <3>3, <3>4
  <2>. QED
    BY <2>1, <2>4, <2>6, <2>7 DEF Owed
<1>. QED
  BY <1>2, <1>3

LEMMA ClientUnlockText == ASSUME SemInv, TextInv, NEW c \in Clients, ClientUnlock(c) PROVE TextInv'
<1>. USE SharedTimeAssumption DEF TextInv
<1>1. /\ c \in Processes /\ c \notin Servers /\ pc[c] = "unlock"
      /\ UNCHANGED <<segment, mem, n, interrupted, cut>>
  BY DEF Processes, ClientUnlock, Unremoved, serverVars
<1>2. CASE SemopFails(c)
  BY <1>1, <1>2, ExitKeepsText DEF SemopFails, TextTypes
<1>3. CASE ~SemopFails(c)
  <2>. DEFINE set == semset_id[c]
  <2>1. /\ set \in Servers
        /\ n_readers[set] > 0
        /\ n_readers' = [n_readers EXCEPT ![set] = @ - 1]
        /\ semadj' = [semadj EXCEPT ![c] = @ + 1]
        /\ GoTo(c, "shmdt")
        /\ UNCHANGED <<n_writers, seg_id, semset_id, text>>
    BY <1>1, <1>3 DEF ClientUnlock, memoryVars, SemInv, SemTypes, FoundSet, Reading
  <2>2. /\ \A q \in Processes : pc'[q] = IF q = c THEN "shmdt" ELSE pc[q]
        /\ \A q \in Processes : semadj'[q] = IF q = c THEN semadj[q] + 1 ELSE semadj[q]
        /\ \A q \in Servers : n_readers'[q] = IF q = set THEN n_readers[q] - 1 ELSE n_readers[q]
    BY <2>1 DEF GoTo, SemInv, SemTypes
  <2>3. Running(c)
    BY <1>1 DEF Running
  <2>4. TextTypes' /\ Placed'
    BY <1>1, <2>1, <2>3, PlacesKept
  <2>5. semadj[c] \in {-1, 0} /\ semadj'[c] = semadj[c] + 1
    BY <1>1, <2>2 DEF Owed, Reading
  <2>6. ASSUME NEW q \in Clients
        PROVE  (semadj[q] \in IF Reading(q) THEN {-1, 0} ELSE IF pc[q] = "shmdt" THEN {0, 1} ELSE {0})'
    BY <2>2, <2>5 DEF Owed, Reading, Processes
  <2>7. ASSUME NEW s \in Servers PROVE n_readers'[s] \in 0 .. Cardinality(Taken(s)')
    <3>1. Taken(s) \ {c} \subseteq Taken(s)' /\ (s # set => Taken(s) \subseteq Taken(s)')
      BY <1>1, <2>1, <2>2, <2>5 DEF Taken, Processes
    <3>2. IsFiniteSet(Taken(s)) /\ IsFiniteSet(Taken(s)')
      BY FS_Subset DEF Taken
    <3>3. n_readers[s] \in 0 .. Cardinality(Taken(s)) /\ Cardinality(Taken(s)) \in Nat
      BY <3>2, FS_CardinalityType DEF Owed
    <3>4. CASE s # set
      BY <2>2, <3>1, <3>3, <3>4, CountsLess
    <3>5. CASE s = set
      <4>1. Cardinality(Taken(s) \ {c}) >= Cardinality(Taken(s)) - 1
        <5>1. Cardinality(Taken(s) \ {c})
                = IF c \in Taken(s) THEN Cardinality(Taken(s)) - 1 ELSE Cardinality(Taken(s))
          BY <3>2, FS_RemoveElement
        <5>. QED
          BY <3>3, <5>1
      <4>2. Cardinality(Taken(s) \ {c}) =< Cardinality(Taken(s)')
        BY <3>1, <3>2, FS_Subset
      <4>3. Cardinality(Taken(s) \ {c}) \in Nat /\ Cardinality(Taken(s)') \in Nat
        BY <3>2, FS_RemoveElement, FS_CardinalityType
      <4>. QED
        BY <2>1, <2>2, <3>3, <3>5, <4>1, <4>2, <4>3
    <3>. QED
      BY <3>4, <3>5
  <2>. QED
    BY <2>1, <2>4, <2>6, <2>7 DEF Owed
<1>. QED
  BY <1>2, <1>3

\* The fatal signal, and the end of a client.
LEMMA EndText ==
  ASSUME SemInv, TextInv, NEW p \in Processes,
         (p \in Clients /\ ClientReturn(p)) \/ Kill(p)
  PROVE  TextInv'
<1>. USE SharedTimeAssumption DEF TextInv
<1>1. /\ Exit(p) /\ pc[p] # "new" /\ UNCHANGED <<segment, mem, n, interrupted>>
  BY DEF ClientReturn, Kill, Unremoved, serverVars, Running
<1>2. cut' \in SUBSET Texts
  <2>1. CASE cut' = cut
    BY <2>1 DEF TextTypes
  <2>2. CASE p \in Servers /\ cut' = cut \union {Stamp(p)}
    BY <2>2, StampIsText DEF TextTypes
  <2>. QED
    BY <2>1, <2>2 DEF ClientReturn, Kill, serverVars
<1>. QED
  BY <1>1, <1>2, ExitKeepsText
-----------------------------------------------------------------------------
LEMMA TextInvInit == Init => TextInv
<1>. USE SharedTimeAssumption
<1>. SUFFICES ASSUME Init PROVE TextInv
  OBVIOUS
<1>1. \A p \in Processes : pc[p] = "new" /\ seg_id[p] = None /\ semadj[p] = 0
  BY DEF Init
<1>2. TextTypes
  BY BlankIsText DEF Init, TextTypes
<1>3. Placed
  BY <1>1 DEF Init, Placed, Running, Processes
<1>4. ASSUME NEW s \in Servers PROVE n_readers[s] \in 0 .. Cardinality(Taken(s))
  <2>1. Cardinality(Taken(s)) \in Nat
    BY FS_Subset, FS_CardinalityType DEF Taken
  <2>. QED
    BY <2>1 DEF Init
<1>5. Owed
  BY <1>1, <1>4 DEF Init, Owed, Reading, Processes
<1>. QED
  BY <1>2, <1>3, <1>5 DEF TextInv

LEMMA TextInvNext == SemInv /\ TextInv /\ [Next]_vars => TextInv'
<1>. SUFFICES ASSUME SemInv, TextInv, [Next]_vars PROVE TextInv'
  OBVIOUS
<1>1. ASSUME NEW s \in Servers, Shmget(s) PROVE TextInv'
  BY <1>1, ServerStartText
<1>2. ASSUME NEW s \in Servers, ServerSteps(s) PROVE TextInv'
  BY <1>2, ServerStartText, SemgetText, SetvalText, ServerSemopText, ServerWorkText
     DEF ServerSteps
<1>3. ASSUME NEW s \in Servers, Interrupt(s) PROVE TextInv'
  BY <1>3, ServerWorkText
<1>4. ASSUME NEW c \in Clients, ClientShmget(c) PROVE TextInv'
  BY <1>4, ClientStartText
<1>5. ASSUME NEW c \in Clients, ClientSteps(c) PROVE TextInv'
  BY <1>5, ClientStartText, PrintfText, ClientLockText, ClientUnlockText, EndText
     DEF ClientSteps, Processes
<1>6. ASSUME NEW p \in Processes, Kill(p) PROVE TextInv'
  BY <1>6, EndText
<1>7. CASE UNCHANGED vars
  <2>1. UNCHANGED <<segment, mem, n_readers, n_writers, semadj, pc, seg_id, semset_id, n, text,
                    interrupted, cut>>
    BY <1>7 DEF vars, kernelVars, serverVars, memoryVars
  <2>2. TextTypes'
    BY <2>1 DEF TextInv, TextTypes
  <2>3. Placed'
    BY <2>1 DEF TextInv, Placed, Running
  <2>4. Owed'
    BY <2>1, OwedKept DEF TextInv, Reading, Taken
  <2>. QED
    BY <2>2, <2>3, <2>4 DEF TextInv
<1>. QED
  BY <1>1, <1>2, <1>3, <1>4, <1>5, <1>6, <1>7 DEF Next

\* Every variable keeps its type.  What is not obvious are the bounds: a count
\* never exceeds the clients that have locked, though SETVAL may come in between,
\* and a writer is alone.
THEOREM TypesKept == Spec => []TypeOK
<1>1. SemInv /\ TextInv => TypeOK
  <2>. SUFFICES ASSUME SemInv, TextInv PROVE TypeOK
    OBVIOUS
  <2>. USE SharedTimeAssumption
  <2>1. \A s \in Servers : n_readers[s] \in 0 .. Cardinality(Clients)
    <3>. SUFFICES ASSUME NEW s \in Servers PROVE n_readers[s] \in 0 .. Cardinality(Clients)
      OBVIOUS
    <3>1. Taken(s) \in SUBSET Clients
      BY DEF Taken
    <3>2. Cardinality(Taken(s)) =< Cardinality(Clients)
      BY <3>1, FS_Subset
    <3>3. Cardinality(Taken(s)) \in Nat /\ Cardinality(Clients) \in Nat
      BY <3>1, FS_Subset, FS_CardinalityType
    <3>. QED
      BY <3>2, <3>3 DEF TextInv, Owed
  <2>2. n_readers \in [Servers -> 0 .. Cardinality(Clients)]
    BY <2>1 DEF SemInv, SemTypes
  <2>3. n_writers \in [Servers -> 0 .. 1]
    BY DEF SemInv, SemTypes, TextInv, Owed
  <2>4. \A p \in Processes : semadj[p] \in -1 .. 1
    BY DEF SemInv, Adjusted, TextInv, Owed, Processes
  <2>5. semadj \in [Processes -> -1 .. 1]
    BY <2>4 DEF SemInv, SemTypes
  <2>. QED
    BY <2>2, <2>3, <2>5 DEF SemInv, SemTypes, TextInv, TextTypes, TypeOK
<1>. QED
  BY <1>1, SemInvInit, SemInvNext, TextInvInit, TextInvNext, PTL DEF Spec
-----------------------------------------------------------------------------
(* Torn texts *)

\* A half of a text that counts against server s: the zero bytes, or what s has
\* written and not been killed over.
Intact(s, t) == (t = Blank \/ t[3] = s) /\ t \notin cut

\* Two intact halves of one server in one segment are halves of one time, unless
\* the server is between them.
WholeInMemory ==
  \A g, s \in Servers :
    Intact(s, mem[g][1]) /\ Intact(s, mem[g][2])
      => mem[g][1] = mem[g][2] \/ (pc[s] = "strcpy2" /\ seg_id[s] = g)

\* Between its halves the first one is its own, or a different server's.
FirstHalf ==
  \A s \in Servers :
    LET t == mem[seg_id[s]][1] IN
      pc[s] = "strcpy2" => t = Stamp(s) \/ (t # Blank /\ t[3] # s)

\* Between the halves of a client the second one in memory still fits.
SecondHalf ==
  \A c \in Clients :
    LET t == mem[seg_id[c]][2] IN
      /\ pc[c] = "print2"
      /\ semset_id[c] \notin early
      /\ Intact(semset_id[c], text[c][1])
      /\ Intact(semset_id[c], t)
      => text[c][1] = t

TornInv == WholeInMemory /\ FirstHalf /\ SecondHalf /\ NoTornText

\* What a step does to a server between its two halves.
LEMMA WriterStep ==
  ASSUME SemInv, TextInv, [Next]_vars, NEW s \in Servers, ~Strcpy(s)
  PROVE  /\ pc'[s] = "strcpy2" => /\ pc[s] = "strcpy2"
                                  /\ n'[s] = n[s] /\ semset_id'[s] = semset_id[s]
                                  /\ seg_id'[s] = seg_id[s]
         /\ pc[s] = "strcpy2" /\ pc'[s] # "strcpy2" => Stamp(s) \in cut'
<1>. DEFINE Same == /\ pc'[s] = pc[s] /\ n'[s] = n[s] /\ semset_id'[s] = semset_id[s]
                    /\ seg_id'[s] = seg_id[s]
            Elsewhere == pc[s] # "strcpy2" /\ pc'[s] # "strcpy2"
<1>. SUFFICES Same \/ Elsewhere \/ (pc'[s] = "exit" /\ Stamp(s) \in cut')
  OBVIOUS
<1>. USE SharedTimeAssumption
<1>0. s \in Processes
  BY DEF Processes
<1>1. ASSUME NEW p \in Processes, NEW label, GoTo(p, label), pc[p] # "strcpy2", label # "strcpy2",
             \A q \in Servers \ {p} : n'[q] = n[q],
             \A q \in Processes \ {p} : semset_id'[q] = semset_id[q] /\ seg_id'[q] = seg_id[q]
      PROVE  Same \/ Elsewhere
  BY <1>0, <1>1 DEF GoTo, SemInv, SemTypes
<1>2. ASSUME NEW p \in Processes, Exit(p), pc[p] # "strcpy2", UNCHANGED n
      PROVE  Same \/ Elsewhere
  BY <1>1, <1>2 DEF Exit, SemInv, SemTypes, TextInv, TextTypes
<1>3. ASSUME NEW r \in Servers, Shmget(r) PROVE Same \/ Elsewhere
  <2>1. pc[r] = "new" /\ GoTo(r, "shmat") /\ r \in Processes /\ UNCHANGED <<n, semset_id>>
    BY <1>3 DEF Shmget, MayStart, Started, Processes, serverVars
  <2>2. \A q \in Processes \ {r} : seg_id'[q] = seg_id[q]
    BY <1>3 DEF Shmget, TextInv, TextTypes
  <2>. QED
    BY <1>1, <2>1, <2>2
<1>4. ASSUME NEW p \in Processes, Shmat(p, "semget") PROVE Same \/ Elsewhere
  BY <1>1, <1>2, <1>4 DEF Shmat, memoryVars, serverVars
<1>5. ASSUME NEW r \in Servers, Semget(r) PROVE Same \/ Elsewhere
  <2>1. pc[r] = "semget" /\ UNCHANGED n /\ r \in Processes
    BY <1>5 DEF Semget, ServerAt, serverVars, Processes
  <2>2. Exit(r) \/ (GoTo(r, "set_readers") /\ UNCHANGED seg_id /\ semset_id' = [semset_id EXCEPT ![r] = r])
    BY <1>5 DEF Semget
  <2>. QED
    BY <1>1, <1>2, <2>1, <2>2 DEF SemInv, SemTypes
<1>6. ASSUME NEW r \in Servers, SetReaders(r) \/ SetWriters(r) PROVE Same \/ Elsewhere
  <2>1. /\ pc[r] \in Setting /\ UNCHANGED <<n, seg_id, semset_id>> /\ r \in Processes
        /\ GoTo(r, "set_writers") \/ GoTo(r, "lock")
    BY <1>6 DEF SetReaders, SetWriters, ServerAt, Setting, serverVars, memoryVars, Processes
  <2>. QED
    BY <1>1, <2>1 DEF Setting
<1>7. ASSUME NEW r \in Servers, ServerLock(r) \/ ServerUnlock(r) PROVE Same \/ Elsewhere
  <2>1. /\ pc[r] \in {"lock", "unlock"} /\ UNCHANGED n /\ r \in Processes
        /\ \/ Exit(r)
           \/ (GoTo(r, "strcpy1") \/ GoTo(r, "sleep")) /\ UNCHANGED <<seg_id, semset_id>>
    BY <1>7 DEF ServerLock, ServerUnlock, ServerAt, SemopFails, serverVars, memoryVars, Processes
  <2>. QED
    BY <1>1, <1>2, <2>1
<1>8. ASSUME NEW r \in Servers, r # s, Strcpy(r) PROVE Same
  <2>1. UNCHANGED <<n, seg_id, semset_id>>
    BY <1>8 DEF Strcpy, serverVars, memoryVars
  <2>2. GoTo(r, "strcpy2") \/ GoTo(r, "unlock")
    BY <1>8 DEF Strcpy
  <2>. QED
    BY <1>0, <1>8, <2>1, <2>2 DEF GoTo, SemInv, SemTypes
<1>9. ASSUME NEW r \in Servers, NextRound(r) PROVE Same \/ Elsewhere
  <2>1. /\ pc[r] = "sleep" /\ UNCHANGED <<seg_id, semset_id>> /\ r \in Processes
        /\ n' = [n EXCEPT ![r] = @ + 1]
        /\ GoTo(r, IF n[r] + 1 < Rounds THEN "lock" ELSE "rm_segment")
    BY <1>9 DEF NextRound, ServerAt, memoryVars, Processes
  <2>2. \A q \in Servers \ {r} : n'[q] = n[q]
    BY <2>1 DEF TextInv, TextTypes
  <2>. QED
    BY <1>1, <2>1, <2>2
<1>10. ASSUME NEW r \in Servers, Cleanup(r) PROVE Same \/ Elsewhere
  <2>1. /\ pc[r] \in {"rm_segment", "rm_set"} /\ UNCHANGED n /\ r \in Processes
        /\ Exit(r) \/ (GoTo(r, "rm_set") /\ UNCHANGED <<seg_id, semset_id>>)
    BY <1>10 DEF Cleanup, ServerAt, serverVars, memoryVars, Processes
  <2>. QED
    BY <1>1, <1>2, <2>1
<1>11. ASSUME NEW r \in Servers, Interrupt(r) \/ Handler(r) PROVE Same
  BY <1>11 DEF Interrupt, Handler, memoryVars
<1>12. ASSUME NEW c \in Clients, ClientShmget(c) PROVE Same
  <2>1. (GoTo(c, "shmat") \/ GoTo(c, "exit")) /\ UNCHANGED <<n, semset_id>>
    BY <1>12 DEF ClientShmget, serverVars
  <2>2. \A q \in Processes \ {c} : seg_id'[q] = seg_id[q]
    BY <1>12 DEF ClientShmget, TextInv, TextTypes
  <2>. QED
    BY <1>0, <2>1, <2>2 DEF GoTo, SemInv, SemTypes
<1>13. ASSUME NEW c \in Clients, Shmat(c, "semget") \/ ClientSemget(c) \/ ClientLock(c)
                                 \/ Printf(c) \/ ClientUnlock(c) \/ ClientReturn(c)
       PROVE  Same
  <2>1. UNCHANGED n /\ (Exit(c) \/ (UNCHANGED seg_id /\ \E label : GoTo(c, label)))
    BY <1>13 DEF Shmat, ClientSemget, ClientLock, Printf, ClientUnlock, ClientReturn, SemopFails,
                 serverVars, memoryVars
  <2>2. /\ \A q \in Processes \ {c} : seg_id'[q] = seg_id[q]
        /\ \A q \in Processes \ {c} : pc'[q] = pc[q]
    BY <2>1 DEF Exit, GoTo, SemInv, SemTypes, TextInv, TextTypes
  <2>3. \A q \in Processes \ {c} : semset_id'[q] = semset_id[q]
    BY <1>13 DEF Shmat, ClientSemget, ClientLock, Printf, ClientUnlock, ClientReturn, SemopFails,
                 memoryVars, Exit, SemInv, SemTypes
  <2>. QED
    BY <1>0, <2>1, <2>2, <2>3
<1>14. ASSUME NEW p \in Processes, Kill(p) PROVE Same \/ Elsewhere \/ (pc'[s] = "exit" /\ Stamp(s) \in cut')
  <2>1. Exit(p) /\ UNCHANGED n
    BY <1>14 DEF Kill
  <2>2. /\ \A q \in Processes \ {p} : seg_id'[q] = seg_id[q] /\ pc'[q] = pc[q] /\ semset_id'[q] = semset_id[q]
        /\ pc'[p] = "exit"
    BY <2>1 DEF Exit, GoTo, SemInv, SemTypes, TextInv, TextTypes
  <2>3. p = s /\ pc[s] = "strcpy2" => Stamp(s) \in cut'
    BY <1>14 DEF Kill
  <2>. QED
    BY <1>0, <2>1, <2>2, <2>3
<1>15. CASE UNCHANGED vars
  BY <1>15 DEF vars, serverVars, memoryVars
<1>. QED
  BY <1>3, <1>4, <1>5, <1>6, <1>7, <1>8, <1>9, <1>10, <1>11, <1>12, <1>13, <1>14, <1>15
     DEF Next, ServerSteps, ClientSteps, Processes

\* What a step does to a client that has something in hand.
LEMMA ReaderStep ==
  ASSUME SemInv, TextInv, [Next]_vars, NEW c \in Clients, ~Printf(c)
  PROVE  /\ pc'[c] = "print2" => pc[c] = "print2"
         /\ pc'[c] \in {"unlock", "shmdt"} => pc[c] \in {"unlock", "shmdt"}
         /\ pc'[c] \in {"print2", "unlock", "shmdt"}
              => text'[c] = text[c] /\ seg_id'[c] = seg_id[c] /\ semset_id'[c] = semset_id[c]
<1>. DEFINE Kept == text'[c] = text[c] /\ seg_id'[c] = seg_id[c] /\ semset_id'[c] = semset_id[c]
            Same == pc'[c] = pc[c] /\ Kept
            Elsewhere == pc'[c] \notin {"print2", "unlock", "shmdt"}
            Unlocked == pc[c] = "unlock" /\ pc'[c] = "shmdt" /\ Kept
<1>. SUFFICES Same \/ Elsewhere \/ Unlocked
  OBVIOUS
<1>. USE SharedTimeAssumption
<1>0. c \in Processes /\ c \notin Servers
  BY DEF Processes
<1>1. ASSUME NEW p \in Processes, Exit(p) PROVE Same \/ Elsewhere
  <2>1. pc'[p] = "exit" /\ \A q \in Processes \ {p} : /\ pc'[q] = pc[q] /\ seg_id'[q] = seg_id[q]
                                                      /\ semset_id'[q] = semset_id[q]
    BY <1>1 DEF Exit, GoTo, SemInv, SemTypes, TextInv, TextTypes
  <2>2. c # p => text'[c] = text[c]
    BY <1>1 DEF Exit, TextInv, TextTypes
  <2>. QED
    BY <1>0, <2>1, <2>2
<1>2. ASSUME NEW p \in Processes, NEW label, GoTo(p, label), UNCHANGED text,
             label \notin {"print2", "unlock", "shmdt"},
             \A q \in Processes \ {p} : semset_id'[q] = semset_id[q] /\ seg_id'[q] = seg_id[q]
      PROVE  Same \/ Elsewhere
  BY <1>0, <1>2 DEF GoTo, SemInv, SemTypes
<1>3. ASSUME NEW r \in Servers, NEW label, GoTo(r, label), UNCHANGED text,
             \A q \in Processes \ {r} : semset_id'[q] = semset_id[q] /\ seg_id'[q] = seg_id[q]
      PROVE  Same
  <2>1. c # r /\ r \in Processes
    BY <1>0 DEF Processes
  <2>2. pc'[c] = pc[c]
    BY <1>0, <1>3, <2>1 DEF GoTo, SemInv, SemTypes
  <2>. QED
    BY <1>0, <1>3, <2>1, <2>2
<1>4. ASSUME NEW p \in Processes, Shmat(p, "semget") PROVE Same \/ Elsewhere
  BY <1>1, <1>2, <1>4 DEF Shmat, memoryVars
<1>5. ASSUME NEW r \in Servers, Shmget(r) \/ Semget(r) PROVE Same \/ Elsewhere
  <2>1. \/ Exit(r)
        \/ /\ GoTo(r, "shmat") \/ GoTo(r, "set_readers")
           /\ UNCHANGED text
    BY <1>5 DEF Shmget, Semget
  <2>2. Exit(r) \/ \A q \in Processes \ {r} : semset_id'[q] = semset_id[q] /\ seg_id'[q] = seg_id[q]
    BY <1>5 DEF Shmget, Semget, SemInv, SemTypes, TextInv, TextTypes
  <2>. QED
    BY <1>1, <1>3, <2>1, <2>2 DEF Processes
<1>6. ASSUME NEW r \in Servers,
             SetReaders(r) \/ SetWriters(r) \/ ServerLock(r) \/ ServerUnlock(r) \/ Strcpy(r)
               \/ NextRound(r) \/ Cleanup(r)
      PROVE  Same \/ Elsewhere
  <2>1. Exit(r) \/ ((\E label : GoTo(r, label)) /\ UNCHANGED memoryVars)
    BY <1>6 DEF SetReaders, SetWriters, ServerLock, ServerUnlock, SemopFails, Strcpy, NextRound,
                Cleanup, memoryVars
  <2>. QED
    BY <1>1, <1>3, <2>1 DEF memoryVars, Processes
<1>7. ASSUME NEW r \in Servers, Interrupt(r) \/ Handler(r) PROVE Same
  BY <1>7 DEF Interrupt, Handler, memoryVars
<1>8. ASSUME NEW d \in Clients, ClientShmget(d) \/ ClientSemget(d) PROVE Same \/ Elsewhere
  <2>1. /\ GoTo(d, "shmat") \/ GoTo(d, "exit") \/ GoTo(d, "lock")
        /\ UNCHANGED text
    BY <1>8 DEF ClientShmget, ClientSemget
  <2>2. \A q \in Processes \ {d} : semset_id'[q] = semset_id[q] /\ seg_id'[q] = seg_id[q]
    BY <1>8 DEF ClientShmget, ClientSemget, SemInv, SemTypes, TextInv, TextTypes
  <2>. QED
    BY <1>2, <2>1, <2>2 DEF Processes
<1>9. ASSUME NEW d \in Clients, ClientLock(d) \/ ClientReturn(d) PROVE Same \/ Elsewhere
  <2>1. Exit(d) \/ (GoTo(d, "print1") /\ UNCHANGED memoryVars)
    BY <1>9 DEF ClientLock, ClientReturn, SemopFails
  <2>. QED
    BY <1>1, <1>2, <2>1 DEF memoryVars, Processes
<1>10. ASSUME NEW d \in Clients, ClientUnlock(d) PROVE Same \/ Elsewhere \/ Unlocked
  <2>1. pc[d] = "unlock" /\ (Exit(d) \/ (GoTo(d, "shmdt") /\ UNCHANGED memoryVars))
    BY <1>10 DEF ClientUnlock, SemopFails
  <2>2. CASE GoTo(d, "shmdt") /\ UNCHANGED memoryVars
    BY <1>0, <2>1, <2>2 DEF memoryVars, GoTo, SemInv, SemTypes
  <2>. QED
    BY <1>1, <2>1, <2>2 DEF Processes
<1>11. ASSUME NEW d \in Clients, d # c, Printf(d) PROVE Same
  <2>1. UNCHANGED <<seg_id, semset_id>> /\ d \in Processes
    BY <1>11 DEF Printf, Processes
  <2>2. pc'[c] = pc[c] /\ text'[c] = text[c]
    BY <1>0, <1>11, PrintfReads DEF GoTo, SemInv, SemTypes, TextInv, TextTypes
  <2>. QED
    BY <2>1, <2>2
<1>12. ASSUME NEW p \in Processes, Kill(p) PROVE Same \/ Elsewhere
  BY <1>1, <1>12 DEF Kill
<1>13. CASE UNCHANGED vars
  BY <1>13 DEF vars, memoryVars
<1>. QED
  BY <1>4, <1>5, <1>6, <1>7, <1>8, <1>9, <1>10, <1>11, <1>12, <1>13
     DEF Next, ServerSteps, ClientSteps, Processes

\* Only strcpy writes; a fresh segment has been zero bytes before.  What a signal
\* or an early client has done is not forgotten.
LEMMA MemoryStep ==
  ASSUME SemInv, TextInv, [Next]_vars, \A s \in Servers : ~Strcpy(s)
  PROVE  mem' = mem /\ cut \subseteq cut' /\ early \subseteq early'
<1>1. ASSUME NEW s \in Servers, Shmget(s) PROVE mem' = mem /\ UNCHANGED <<cut, early>>
  <2>1. pc[s] = "new"
    BY <1>1 DEF Shmget, MayStart, Started, Processes
  <2>2. mem[s] = <<Blank, Blank>>
    BY <2>1 DEF TextInv, Placed
  <2>. QED
    BY <1>1, <2>2 DEF Shmget, serverVars, TextInv, TextTypes
<1>2. ASSUME NEW s \in Servers, ServerSteps(s) \/ Interrupt(s) PROVE UNCHANGED <<mem, cut, early>>
  BY <1>2 DEF ServerSteps, Shmat, Semget, SetReaders, SetWriters, ServerLock, ServerUnlock, NextRound,
              Cleanup, Handler, Interrupt, Unremoved, serverVars, kernelVars
<1>3. ASSUME NEW c \in Clients, ClientShmget(c) \/ ClientSteps(c)
      PROVE  UNCHANGED <<mem, cut>> /\ early \subseteq early'
  BY <1>3 DEF ClientShmget, ClientSteps, Shmat, ClientSemget, ClientLock, Printf, ClientUnlock,
              ClientReturn, Unremoved, serverVars, kernelVars
<1>4. ASSUME NEW p \in Processes, Kill(p) PROVE UNCHANGED <<mem, early>> /\ cut \subseteq cut'
  BY <1>4 DEF Kill, Unremoved
<1>5. CASE UNCHANGED vars
  BY <1>5 DEF vars, kernelVars, serverVars
<1>. QED
  BY <1>1, <1>2, <1>3, <1>4, <1>5 DEF Next

LEMMA StrcpyTorn == ASSUME SemInv, TextInv, TornInv, NEW s \in Servers, Strcpy(s) PROVE TornInv'
<1>. USE SharedTimeAssumption
<1>. DEFINE g == seg_id[s]
<1>1. /\ UNCHANGED <<cut, early, text, seg_id, semset_id, n>> /\ g \in Servers /\ semset_id[s] = s
      /\ pc[s] \in {"strcpy1", "strcpy2"}
      /\ \A q \in Processes \ {s} : pc'[q] = pc[q]
  BY StrcpyWrites DEF Strcpy, serverVars, memoryVars, GoTo, SemInv, SemTypes
<1>2. /\ pc[s] = "strcpy1" => /\ pc'[s] = "strcpy2" /\ mem'[g][1] = Stamp(s)
                              /\ mem'[g][2] = mem[g][2]
      /\ pc[s] = "strcpy2" => /\ pc'[s] = "unlock" /\ mem'[g][2] = Stamp(s)
                              /\ mem'[g][1] = mem[g][1]
      /\ \A q \in Servers \ {g} : mem'[q] = mem[q]
  BY <1>1, StrcpyWrites DEF GoTo, SemInv, SemTypes, TextInv, TextTypes, Processes
<1>3. Stamp(s)[3] = s /\ Stamp(s) # Blank /\ Stamp(s)' = Stamp(s)
  BY <1>1, StampIsText DEF TextInv, Stamp
<1>4. \A q, t : Intact(q, t)' <=> Intact(q, t)
  BY <1>1 DEF Intact
<1>5. \A q \in Servers \ {s} : ~Intact(q, Stamp(s))
  BY <1>3 DEF Intact
<1>6. WholeInMemory'
  <2>. SUFFICES ASSUME NEW f \in Servers, NEW q \in Servers,
                       Intact(q, mem'[f][1]), Intact(q, mem'[f][2])
                PROVE  mem'[f][1] = mem'[f][2] \/ (pc'[q] = "strcpy2" /\ seg_id[q] = f)
    BY <1>1, <1>4 DEF WholeInMemory
  <2>1. CASE f # g
    <3>1. mem'[f] = mem[f]
      BY <1>2, <2>1
    <3>2. mem[f][1] = mem[f][2] \/ (pc[q] = "strcpy2" /\ seg_id[q] = f)
      BY <3>1 DEF TornInv, WholeInMemory
    <3>. QED
      BY <1>1, <2>1, <3>1, <3>2 DEF Processes
  <2>2. CASE f = g /\ q # s
    BY <1>1, <1>2, <1>5, <2>2
  <2>3. CASE f = g /\ q = s /\ pc[s] = "strcpy1"
    BY <1>1, <1>2, <2>3
  <2>4. CASE f = g /\ q = s /\ pc[s] = "strcpy2"
    <3>1. Intact(s, mem[g][1])
      BY <1>2, <2>4
    <3>2. mem[g][1] = Stamp(s)
      BY <2>4, <3>1 DEF TornInv, FirstHalf, Intact
    <3>. QED
      BY <1>2, <2>4, <3>2
  <2>. QED
    BY <1>1, <2>1, <2>2, <2>3, <2>4
<1>7. FirstHalf'
  <2>. SUFFICES ASSUME NEW q \in Servers, pc'[q] = "strcpy2"
                PROVE  LET t == mem'[seg_id[q]][1] IN t = Stamp(q)' \/ (t # Blank /\ t[3] # q)
    BY <1>1 DEF FirstHalf
  <2>1. CASE q = s
    BY <1>1, <1>2, <1>3, <2>1
  <2>2. CASE q # s
    <3>1. pc[q] = "strcpy2" /\ Stamp(q)' = Stamp(q)
      BY <1>1, <2>2 DEF Processes, Stamp
    <3>2. seg_id[q] \in Servers
      BY <3>1 DEF TextInv, Placed, TextTypes, Running, Processes
    <3>3. LET t == mem[seg_id[q]][1] IN t = Stamp(q) \/ (t # Blank /\ t[3] # q)
      BY <3>1 DEF TornInv, FirstHalf
    <3>4. mem'[seg_id[q]][1] = mem[seg_id[q]][1] \/ mem'[seg_id[q]][1] = Stamp(s)
      BY <1>1, <1>2, <3>2
    <3>. QED
      BY <1>3, <2>2, <3>1, <3>3, <3>4
  <2>. QED
    BY <2>1, <2>2
<1>8. \A c \in Clients : pc'[c] = pc[c]
  BY <1>1 DEF Processes
<1>9. SecondHalf'
  <2>. SUFFICES ASSUME NEW c \in Clients, pc[c] = "print2", semset_id[c] \notin early,
                       Intact(semset_id[c], text[c][1]),
                       Intact(semset_id[c], mem'[seg_id[c]][2])
                PROVE  text[c][1] = mem'[seg_id[c]][2]
    BY <1>1, <1>4, <1>8 DEF SecondHalf
  <2>1. seg_id[c] \in Servers /\ semset_id[c] \in Servers
    BY DEF TextInv, Placed, TextTypes, Running, Processes, SemInv, SemTypes, FoundSet, Reading
  <2>2. semset_id[c] # s
    BY <1>1 DEF SemInv, ReadersExcludeWriter, Reading, Writing
  <2>3. mem'[seg_id[c]][2] # Stamp(s)
    BY <1>5, <2>1, <2>2
  <2>4. mem'[seg_id[c]][2] = mem[seg_id[c]][2]
    BY <1>1, <1>2, <2>1, <2>3
  <2>. QED
    BY <2>4 DEF TornInv, SecondHalf
<1>10. NoTornText'
  BY <1>1, <1>8 DEF TornInv, NoTornText
<1>. QED
  BY <1>6, <1>7, <1>9, <1>10 DEF TornInv

LEMMA TornInvNext == SemInv /\ TextInv /\ TornInv /\ [Next]_vars => TornInv'
<1>. SUFFICES ASSUME SemInv, TextInv, TornInv, [Next]_vars, \A s \in Servers : ~Strcpy(s)
              PROVE  TornInv'
  BY StrcpyTorn
<1>. USE SharedTimeAssumption
<1>1. mem' = mem /\ cut \subseteq cut' /\ early \subseteq early'
  BY MemoryStep
<1>2. \A q, t : Intact(q, t)' => Intact(q, t)
  BY <1>1 DEF Intact
<1>3. WholeInMemory'
  <2>. SUFFICES ASSUME NEW g \in Servers, NEW s \in Servers,
                       Intact(s, mem[g][1])', Intact(s, mem[g][2])', mem[g][1] # mem[g][2]
                PROVE  pc'[s] = "strcpy2" /\ seg_id'[s] = g
    BY <1>1 DEF WholeInMemory
  <2>1. pc[s] = "strcpy2" /\ seg_id[s] = g
    BY <1>1, <1>2 DEF TornInv, WholeInMemory
  <2>2. mem[g][1] = Stamp(s)
    BY <1>1, <1>2, <2>1 DEF TornInv, FirstHalf, Intact
  <2>3. Stamp(s) \notin cut'
    BY <1>1, <2>2 DEF Intact
  <2>. QED
    BY <2>1, <2>3, WriterStep
<1>4. FirstHalf'
  <2>. SUFFICES ASSUME NEW s \in Servers, pc'[s] = "strcpy2"
                PROVE  (LET t == mem[seg_id[s]][1] IN t = Stamp(s) \/ (t # Blank /\ t[3] # s))'
    BY DEF FirstHalf
  <2>1. pc[s] = "strcpy2" /\ seg_id'[s] = seg_id[s] /\ Stamp(s)' = Stamp(s)
    BY WriterStep DEF Stamp
  <2>. QED
    BY <1>1, <2>1 DEF TornInv, FirstHalf
<1>5. ASSUME NEW c \in Clients, Printf(c)
      PROVE  /\ UNCHANGED <<cut, early, seg_id, semset_id>>
             /\ \/ pc[c] = "print1" /\ pc'[c] = "print2" /\ text'[c][1] = mem[seg_id[c]][1]
                \/ /\ pc[c] = "print2" /\ pc'[c] = "unlock"
                   /\ text'[c] = <<text[c][1], mem[seg_id[c]][2]>>
             /\ seg_id[c] \in Servers /\ semset_id[c] \in Servers
             /\ semset_id[c] \notin early => pc[semset_id[c]] # "strcpy2"
  <2>1. /\ UNCHANGED <<cut, early, seg_id, semset_id>> /\ Reading(c) /\ seg_id[c] \in Servers
    BY <1>5, PrintfReads DEF Printf, serverVars, Reading
  <2>2. semset_id[c] \in Servers /\ c \in Processes
    BY <2>1 DEF SemInv, FoundSet, SemTypes, Processes
  <2>3. pc[semset_id[c]] = "strcpy2" => semset_id[semset_id[c]] = semset_id[c]
    BY <2>2 DEF SemInv, OwnSet, Working
  <2>4. semset_id[c] \notin early => pc[semset_id[c]] # "strcpy2"
    BY <2>1, <2>2, <2>3 DEF SemInv, ReadersExcludeWriter, Writing
  <2>5. \/ pc[c] = "print1" /\ pc'[c] = "print2" /\ text'[c][1] = mem[seg_id[c]][1]
        \/ /\ pc[c] = "print2" /\ pc'[c] = "unlock"
           /\ text'[c] = <<text[c][1], mem[seg_id[c]][2]>>
    BY <1>5, <2>2, PrintfReads DEF GoTo, SemInv, SemTypes, TextInv, TextTypes
  <2>. QED
    BY <2>1, <2>2, <2>4, <2>5
<1>6. SecondHalf'
  <2>. SUFFICES ASSUME NEW c \in Clients, pc'[c] = "print2", semset_id'[c] \notin early',
                       Intact(semset_id'[c], text'[c][1]),
                       Intact(semset_id'[c], mem[seg_id'[c]][2])
                PROVE  text'[c][1] = mem[seg_id'[c]][2]
    BY <1>1, <1>2 DEF SecondHalf
  <2>1. CASE Printf(c)
    BY <1>1, <1>5, <2>1 DEF TornInv, WholeInMemory
  <2>2. CASE ~Printf(c)
    BY <1>1, <2>2, ReaderStep DEF TornInv, SecondHalf
  <2>. QED
    BY <2>1, <2>2
<1>7. NoTornText'
  <2>. SUFFICES ASSUME NEW c \in Clients, pc'[c] \in {"unlock", "shmdt"}, semset_id'[c] \notin early',
                       text'[c][1] \notin cut', text'[c][2] \notin cut',
                       text'[c][1] = Blank \/ text'[c][1][3] = semset_id'[c],
                       text'[c][2] = Blank \/ text'[c][2][3] = semset_id'[c]
                PROVE  text'[c][1] = text'[c][2]
    BY DEF NoTornText
  <2>1. CASE Printf(c)
    BY <1>1, <1>2, <1>5, <2>1 DEF TornInv, SecondHalf, Intact
  <2>2. CASE ~Printf(c)
    BY <1>1, <2>2, ReaderStep DEF TornInv, NoTornText
  <2>. QED
    BY <2>1, <2>2
<1>. QED
  BY <1>3, <1>4, <1>6, <1>7 DEF TornInv

LEMMA TornInvInit == Init => TornInv
<1>. USE SharedTimeAssumption
<1>. SUFFICES ASSUME Init PROVE TornInv
  OBVIOUS
<1>1. (\A p \in Processes : pc[p] = "new") /\ \A s \in Servers : mem[s] = <<Blank, Blank>>
  BY DEF Init
<1>2. WholeInMemory
  BY <1>1 DEF WholeInMemory
<1>3. FirstHalf /\ SecondHalf /\ NoTornText
  BY <1>1 DEF FirstHalf, SecondHalf, NoTornText, Processes
<1>. QED
  BY <1>2, <1>3 DEF TornInv

\* A client that locked after SETVAL prints one time, if what it reads was written by
\* servers that use its semaphores and none was killed inside strcpy: while the client
\* is behind the semaphores their server does not write.  What a server with other
\* semaphores writes to the segment meanwhile (shm_timeserver2.c:17-18) bears its name,
\* and such a text may be torn.
THEOREM TextsWhole == Spec => []NoTornText
<1>1. TornInv => NoTornText
  BY DEF TornInv
<1>. QED
  BY <1>1, SemInvInit, SemInvNext, TextInvInit, TextInvNext, TornInvInit, TornInvNext, PTL DEF Spec
=============================================================================
