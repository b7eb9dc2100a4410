----------------------------- MODULE WordCount -----------------------------
(***************************************************************************)
(* "21 pthread": two threads count the words of a file each, and main wants *)
(* the total.  twordcount1.c adds every word to one counter without a lock, *)
(* twordcount2.c with one; twordcount3.c gives each thread its own.  In    *)
(* twordcount4.c a thread reports to main through a mailbox of one place,  *)
(* guarded by the mutex "lock" and the condition "flag".  Main and the     *)
(* workers wait on the SAME condition, and nobody checks the mailbox again *)
(* after a wait.                                                           *)
(***************************************************************************)
EXTENDS Naturals, FiniteSets, FiniteSetsExt

CONSTANTS
  Workers,         \* the threads of count_words; two in the code
  Main,            \* the thread of main
  NULL,
  MaxWords         \* bound: words in one file

ASSUME WordCountAssumption ==
  /\ IsFiniteSet(Workers)
  /\ Main \notin Workers
  /\ NULL \notin Workers \union {Main}
  /\ MaxWords \in Nat

VARIABLES
  program,      \* which of the four runs
  pc,
  lock,         \* the thread that holds the mutex, or NULL
  waiting,      \* the threads blocked in pthread_cond_wait(&flag, &lock)
  mailbox,      \* the worker whose arg_set it points to, or NULL
  count,        \* count[w]: args->count; history in twordcount1 and 2
  reports_in,
  total_words,
  loaded,       \* loaded[w]: total_words, between load and store of total_words++
  reported,     \* history: the workers main has printed
  spurious      \* history: has a wait returned without a signal?

data == <<program, mailbox, count, reports_in, total_words, loaded, reported, spurious>>
vars == <<pc, lock, waiting, data>>
-----------------------------------------------------------------------------
Programs == {"twordcount1", "twordcount2", "twordcount3", "twordcount4"}
Threads == Workers \union {Main}

Labels ==
  {"new", "count", "load", "add", "lock", "check", "wait", "store", "unlock", "ended",   \* count_words
   "create", "loop", "report", "join", "return", "crashed"}                              \* main

\* The programs in which the threads themselves add up.
Adding == {"twordcount1", "twordcount2"}

Sum(S) == MapThenSumSet(LAMBDA w : count[w], S)

GoTo(t, label) == pc' = [pc EXCEPT ![t] = label]

\* pthread_mutex_lock
Acquire(t) == lock = NULL /\ lock' = t

\* pthread_cond_wait gives the mutex back and blocks, in one step; the thread
\* it has woken takes the mutex again before the call returns.
Wait(t) ==
  /\ GoTo(t, "wait")
  /\ waiting' = waiting \union {t}
  /\ lock' = NULL

Woken(t, next) ==
  /\ pc[t] = "wait"
  /\ t \notin waiting
  /\ Acquire(t)
  /\ GoTo(t, next)
  /\ UNCHANGED <<waiting, data>>

\* pthread_cond_signal: wakes one waiting thread, if there is any.
Signal ==
  IF waiting = {} THEN UNCHANGED waiting
  ELSE \E t \in waiting : waiting' = waiting \ {t}
-----------------------------------------------------------------------------
(* count_words *)

\* When main returns or crashes the process ends, and every thread with it.
\* (Main has the mutex then: only threads that do not need it could go on.)
ProcessRuns == pc[Main] \notin {"return", "crashed"}

AtEndOfFile(w) == GoTo(w, IF program = "twordcount4" THEN "lock" ELSE "ended")

\* Mutant: the end of the file always counts as the end of a word.
CountWordAtEOF(w) ==
  /\ ProcessRuns
  /\ pc[w] = "count"
  /\ \/ /\ count[w] < MaxWords
        /\ UNCHANGED pc
     \/ AtEndOfFile(w)
  /\ count' = [count EXCEPT ![w] = @ + 1]
  /\ UNCHANGED <<program, lock, waiting, mailbox, reports_in, total_words, loaded, reported, spurious>>

\* The loop over the characters, for one word; or the end of the file (and at
\* once when fopen fails).
CountWord(w) ==
  /\ ProcessRuns
  /\ pc[w] = "count"
  /\ \/ /\ count[w] < MaxWords
        /\ count' = [count EXCEPT ![w] = @ + 1]
        /\ GoTo(w, IF program \in Adding THEN "load" ELSE "count")
     \/ /\ AtEndOfFile(w)
        /\ UNCHANGED count
  /\ UNCHANGED <<program, lock, waiting, mailbox, reports_in, total_words, loaded, reported, spurious>>

\* Mutant: twordcount2 does not take the mutex.
LoadUnlocked(w) ==
  /\ pc[w] = "load"
  /\ loaded' = [loaded EXCEPT ![w] = total_words]
  /\ GoTo(w, "add")
  /\ UNCHANGED <<program, lock, waiting, mailbox, count, reports_in, total_words, reported, spurious>>

\* total_words++: a load and a store; twordcount2 takes the mutex before.
Load(w) ==
  /\ pc[w] = "load"
  /\ IF program = "twordcount2" THEN Acquire(w) ELSE UNCHANGED lock
  /\ loaded' = [loaded EXCEPT ![w] = total_words]
  /\ GoTo(w, "add")
  /\ UNCHANGED <<program, waiting, mailbox, count, reports_in, total_words, reported, spurious>>

\* The store, and pthread_mutex_unlock.
Add(w) ==
  /\ pc[w] = "add"
  /\ total_words' = loaded[w] + 1
  /\ lock' = NULL
  /\ GoTo(w, "count")
  /\ UNCHANGED <<program, waiting, mailbox, count, reports_in, loaded, reported, spurious>>

\* pthread_mutex_lock in count_words of twordcount4
WorkerLock(w) ==
  /\ pc[w] = "lock"
  /\ Acquire(w)
  /\ GoTo(w, "check")
  /\ UNCHANGED <<waiting, data>>

\* Mutant: the worker does not look whether the mailbox is empty.
CheckNothing(w) ==
  /\ pc[w] = "check"
  /\ GoTo(w, "store")
  /\ UNCHANGED <<lock, waiting, data>>

\* if(mailbox!=NULL) pthread_cond_wait: "if", not "while".
Check(w) ==
  /\ pc[w] = "check"
  /\ \/ /\ mailbox # NULL
        /\ Wait(w)
     \/ /\ mailbox = NULL
        /\ GoTo(w, "store")
        /\ UNCHANGED <<lock, waiting>>
  /\ UNCHANGED data

\* mailbox=args and pthread_cond_signal, with the mutex held.
Store(w) ==
  /\ pc[w] = "store"
  /\ mailbox' = w
  /\ Signal
  /\ GoTo(w, "unlock")
  /\ UNCHANGED <<program, lock, count, reports_in, total_words, loaded, reported, spurious>>

\* pthread_mutex_unlock and the end of the thread.
Unlock(w) ==
  /\ pc[w] = "unlock"
  /\ lock' = NULL
  /\ GoTo(w, "ended")
  /\ UNCHANGED <<waiting, data>>
-----------------------------------------------------------------------------
(* main *)

\* Mutant: main creates the threads before it takes the mutex.
CreateUnlocked(w) ==
  /\ pc[Main] \in {"lock", "create"}
  /\ pc[w] = "new"
  /\ GoTo(w, "count")
  /\ UNCHANGED <<lock, waiting, data>>

\* pthread_create; in twordcount4 with the mutex held since MainLock.
Create(w) ==
  /\ pc[Main] = "create"
  /\ pc[w] = "new"
  /\ GoTo(w, "count")
  /\ UNCHANGED <<lock, waiting, data>>

\* pthread_mutex_lock at the start
MainLock ==
  /\ pc[Main] = "lock"
  /\ Acquire(Main)
  /\ GoTo(Main, "create")
  /\ UNCHANGED <<waiting, data>>

\* while(reports_in<2): wait for flag, or print the sum and return.
Loop ==
  /\ program = "twordcount4"
  /\ \/ pc[Main] = "create" /\ \A w \in Workers : pc[w] # "new"
     \/ pc[Main] = "loop"
  /\ \/ /\ reports_in < Cardinality(Workers)
        /\ Wait(Main)
     \/ /\ reports_in >= Cardinality(Workers)
        /\ GoTo(Main, "return")
        /\ UNCHANGED <<lock, waiting>>
  /\ UNCHANGED data

\* printf and total_words+=mailbox->count; with a NULL mailbox main crashes.
Report ==
  /\ pc[Main] = "report"
  /\ \/ /\ mailbox # NULL
        /\ total_words' = total_words + count[mailbox]
        /\ reported' = reported \union {mailbox}
        /\ GoTo(Main, "join")
     \/ /\ mailbox = NULL
        /\ GoTo(Main, "crashed")
        /\ UNCHANGED <<total_words, reported>>
  /\ UNCHANGED <<program, lock, waiting, mailbox, count, reports_in, loaded, spurious>>

\* pthread_join (main keeps the mutex), mailbox=NULL, signal, reports_in++
Join ==
  /\ pc[Main] = "join"
  /\ pc[mailbox] = "ended"
  /\ mailbox' = NULL
  /\ Signal
  /\ reports_in' = reports_in + 1
  /\ GoTo(Main, "loop")
  /\ UNCHANGED <<program, lock, count, total_words, loaded, reported, spurious>>

\* pthread_join of both threads and the printed total, which twordcount3 adds
\* up only now; in the other programs.
JoinBoth ==
  /\ program # "twordcount4"
  /\ pc[Main] = "create"
  /\ \A w \in Workers : pc[w] = "ended"
  /\ total_words' = IF program = "twordcount3" THEN Sum(Workers) ELSE total_words
  /\ GoTo(Main, "return")
  /\ UNCHANGED <<program, lock, waiting, mailbox, count, reports_in, loaded, reported, spurious>>
-----------------------------------------------------------------------------
\* POSIX lets pthread_cond_wait return without any signal.
SpuriousWakeup(t) ==
  /\ ProcessRuns
  /\ t \in waiting
  /\ waiting' = waiting \ {t}
  /\ spurious' = TRUE
  /\ UNCHANGED <<program, pc, lock, mailbox, count, reports_in, total_words, loaded, reported>>

Init ==
  /\ program \in Programs
  /\ pc = [t \in Threads |-> IF t # Main THEN "new"
                            ELSE IF program = "twordcount4" THEN "lock" ELSE "create"]
  /\ lock = NULL
  /\ waiting = {}
  /\ mailbox = NULL
  /\ count = [w \in Workers |-> 0]
  /\ reports_in = 0
  /\ total_words = 0
  /\ loaded = [w \in Workers |-> 0]
  /\ reported = {}
  /\ spurious = FALSE

WorkerSteps(w) ==
  \/ CountWord(w) \/ Load(w) \/ Add(w)
  \/ WorkerLock(w) \/ Check(w) \/ Woken(w, "store") \/ Store(w) \/ Unlock(w)
MainSteps ==
  \/ MainLock \/ \E w \in Workers : Create(w)
  \/ Loop \/ Woken(Main, "report") \/ Report \/ Join \/ JoinBoth

Next ==
  \/ \E w \in Workers : WorkerSteps(w)
  \/ MainSteps
  \/ \E t \in Threads : SpuriousWakeup(t)

Spec == Init /\ [][Next]_vars

\* The threads are scheduled, and a thread that waits for the mutex gets it
\* when it becomes free again and again.
Fairness ==
  /\ \A w \in Workers : SF_vars(WorkerSteps(w))
  /\ SF_vars(MainSteps)

FairSpec == Spec /\ Fairness
-----------------------------------------------------------------------------
(* Properties *)

TypeOK ==
  /\ program \in Programs
  /\ pc \in [Threads -> Labels]
  /\ lock \in Threads \union {NULL}
  /\ waiting \in SUBSET Threads
  /\ mailbox \in Workers \union {NULL}
  /\ count \in [Workers -> 0 .. MaxWords]
  /\ reports_in \in 0 .. Cardinality(Workers)
  /\ total_words \in 0 .. (MaxWords * Cardinality(Workers))
  /\ loaded \in [Workers -> 0 .. (MaxWords * Cardinality(Workers))]
  /\ reported \in SUBSET Workers
  /\ spurious \in BOOLEAN

\* The comment at twordcount4.c:34: a worker takes the mailbox only when it is
\* empty, otherwise it waits.  So no report is overwritten before main read it,
\* as long as every wakeup is by a signal: after one that is not, "if" does
\* not look again.
MailboxTakenWhenEmpty ==
  [][~spurious => \A w \in Workers : mailbox' = w /\ mailbox # w => mailbox = NULL]_vars

\* The total is final and complete: when main returns every thread has ended,
\* and the total is the sum of all words; in twordcount4 each was printed once.
\* Not in twordcount1, where two threads write one counter without a lock.
TotalsComplete ==
  pc[Main] = "return" /\ ~spurious =>
    /\ \A w \in Workers : pc[w] = "ended"
    /\ program # "twordcount1" => total_words = Sum(Workers)
    /\ program = "twordcount4" => reported = Workers

\* No signal is lost and no thread waits for one that never comes: main gets
\* both reports, or joins both threads, and returns.
MainReturns == <>(pc[Main] = "return" \/ spurious)
=============================================================================
