--------------------------- MODULE WordCountProofs ---------------------------
(***************************************************************************)
(* The mailbox of twordcount4.c.  Main and the workers wait on one         *)
(* condition, pthread_cond_signal wakes any of them, and nobody looks at   *)
(* the mailbox again after its wait ("if", not "while").  With two workers, *)
(* as in the code, this is right all the same, whatever the files hold: a  *)
(* signal finds at most one thread waiting, and what that thread waits for *)
(* is true until it has the mutex.                                         *)
(*                                                                         *)
(* And the totals of all four programs, for any number of workers: they    *)
(* are sums over the workers, which the fold of the community modules      *)
(* computes by recursion over a finite set.                                *)
(***************************************************************************)
EXTENDS WordCount, FiniteSetTheorems, WellFoundedInduction, TLAPS

\* The code has two threads besides main; with a third one a worker's signal
\* could wake another worker instead of main.
TwoWorkers == \A u, v, w \in Workers : u = v \/ u = w \/ v = w

Mailing == program = "twordcount4"

\* Where a thread holds the mutex.
Posting == {"check", "store", "unlock"}
Posted == {"unlock", "ended"}
Reading == {"create", "loop", "report", "join", "return", "crashed"}

MailTypes ==
  /\ program \in Programs
  /\ pc \in [Threads -> Labels]
  /\ waiting \in SUBSET Threads
  /\ mailbox \in Workers \union {NULL}

\* Only the threads of twordcount4 use the mailbox.
Places ==
  /\ Mailing => \A w \in Workers : pc[w] \in {"new", "count", "lock", "wait"} \union Posting \union Posted
  /\ ~Mailing => \A w \in Workers : pc[w] \in {"new", "count", "load", "add", "ended"}
  /\ ~Mailing => pc[Main] \in {"create", "return"}

\* One thread has the mutex, from pthread_mutex_lock to pthread_mutex_unlock or
\* pthread_cond_wait; main also while it creates the threads and joins one.
MutexHeld ==
  Mailing =>
    /\ pc[Main] \in {"lock", "wait"} \union Reading
    /\ lock = Main <=> pc[Main] \in Reading
    /\ \A w \in Workers : lock = w <=> pc[w] \in Posting

\* A thread that has not been woken is still in pthread_cond_wait.
Blocked == \A t \in waiting : pc[t] = "wait"

\* A worker whose report is in the mailbox has no other.
OneReport == \A w \in Workers : mailbox = w => pc[w] \in Posted

\* A worker waits only while the mailbox is full; once woken it finds the mailbox
\* empty, since the other worker has nothing to put there any more.
WorkerWaits ==
  ~spurious => \A w \in Workers :
    /\ pc[w] = "store" => mailbox = NULL
    /\ pc[w] = "wait" /\ w \in waiting => mailbox # NULL
    /\ pc[w] = "wait" /\ w \notin waiting =>
         mailbox = NULL /\ \A v \in Workers \ {w} : pc[v] \in Posted

\* Main, when it was woken, finds a report.
MainWaits ==
  Mailing =>
    /\ pc[Main] = "join" => mailbox # NULL
    /\ ~spurious => /\ pc[Main] = "wait" /\ Main \notin waiting => mailbox # NULL
                    /\ pc[Main] = "report" => mailbox # NULL
                    /\ pc[Main] # "crashed"

PlaceInv == MailTypes /\ Places /\ MutexHeld /\ Blocked /\ OneReport
WaitInv == WorkerWaits /\ MainWaits
-----------------------------------------------------------------------------
\* One thread goes on, the others stay where they are.
LEMMA GoToOnly ==
  ASSUME pc \in [Threads -> Labels], NEW t \in Threads, NEW label \in Labels, GoTo(t, label)
  PROVE  /\ pc' \in [Threads -> Labels]
         /\ pc'[t] = label
         /\ \A u \in Threads : u # t => pc'[u] = pc[u]
  BY DEF GoTo, Labels

\* A signal wakes one of those who wait.
LEMMA SignalWakes ==
  ASSUME Signal
  PROVE  \/ waiting = {} /\ waiting' = {}
         \/ \E t \in waiting : waiting' = waiting \ {t}
  BY DEF Signal

LEMMA MailInit == Init => PlaceInv /\ WaitInv
<1> SUFFICES ASSUME Init PROVE PlaceInv /\ WaitInv
  OBVIOUS
<1> USE WordCountAssumption DEF Init, Threads, Programs, Labels
<1>1. MailTypes
  <2>1. \A t \in Threads : pc[t] \in Labels
    OBVIOUS
  <2> QED
    BY <2>1 DEF MailTypes
<1>2. \A w \in Workers : pc[w] = "new"
  OBVIOUS
<1>3. pc[Main] \in {"lock", "create"} /\ (Mailing => pc[Main] = "lock")
  BY DEF Mailing
<1> QED
  BY <1>1, <1>2, <1>3
     DEF PlaceInv, WaitInv, Places, MutexHeld, Blocked, OneReport, WorkerWaits, MainWaits, Mailing, Posting, Posted, Reading

\* The places need no bound on the number of workers, the waits do.
LEMMA MailStep ==
  ASSUME PlaceInv, [Next]_vars
  PROVE  PlaceInv' /\ (TwoWorkers /\ WaitInv => WaitInv')
<1> USE WordCountAssumption DEF Threads
<1> DEFINE Stays == PlaceInv' /\ (TwoWorkers /\ WaitInv => WaitInv')
<1> SUFFICES ASSUME Next PROVE Stays
  <2>1. CASE UNCHANGED vars
    BY <2>1 DEF vars, data, PlaceInv, WaitInv, MailTypes, Places, MutexHeld, Blocked, OneReport, WorkerWaits, MainWaits,
       Mailing, Posting, Posted, Reading
  <2> QED BY <2>1
<1> USE DEF PlaceInv, WaitInv
<1>1. ASSUME NEW w \in Workers, CountWord(w) PROVE Stays
  <2>1. /\ pc[w] = "count"
        /\ \/ Mailing /\ GoTo(w, "lock")
           \/ ~Mailing /\ (GoTo(w, "ended") \/ GoTo(w, "load"))
           \/ GoTo(w, "count")
        /\ UNCHANGED <<program, lock, waiting, mailbox, spurious>>
    BY <1>1 DEF CountWord, AtEndOfFile, Adding, Mailing
  <2>2. /\ pc' \in [Threads -> Labels]
        /\ \A u \in Threads : u # w => pc'[u] = pc[u]
        /\ pc'[w] \in IF Mailing THEN {"lock", "count"} ELSE {"ended", "count", "load"}
    BY <2>1, GoToOnly DEF MailTypes, Labels
  <2>3. MailTypes'
    BY <2>1, <2>2 DEF MailTypes
  <2>4. Places'
    BY <2>1, <2>2 DEF Places, Mailing, Posting, Posted
  <2>5. MutexHeld'
    BY <2>1, <2>2 DEF MutexHeld, Places, Mailing, Posting, Posted, Reading
  <2>6. Blocked'
    BY <2>1, <2>2 DEF Blocked, MailTypes
  <2>7. OneReport'
    BY <2>1, <2>2 DEF OneReport, MailTypes, Posted
  <2>8. TwoWorkers /\ WaitInv => WorkerWaits'
    BY <2>1, <2>2 DEF WorkerWaits, MailTypes, Posted
  <2>9. TwoWorkers /\ WaitInv => MainWaits'
    BY <2>1, <2>2 DEF MainWaits, MutexHeld, Mailing, Reading
  <2> QED
    BY <2>3, <2>4, <2>5, <2>6, <2>7, <2>8, <2>9
<1>2. ASSUME NEW w \in Workers, Load(w) PROVE Stays
  <2>1. /\ pc[w] = "load"
        /\ GoTo(w, "add")
        /\ UNCHANGED <<program, waiting, mailbox, spurious>>
    BY <1>2 DEF Load
  <2>2. /\ pc' \in [Threads -> Labels]
        /\ \A u \in Threads : u # w => pc'[u] = pc[u]
        /\ pc'[w] \in {"add"}
    BY <2>1, GoToOnly DEF MailTypes, Labels
  <2>3. MailTypes'
    BY <2>1, <2>2 DEF MailTypes
  <2>4. Places'
    BY <2>1, <2>2 DEF Places, Mailing, Posting, Posted
  <2>5. MutexHeld'
    BY <2>1, <2>2 DEF MutexHeld, Places, Mailing, Posting, Posted, Reading
  <2>6. Blocked'
    BY <2>1, <2>2 DEF Blocked, MailTypes
  <2>7. OneReport'
    BY <2>1, <2>2 DEF OneReport, MailTypes, Posted
  <2>8. TwoWorkers /\ WaitInv => WorkerWaits'
    BY <2>1, <2>2 DEF WorkerWaits, MailTypes, Posted
  <2>9. TwoWorkers /\ WaitInv => MainWaits'
    BY <2>1, <2>2 DEF MainWaits, MutexHeld, Mailing, Reading
  <2> QED
    BY <2>3, <2>4, <2>5, <2>6, <2>7, <2>8, <2>9
<1>3. ASSUME NEW w \in Workers, Add(w) PROVE Stays
  <2>1. /\ pc[w] = "add"
        /\ GoTo(w, "count")
        /\ UNCHANGED <<program, waiting, mailbox, spurious>>
    BY <1>3 DEF Add
  <2>2. /\ pc' \in [Threads -> Labels]
        /\ \A u \in Threads : u # w => pc'[u] = pc[u]
        /\ pc'[w] \in {"count"}
    BY <2>1, GoToOnly DEF MailTypes, Labels
  <2>3. MailTypes'
    BY <2>1, <2>2 DEF MailTypes
  <2>4. Places'
    BY <2>1, <2>2 DEF Places, Mailing, Posting, Posted
  <2>5. MutexHeld'
    BY <2>1, <2>2 DEF MutexHeld, Places, Mailing, Posting, Posted, Reading
  <2>6. Blocked'
    BY <2>1, <2>2 DEF Blocked, MailTypes
  <2>7. OneReport'
    BY <2>1, <2>2 DEF OneReport, MailTypes, Posted
  <2>8. TwoWorkers /\ WaitInv => WorkerWaits'
    BY <2>1, <2>2 DEF WorkerWaits, MailTypes, Posted
  <2>9. TwoWorkers /\ WaitInv => MainWaits'
    BY <2>1, <2>2 DEF MainWaits, MutexHeld, Mailing, Reading
  <2> QED
    BY <2>3, <2>4, <2>5, <2>6, <2>7, <2>8, <2>9
<1>4. ASSUME NEW w \in Workers, WorkerLock(w) PROVE Stays
  <2>1. /\ pc[w] = "lock"
        /\ GoTo(w, "check")
        /\ lock = NULL /\ lock' = w
        /\ UNCHANGED <<program, waiting, mailbox, spurious>>
    BY <1>4 DEF WorkerLock, Acquire, data
  <2>2. /\ pc' \in [Threads -> Labels]
        /\ \A u \in Threads : u # w => pc'[u] = pc[u]
        /\ pc'[w] \in {"check"}
    BY <2>1, GoToOnly DEF MailTypes, Labels
  <2>3. MailTypes'
    BY <2>1, <2>2 DEF MailTypes
  <2>4. Places'
    BY <2>1, <2>2 DEF Places, Mailing, Posting, Posted
  <2>5. MutexHeld'
    BY <2>1, <2>2 DEF MutexHeld, Places, Mailing, Posting, Posted, Reading
  <2>6. Blocked'
    BY <2>1, <2>2 DEF Blocked, MailTypes
  <2>7. OneReport'
    BY <2>1, <2>2 DEF OneReport, MailTypes, Posted
  <2>8. TwoWorkers /\ WaitInv => WorkerWaits'
    BY <2>1, <2>2 DEF WorkerWaits, MailTypes, Posted
  <2>9. TwoWorkers /\ WaitInv => MainWaits'
    BY <2>1, <2>2 DEF MainWaits, MutexHeld, Mailing, Reading
  <2> QED
    BY <2>3, <2>4, <2>5, <2>6, <2>7, <2>8, <2>9
<1>5. ASSUME NEW w \in Workers, Check(w) PROVE Stays
  <2>1. /\ pc[w] = "check"
        /\ \/ mailbox # NULL /\ GoTo(w, "wait") /\ waiting' = waiting \union {w} /\ lock' = NULL
           \/ mailbox = NULL /\ GoTo(w, "store") /\ UNCHANGED <<lock, waiting>>
        /\ UNCHANGED <<program, mailbox, spurious>>
    BY <1>5 DEF Check, Wait, data
  <2>2. /\ pc' \in [Threads -> Labels]
        /\ \A u \in Threads : u # w => pc'[u] = pc[u]
        /\ pc'[w] \in IF mailbox = NULL THEN {"store"} ELSE {"wait"}
    BY <2>1, GoToOnly DEF MailTypes, Labels
  <2>3. MailTypes'
    BY <2>1, <2>2 DEF MailTypes
  <2>4. Places'
    BY <2>1, <2>2 DEF Places, Mailing, Posting, Posted
  <2>5. MutexHeld'
    BY <2>1, <2>2 DEF MutexHeld, Places, Mailing, Posting, Posted, Reading
  <2>6. Blocked'
    BY <2>1, <2>2 DEF Blocked, MailTypes
  <2>7. OneReport'
    BY <2>1, <2>2 DEF OneReport, MailTypes, Posted
  <2>8. TwoWorkers /\ WaitInv => WorkerWaits'
    BY <2>1, <2>2 DEF WorkerWaits, MailTypes, OneReport, MutexHeld, Places, Mailing, Posting, Posted, Reading
  <2>9. TwoWorkers /\ WaitInv => MainWaits'
    BY <2>1, <2>2 DEF MainWaits, MutexHeld, Mailing, Reading
  <2> QED
    BY <2>3, <2>4, <2>5, <2>6, <2>7, <2>8, <2>9
<1>6. ASSUME NEW w \in Workers, Woken(w, "store") PROVE Stays
  <2>1. /\ pc[w] = "wait" /\ w \notin waiting
        /\ GoTo(w, "store")
        /\ lock = NULL /\ lock' = w
        /\ UNCHANGED <<program, waiting, mailbox, spurious>>
    BY <1>6 DEF Woken, Acquire, data
  <2>2. /\ pc' \in [Threads -> Labels]
        /\ \A u \in Threads : u # w => pc'[u] = pc[u]
        /\ pc'[w] \in {"store"}
    BY <2>1, GoToOnly DEF MailTypes, Labels
  <2>3. MailTypes'
    BY <2>1, <2>2 DEF MailTypes
  <2>4. Places'
    BY <2>1, <2>2 DEF Places, Mailing, Posting, Posted
  <2>5. MutexHeld'
    BY <2>1, <2>2 DEF MutexHeld, Places, Mailing, Posting, Posted, Reading
  <2>6. Blocked'
    BY <2>1, <2>2 DEF Blocked, MailTypes
  <2>7. OneReport'
    BY <2>1, <2>2 DEF OneReport, MailTypes, Posted
  <2>8. TwoWorkers /\ WaitInv => WorkerWaits'
    BY <2>1, <2>2 DEF WorkerWaits, MailTypes, OneReport, MutexHeld, Places, Mailing, Posting, Posted, Reading
  <2>9. TwoWorkers /\ WaitInv => MainWaits'
    BY <2>1, <2>2 DEF MainWaits, MutexHeld, Mailing, Reading
  <2> QED
    BY <2>3, <2>4, <2>5, <2>6, <2>7, <2>8, <2>9
<1>7. ASSUME NEW w \in Workers, Store(w) PROVE Stays
  <2>1. /\ pc[w] = "store"
        /\ GoTo(w, "unlock")
        /\ mailbox' = w
        /\ Signal
        /\ UNCHANGED <<program, lock, spurious>>
    BY <1>7 DEF Store
  <2>2. /\ pc' \in [Threads -> Labels]
        /\ \A u \in Threads : u # w => pc'[u] = pc[u]
        /\ pc'[w] \in {"unlock"}
    BY <2>1, GoToOnly DEF MailTypes, Labels
  <2>3. MailTypes'
    BY <2>1, <2>2, SignalWakes DEF MailTypes
  <2>4. Places'
    BY <2>1, <2>2 DEF Places, Mailing, Posting, Posted
  <2>5. MutexHeld'
    BY <2>1, <2>2 DEF MutexHeld, Places, Mailing, Posting, Posted, Reading
  <2>6. Blocked'
    BY <2>1, <2>2, SignalWakes DEF Blocked, MailTypes
  <2>7. OneReport'
    BY <2>1, <2>2 DEF OneReport, MailTypes, Posted
  <2>8. TwoWorkers /\ WaitInv => WorkerWaits'
    BY <2>1, <2>2, SignalWakes DEF WorkerWaits, MailTypes, OneReport, MutexHeld, Places, Mailing, Posting, Posted, Reading, TwoWorkers
  <2>9. TwoWorkers /\ WaitInv => MainWaits'
    BY <2>1, <2>2, SignalWakes DEF MainWaits, MailTypes, WorkerWaits, Blocked, MutexHeld, Places, Mailing, Posting, Reading
  <2> QED
    BY <2>3, <2>4, <2>5, <2>6, <2>7, <2>8, <2>9
<1>8. ASSUME NEW w \in Workers, Unlock(w) PROVE Stays
  <2>1. /\ pc[w] = "unlock"
        /\ GoTo(w, "ended")
        /\ lock' = NULL
        /\ UNCHANGED <<program, waiting, mailbox, spurious>>
    BY <1>8 DEF Unlock, data
  <2>2. /\ pc' \in [Threads -> Labels]
        /\ \A u \in Threads : u # w => pc'[u] = pc[u]
        /\ pc'[w] \in {"ended"}
    BY <2>1, GoToOnly DEF MailTypes, Labels
  <2>3. MailTypes'
    BY <2>1, <2>2 DEF MailTypes
  <2>4. Places'
    BY <2>1, <2>2 DEF Places, Mailing, Posting, Posted
  <2>5. MutexHeld'
    BY <2>1, <2>2 DEF MutexHeld, Places, Mailing, Posting, Posted, Reading
  <2>6. Blocked'
    BY <2>1, <2>2 DEF Blocked, MailTypes
  <2>7. OneReport'
    BY <2>1, <2>2 DEF OneReport, MailTypes, Posted
  <2>8. TwoWorkers /\ WaitInv => WorkerWaits'
    BY <2>1, <2>2 DEF WorkerWaits, MailTypes, Posted
  <2>9. TwoWorkers /\ WaitInv => MainWaits'
    BY <2>1, <2>2 DEF MainWaits, MutexHeld, Mailing, Reading
  <2> QED
    BY <2>3, <2>4, <2>5, <2>6, <2>7, <2>8, <2>9
<1>9. ASSUME NEW w \in Workers, Create(w) PROVE Stays
  <2>1. /\ pc[w] = "new"
        /\ GoTo(w, "count")
        /\ UNCHANGED <<program, lock, waiting, mailbox, spurious>>
    BY <1>9 DEF Create, data
  <2>2. /\ pc' \in [Threads -> Labels]
        /\ \A u \in Threads : u # w => pc'[u] = pc[u]
        /\ pc'[w] \in {"count"}
    BY <2>1, GoToOnly DEF MailTypes, Labels
  <2>3. MailTypes'
    BY <2>1, <2>2 DEF MailTypes
  <2>4. Places'
    BY <2>1, <2>2 DEF Places, Mailing, Posting, Posted
  <2>5. MutexHeld'
    BY <2>1, <2>2 DEF MutexHeld, Places, Mailing, Posting, Reading
  <2>6. Blocked'
    BY <2>1, <2>2 DEF Blocked, MailTypes
  <2>7. OneReport'
    BY <2>1, <2>2 DEF OneReport, MailTypes, Posted
  <2>8. TwoWorkers /\ WaitInv => WorkerWaits'
    BY <2>1, <2>2 DEF WorkerWaits, MailTypes, Posted
  <2>9. TwoWorkers /\ WaitInv => MainWaits'
    BY <2>1, <2>2 DEF MainWaits, MutexHeld, Mailing, Reading
  <2> QED
    BY <2>3, <2>4, <2>5, <2>6, <2>7, <2>8, <2>9
<1>10. CASE MainLock
  <2>1. /\ pc[Main] = "lock"
        /\ GoTo(Main, "create")
        /\ lock = NULL /\ lock' = Main
        /\ UNCHANGED <<program, waiting, mailbox, spurious>>
    BY <1>10 DEF MainLock, Acquire, data
  <2>2. /\ pc' \in [Threads -> Labels]
        /\ \A u \in Threads : u # Main => pc'[u] = pc[u]
        /\ pc'[Main] \in {"create"}
    BY <2>1, GoToOnly DEF MailTypes, Labels
  <2>3. MailTypes'
    BY <2>1, <2>2 DEF MailTypes
  <2>4. Places'
    BY <2>1, <2>2 DEF Places, Mailing, Posting, Posted
  <2>5. MutexHeld'
    BY <2>1, <2>2 DEF MutexHeld, Places, Mailing, Posting, Posted, Reading
  <2>6. Blocked'
    BY <2>1, <2>2 DEF Blocked, MailTypes
  <2>7. OneReport'
    BY <2>1, <2>2 DEF OneReport, MailTypes, Posted
  <2>8. TwoWorkers /\ WaitInv => WorkerWaits'
    BY <2>1, <2>2 DEF WorkerWaits, MailTypes, Posted
  <2>9. TwoWorkers /\ WaitInv => MainWaits'
    BY <2>1, <2>2 DEF MainWaits, MutexHeld, Mailing, Reading
  <2> QED
    BY <2>3, <2>4, <2>5, <2>6, <2>7, <2>8, <2>9
<1>11. CASE Loop
  <2>1. /\ Mailing
        /\ pc[Main] \in {"create", "loop"}
        /\ \/ GoTo(Main, "wait") /\ waiting' = waiting \union {Main} /\ lock' = NULL
           \/ GoTo(Main, "return") /\ UNCHANGED <<lock, waiting>>
        /\ UNCHANGED <<program, mailbox, spurious>>
    BY <1>11 DEF Loop, Wait, Mailing, data
  <2>2. /\ pc' \in [Threads -> Labels]
        /\ \A u \in Threads : u # Main => pc'[u] = pc[u]
        /\ \/ pc'[Main] = "wait" /\ waiting' = waiting \union {Main} /\ lock' = NULL
           \/ pc'[Main] = "return" /\ UNCHANGED <<lock, waiting>>
    BY <2>1, GoToOnly DEF MailTypes, Labels
  <2>3. MailTypes'
    BY <2>1, <2>2 DEF MailTypes
  <2>4. Places'
    BY <2>1, <2>2 DEF Places, Mailing, Posting, Posted
  <2>5. MutexHeld'
    BY <2>1, <2>2 DEF MutexHeld, Places, Mailing, Posting, Posted, Reading
  <2>6. Blocked'
    BY <2>1, <2>2 DEF Blocked, MailTypes
  <2>7. OneReport'
    BY <2>1, <2>2 DEF OneReport, MailTypes, Posted
  <2>8. TwoWorkers /\ WaitInv => WorkerWaits'
    BY <2>1, <2>2 DEF WorkerWaits, MailTypes, Posted
  <2>9. TwoWorkers /\ WaitInv => MainWaits'
    BY <2>1, <2>2 DEF MainWaits, MutexHeld, Mailing, Reading
  <2> QED
    BY <2>3, <2>4, <2>5, <2>6, <2>7, <2>8, <2>9
<1>12. CASE Woken(Main, "report")
  <2>1. /\ pc[Main] = "wait" /\ Main \notin waiting
        /\ GoTo(Main, "report")
        /\ lock = NULL /\ lock' = Main
        /\ UNCHANGED <<program, waiting, mailbox, spurious>>
    BY <1>12 DEF Woken, Acquire, data
  <2>2. /\ pc' \in [Threads -> Labels]
        /\ \A u \in Threads : u # Main => pc'[u] = pc[u]
        /\ pc'[Main] \in {"report"}
    BY <2>1, GoToOnly DEF MailTypes, Labels
  <2>3. MailTypes'
    BY <2>1, <2>2 DEF MailTypes
  <2>4. Places'
    BY <2>1, <2>2 DEF Places, Mailing, Posting, Posted
  <2>5. MutexHeld'
    BY <2>1, <2>2 DEF MutexHeld, Places, Mailing, Posting, Posted, Reading
  <2>6. Blocked'
    BY <2>1, <2>2 DEF Blocked, MailTypes
  <2>7. OneReport'
    BY <2>1, <2>2 DEF OneReport, MailTypes, Posted
  <2>8. TwoWorkers /\ WaitInv => WorkerWaits'
    BY <2>1, <2>2 DEF WorkerWaits, MailTypes, Posted
  <2>9. TwoWorkers /\ WaitInv => MainWaits'
    BY <2>1, <2>2 DEF MainWaits, MutexHeld, Mailing, Reading
  <2> QED
    BY <2>3, <2>4, <2>5, <2>6, <2>7, <2>8, <2>9
<1>13. CASE Report
  <2>1. /\ pc[Main] = "report"
        /\ GoTo(Main, IF mailbox # NULL THEN "join" ELSE "crashed")
        /\ UNCHANGED <<program, lock, waiting, mailbox, spurious>>
    BY <1>13 DEF Report
  <2>2. /\ pc' \in [Threads -> Labels]
        /\ \A u \in Threads : u # Main => pc'[u] = pc[u]
        /\ pc'[Main] \in IF mailbox # NULL THEN {"join"} ELSE {"crashed"}
    BY <2>1, GoToOnly DEF MailTypes, Labels
  <2>3. MailTypes'
    BY <2>1, <2>2 DEF MailTypes
  <2>4. Places'
    BY <2>1, <2>2 DEF Places, Mailing, Posting, Posted
  <2>5. MutexHeld'
    BY <2>1, <2>2 DEF MutexHeld, Places, Mailing, Posting, Posted, Reading
  <2>6. Blocked'
    BY <2>1, <2>2 DEF Blocked, MailTypes
  <2>7. OneReport'
    BY <2>1, <2>2 DEF OneReport, MailTypes, Posted
  <2>8. TwoWorkers /\ WaitInv => WorkerWaits'
    BY <2>1, <2>2 DEF WorkerWaits, MailTypes, Posted
  <2>9. TwoWorkers /\ WaitInv => MainWaits'
    BY <2>1, <2>2 DEF MainWaits, MutexHeld, Mailing, Reading
  <2> QED
    BY <2>3, <2>4, <2>5, <2>6, <2>7, <2>8, <2>9
<1>14. CASE Join
  <2>1. /\ pc[Main] = "join" /\ pc[mailbox] = "ended"
        /\ GoTo(Main, "loop")
        /\ mailbox' = NULL
        /\ Signal
        /\ UNCHANGED <<program, lock, spurious>>
    BY <1>14 DEF Join
  <2>2. /\ pc' \in [Threads -> Labels]
        /\ \A u \in Threads : u # Main => pc'[u] = pc[u]
        /\ pc'[Main] \in {"loop"}
    BY <2>1, GoToOnly DEF MailTypes, Labels
  <2>3. MailTypes'
    BY <2>1, <2>2, SignalWakes DEF MailTypes
  <2>4. Places'
    BY <2>1, <2>2 DEF Places, Mailing, Posting, Posted
  <2>5. MutexHeld'
    BY <2>1, <2>2 DEF MutexHeld, Places, Mailing, Posting, Posted, Reading
  <2>6. Blocked'
    BY <2>1, <2>2, SignalWakes DEF Blocked, MailTypes
  <2>7. OneReport'
    BY <2>1, <2>2 DEF OneReport, MailTypes, Posted
  <2>8. TwoWorkers /\ WaitInv => WorkerWaits'
    BY <2>1, <2>2, SignalWakes DEF WorkerWaits, MailTypes, OneReport, MutexHeld, Places, Mailing, Posting, Posted, Reading, Blocked, MainWaits, TwoWorkers
  <2>9. TwoWorkers /\ WaitInv => MainWaits'
    BY <2>1, <2>2, SignalWakes DEF MainWaits, MailTypes, MutexHeld, Mailing, Reading
  <2> QED
    BY <2>3, <2>4, <2>5, <2>6, <2>7, <2>8, <2>9
<1>15. CASE JoinBoth
  <2>1. /\ ~Mailing /\ pc[Main] = "create"
        /\ GoTo(Main, "return")
        /\ UNCHANGED <<program, lock, waiting, mailbox, spurious>>
    BY <1>15 DEF JoinBoth, Mailing
  <2>2. /\ pc' \in [Threads -> Labels]
        /\ \A u \in Threads : u # Main => pc'[u] = pc[u]
        /\ pc'[Main] \in {"return"}
    BY <2>1, GoToOnly DEF MailTypes, Labels
  <2>3. MailTypes'
    BY <2>1, <2>2 DEF MailTypes
  <2>4. Places'
    BY <2>1, <2>2 DEF Places, Mailing, Posting, Posted
  <2>5. MutexHeld'
    BY <2>1, <2>2 DEF MutexHeld, Places, Mailing, Posting, Posted, Reading
  <2>6. Blocked'
    BY <2>1, <2>2 DEF Blocked, MailTypes
  <2>7. OneReport'
    BY <2>1, <2>2 DEF OneReport, MailTypes, Posted
  <2>8. TwoWorkers /\ WaitInv => WorkerWaits'
    BY <2>1, <2>2 DEF WorkerWaits, MailTypes, OneReport, MutexHeld, Places, Mailing, Posting, Posted, Reading, Blocked, MainWaits
  <2>9. TwoWorkers /\ WaitInv => MainWaits'
    BY <2>1, <2>2 DEF MainWaits, MailTypes, MutexHeld, Mailing, Reading
  <2> QED
    BY <2>3, <2>4, <2>5, <2>6, <2>7, <2>8, <2>9
<1>16. ASSUME NEW t \in Threads, SpuriousWakeup(t) PROVE Stays
  <2>1. /\ t \in waiting
        /\ waiting' = waiting \ {t}
        /\ spurious' = TRUE
        /\ UNCHANGED <<program, pc, lock, mailbox>>
    BY <1>16 DEF SpuriousWakeup
  <2>2. MailTypes'
    BY <2>1 DEF MailTypes
  <2>3. Places'
    BY <2>1 DEF Places, Mailing, Posting, Posted
  <2>4. MutexHeld'
    BY <2>1 DEF MutexHeld, Places, Mailing, Posting, Posted, Reading
  <2>5. Blocked'
    BY <2>1 DEF Blocked, MailTypes
  <2>6. OneReport'
    BY <2>1 DEF OneReport, MailTypes, Posted
  <2>7. TwoWorkers /\ WaitInv => WorkerWaits'
    BY <2>1 DEF WorkerWaits, MailTypes, Posted
  <2>8. TwoWorkers /\ WaitInv => MainWaits'
    BY <2>1 DEF MainWaits, MutexHeld, Mailing, Reading
  <2> QED
    BY <2>2, <2>3, <2>4, <2>5, <2>6, <2>7, <2>8
<1> QED
  BY <1>1, <1>2, <1>3, <1>4, <1>5, <1>6, <1>7, <1>8, <1>9, <1>10, <1>11, <1>12, <1>13, <1>14, <1>15, <1>16
     DEF Next, WorkerSteps, MainSteps
-----------------------------------------------------------------------------
LEMMA MailInvariant == ASSUME TwoWorkers PROVE Spec => [](PlaceInv /\ WaitInv)
  BY MailInit, MailStep, PTL DEF Spec

\* No worker puts its report over one that main has not taken out, as long as
\* every wait ends by a signal; for two files of any length.
THEOREM NoReportLost == ASSUME TwoWorkers PROVE Spec => MailboxTakenWhenEmpty
<1> DEFINE Kept == ~spurious => \A w \in Workers : mailbox' = w /\ mailbox # w => mailbox = NULL
<1>1. WaitInv /\ [Next]_vars => [Kept]_vars
  <2> SUFFICES ASSUME WaitInv, Next, ~spurious, NEW w \in Workers, mailbox' = w, mailbox # w
               PROVE  mailbox = NULL
    OBVIOUS
  <2>1. ASSUME NEW v \in Workers, Store(v) PROVE mailbox = NULL
    BY <2>1 DEF Store, WaitInv, WorkerWaits
  <2>2. CASE mailbox' \in {mailbox, NULL}
    BY <2>2, WordCountAssumption
  <2> QED
    BY <2>1, <2>2
       DEF Next, WorkerSteps, MainSteps, CountWord, Load, Add, WorkerLock, Check, Woken, Unlock, MainLock,
           Create, Loop, Report, Join, JoinBoth, SpuriousWakeup, data
<1> QED
  BY <1>1, MailInvariant, PTL DEF MailboxTakenWhenEmpty, Spec

\* Main does not use mailbox->count of an empty mailbox.
MainNeverCrashes == pc[Main] = "crashed" => spurious

\* Main, which does not look again after its wait, finds a report in the
\* mailbox, as long as every wait ends by a signal.
THEOREM ReportFound == ASSUME TwoWorkers PROVE Spec => []MainNeverCrashes
<1>1. PlaceInv /\ WaitInv => MainNeverCrashes
  BY WordCountAssumption DEF PlaceInv, WaitInv, MainWaits, MutexHeld, Places, Mailing, MainNeverCrashes
<1> QED
  BY <1>1, MailInvariant, PTL
-----------------------------------------------------------------------------
(* The sum over a finite set *)

SumOf(f, S) == MapThenSumSet(LAMBDA v : f[v], S)

\* The element that the fold takes from a set.
Taken(s) == CHOOSE v \in s : TRUE

\* What the fold computes for the subset s from smaller ones.
Added(f, h, s) == IF s = {} THEN 0 ELSE f[Taken(s)] + h[s \ {Taken(s)}]

\* Induction over the subsets of a finite set, in the order of the fold.
LEMMA SubsetInduction ==
  ASSUME NEW S, IsFiniteSet(S), NEW G, {} \in G,
         \A s \in SUBSET S : s # {} /\ s \ {Taken(s)} \in G => s \in G
  PROVE  SUBSET S \subseteq G
<1>. DEFINE T == {Cardinality(s) : s \in (SUBSET S) \ G}
<1>1. \A s \in SUBSET S : IsFiniteSet(s) /\ Cardinality(s) \in Nat
  BY FS_Subset, FS_CardinalityType
<1>2. SUFFICES ASSUME (SUBSET S) \ G # {} PROVE FALSE
  OBVIOUS
<1>3. T \subseteq Nat /\ T # {}
  BY <1>1, <1>2
<1>4. PICK n \in T : \A m \in T : ~ (<<m, n>> \in OpToRel(<, Nat))
  <2>. HIDE DEF T
  <2>. QED
    BY <1>3, NatLessThanWellFounded, WFMin
<1>5. PICK s \in (SUBSET S) \ G : n = Cardinality(s)
  BY <1>4
<1>6. s # {}
  BY <1>5
<1>7. Taken(s) \in s
  BY <1>6 DEF Taken
<1>8. s \ {Taken(s)} \in SUBSET S /\ s \ {Taken(s)} \notin G
  BY <1>5, <1>6
<1>9. Cardinality(s \ {Taken(s)}) \in T /\ Cardinality(s \ {Taken(s)}) = n - 1
  BY <1>1, <1>5, <1>7, <1>8, FS_RemoveElement
<1>10. n \in Nat /\ n - 1 \in Nat
  BY <1>1, <1>3, <1>5, <1>9
<1>11. <<n - 1, n>> \in OpToRel(<, Nat)
  BY <1>10 DEF OpToRel
<1>. QED
  BY <1>4, <1>9, <1>11

LEMMA NatSteps ==
  ASSUME NEW G, 0 \in G, \A n \in Nat : n \in G => n + 1 \in G
  PROVE  Nat \subseteq G
<1>1. SUFFICES ASSUME Nat \ G # {} PROVE FALSE
  OBVIOUS
<1>2. PICK n \in Nat \ G : \A m \in Nat \ G : ~ (<<m, n>> \in OpToRel(<, Nat))
  BY <1>1, NatLessThanWellFounded, WFMin
<1>3. n - 1 \in Nat \ G
  <2>1. n \in Nat /\ n \notin G
    OBVIOUS
  <2>2. n # 0
    BY <2>1
  <2>3. n - 1 \in Nat /\ (n - 1) + 1 = n
    BY <2>1, <2>2
  <2>. QED
    BY <2>1, <2>3
<1>4. <<n - 1, n>> \in OpToRel(<, Nat)
  BY <1>2, <1>3 DEF OpToRel
<1>. QED
  BY <1>2, <1>3, <1>4

LEMMA SumDefined ==
  ASSUME NEW S, IsFiniteSet(S), NEW f \in [S -> Nat]
  PROVE  \E h \in [SUBSET S -> Nat] : \A s \in SUBSET S : h[s] = Added(f, h, s)
<1>. DEFINE Upto(n, h) == \A s \in SUBSET S : Cardinality(s) <= n => h[s] = Added(f, h, s)
            G == {n \in Nat : \E h \in [SUBSET S -> Nat] : Upto(n, h)}
<1>1. \A s \in SUBSET S : Cardinality(s) \in 0 .. Cardinality(S) /\ Cardinality(S) \in Nat /\ IsFiniteSet(s)
  BY FS_Subset, FS_CardinalityType
<1>2. 0 \in G
  <2>1. \A s \in SUBSET S : Cardinality(s) <= 0 => s = {}
    BY <1>1, FS_EmptySet
  <2>2. [s \in SUBSET S |-> 0] \in [SUBSET S -> Nat]
    OBVIOUS
  <2>3. Upto(0, [s \in SUBSET S |-> 0])
    BY <2>1 DEF Added
  <2>. QED
    BY <2>2, <2>3
<1>3. ASSUME NEW n \in Nat, n \in G PROVE n + 1 \in G
  <2>1. PICK h \in [SUBSET S -> Nat] : Upto(n, h)
    BY <1>3
  <2>. DEFINE g == [s \in SUBSET S |-> IF Cardinality(s) <= n THEN h[s] ELSE Added(f, h, s)]
  <2>2. \A s \in SUBSET S : s # {} => /\ Taken(s) \in s /\ s \ {Taken(s)} \in SUBSET S
                                    /\ Cardinality(s \ {Taken(s)}) = Cardinality(s) - 1
    BY <1>1, FS_RemoveElement DEF Taken
  <2>3. \A s \in SUBSET S : Added(f, h, s) \in Nat
    <3>1. \A s \in SUBSET S : s # {} => f[Taken(s)] \in Nat /\ h[s \ {Taken(s)}] \in Nat
      BY <2>2
    <3>. QED
      BY <3>1 DEF Added
  <2>4. g \in [SUBSET S -> Nat]
    BY <2>3
  <2>5. ASSUME NEW s \in SUBSET S, Cardinality(s) <= n + 1 PROVE g[s] = Added(f, g, s)
    <3>1. CASE s = {}
      BY <2>1, <1>1, <3>1 DEF Added
    <3>2. CASE s # {}
      <4>1. /\ Taken(s) \in s /\ s \ {Taken(s)} \in SUBSET S
            /\ Cardinality(s \ {Taken(s)}) <= n
        BY <1>1, <2>2, <2>5, <3>2
      <4>2. g[s \ {Taken(s)}] = h[s \ {Taken(s)}]
        BY <4>1
      <4>3. Added(f, g, s) = Added(f, h, s)
        BY <4>2 DEF Added
      <4>4. g[s] = Added(f, h, s)
        BY <2>1
      <4>. QED
        BY <4>3, <4>4
    <3>. QED
      BY <3>1, <3>2
  <2>6. Upto(n + 1, g)
    BY <2>5
  <2>. HIDE DEF Upto, g
  <2>. QED
    BY <2>4, <2>6
<1>4. Nat \subseteq G
  <2>. HIDE DEF G
  <2>. QED
    BY <1>2, <1>3, NatSteps
<1>5. PICK h \in [SUBSET S -> Nat] : Upto(Cardinality(S), h)
  BY <1>1, <1>4
<1>. QED
  BY <1>1, <1>5

\* The fold, as a recursive definition.
LEMMA SumRecursive ==
  ASSUME NEW S, IsFiniteSet(S), NEW f \in [S -> Nat]
  PROVE  \E h : /\ \A s \in SUBSET S : h[s] = Added(f, h, s)
               /\ SumOf(f, S) = h[S]
<1>. DEFINE Eq(h) == h = [s \in SUBSET S |-> IF s = {} THEN 0 ELSE f[CHOOSE v \in s : TRUE] + h[s \ {CHOOSE v \in s : TRUE}]]
            iter == CHOOSE h : Eq(h)
<1>1. \E h : Eq(h)
  <2>1. PICK h \in [SUBSET S -> Nat] : \A s \in SUBSET S : h[s] = Added(f, h, s)
    BY SumDefined
  <2>. QED
    BY <2>1 DEF Added, Taken
<1>2. Eq(iter)
  BY <1>1
<1>3. SumOf(f, S) = iter[S]
  BY DEF SumOf, MapThenSumSet, MapThenFoldSet
<1>4. \A s \in SUBSET S : iter[s] = Added(f, iter, s)
  <2>. HIDE DEF iter
  <2>. QED
    BY <1>2 DEF Added, Taken
<1>. QED
  BY <1>3, <1>4
\* One step of the fold.
LEMMA TakenFrom ==
  ASSUME NEW S, IsFiniteSet(S), NEW s \in SUBSET S, s # {}
  PROVE  /\ Taken(s) \in S /\ Taken(s) \in s /\ s \ {Taken(s)} \in SUBSET S
         /\ Cardinality(s) \in Nat /\ Cardinality(s \ {Taken(s)}) = Cardinality(s) - 1
         /\ s # {}
BY FS_Subset, FS_CardinalityType, FS_RemoveElement DEF Taken

LEMMA SumIsNat ==
  ASSUME NEW S, IsFiniteSet(S), NEW f \in [S -> Nat]
  PROVE  SumOf(f, S) \in Nat
<1>1. PICK h : (\A s \in SUBSET S : h[s] = Added(f, h, s)) /\ SumOf(f, S) = h[S]
  BY SumRecursive
<1>. DEFINE G == {s \in SUBSET S : h[s] \in Nat}
<1>2. {} \in G
  <2>1. h[{}] = 0
    BY <1>1 DEF Added
  <2>. QED
    BY <2>1
<1>3. ASSUME NEW s \in SUBSET S, s # {}, s \ {Taken(s)} \in G PROVE s \in G
  <2>1. h[s] = f[Taken(s)] + h[s \ {Taken(s)}]
    BY <1>1, <1>3 DEF Added
  <2>2. f[Taken(s)] \in Nat /\ h[s \ {Taken(s)}] \in Nat
    BY <1>3, TakenFrom
  <2>. QED
    BY <2>1, <2>2
<1>4. SUBSET S \subseteq G
  <2>. HIDE DEF G
  <2>. QED
    BY <1>2, <1>3, SubsetInduction
<1>. QED
  BY <1>1, <1>4

\* When one summand grows the sum grows by as much.
LEMMA SumGrows ==
  ASSUME NEW S, IsFiniteSet(S), NEW f \in [S -> Nat], NEW g \in [S -> Nat], NEW w \in S,
         \A v \in S \ {w} : g[v] = f[v]
  PROVE  SumOf(g, S) = SumOf(f, S) + (g[w] - f[w])
<1>1. PICK h : (\A s \in SUBSET S : h[s] = Added(f, h, s)) /\ SumOf(f, S) = h[S]
  BY SumRecursive
<1>2. PICK k : (\A s \in SUBSET S : k[s] = Added(g, k, s)) /\ SumOf(g, S) = k[S]
  BY SumRecursive
<1>. DEFINE G == {s \in SUBSET S : /\ h[s] \in Int
                                  /\ k[s] = h[s] + (IF w \in s THEN g[w] - f[w] ELSE 0)}
<1>3. {} \in G
  <2>1. h[{}] = 0 /\ k[{}] = 0
    BY <1>1, <1>2 DEF Added
  <2>. QED
    BY <2>1
<1>4. ASSUME NEW s \in SUBSET S, s # {}, s \ {Taken(s)} \in G PROVE s \in G
  <2>1. /\ h[s] = f[Taken(s)] + h[s \ {Taken(s)}]
        /\ k[s] = g[Taken(s)] + k[s \ {Taken(s)}]
    BY <1>1, <1>2, <1>4 DEF Added
  <2>2. /\ Taken(s) \in S /\ Taken(s) \in s /\ h[s \ {Taken(s)}] \in Int
        /\ k[s \ {Taken(s)}] = h[s \ {Taken(s)}] + (IF w \in s \ {Taken(s)} THEN g[w] - f[w] ELSE 0)
    BY <1>4, TakenFrom
  <2>3. f[Taken(s)] \in Int /\ g[Taken(s)] \in Int /\ f[w] \in Int /\ g[w] \in Int
    BY <2>2
  <2>4. CASE Taken(s) = w
    BY <2>1, <2>2, <2>3, <2>4
  <2>5. CASE Taken(s) # w
    BY <2>1, <2>2, <2>3, <2>5
  <2>. QED
    BY <2>4, <2>5
<1>5. SUBSET S \subseteq G
  <2>. HIDE DEF G
  <2>. QED
    BY <1>3, <1>4, SubsetInduction
<1>6. S \in G
  BY <1>5
<1>. QED
  BY <1>1, <1>2, <1>6

LEMMA SumOfNothing ==
  ASSUME NEW S, IsFiniteSet(S), NEW f \in [S -> Nat], \A v \in S : f[v] = 0
  PROVE  SumOf(f, S) = 0
<1>1. PICK h : (\A s \in SUBSET S : h[s] = Added(f, h, s)) /\ SumOf(f, S) = h[S]
  BY SumRecursive
<1>. DEFINE G == {s \in SUBSET S : h[s] = 0}
<1>2. {} \in G
  <2>1. h[{}] = 0
    BY <1>1 DEF Added
  <2>. QED
    BY <2>1
<1>3. ASSUME NEW s \in SUBSET S, s # {}, s \ {Taken(s)} \in G PROVE s \in G
  <2>1. h[s] = f[Taken(s)] + h[s \ {Taken(s)}]
    BY <1>1, <1>3 DEF Added
  <2>2. f[Taken(s)] = 0 /\ h[s \ {Taken(s)}] = 0
    BY <1>3, TakenFrom
  <2>. QED
    BY <2>1, <2>2
<1>4. SUBSET S \subseteq G
  <2>. HIDE DEF G
  <2>. QED
    BY <1>2, <1>3, SubsetInduction
<1>. QED
  BY <1>1, <1>4

LEMMA SumBounded ==
  ASSUME NEW S, IsFiniteSet(S), NEW f \in [S -> Nat], NEW m \in Nat, \A v \in S : f[v] <= m
  PROVE  SumOf(f, S) <= m * Cardinality(S)
<1>1. PICK h : (\A s \in SUBSET S : h[s] = Added(f, h, s)) /\ SumOf(f, S) = h[S]
  BY SumRecursive
<1>. DEFINE G == {s \in SUBSET S : h[s] \in Nat /\ h[s] <= m * Cardinality(s)}
<1>2. {} \in G
  <2>1. h[{}] = 0
    BY <1>1 DEF Added
  <2>2. m * Cardinality({}) = 0
    BY FS_EmptySet
  <2>. QED
    BY <2>1, <2>2
<1>3. ASSUME NEW s \in SUBSET S, s # {}, s \ {Taken(s)} \in G PROVE s \in G
  <2>1. h[s] = f[Taken(s)] + h[s \ {Taken(s)}]
    BY <1>1, <1>3 DEF Added
  <2>2. /\ f[Taken(s)] \in Nat /\ f[Taken(s)] <= m /\ h[s \ {Taken(s)}] \in Nat
        /\ h[s \ {Taken(s)}] <= m * (Cardinality(s) - 1) /\ Cardinality(s) \in Nat
    BY <1>3, TakenFrom
  <2>3. PICK n \in Nat : n = Cardinality(s)
    BY <2>2
  <2>4. m * (n - 1) = m * n - m /\ m * n \in Int
    BY <2>3
  <2>5. h[s] \in Nat /\ h[s] <= m * n
    BY <2>1, <2>2, <2>3, <2>4
  <2>. QED
    BY <2>3, <2>5
<1>4. SUBSET S \subseteq G
  <2>. HIDE DEF G
  <2>. QED
    BY <1>2, <1>3, SubsetInduction
<1>. QED
  BY <1>1, <1>4
-----------------------------------------------------------------------------
(* The words that are counted *)

\* The words of w that total_words++ has been executed for.
InAddition(w) == pc[w] \in {"load", "add"}
finished == [w \in Workers |-> IF InAddition(w) THEN count[w] - 1 ELSE count[w]]

\* What main of twordcount4 has added up.
printed == [w \in Workers |-> IF w \in reported THEN count[w] ELSE 0]

CountTypes ==
  /\ count \in [Workers -> 0 .. MaxWords]
  /\ loaded \in [Workers -> Nat]
  /\ total_words \in Nat
  /\ reported \in SUBSET Workers
  /\ spurious \in BOOLEAN
  /\ lock \in Threads \union {NULL}
  /\ \A w \in Workers : InAddition(w) => count[w] > 0 /\ program \in Adding

\* The threads may lose words of each other (twordcount1) but add none; with the
\* mutex none is lost (twordcount2).
AddedUp ==
  /\ program \in Adding =>
       /\ total_words <= SumOf(finished, Workers)
       /\ \A w \in Workers : loaded[w] <= SumOf(finished, Workers)
  /\ program \notin Adding => \A w \in Workers : loaded[w] = 0
  /\ program = "twordcount2" =>
       /\ total_words = SumOf(finished, Workers)
       /\ \A w \in Workers : lock = w <=> pc[w] = "add"
       /\ \A w \in Workers : pc[w] = "add" => loaded[w] = total_words

JoinedUp ==
  /\ ~Mailing /\ pc[Main] = "return" => \A w \in Workers : pc[w] = "ended"
  /\ program = "twordcount3" =>
       total_words = IF pc[Main] = "return" THEN SumOf(count, Workers) ELSE 0

\* Main has added up what it has printed, and joined those threads; the last of
\* them it may be joining.
Reports ==
  /\ ~Mailing => reported = {}
  /\ Mailing => total_words = SumOf(printed, Workers)
  /\ reports_in = Cardinality(reported) - (IF pc[Main] = "join" THEN 1 ELSE 0)
  /\ pc[Main] = "join" => mailbox \in reported
  /\ \A w \in reported :
       /\ pc[w] \in Posted
       /\ IF w = mailbox THEN pc[Main] = "join" ELSE pc[w] = "ended"
  /\ Mailing /\ pc[Main] = "return" => reports_in >= Cardinality(Workers)

CountInv == CountTypes /\ AddedUp /\ JoinedUp /\ Reports

LEMMA Finite == IsFiniteSet(Workers) /\ Main \notin Workers /\ NULL \notin Workers /\ MaxWords \in Nat
BY WordCountAssumption

\* The summands.
LEMMA Summands ==
  ASSUME CountTypes
  PROVE  /\ finished \in [Workers -> Nat] /\ printed \in [Workers -> Nat] /\ count \in [Workers -> Nat]
         /\ \A w \in Workers : finished[w] <= MaxWords /\ printed[w] <= MaxWords /\ count[w] <= MaxWords
         /\ SumOf(finished, Workers) \in Nat /\ SumOf(printed, Workers) \in Nat /\ SumOf(count, Workers) \in Nat
<1>1. \A w \in Workers : count[w] \in Nat /\ count[w] <= MaxWords /\ (InAddition(w) => count[w] - 1 \in Nat)
  BY Finite DEF CountTypes
<1>2. finished \in [Workers -> Nat] /\ printed \in [Workers -> Nat] /\ count \in [Workers -> Nat]
  BY <1>1 DEF finished, printed, CountTypes
<1>3. \A w \in Workers : finished[w] <= MaxWords /\ printed[w] <= MaxWords
  BY <1>1, Finite DEF finished, printed
<1>. QED
  BY <1>1, <1>2, <1>3, Finite, SumIsNat

LEMMA CountInit == Init => CountInv
<1>. SUFFICES ASSUME Init PROVE CountInv
  OBVIOUS
<1>1. /\ count = [w \in Workers |-> 0] /\ loaded = [w \in Workers |-> 0] /\ total_words = 0 /\ reports_in = 0
      /\ reported = {} /\ spurious = FALSE /\ lock = NULL /\ mailbox = NULL
      /\ pc[Main] \in {"lock", "create"} /\ \A w \in Workers : pc[w] = "new"
  BY Finite DEF Init, Threads
<1>2. CountTypes
  <2>1. /\ count \in [Workers -> 0 .. MaxWords] /\ loaded \in [Workers -> Nat]
        /\ total_words \in Nat /\ reported \in SUBSET Workers /\ lock \in Threads \union {NULL}
    BY <1>1, Finite
  <2>2. \A w \in Workers : ~InAddition(w)
    BY <1>1 DEF InAddition
  <2>. QED
    BY <1>1, <2>1, <2>2 DEF CountTypes
<1>3. SumOf(finished, Workers) = 0 /\ SumOf(printed, Workers) = 0
  <2>1. \A w \in Workers : finished[w] = 0 /\ printed[w] = 0
    BY <1>1 DEF finished, printed, InAddition
  <2>. QED
    BY <1>2, <2>1, Finite, Summands, SumOfNothing
<1>4. AddedUp
  BY <1>1, <1>3, Finite DEF AddedUp
<1>5. JoinedUp
  BY <1>1 DEF JoinedUp
<1>6. Reports
  BY <1>1, <1>3, FS_EmptySet DEF Reports
<1>. QED
  BY <1>2, <1>4, <1>5, <1>6 DEF CountInv

\* A step that adds nothing up.
LEMMA CountsRest ==
  ASSUME PlaceInv, CountInv,
         UNCHANGED <<program, count, loaded, total_words, reported, reports_in>>,
         spurious' \in BOOLEAN, lock' \in Threads \union {NULL},
         program = "twordcount2" => lock' = lock,
         \A w \in Workers :
           \/ pc'[w] = pc[w]
           \/ pc[w] \notin {"load", "add", "ended"} /\ pc'[w] \notin {"load", "add"} /\ (pc[w] = "unlock" => pc'[w] = "ended"),
         \/ pc'[Main] = pc[Main]
         \/ /\ pc[Main] \notin {"join", "return"} /\ pc'[Main] # "join"
            /\ pc'[Main] = "return" => Mailing /\ reports_in >= Cardinality(Workers),
         mailbox' = mailbox \/ (mailbox' \notin reported /\ pc[Main] # "join")
  PROVE  CountInv'
<1>1. CountTypes /\ AddedUp /\ JoinedUp /\ Reports
  BY DEF CountInv
<1>2. \A w \in Workers : InAddition(w)' <=> InAddition(w)
  BY DEF InAddition
<1>3. finished' = finished /\ printed' = printed
  BY <1>2 DEF finished, printed
<1>4. CountTypes'
  BY <1>1, <1>2 DEF CountTypes, Threads, Adding
<1>5. AddedUp'
  BY <1>1, <1>3 DEF AddedUp, Adding
<1>6. JoinedUp'
  BY <1>1 DEF JoinedUp, Mailing
<1>7. Reports'
  <2>1. \A w \in reported : pc[w] \in Posted /\ (IF w = mailbox THEN pc[Main] = "join" ELSE pc[w] = "ended")
    BY <1>1 DEF Reports
  <2>2. reported \subseteq Workers
    BY <1>1 DEF CountTypes
  <2>3. \A w \in reported : pc'[w] \in Posted /\ (pc[w] = "ended" => pc'[w] = "ended")
    BY <2>1, <2>2 DEF Posted
  <2>4. \A w \in reported : IF w = mailbox' THEN pc'[Main] = "join" ELSE pc'[w] = "ended"
    BY <2>1, <2>3
  <2>5. pc'[Main] = "join" <=> pc[Main] = "join"
    OBVIOUS
  <2>. QED
    BY <1>1, <1>3, <2>3, <2>4, <2>5 DEF Reports, Mailing
<1>. QED
  BY <1>4, <1>5, <1>6, <1>7 DEF CountInv

LEMMA CountWordCounts ==
  ASSUME PlaceInv, CountInv, NEW w \in Workers, CountWord(w) PROVE CountInv'
<1>. USE Finite
<1>1. CountTypes /\ AddedUp /\ JoinedUp /\ Reports /\ pc \in [Threads -> Labels]
  BY DEF CountInv, PlaceInv, MailTypes
<1>2. /\ pc[w] = "count"
      /\ UNCHANGED <<program, lock, mailbox, reports_in, total_words, loaded, reported, spurious>>
  BY DEF CountWord
<1>3. w # Main /\ \A t \in Threads : t # w => pc'[t] = pc[t]
  BY <1>1 DEF CountWord, AtEndOfFile, GoTo, Threads
<1>4. CASE count' = count /\ pc'[w] \in {"lock", "ended"}
  BY <1>1, <1>2, <1>3, <1>4, CountsRest DEF CountTypes, Threads
<1>5. CASE /\ count[w] < MaxWords /\ count' = [count EXCEPT ![w] = @ + 1]
           /\ pc'[w] = IF program \in Adding THEN "load" ELSE "count"
  <2>1. /\ count' \in [Workers -> 0 .. MaxWords] /\ count'[w] = count[w] + 1 /\ count[w] \in 0 .. MaxWords
        /\ \A v \in Workers : v # w => count'[v] = count[v]
    BY <1>1, <1>5 DEF CountTypes
  <2>2. \A v \in Workers : v # w => (InAddition(v)' <=> InAddition(v))
    BY <1>3 DEF InAddition, Threads
  <2>3. ~InAddition(w) /\ (InAddition(w)' <=> program \in Adding)
    BY <1>2, <1>5 DEF InAddition
  <2>4. CountTypes'
    BY <1>1, <1>2, <2>1, <2>2, <2>3 DEF CountTypes, Threads, Adding
  <2>5. program \in Adding => finished' = finished
    BY <2>1, <2>2, <2>3 DEF finished
  <2>6. AddedUp'
    <3>1. \A v \in Workers : pc'[v] = "add" <=> pc[v] = "add"
      BY <1>2, <1>3, <1>5 DEF Threads
    <3>. QED
      BY <1>1, <1>2, <2>5, <3>1 DEF AddedUp, Adding
  <2>7. JoinedUp'
    <3>1. pc'[Main] = pc[Main] /\ (pc[Main] = "return" => Mailing)
      BY <1>1, <1>2, <1>3 DEF JoinedUp, Threads
    <3>. QED
      BY <1>1, <1>2, <3>1 DEF JoinedUp, Mailing
  <2>8. Reports'
    <3>1. w \notin reported
      BY <1>1, <1>2 DEF Reports, Posted
    <3>2. printed' = printed
      BY <1>2, <2>1, <3>1 DEF printed
    <3>3. pc'[Main] = pc[Main] /\ \A v \in reported : pc'[v] = pc[v]
      BY <1>1, <1>3, <3>1 DEF CountTypes, Threads
    <3>. QED
      BY <1>1, <1>2, <3>2, <3>3 DEF Reports, Mailing
  <2>. QED
    BY <2>4, <2>6, <2>7, <2>8 DEF CountInv
<1>. QED
  BY <1>1, <1>4, <1>5 DEF CountWord, AtEndOfFile, GoTo, Threads

LEMMA LoadCounts == ASSUME PlaceInv, CountInv, NEW w \in Workers, Load(w) PROVE CountInv'
<1>. USE Finite
<1>1. CountTypes /\ AddedUp /\ JoinedUp /\ Reports /\ pc \in [Threads -> Labels]
  BY DEF CountInv, PlaceInv, MailTypes
<1>2. /\ pc[w] = "load" /\ loaded' = [loaded EXCEPT ![w] = total_words]
      /\ UNCHANGED <<program, mailbox, count, reports_in, total_words, reported, spurious>>
      /\ IF program = "twordcount2" THEN lock = NULL /\ lock' = w ELSE lock' = lock
  BY DEF Load, Acquire
<1>3. /\ w # Main /\ pc'[w] = "add"
      /\ \A t \in Threads : t # w => pc'[t] = pc[t]
  BY <1>1 DEF Load, GoTo, Threads
<1>4. \A v \in Workers : InAddition(v)' <=> InAddition(v)
  BY <1>2, <1>3 DEF InAddition, Threads
<1>5. CountTypes'
  BY <1>1, <1>2, <1>4 DEF CountTypes, Threads, Adding
<1>6. finished' = finished /\ printed' = printed
  BY <1>2, <1>4 DEF finished, printed
<1>7. AddedUp'
  <2>1. program \in Adding
    BY <1>1, <1>2 DEF CountTypes, InAddition
  <2>2. /\ total_words' <= SumOf(finished, Workers)'
        /\ \A v \in Workers : loaded'[v] <= SumOf(finished, Workers)'
    BY <1>1, <1>2, <1>6, <2>1 DEF AddedUp, CountTypes
  <2>3. program = "twordcount2" =>
          /\ total_words' = SumOf(finished, Workers)'
          /\ \A v \in Workers : lock' = v <=> pc'[v] = "add"
          /\ \A v \in Workers : pc'[v] = "add" => loaded'[v] = total_words'
    BY <1>1, <1>2, <1>3, <1>6 DEF AddedUp, CountTypes, Threads
  <2>. QED
    BY <1>2, <2>1, <2>2, <2>3 DEF AddedUp
<1>8. pc'[Main] = pc[Main]
  BY <1>3 DEF Threads
<1>9. JoinedUp'
  BY <1>1, <1>2, <1>3, <1>8 DEF JoinedUp, Mailing, Threads
<1>10. Reports'
  <2>1. w \notin reported
    BY <1>1, <1>2 DEF Reports, Posted
  <2>2. \A v \in reported : pc'[v] = pc[v]
    BY <1>1, <1>3, <2>1 DEF CountTypes, Threads
  <2>. QED
    BY <1>1, <1>2, <1>6, <1>8, <2>2 DEF Reports, Mailing
<1>. QED
  BY <1>5, <1>7, <1>9, <1>10 DEF CountInv

LEMMA AddCounts == ASSUME PlaceInv, CountInv, NEW w \in Workers, Add(w) PROVE CountInv'
<1>. USE Finite
<1>1. CountTypes /\ AddedUp /\ JoinedUp /\ Reports /\ pc \in [Threads -> Labels]
  BY DEF CountInv, PlaceInv, MailTypes
<1>2. /\ pc[w] = "add" /\ total_words' = loaded[w] + 1 /\ lock' = NULL
      /\ UNCHANGED <<program, mailbox, count, reports_in, loaded, reported, spurious>>
  BY DEF Add
<1>3. /\ w # Main /\ pc'[w] = "count"
      /\ \A t \in Threads : t # w => pc'[t] = pc[t]
  BY <1>1 DEF Add, GoTo, Threads
<1>4. \A v \in Workers : v # w => (InAddition(v)' <=> InAddition(v))
  BY <1>3 DEF InAddition, Threads
<1>5. InAddition(w) /\ ~InAddition(w)' /\ program \in Adding
  BY <1>1, <1>2, <1>3 DEF InAddition, CountTypes
<1>6. CountTypes'
  BY <1>1, <1>2, <1>4, <1>5 DEF CountTypes, Threads, Adding
<1>7. printed' = printed
  BY <1>2 DEF printed
<1>8. SumOf(finished, Workers)' = SumOf(finished, Workers) + 1
  <2>1. finished'[w] = finished[w] + 1 /\ \A v \in Workers \ {w} : finished'[v] = finished[v]
    BY <1>1, <1>2, <1>4, <1>5 DEF finished, CountTypes
  <2>2. finished \in [Workers -> Nat] /\ finished' \in [Workers -> Nat]
    <3>1. finished \in [Workers -> Nat]
      BY <1>1, Summands
    <3>2. \A v \in Workers : finished'[v] \in Nat
      BY <2>1, <3>1
    <3>. QED
      BY <3>1, <3>2 DEF finished
  <2>3. finished'[w] - finished[w] = 1
    BY <2>1, <2>2
  <2>. HIDE DEF finished
  <2>4. SumOf(finished', Workers) = SumOf(finished, Workers) + (finished'[w] - finished[w])
    BY <2>1, <2>2, SumGrows
  <2>. QED
    BY <2>3, <2>4
<1>9. AddedUp'
  <2>1. /\ SumOf(finished, Workers) \in Nat /\ loaded[w] \in Nat
        /\ \A v \in Workers : loaded[v] \in Nat /\ loaded[v] <= SumOf(finished, Workers)
    BY <1>1, <1>5, Summands DEF AddedUp, CountTypes
  <2>2. /\ total_words' <= SumOf(finished, Workers)'
        /\ \A v \in Workers : loaded'[v] <= SumOf(finished, Workers)'
    BY <1>2, <1>8, <2>1
  <2>3. ASSUME program = "twordcount2"
        PROVE  /\ total_words' = SumOf(finished, Workers)'
               /\ \A v \in Workers : lock' = v <=> pc'[v] = "add"
               /\ \A v \in Workers : pc'[v] = "add" => loaded'[v] = total_words'
    <3>1. /\ total_words = SumOf(finished, Workers) /\ loaded[w] = total_words
          /\ \A v \in Workers : pc[v] = "add" <=> v = w
      BY <1>1, <1>2, <2>3 DEF AddedUp
    <3>2. \A v \in Workers : pc'[v] # "add" /\ v # NULL
      BY <1>3, <3>1 DEF Threads
    <3>. QED
      BY <1>2, <1>8, <3>1, <3>2
  <2>. QED
    BY <1>2, <1>5, <2>2, <2>3 DEF AddedUp
<1>10. pc'[Main] = pc[Main]
  BY <1>3 DEF Threads
<1>11. JoinedUp'
  BY <1>1, <1>2, <1>5, <1>10 DEF JoinedUp, Mailing, Adding
<1>12. Reports'
  BY <1>1, <1>2, <1>5, <1>10 DEF Reports, Mailing, Adding
<1>. QED
  BY <1>6, <1>9, <1>11, <1>12 DEF CountInv

LEMMA WorkerCounts ==
  ASSUME PlaceInv, CountInv, NEW w \in Workers,
         WorkerLock(w) \/ Check(w) \/ Woken(w, "store") \/ Store(w) \/ Unlock(w) \/ Create(w)
  PROVE  CountInv'
<1>. USE Finite
<1>1. CountTypes /\ Reports /\ MailTypes /\ Places /\ MutexHeld
  BY DEF CountInv, PlaceInv
<1>2. /\ UNCHANGED <<program, count, loaded, total_words, reported, reports_in, spurious>>
      /\ lock' \in {lock, w, NULL}
      /\ mailbox' = mailbox \/ (pc[w] = "store" /\ mailbox' = w)
  BY DEF WorkerLock, Check, Woken, Acquire, Store, Unlock, Create, Wait, data
<1>3. /\ pc[w] \in {"new", "lock", "check", "wait", "store", "unlock"}
      /\ pc'[w] \in {"count", "check", "wait", "store", "unlock", "ended"}
      /\ pc[w] = "unlock" => pc'[w] = "ended"
      /\ pc[w] = "new" => lock' = lock
  BY <1>1 DEF WorkerLock, Check, Woken, Store, Unlock, Create, Wait, GoTo, MailTypes, Threads, data
<1>4. \A t \in Threads : t # w => pc'[t] = pc[t]
  BY <1>1 DEF WorkerLock, Check, Woken, Store, Unlock, Create, Wait, GoTo, MailTypes, Threads
<1>5. pc[w] \in {"lock", "check", "wait", "store", "unlock"} => Mailing
  BY <1>1 DEF Places
<1>6. program = "twordcount2" => lock' = lock
  BY <1>3, <1>5 DEF Mailing
<1>7. pc[w] = "store" => w \notin reported /\ pc[Main] # "join"
  <2>1. pc[w] = "store" => w \notin reported
    BY <1>1 DEF Reports, Posted
  <2>2. pc[w] = "store" => lock = w /\ lock # Main
    BY <1>1, <1>5 DEF MutexHeld, Posting
  <2>. QED
    BY <1>1, <1>5, <2>1, <2>2 DEF MutexHeld, Reading
<1>8. w \in Threads /\ Main \in Threads /\ w # Main
  BY DEF Threads
<1>9. lock' \in Threads \union {NULL} /\ spurious' \in BOOLEAN
  BY <1>1, <1>2, <1>8 DEF CountTypes
<1>10. pc'[Main] = pc[Main]
  BY <1>4, <1>8
<1>11. \A v \in Workers :
         \/ pc'[v] = pc[v]
         \/ pc[v] \notin {"load", "add", "ended"} /\ pc'[v] \notin {"load", "add"} /\ (pc[v] = "unlock" => pc'[v] = "ended")
  BY <1>3, <1>4 DEF Threads
<1>12. mailbox' = mailbox \/ (mailbox' \notin reported /\ pc[Main] # "join")
  BY <1>2, <1>7
<1>. QED
  BY <1>2, <1>6, <1>9, <1>10, <1>11, <1>12, CountsRest

LEMMA MainCounts ==
  ASSUME PlaceInv, CountInv, MainLock \/ Loop \/ Woken(Main, "report") \/ (\E t \in Threads : SpuriousWakeup(t)) \/ UNCHANGED vars
  PROVE  CountInv'
<1>. USE Finite
<1>1. CountTypes /\ Reports /\ MailTypes /\ Places /\ MutexHeld
  BY DEF CountInv, PlaceInv
<1>2. /\ UNCHANGED <<program, count, loaded, total_words, reported, reports_in, mailbox>>
      /\ lock' \in {lock, Main, NULL}
      /\ spurious' \in {spurious, TRUE}
  BY DEF MainLock, Loop, Woken, Acquire, Wait, SpuriousWakeup, vars, data
<1>3. \/ pc' = pc /\ lock' = lock
      \/ /\ pc[Main] \in {"lock", "create", "loop", "wait"} /\ pc'[Main] \in {"create", "wait", "return", "report"}
         /\ pc'[Main] = "return" => Mailing /\ reports_in >= Cardinality(Workers)
         /\ pc[Main] = "create" => Mailing
  BY <1>1 DEF MainLock, Loop, Woken, SpuriousWakeup, Wait, GoTo, MailTypes, Threads, Mailing, vars, data
<1>4. \A t \in Threads : t # Main => pc'[t] = pc[t]
  BY <1>1 DEF MainLock, Loop, Woken, SpuriousWakeup, Wait, GoTo, MailTypes, Threads, vars
<1>5. program = "twordcount2" => lock' = lock
  BY <1>1, <1>3 DEF Places, Mailing
<1>6. lock' \in Threads \union {NULL} /\ spurious' \in BOOLEAN
  BY <1>1, <1>2 DEF CountTypes, Threads
<1>7. \A v \in Workers : pc'[v] = pc[v]
  BY <1>4 DEF Threads
<1>. QED
  BY <1>2, <1>3, <1>5, <1>6, <1>7, CountsRest

LEMMA ReportCounts == ASSUME PlaceInv, CountInv, Report PROVE CountInv'
<1>. USE Finite
<1>1. CountTypes /\ AddedUp /\ JoinedUp /\ Reports /\ MailTypes /\ Places /\ OneReport
  BY DEF CountInv, PlaceInv
<1>2. /\ pc[Main] = "report"
      /\ UNCHANGED <<program, lock, waiting, mailbox, count, reports_in, loaded, spurious>>
  BY DEF Report
<1>3. Mailing
  BY <1>1, <1>2 DEF Places
<1>4. \A w \in Workers : pc'[w] = pc[w]
  BY <1>1 DEF Report, GoTo, MailTypes, Threads
<1>5. CASE mailbox = NULL
  <2>1. UNCHANGED <<total_words, reported>>
    BY <1>5 DEF Report
  <2>2. pc'[Main] = "crashed"
    BY <1>1, <1>5 DEF Report, GoTo, MailTypes, Threads
  <2>. QED
    BY <1>1, <1>2, <1>4, <2>1, <2>2, CountsRest DEF CountTypes
<1>6. CASE mailbox # NULL
  <2>1. /\ total_words' = total_words + count[mailbox] /\ reported' = reported \union {mailbox}
        /\ pc'[Main] = "join"
    BY <1>1, <1>6 DEF Report, GoTo, MailTypes, Threads
  <2>2. mailbox \in Workers /\ mailbox \notin reported /\ pc[mailbox] \in Posted
    BY <1>1, <1>2, <1>6 DEF MailTypes, Reports, OneReport
  <2>3. CountTypes'
    BY <1>1, <1>2, <1>4, <2>1, <2>2 DEF CountTypes, InAddition, Adding, Threads
  <2>4. \A w \in Workers : InAddition(w)' <=> InAddition(w)
    BY <1>4 DEF InAddition
  <2>5. AddedUp' /\ JoinedUp'
    BY <1>1, <1>2, <1>3 DEF AddedUp, JoinedUp, Adding, Mailing
  <2>6. total_words' = SumOf(printed, Workers)'
    <3>1. /\ printed'[mailbox] = count[mailbox] /\ printed[mailbox] = 0
          /\ \A v \in Workers \ {mailbox} : printed'[v] = printed[v]
      BY <1>2, <2>1, <2>2 DEF printed
    <3>2. printed \in [Workers -> Nat] /\ count[mailbox] \in Nat
      BY <1>1, <2>2, Summands
    <3>3. printed' \in [Workers -> Nat]
      <4>1. \A v \in Workers : printed'[v] \in Nat
        BY <3>1, <3>2
      <4>. QED
        BY <4>1 DEF printed
    <3>4. printed'[mailbox] - printed[mailbox] = count[mailbox]
      BY <3>1, <3>2
    <3>. HIDE DEF printed
    <3>5. SumOf(printed', Workers) = SumOf(printed, Workers) + (printed'[mailbox] - printed[mailbox])
      BY <2>2, <3>1, <3>2, <3>3, SumGrows
    <3>6. total_words = SumOf(printed, Workers)
      BY <1>1, <1>3 DEF Reports
    <3>. QED
      BY <2>1, <3>4, <3>5, <3>6
  <2>7. reports_in' = Cardinality(reported') - 1
    <3>1. IsFiniteSet(reported) /\ Cardinality(reported) \in Nat
      BY <1>1, FS_Subset, FS_CardinalityType DEF CountTypes
    <3>2. Cardinality(reported') = Cardinality(reported) + 1
      BY <2>1, <2>2, <3>1, FS_AddElement
    <3>3. reports_in = Cardinality(reported)
      BY <1>1, <1>2, <3>1 DEF Reports
    <3>. QED
      BY <1>2, <3>1, <3>2, <3>3
  <2>8. \A w \in reported' : pc'[w] \in Posted /\ (IF w = mailbox' THEN pc'[Main] = "join" ELSE pc'[w] = "ended")
    <3>1. \A w \in reported : pc[w] = "ended" /\ w # mailbox /\ w \in Workers
      BY <1>1, <1>2, <2>2 DEF Reports, CountTypes
    <3>. QED
      BY <1>2, <1>4, <2>1, <2>2, <3>1 DEF Posted
  <2>9. Reports'
    BY <1>2, <1>3, <2>1, <2>2, <2>6, <2>7, <2>8 DEF Reports, Mailing
  <2>. QED
    BY <2>3, <2>5, <2>9 DEF CountInv
<1>. QED
  BY <1>5, <1>6

LEMMA JoinCounts == ASSUME PlaceInv, CountInv, Join PROVE CountInv'
<1>. USE Finite
<1>1. CountTypes /\ AddedUp /\ JoinedUp /\ Reports /\ MailTypes /\ Places
  BY DEF CountInv, PlaceInv
<1>2. /\ pc[Main] = "join" /\ pc[mailbox] = "ended" /\ mailbox' = NULL /\ reports_in' = reports_in + 1
      /\ UNCHANGED <<program, lock, count, total_words, loaded, reported, spurious>>
  BY DEF Join
<1>3. Mailing
  BY <1>1, <1>2 DEF Places
<1>4. pc'[Main] = "loop" /\ \A w \in Workers : pc'[w] = pc[w]
  BY <1>1 DEF Join, GoTo, MailTypes, Threads
<1>5. CountTypes'
  BY <1>1, <1>2, <1>4 DEF CountTypes, InAddition, Adding, Threads
<1>6. AddedUp' /\ JoinedUp'
  BY <1>1, <1>2, <1>3 DEF AddedUp, JoinedUp, Adding, Mailing
<1>7. Reports'
  <2>1. printed' = printed
    BY <1>2 DEF printed
  <2>2. \A w \in reported : w \in Workers /\ pc[w] = "ended"
    BY <1>1, <1>2 DEF Reports, CountTypes
  <2>3. \A w \in reported : pc'[w] \in Posted /\ w # NULL /\ pc'[w] = "ended"
    BY <1>4, <2>2 DEF Posted
  <2>4. reports_in' = Cardinality(reported)
    <3>1. Cardinality(reported) \in Nat
      BY <1>1, FS_Subset, FS_CardinalityType DEF CountTypes
    <3>. QED
      BY <1>1, <1>2, <3>1 DEF Reports
  <2>5. Cardinality(reported) \in Nat
    BY <1>1, FS_Subset, FS_CardinalityType DEF CountTypes
  <2>6. total_words' = SumOf(printed, Workers)'
    BY <1>1, <1>2, <1>3, <2>1 DEF Reports
  <2>. QED
    BY <1>2, <1>3, <1>4, <2>3, <2>4, <2>5, <2>6 DEF Reports, Mailing
<1>. QED
  BY <1>5, <1>6, <1>7 DEF CountInv

LEMMA JoinBothCounts == ASSUME PlaceInv, CountInv, JoinBoth PROVE CountInv'
<1>. USE Finite
<1>1. CountTypes /\ AddedUp /\ JoinedUp /\ Reports /\ MailTypes /\ Places
  BY DEF CountInv, PlaceInv
<1>2. /\ ~Mailing /\ pc[Main] = "create" /\ \A w \in Workers : pc[w] = "ended"
      /\ total_words' = IF program = "twordcount3" THEN Sum(Workers) ELSE total_words
      /\ UNCHANGED <<program, lock, waiting, mailbox, count, reports_in, loaded, reported, spurious>>
  BY DEF JoinBoth, Mailing
<1>3. pc'[Main] = "return" /\ \A w \in Workers : pc'[w] = pc[w]
  BY <1>1 DEF JoinBoth, GoTo, MailTypes, Threads
<1>4. Sum(Workers) = SumOf(count, Workers)
  BY DEF Sum, SumOf
<1>5. CountTypes'
  <2>1. total_words' \in Nat
    BY <1>1, <1>2, <1>4, Summands DEF CountTypes
  <2>. QED
    BY <1>1, <1>2, <1>3, <2>1 DEF CountTypes, InAddition, Adding, Threads
<1>6. \A w \in Workers : InAddition(w)' <=> InAddition(w)
  BY <1>3 DEF InAddition
<1>7. AddedUp'
  <2>1. finished' = finished
    BY <1>2, <1>6 DEF finished
  <2>2. program \in Adding => total_words' = total_words
    BY <1>2 DEF Adding
  <2>3. program = "twordcount2" => total_words' = total_words
    BY <1>2
  <2>. QED
    BY <1>1, <1>2, <1>3, <2>1, <2>2, <2>3 DEF AddedUp, Adding
<1>8. JoinedUp'
  BY <1>2, <1>3, <1>4 DEF JoinedUp, Mailing
<1>9. Reports'
  BY <1>1, <1>2, <1>3 DEF Reports, Mailing
<1>. QED
  BY <1>5, <1>7, <1>8, <1>9 DEF CountInv

LEMMA CountStep == ASSUME PlaceInv, CountInv, [Next]_vars PROVE CountInv'
<1>1. ASSUME NEW w \in Workers, WorkerSteps(w) PROVE CountInv'
  BY <1>1, CountWordCounts, LoadCounts, AddCounts, WorkerCounts DEF WorkerSteps
<1>2. CASE MainSteps
  BY <1>2, WorkerCounts, MainCounts, ReportCounts, JoinCounts, JoinBothCounts DEF MainSteps
<1>. QED
  BY <1>1, <1>2, MainCounts DEF Next

LEMMA CountInvariant == Spec => [](PlaceInv /\ CountInv)
BY MailInit, MailStep, CountInit, CountStep, PTL DEF Spec

\* No sum is greater than all words of all files.
LEMMA SumsBounded ==
  ASSUME CountTypes
  PROVE  /\ SumOf(finished, Workers) <= MaxWords * Cardinality(Workers)
         /\ SumOf(printed, Workers) <= MaxWords * Cardinality(Workers)
         /\ SumOf(count, Workers) <= MaxWords * Cardinality(Workers)
         /\ MaxWords * Cardinality(Workers) \in Nat
<1>1. Cardinality(Workers) \in Nat
  BY Finite, FS_CardinalityType
<1>2. MaxWords * Cardinality(Workers) \in Nat
  BY <1>1, Finite
<1>. QED
  BY <1>2, Finite, Summands, SumBounded

\* No word is counted that is in no file: total_words is at most the number of
\* all words, in twordcount1 too, where threads overwrite each other's total, and
\* the mutex has one owner; for any number of threads and words.
THEOREM CountsTyped == Spec => []TypeOK
<1>1. PlaceInv /\ CountInv => TypeOK
  <2>. SUFFICES ASSUME PlaceInv, CountInv PROVE TypeOK
    OBVIOUS
  <2>. USE Finite
  <2>. DEFINE most == MaxWords * Cardinality(Workers)
  <2>1. CountTypes /\ AddedUp /\ JoinedUp /\ Reports /\ MailTypes /\ Places
    BY DEF CountInv, PlaceInv
  <2>2. /\ SumOf(finished, Workers) <= most /\ SumOf(printed, Workers) <= most /\ SumOf(count, Workers) <= most
        /\ most \in Nat
    BY <2>1, SumsBounded
  <2>3. /\ SumOf(finished, Workers) \in Nat /\ SumOf(printed, Workers) \in Nat /\ SumOf(count, Workers) \in Nat
    BY <2>1, Summands
  <2>4. total_words \in Nat /\ \A w \in Workers : loaded[w] \in Nat
    BY <2>1 DEF CountTypes
  <2>. HIDE DEF most
  <2>5. total_words <= most
    <3>1. CASE program \in Adding
      BY <2>1, <2>2, <2>3, <2>4, <3>1 DEF AddedUp
    <3>2. CASE program = "twordcount3"
      BY <2>1, <2>2, <2>3, <3>2 DEF JoinedUp
    <3>3. CASE Mailing
      BY <2>1, <2>2, <3>3 DEF Reports
    <3>. QED
      BY <2>1, <3>1, <3>2, <3>3 DEF MailTypes, Programs, Adding, Mailing
  <2>6. loaded \in [Workers -> 0 .. most]
    <3>1. ASSUME NEW w \in Workers PROVE loaded[w] \in 0 .. most
      <4>1. CASE program \in Adding
        BY <2>1, <2>2, <2>3, <2>4, <4>1 DEF AddedUp
      <4>2. CASE program \notin Adding
        BY <2>1, <2>2, <4>2 DEF AddedUp
      <4>. QED
        BY <4>1, <4>2
    <3>. QED
      BY <2>1, <3>1 DEF CountTypes
  <2>7. reports_in \in 0 .. Cardinality(Workers)
    <3>1. /\ IsFiniteSet(reported) /\ Cardinality(reported) \in Nat /\ Cardinality(Workers) \in Nat
          /\ Cardinality(reported) <= Cardinality(Workers)
      BY <2>1, FS_Subset, FS_CardinalityType DEF CountTypes
    <3>2. pc[Main] = "join" => Cardinality(reported) # 0
      BY <2>1, <3>1, FS_EmptySet DEF Reports
    <3>. QED
      BY <2>1, <3>1, <3>2 DEF Reports
  <2>8. total_words \in 0 .. most
    BY <2>2, <2>4, <2>5
  <2>. QED
    BY <2>1, <2>6, <2>7, <2>8 DEF TypeOK, MailTypes, CountTypes, most
<1>. QED
  BY <1>1, CountInvariant, PTL

\* When main returns every thread has ended and the total is that of all words:
\* with the mutex (twordcount2), with a counter for each thread (twordcount3) and
\* with the mailbox (twordcount4), however the threads are scheduled, for any
\* number of threads and words.
THEOREM TotalsCorrect == Spec => []TotalsComplete
<1>1. PlaceInv /\ CountInv => TotalsComplete
  <2>. SUFFICES ASSUME PlaceInv, CountInv, pc[Main] = "return"
                PROVE  /\ \A w \in Workers : pc[w] = "ended"
                       /\ program # "twordcount1" => total_words = Sum(Workers)
                       /\ program = "twordcount4" => reported = Workers
    BY DEF TotalsComplete
  <2>. USE Finite
  <2>1. CountTypes /\ AddedUp /\ JoinedUp /\ Reports /\ MailTypes
    BY DEF CountInv, PlaceInv
  <2>2. Sum(Workers) = SumOf(count, Workers)
    BY DEF Sum, SumOf
  <2>3. count = [w \in Workers |-> count[w]]
    BY <2>1 DEF CountTypes
  <2>4. CASE Mailing
    <3>1. /\ IsFiniteSet(reported) /\ Cardinality(reported) \in Nat /\ Cardinality(Workers) \in Nat
          /\ Cardinality(reported) <= Cardinality(Workers)
          /\ Cardinality(reported) = Cardinality(Workers) => reported = Workers
      BY <2>1, FS_Subset, FS_CardinalityType DEF CountTypes
    <3>2. reports_in = Cardinality(reported) /\ reports_in >= Cardinality(Workers)
      BY <2>1, <2>4, <3>1 DEF Reports
    <3>3. reported = Workers
      BY <3>1, <3>2
    <3>4. \A w \in Workers : pc[w] = "ended"
      BY <2>1, <3>3 DEF Reports
    <3>5. printed = count
      BY <2>3, <3>3 DEF printed
    <3>. QED
      BY <2>1, <2>2, <2>4, <3>3, <3>4, <3>5 DEF Reports
  <2>5. CASE ~Mailing
    <3>1. \A w \in Workers : pc[w] = "ended"
      BY <2>1, <2>5 DEF JoinedUp
    <3>2. finished = count
      <4>1. \A w \in Workers : ~InAddition(w)
        BY <3>1 DEF InAddition
      <4>. QED
        BY <2>3, <4>1 DEF finished
    <3>3. program \in {"twordcount1", "twordcount2", "twordcount3"}
      BY <2>1, <2>5 DEF MailTypes, Programs, Mailing
    <3>. QED
      BY <2>1, <2>2, <3>1, <3>2, <3>3 DEF AddedUp, JoinedUp
  <2>. QED
    BY <2>4, <2>5
<1>. QED
  BY <1>1, CountInvariant, PTL
=============================================================================
