# Verification of the programs of "Understanding Unix/Linux Programming"

The repository holds the programs of a book, one directory for each chapter:
76 C files, 5228 lines, most of them small and sequential. The programs with
state that several actors share (servers and clients, signal handlers, threads,
processes with shared memory, pipes and terminals) are modelled here in TLA+ and
checked with TLC; the safety properties of all of them are also proved with TLAPS,
for every value of the constants. `src/README.md` is
a list of the chapters; the reference for every definition is the C code, and `PROJECT.json`
("map") names the lines of each.

## The system and its parts

| Part (chapter) | State | Operations | Interaction | What is hard |
|---|---|---|---|---|
| License server `lserv2.c`, licensed program `lclnt2.c` (20) | `ticket_array`, `num_tickets_out`, one timer; a run's ticket | HELO, VALD, GBYE; `ticket_reclaim` in the SIGALRM handler | datagrams | handler against main, lost datagrams, killed runs, pids used again, server restart |
| License server without timer `lserv1.c`, `lclnt1.c` (20) | the same without timer | HELO, GBYE | datagrams | the same without the handler |
| Clock in shared memory `shm_timeserver2.c`, `shm_timeclnt2.c` (23) | segment, two semaphores, SEM_UNDO | lock, copy, release, remove | IPC objects found by key | kill inside the lock, removal while in use, SIGINT that returns |
| Word counts with threads `twordcount1.c` to `twordcount4.c` (21) | one counter, one for each thread, or mailbox; mutex, condition | count, report, add up | shared counter, one condition for all threads | lost additions, lost or spurious wakeups, join with the mutex held |
| Threaded web server `twebserv.c`, `twebclnt.c` (22) | descriptor table, `server_bytes_sent` | one thread for each request | stream sockets | descriptor closed twice, unlocked counter, table full, silent clients |
| Forking web server `webserv.c`, `webclnt.c` (18) | processes, their copies of connections | fork, exec, answer | stream sockets | children that return into the loop of main, no process left |
| Shell `smsh4.c` (13) | `if_state`, `if_result`, variable table | if/then/fi, assignment, export, programs | fork, exec, wait | state kept from line to line, full table |
| Moving words `bounce1d.c`, `bounce_async.c`, `bounce_aio.c` (11), `tbounce1d.c`, `tanimate.c` (22) | column, direction, delay, keys | tick, key | SIGALRM, SIGIO, threads, mutex | handlers in handlers, unlocked `dir=-dir`, ticks after `endwin` |
| Bouncing ball `bounce2d.c` (11) | position, direction and countdown of two coordinates | tick, speed keys, quit | SIGALRM handler against main | edges tested for equality, speeds changed at any tick |
| Line reader of the shells `next_cmd`, `splitline` (13) | buffer, list of words, their sizes | read a character, cut a word | none | both grow, off by one at the boundary |
| Pipes `pipe.c`, `pipedemo2.c` (15), `popen.c`, `tinybc.c` (16) | the ends each process holds, what is in the pipes | fork, close, read, write, wait | pipes | an end left open, full pipes, answers of several lines, processes killed |
| Clock in a file `file_timeserver.c`, `file_timeclnt.c` (23) | file, record locks, positions | lock, write, read | file, `fcntl` | `O_TRUNC` without the lock, writes and reads in pieces |
| Logins `utmplib.c`, `who1.c` to `who3.c` (02) | buffer of records, `cur_rec`, `num_recs` | reload, next | file that login changes | reads that fail, a file that grows |
| Yes/no question `play_again0.c` to `4.c` (07) | modes of the terminal, tries | ask, restore | keys, SIGINT, SIGQUIT | modes outlive the program |
| The rest (01, 03-06, 08-10, 12, 14, 17, 19 and earlier versions) | see "components" in `PROJECT.json` | | | mostly sequential |

What makes each of them correct: no ticket is issued twice, none is lost, and
none is refused while one is free (20); no half-written time is printed and
nobody waits for ever (23); the total is complete (21); each client gets its
own answer, whole, and sees its end (18, 22); a script runs the commands it
says, with the variables it exported, and the words of a line are found however
long it is (13); a word stays on the screen and the ball in its box, `q` ends the
program and the terminal is left as it was (07, 11, 22); who reads gets what was
written, as it was meant, and nobody waits at a pipe for ever (02, 15, 16, 23).

The hazards of this code are listed in `PROJECT.json` ("hazards"), each at its
line with the properties that are about it, or with the reason why none is.

## Modules

Variables and actions have the names of the code where they have one there. An
action is as much of the code as runs without another actor seeing the middle:
one system call, one access to shared memory, or a whole sequential handler.

* **TicketPool**: what the license server promises: tickets, each free or issued
  to one run, which come back only when that run asks or is dead.
* **LicenseServ** (`lserv2.c`, `lclnt2.c`): main is `Receive`, `StopAlarm`,
  `Lookup` (what `handle_request` decides), `Answer` (what it changes and
  sends), `RestartAlarm`; the handler is `EnterHandler` and one `ReclaimSlot`
  for each slot, between any two of them. Runs start with a pid no process has,
  can be killed anywhere, and wait for ever when their datagram is lost. The
  server may crash and start again. History variables: `grantee` (whom a slot
  was issued to), `orphaned` (runs alive when the server crashed), `raced` (the
  timer ran out inside `alarm(0)`).
  **MCLicenseServ** adds the symmetry sets, **LicenseServProofs** the proofs.
* **SharedTime** (`shm_timeserver2.c`, `shm_timeclnt2.c`): segment and semaphore
  set are named by the server that created them and found by key while they are
  live; `semadj` is what SEM_UNDO takes back. `cleanup` runs as a function or
  as the SIGINT handler, which returns to main. A text is two halves. History:
  `cut` (times whose `strcpy` a signal ended half-way), `early` (sets a client
  locked before SETVAL), `interrupted`. The runs of a program are alike, and
  are started in one order. Proofs in **SharedTimeProofs**.
* **LicenseServ1** (`lserv1.c`, `lclnt1.c`): without a handler a turn of main's
  loop is one step, `HandleRequest`; the runs are those of LicenseServ without
  VALD. It implements TicketPool too, where `Reclaim` is only a GBYE whose
  sender died meanwhile: the ticket of a run that died without one stays out.
  **MCLicenseServ1** adds the symmetry set, **LicenseServ1Proofs** the proofs.
* **WordCount** (`twordcount1.c` to `twordcount4.c`; `program` says which): `CountWord`
  counts a word in a counter of the thread, `Load` and `Add` are `total_words++`
  in the counter of all, with the mutex (twordcount2) or without (twordcount1);
  main joins both threads (`JoinBoth`), or takes what they report in the mailbox
  (twordcount4). `pthread_cond_wait` gives up the mutex and blocks in one step;
  `SpuriousWakeup` is a return without a signal, which POSIX allows, and sets
  the history variable `spurious`. Proofs in **WordCountProofs**.
* **TWebServ** (`twebserv.c`): one action for each call that opens, reads, writes
  or closes a descriptor. `server_bytes_sent+=` is a load and a store. What a client does
  besides sending its request shows when the server meets it: it has closed without
  sending (`AtEnd` in `Read`, recorded in `silent`; the thread then processes what is on its
  stack), or it has hung up before its answer's end (`gone`), so that a piece is lost or
  `Sigpipe` ends the process. `overlap` records that two threads ran at a time.
  **MCTWebServ** adds the symmetry set.
* **WebServ** (`webserv.c`): a process is a process id; `open[c]` is who still
  has connection c, `got[c]` what its client has received. A child of a request
  that gets an error goes on as a server (`CannotDo`, `Malformed`). **MCWebServers**
  chooses TWebServ or WebServ. Proofs about both in **WebServersProofs**.
* **Smsh** (`smsh4.c`): one line is one value; `NextCmd`, then `process` by case:
  blank, control word, not executed, builtin, program. `script` records the
  block with the result of each line; what a block means is defined beside it
  (`WellFormed`, `InFailedBlock`) without `if_state`.
* **SplitLine** (`next_cmd` and `splitline`, the same in `smsh1.c` to `smsh4.c`): a
  character is part of a word, a blank or the character 0; `bufspace` and `spots`
  are what has been allocated. **MCSmsh** chooses SplitLine or Smsh: the line
  between the two is abstract in Smsh. Proofs in **SmshProofs**.
* **Bounce** (the five programs above): `program` says which runs. `mover` is the
  SIGALRM handler or the thread of a word, `input` the SIGIO handler, `top` the
  one of two handlers that interrupted the other. `dir=-dir` is a load and a
  store, and so the test at the edge and the assignment are two steps.
  `coalesced` records that a SIGIO was sent while one was pending.
  `AtRightEdge`: but for tanimate the comparison with COLS is one of `size_t`, since strlen
  is one, and a column left of `-LEN` makes it true. A word that is turned often enough
  at the left edge, with "hello" seven times, then goes left and right out of sight for
  ever (`Caught`). There is no clock: the argument of usleep in tbounce1d, `delay*1000`,
  wraps before `delay` does, and the thread may sleep for any time, or not at all.
  In tanimate the block between lock and unlock, and the `col+=dir` after it,
  is one step: only those who lock the mutex see the middle.
* **Bounce2d** (`bounce2d.c`): a tick is one step, since the handler is not
  interrupted and a key writes only `ttm`, which the handler only reads.
* **PlayAgain** (`play_again0.c` to `play_again4.c`; `version` says which): the
  terminal's modes, which may be as another program left them, `get_response`,
  and the signals before, between and after the two calls of `signal`.
  `found` records the modes at the start, `died` a death by a signal.
* **MCTerminal** chooses one of Bounce, Bounce2d and PlayAgain. Proofs about the
  three in **TerminalProofs**.
* **Pipes** (`pipe.c`, `popen.c`, `tinybc.c`, `pipedemo2.c`): `ends` is who holds which
  end of which pipe; `Keep` is what a process closes after fork. The commands in
  the child and dc are external. History: `wide` (an answer of several lines),
  `full` (the child of pipedemo2 has filled the pipe), `killed`.
* **FileTime** (`file_timeserver.c`, `file_timeclnt.c`): a text is written and read in
  two halves; open empties the file without asking for a lock. History: `locked`
  (the file when a client got its lock), `emptied` (clients in whose locked file a
  server was opened).
* **Who** (`utmplib.c`, `who2.c`, `who3.c`): a record is the number of times it was
  written; the read of `utmp_reload` copies record after record while login writes.
  History: `opened` (the file at the start), `failed` (a call has failed).
* **MCReaders** chooses one of Pipes, FileTime and Who. Proofs about the three in
  **ReadersProofs**.

The programs of different chapters share idioms but no state and never run
together: MCTerminal, MCReaders, MCSmsh and MCWebServers hold several of them, of which a
behaviour chooses one. Server and client of a chapter are in one module because
the hazards lie between them.

## Runs

| Run | Asks | Instance and why it is enough |
|---|---|---|
| `license_safety` | table and count, each working run keeps its slot and the license limit holds, justified refusals, refinement of TicketPool | 3 runs, 3 pids, 2 tickets: all tickets out with a run left to refuse, pids used again; a queue of 2 loses datagrams; one crash |
| `license_live` | tickets of dead runs come back, requests in the queue are answered | 2 runs, 1 ticket; no symmetry |
| `license_no_reclaim` | violated: see Findings | the same without crashes |
| `license1` | TicketPool without a timer, count and table | 4 runs, 3 pids, 2 tickets: slots left behind by dead runs, a new run with the pid of one of them, refusals; a queue of 2; one crash |
| `shm` | semaphores count, readers exclude the writer, no half time printed, nobody waits for ever for a lock | 2 servers, 2 clients, of which any three are started, one turn of the loop: two readers at once, a server that finds the objects of another |
| `wordcount` | total complete, no report lost, main returns | the four programs as they are: 2 threads, up to 2 words in a file |
| `web_servers` | answers whole and once, descriptors, bytes counted, number of servers | threads: 3 requests of every kind, 2 at a time, one client that sends nothing or hangs up, 3 descriptors beside standard input, so that they run out; processes: 2 requests, processes for two children: the third fork fails |
| `tweb_double_close` | violated: see Findings | 2 requests |
| `smsh` | lines cut into their words within bounds, blocks run as written, environment passed | lines of up to 8 characters in a buffer that grows by 4, and up to 4 words in a list that grows by 2; scripts of any number of blocks of up to 6 lines, right and wrong; a table of 2 for 3 names |
| `webserv` | every client sees the end of its answer | the processes of `web_servers` alone, without symmetry |
| `terminal` | words near the screen, they come back unless caught beyond its left edge, delay positive, ball in its box, terminal given back, `q` ends the program, the question ends | all five programs of the words, keys at any moment: 3, as many as it takes to get a word of one column caught, 2 where each key sends SIGIO; 5 columns; one word, since words of tanimate meet at the mutex only, where each drawing is one step; a box of 3 rows and 4 columns with 3 speed keys, so that a speed can be stopped and started; the question from all modes, 2 keys |
| `readers` | answers belong to questions, the whole output is read, a locked file is read as it was locked, every login is shown in order, nobody is stuck at a pipe | pipes of 2 items, 8 questions with answers of up to 2 lines: enough to fill both pipes; 2 file servers and 2 clients, 2 turns; a buffer of 2 records for up to 5, 3 changes meanwhile |

Bounds that are not in the code: `QueueLen`, `MaxCrashes`, `MaxStarted`, `MaxWords`,
`MaxFd`, `MaxOverlap`, `MaxLost`, `Procs`, `MaxLines` (of a script; in Pipes of an answer of dc),
`MaxLength` of a line, `MaxKeys`, `MaxSignalled`, `MaxSpeedKeys`, `MaxTyped`, `PipeSize`, `MaxItems`,
`MaxQuestions`, `FileRounds`, `MaxRecords`, `MaxChanges`. Smaller than in the code, but in
the same relation to each other: `Rounds` (60 turns), `MAXVARS` (200), `NRECS` (16),
`BUFSIZ` and `SPOTS`, the box of the ball and its speeds, the screen, the first delay and
`INT_MAX` of Bounce (a doubled int overflows to a negative one). `TRIES` is that of
the code. What is proved below holds for every value of these. Symmetry is used in runs without liveness only, over sets whose elements
the specifications treat alike. Deadlock is not checked where the programs
end, or may wait for ever with nobody left to wake them.

Several properties hold only up to a hazard that the code has, which a history
variable records: `raced`, `spurious`, `early`, `cut`, `overlap`, `orphaned`,
`failed`, `dropped`, `coalesced`, `wide`, `full`, `emptied`, `died`. The models contain what happens beyond it. For
instance after a wait without a signal a report may be stored over another and
main may use an empty mailbox; with overlapping requests a thread of the web
server may close another's connection.

## Fairness

* LicenseServ: a process that can run does (weak); main is fair in the strong
  sense, since the handler stops it for a moment every 30 seconds. Nobody has
  to start, die or crash.
* SharedTime: weak for servers, strong for clients at the lock: `semop` retries
  when the count changes, and the server sleeps a second between two locks.
* WordCount: strong: a thread gets a mutex that becomes free again and again.
* WebServ: weak; a connected client sends a request or says that it will not.
* Bounce: weak for ticks and threads; strong for main and the SIGIO handler,
  which ticks interrupt but do not starve, and for a thread at the mutex, since
  threads sleep at least 20 ms between two drawings.
* Pipes: weak, for a step of the parent and for a step of the child; the user of
  tinybc need not type, and the child of pipedemo2 may sleep for ever.
* PlayAgain: weak for the program; the user need do nothing.
* TWebServ, Smsh, SplitLine, Bounce2d, FileTime and Who have safety properties only.

## Proofs

Each theorem is about every value of the constants that satisfies the named
assumption of its module. A property TLC checks is seldom inductive; each proof
module defines the invariant that is, as a conjunction of named parts, and TLC
has confirmed each on the instance of the run before it was proved.

`LicenseServProofs.tla` (`ConstantsAssumption`: at least one ticket; the marks for a
free slot and for nobody are no pid and no run):

* `TypeCorrect`, `TypeSafe`: `TypeOK` needs that a working run has a ticket
  (`TicketInHand`), and that the verdict in `Answer` belongs to the request in hand
  (`InHand`). `TypeInv` is the conjunction.
* `CountCorrect`: `num_tickets_out` is the number of taken slots. The two change
  in different steps of two actors. `CountInv` adds that the timer is off while
  a request is handled (`TimerStopped`) and that the verdict still stands when
  `Answer` carries it out (`VerdictStands`); the lemmas `TakeSlot`, `FreeSlot`,
  `CountBounds` say how one slot changes the number.
* `RefusalJustified`: the action property `RefusedOnlyWhenFull`, from `CountInv`.

* `KeepsPromise`, the refinement of TicketPool, and `LicenseSafe`, that a working run
  keeps its slot. These hold also when the timer runs out inside `alarm(0)`, where the
  count does not. The invariant `PoolInv` follows the requests on their way, in their
  order. Its central part is `LateGoodbye`: when another live run has the pid in a
  GBYE, it was started after the sender's death, so what it has sent stands behind the
  GBYE in the queue and it has no slot that this GBYE could free. `Decided` allows for
  the handler that runs between `Lookup` and `Answer`: a slot it frees was that of a
  dead run, and stays free.

`LicenseServ1Proofs.tla` (the same for `lserv1.c`): `TypeCorrect` and `TypeSafe`, which
include the count, since the table and the count change in one step;
`KeepsPromise`, the refinement, along the same argument without the handler.

`SharedTimeProofs.tla` (`SharedTimeAssumption`: servers and clients differ, finitely many
clients):

* `Exclusion` and `Counts`. The invariant `SemInv` says that what SEM_UNDO would
  take back is what its owner has added (`Adjusted`), so that a kill leaves the counts
  right, and that a server uses the set it created itself (`OwnSet`), so that no two
  servers share semaphores. The counts are cardinalities of sets of processes.
* `TypesKept`: the counts of `TypeOK` are at most the number of clients, which is not
  obvious, since SETVAL forgets the undo of a client that has locked before it. `Owed`
  bounds the count by the clients that have locked and will not add 1 when they end
  (`Taken`).
* `TextsWhole`: no client prints two halves of different times, with three exceptions that
  `NoTornText` names: it locked before SETVAL, a server was killed inside its strcpy, or
  what it reads was written by a server with another set of semaphores (cleanup removes
  segment and set one after the other, `shm_timeserver2.c:17-18`, and who comes in
  between has two that do not belong together). The semaphores protect a
  segment only among the users of one set, and a server may find the segment of
  another one, so `WholeInMemory` compares the halves that one server wrote whole,
  `FirstHalf` follows a server between its two halves and `SecondHalf` a client
  between its own.

`WordCountProofs.tla` (`WordCountAssumption`: finitely many workers; `TwoWorkers` where said):

* `NoReportLost`, that no worker stores over a report, and `ReportFound`, that main
  finds one after its wait, both with `TwoWorkers`. In the invariant `WaitInv` the part
  `WorkerWaits` says why "if" instead of "while" is enough: a woken worker finds the
  mailbox empty since the other worker has nothing to put there any more. With a
  third worker this would be false: a worker's signal could wake another worker,
  which would store over the report.
* `CountsTyped` and `TotalsCorrect`, for any number of workers. The invariant `CountInv`
  compares the total with the sum over the workers that have added (`AddedUp`), or
  that main has printed (`Reports`); in twordcount2 the value a worker has
  loaded is the total as long as it holds the mutex.

The sum over a finite set is a fold, which the prover cannot do induction on as
an operator. `SubsetInduction` states the induction for a set G of
subsets instead of a predicate, and is proved from `WFMin`; with it `SumRecursive` shows
that the fold satisfies its recursive equation, and `SumGrows`, `SumBounded` and
`SumMonotone` what happens to the sum when a summand changes.

`WebServersProofs.tla` (`TWebServAssumption`: finitely many connections, at least one number
for a connection and one for a file, the marks differ from connections and files;
`WebServersAssumption`: the server's first process is one of the processes):

* `TypesKept`. The threads: `Expected`, that a thread has counted nothing before its answer.
  The processes: `Unwritten`, what a client can have received so far.
* `AloneAnswered` and `AloneReturns`. As long as one thread runs at a time the invariant
  `Alone` holds: the numbers of the busy thread are its own (`AloneAt`) and every other
  number is free (`FreeOrOwn`), so the second close of a number finds it free. A client
  that sent nothing has the answer to what was on the stack, and nothing of another's.
* `BytesRight`. One thread at a time the total is what the threads have added (`Exact`), and
  that is what their clients have received (`AloneAt`), if none has hung up. However the
  threads interleave, neither the total nor a copy that a thread has loaded exceeds the
  sum of what the threads have added (`Within`); it may miss some of that, and some of it
  may have gone to a closed number.
* `ChildAnswers`, about the processes. `Connected` says who has which connection open, and
  that a process answers the request of its connection and no earlier one; `OneWorker`,
  that no two processes answer one connection; `Served` follows an answer until it is
  there: while it is not, some process is at work on it, which still has the
  connection open.
* `ServersCounted`. The processes in the loop of main cannot be counted step by step, as
  a child is a server only after its request has failed. `Descent` gives each server but
  the first one a failed request that is no other server's and that nobody is about to
  answer any more (`Offspring`); that it is an injection bounds the number.

`TerminalProofs.tla` (`BounceAssumption`: the screen is wider than a word;
`BoxAssumption`: the start is in the box and not at its far edges, the first speeds are
positive; `QuestionAssumption`: the bounds are numbers):

* `WordsStayNear`. The invariant `NearInv` counts what a pending `dir=-dir` may do: a word
  that is at an edge or beyond it and is about to step outwards has a flip that it
  has not used (`LeftOpen`, `RightOpen`), and so has one that the test of the right edge
  turns left beyond the left one (`TurnOpen`); the turn at the edge still stands where
  the test has found it (`AtEdge`).
* `BallStays`. At an edge the direction leads back (`Kept`), whatever main has made of
  the speeds.
* `TerminalBack`. The question: what was saved is what was found (`Saved`), and up to the
  point it has reached, and in every version, it knows what it has changed
  (`Changed`). tanimate: it ends the screen with the mutex locked, so that no thread
  draws after that (`LockedAtEnd`).
* `TerminalTyped`. In Bounce the number of flips is bounded by the keys typed: `KeyInv`
  follows a key from the keyboard to the flips it has paid for (`Paid`), and
  `DelayPositive` is the overflow of the delay.

`ReadersProofs.tla` (`PipesAssumption`, `FileAssumption`, `LoginAssumption`: the sizes are
numbers, pipes and buffer hold something, file servers and clients differ):

* `ReadersSee`, one invariant for each system. Pipes: what the parent has read and what
  is in the pipe is what the command has written (`FromCommand`); question and answer of
  tinybc alternate, and the one question under way is in one of four places
  (`OneQuestion`). FileTime: two processes hold no conflicting locks (`Locks`), and what
  a client has read so far is a beginning of the file as it was locked (`ReadsSoFar`)
  unless a server was opened meanwhile. Who: the file only grows (`Grown`), and what the
  buffer holds is a stretch of it behind what was shown (`Buffered`).
* `ReadersTyped`: no position leaves its file or buffer, and nobody holds an end of a
  pipe it should have closed.

`SmshProofs.tla` (`SmshAssumption`: the table has an entry, the lines are lines of the
shell; `BufferAssumption`: what `stdio.h` says of `BUFSIZ`). `MaxLines` is not in
the way, as nothing is assumed of it:

* `LineRead`: no store out of bounds, and every word of the line is found once and in
  order (`SplitInv`).
* `BlocksRun`. The invariant `Inside` is what if_state and if_result know of the script:
  which control line was the last one (`Newest`), and how the condition of the block
  ended. A line more changes neither for the lines before it (`Extended`), so it is
  enough to look at the new line (`EarlierAsWritten`), and a line that contradicts
  if_state contradicts the script as well (`OneNewest`).
* `EnvironmentRight`. A name has at most one entry (`OneEntry`), so that the first one
  `find_item` finds is the only one; it holds the last value (`Current`) and the mark
  (`Marked`).
* `ShellTyped`, with `Waiting`: the shell has a child exactly while it waits for it.

Only model-checked: all liveness (`NobodyWaitsForEver`, `MainReturns`, `QuitObeyed` and
the like) and fairness, which are out of reach of the prover.

## Findings

* `lserv2.c:164`: `alarm(0)` (162) returns 0 when the timer has run out in this
  very moment; `alarm(time_left)` then stops the timer the handler has armed,
  and tickets of dead clients are never taken back, against the comment at
  `lserv2.c:68` (`license_no_reclaim`; `ReclaimedUnlessRaced` shows that it
  is the only way).
* `twebserv.c:183`: `fclose(fpin)` closes a descriptor number that `fclose(fp)`
  has closed before, when it may be another client's connection
  (`tweb_double_close`; `AnsweredAlone` shows that one thread at a time is safe).

## Not modelled

* Programs that only read, format and print, with one actor and no state beyond a
  loop: 01, 03-06, most of 12 and 14, the demonstrations of 08, 09 and 10, and
  17 and 19, whose servers answer one request after the other.
* Earlier versions of a modelled program that differ in nothing the properties see:
  the clock in shared memory without locks (`shm_timeserver.c`) is SharedTime with the
  semaphores left out, and prints half times, as expected; `smsh1.c` to `smsh3.c` are
  parts of `smsh4.c`; `pipedemo.c` has one process.
* In the modelled programs: texts, drawing, logging, names; in `bounce2d.c` a
  death by SIGQUIT, which leaves the curses screen as it is; the backlog of `listen`;
  `server_requests` of `twebserv.c`, which is only printed.

"components" in `PROJECT.json` gives the reason for each. What a continuation would
add first: the safety part of the liveness properties (that some process can always
go on, where `NobodyWaitsForEver` and `MainReturns` say that it does) as invariants, so
that it can be proved too.
