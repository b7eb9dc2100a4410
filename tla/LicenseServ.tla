----------------------------- MODULE LicenseServ -----------------------------
(***************************************************************************)
(* The license system of "20 licenseserv": one server (lserv2.c) that      *)
(* hands out MAXUSERS tickets, the runs of the licensed program            *)
(* (lclnt2.c), and what the kernel does between them: the server's socket  *)
(* buffer, process ids, SIGALRM.                                           *)
(*                                                                         *)
(* A run asks for a ticket (HELO pid), works, has the ticket validated     *)
(* (VALD pid.slot), returns it (GBYE pid.slot) and exits; it can be killed *)
(* at any moment.  The server's main loop answers one datagram at a time;  *)
(* every RECLAIM_INTERVAL seconds SIGALRM interrupts it and the handler    *)
(* ticket_reclaim frees the tickets of dead processes.  The main loop      *)
(* stops the timer around handle_request because both write the table.     *)
(***************************************************************************)
EXTENDS Integers, Sequences, FiniteSets

CONSTANTS
  Clients,       \* the runs of lclnt2; each is one process, started once
  Pids,          \* the process ids the kernel can give them
  MAXUSERS,      \* the number of tickets
  TICKET_AVAIL,  \* 0 in the code: a free slot, and no process's id
  NoClient,      \* not a run; used by the history variable grantee only
  QueueLen,      \* bound: datagrams the server's socket buffer holds
  MaxCrashes     \* bound: how often the server may crash and be restarted

ASSUME ConstantsAssumption ==
  /\ MAXUSERS \in Nat \ {0}
  /\ TICKET_AVAIL \notin Pids
  /\ NoClient \notin Clients
  /\ QueueLen \in Nat
  /\ MaxCrashes \in Nat

VARIABLES
  \* The server process.
  srv_pc,           \* where main is; "down": no server process
  ticket_array,     \* ticket_array[x]: the pid slot x is issued to
  num_tickets_out,
  req,              \* buf: the request being handled
  verdict,          \* what handle_request has decided, before it acts on it
  time_left,        \* did alarm(0) return a number other than 0?
  scan,             \* i of ticket_reclaim; MAXUSERS: the handler is not running
  \* The kernel.
  srv_queue,        \* the server's socket buffer
  alarm,            \* the server's timer: "off", "armed", or "pending": ran out,
                    \* SIGALRM not delivered yet
  crashes,          \* how often the server has crashed
  \* The runs.
  pc,
  pid,              \* pid[c]: its process id; TICKET_AVAIL when no process
  ticket,           \* ticket_buf: <<pid, slot>>; NoTicket while have_ticket is false
  inbox,            \* the reply in its socket buffer, or NoReply
  \* History, read by no step.
  grantee,          \* grantee[x]: the run slot x was issued to, or NoClient
  orphaned,         \* the runs that were alive when the server crashed
  raced             \* has the timer run out inside alarm() since the server started?

serverVars == <<srv_pc, ticket_array, num_tickets_out, req, verdict, time_left, scan, grantee>>
kernelVars == <<srv_queue, alarm, crashes, orphaned, raced>>
clientVars == <<pc, pid, ticket, inbox>>
vars == <<serverVars, kernelVars, clientVars>>
-----------------------------------------------------------------------------
Slots == 0 .. (MAXUSERS - 1)
NoSlot == MAXUSERS                      \* x when the search runs off the table
NoTicket == <<TICKET_AVAIL, NoSlot>>

\* The replies, by the words the client compares or the server logs.
TICK == "TICK"
GOOD == "GOOD"
THNX == "THNX"
FailFull == "FAIL,no tickets available"
FailCorrupt == "FAIL,database corrupt"
FailInvalid == "FAIL,invalid ticket"

NoReply == [type |-> "none", ticket |-> NoTicket]
NoRequest == [type |-> "none", from |-> NoClient, ticket |-> NoTicket]
NoVerdict == [type |-> "none", slot |-> NoSlot]

WaitStates == {"wait_hello", "wait_validate", "wait_goodbye"}
Alive(c) == pc[c] \notin {"new", "exit"}
PidsInUse == {pid[c] : c \in {d \in Clients : Alive(d)}}

\* Runs with a ticket that they have not yet asked to return.
Licensed(c) == pc[c] \in {"work", "wait_validate", "release"}
-----------------------------------------------------------------------------
(* lclnt2.c: the runs *)

\* sendto the server's port: the datagram is lost, and sendto succeeds, when
\* there is no server process or its socket buffer is full.
Send(m) ==
  srv_queue' = IF srv_pc # "down" /\ Len(srv_queue) < QueueLen
               THEN Append(srv_queue, m) ELSE srv_queue

\* setup, and the first half of get_ticket: the kernel gives the new process
\* a pid no process has (pids of dead processes come back), then HELO pid.
Start(c) ==
  /\ pc[c] = "new"
  /\ \E p \in Pids \ PidsInUse :
       /\ pid' = [pid EXCEPT ![c] = p]
       /\ Send([type |-> "HELO", from |-> c, ticket |-> <<p, NoSlot>>])
  /\ pc' = [pc EXCEPT ![c] = "wait_hello"]
  /\ UNCHANGED <<serverVars, alarm, crashes, orphaned, raced, ticket, inbox>>

\* The process is gone (and reaped: a zombie still has its pid).
Gone(c) ==
  /\ pc' = [pc EXCEPT ![c] = "exit"]
  /\ pid' = [pid EXCEPT ![c] = TICKET_AVAIL]
  /\ ticket' = [ticket EXCEPT ![c] = NoTicket]
  /\ inbox' = [inbox EXCEPT ![c] = NoReply]

\* Mutant: get_ticket keeps whatever comes back as its ticket.
GetTicketUnchecked(c) ==
  /\ pc[c] = "wait_hello"
  /\ inbox[c] # NoReply
  /\ ticket' = [ticket EXCEPT ![c] = inbox[c].ticket]
  /\ pc' = [pc EXCEPT ![c] = "work"]
  /\ inbox' = [inbox EXCEPT ![c] = NoReply]
  /\ UNCHANGED <<serverVars, kernelVars, pid>>

\* The second half of get_ticket; main exits unless it returned 0.
GetTicket(c) ==
  /\ pc[c] = "wait_hello"
  /\ inbox[c] # NoReply
  /\ \/ /\ inbox[c].type = TICK
        /\ ticket' = [ticket EXCEPT ![c] = inbox[c].ticket]
        /\ pc' = [pc EXCEPT ![c] = "work"]
        /\ inbox' = [inbox EXCEPT ![c] = NoReply]
        /\ UNCHANGED pid
     \/ /\ inbox[c].type # TICK
        /\ Gone(c)
  /\ UNCHANGED <<serverVars, kernelVars>>

\* do_regular_work is over; the first half of do_validate.
SendValidate(c) ==
  /\ pc[c] = "work"
  /\ Send([type |-> "VALD", from |-> c, ticket |-> ticket[c]])
  /\ pc' = [pc EXCEPT ![c] = "wait_validate"]
  /\ UNCHANGED <<serverVars, alarm, crashes, orphaned, raced, pid, ticket, inbox>>

\* The second half of do_validate: main ignores the result.
DoValidate(c) ==
  /\ pc[c] = "wait_validate"
  /\ inbox[c] # NoReply
  /\ pc' = [pc EXCEPT ![c] = "release"]
  /\ inbox' = [inbox EXCEPT ![c] = NoReply]
  /\ UNCHANGED <<serverVars, kernelVars, pid, ticket>>

\* The first half of release_ticket (have_ticket is true here).
SendGoodbye(c) ==
  /\ pc[c] = "release"
  /\ Send([type |-> "GBYE", from |-> c, ticket |-> ticket[c]])
  /\ pc' = [pc EXCEPT ![c] = "wait_goodbye"]
  /\ UNCHANGED <<serverVars, alarm, crashes, orphaned, raced, pid, ticket, inbox>>

\* The second half of release_ticket, shut_down and return: whatever the
\* reply is, the process ends.
ReleaseTicket(c) ==
  /\ pc[c] = "wait_goodbye"
  /\ inbox[c] # NoReply
  /\ Gone(c)
  /\ UNCHANGED <<serverVars, kernelVars>>

\* The process is killed; the datagrams it has sent stay queued.
Kill(c) ==
  /\ Alive(c)
  /\ Gone(c)
  /\ UNCHANGED <<serverVars, kernelVars>>
-----------------------------------------------------------------------------
(* lserv2.c: the main loop.  SIGALRM is delivered before main's next        *)
(* instruction, and main waits while the handler runs.                      *)

MainRuns(at) ==
  /\ srv_pc = at
  /\ alarm # "pending"
  /\ scan = MAXUSERS

\* recvfrom returns; until alarm(0) the handler may still interrupt main.
\* (A SIGALRM that interrupts recvfrom itself only makes main call it again.)
Receive ==
  /\ MainRuns("recvfrom")
  /\ srv_queue # <<>>
  /\ req' = Head(srv_queue)
  /\ srv_queue' = Tail(srv_queue)
  /\ srv_pc' = "stop_alarm"
  /\ UNCHANGED <<ticket_array, num_tickets_out, verdict, time_left, scan, grantee,
                 alarm, crashes, orphaned, raced, clientVars>>

\* Mutant: main does not stop the timer around handle_request.
StopAlarmMissing ==
  /\ MainRuns("stop_alarm")
  /\ time_left' = (alarm = "armed")
  /\ srv_pc' = "lookup"
  /\ UNCHANGED <<ticket_array, num_tickets_out, req, verdict, scan, grantee,
                 kernelVars, clientVars>>

\* time_left=alarm(0).  The timer may run out after the call has begun: alarm
\* finds no timer and returns 0, and SIGALRM is delivered as
\* the call returns, so that the handler arms a new timer behind main's back.
StopAlarm ==
  /\ MainRuns("stop_alarm")
  /\ \/ /\ time_left' = (alarm = "armed")
        /\ alarm' = "off"
        /\ UNCHANGED raced
     \/ /\ alarm = "armed"
        /\ time_left' = FALSE
        /\ alarm' = "pending"
        /\ raced' = TRUE
  /\ srv_pc' = "lookup"
  /\ UNCHANGED <<ticket_array, num_tickets_out, req, verdict, scan, grantee,
                 srv_queue, crashes, orphaned, clientVars>>

\* Slot x is where the search of do_hello stops.
FirstFree(x) ==
  /\ ticket_array[x] = TICKET_AVAIL
  /\ \A y \in 0 .. (x - 1) : ticket_array[y] # TICKET_AVAIL

Decide(reply, slot) == verdict' = [type |-> reply, slot |-> slot]

\* The part of do_hello that only reads.
DoHello ==
  \/ /\ num_tickets_out >= MAXUSERS
     /\ Decide(FailFull, NoSlot)
  \/ /\ num_tickets_out < MAXUSERS
     /\ \A x \in Slots : ticket_array[x] # TICKET_AVAIL
     /\ Decide(FailCorrupt, NoSlot)
  \/ /\ num_tickets_out < MAXUSERS
     /\ \E x \in Slots : FirstFree(x) /\ Decide(TICK, x)

\* A request carries the ticket the sender was given, so the slot is one of
\* the table's.
OnRecord(t) == ticket_array[t[2]] = t[1]

\* Mutant: the slot is in use, whoever has it.
DoTicketAnyPid(reply) ==
  \/ /\ ticket_array[req.ticket[2]] # TICKET_AVAIL
     /\ Decide(reply, req.ticket[2])
  \/ /\ ticket_array[req.ticket[2]] = TICKET_AVAIL
     /\ Decide(FailInvalid, NoSlot)

\* The part of do_goodbye that only reads, and do_validate.
DoTicket(reply) ==
  \/ /\ OnRecord(req.ticket)
     /\ Decide(reply, req.ticket[2])
  \/ /\ ~OnRecord(req.ticket)
     /\ Decide(FailInvalid, NoSlot)

\* handle_request, up to the first assignment to the table.
Lookup ==
  /\ MainRuns("lookup")
  /\ \/ req.type = "HELO" /\ DoHello
     \/ req.type = "GBYE" /\ DoTicket(THNX)
     \/ req.type = "VALD" /\ DoTicket(GOOD)
  /\ srv_pc' = "answer"
  /\ UNCHANGED <<ticket_array, num_tickets_out, req, time_left, scan, grantee,
                 kernelVars, clientVars>>

\* Mutant: do_goodbye forgets num_tickets_out--.
UpdateTableNoDecrement ==
  /\ verdict.type \in {TICK, THNX} =>
       /\ ticket_array' = [ticket_array EXCEPT
            ![verdict.slot] = IF verdict.type = TICK THEN req.ticket[1] ELSE TICKET_AVAIL]
       /\ grantee' = [grantee EXCEPT
            ![verdict.slot] = IF verdict.type = TICK THEN req.from ELSE NoClient]
       /\ num_tickets_out' = num_tickets_out + (IF verdict.type = TICK THEN 1 ELSE 0)
  /\ verdict.type \notin {TICK, THNX} => UNCHANGED <<ticket_array, num_tickets_out, grantee>>

\* The assignments of do_hello and do_goodbye.
UpdateTable ==
  \/ /\ verdict.type = TICK
     /\ ticket_array' = [ticket_array EXCEPT ![verdict.slot] = req.ticket[1]]
     /\ num_tickets_out' = num_tickets_out + 1
     /\ grantee' = [grantee EXCEPT ![verdict.slot] = req.from]
  \/ /\ verdict.type = THNX
     /\ ticket_array' = [ticket_array EXCEPT ![verdict.slot] = TICKET_AVAIL]
     /\ num_tickets_out' = num_tickets_out - 1
     /\ grantee' = [grantee EXCEPT ![verdict.slot] = NoClient]
  \/ /\ verdict.type \notin {TICK, THNX}
     /\ UNCHANGED <<ticket_array, num_tickets_out, grantee>>

\* Mutant: only requests that succeed get a reply.
AnswerSuccessOnly ==
  /\ MainRuns("answer")
  /\ UpdateTable
  /\ inbox' = IF Alive(req.from) /\ verdict.type \notin {FailFull, FailCorrupt, FailInvalid}
              THEN [inbox EXCEPT ![req.from] =
                     [type |-> verdict.type, ticket |-> <<req.ticket[1], verdict.slot>>]]
              ELSE inbox
  /\ req' = NoRequest
  /\ verdict' = NoVerdict
  /\ srv_pc' = "restart_alarm"
  /\ UNCHANGED <<time_left, scan, kernelVars, pc, pid, ticket>>

\* The rest of handle_request: the assignments, then sendto the sender's
\* port, which no longer exists when the sender is dead.
Answer ==
  /\ MainRuns("answer")
  /\ UpdateTable
  /\ inbox' = IF Alive(req.from)
              THEN [inbox EXCEPT ![req.from] =
                     [type |-> verdict.type, ticket |-> <<req.ticket[1], verdict.slot>>]]
              ELSE inbox
  /\ req' = NoRequest
  /\ verdict' = NoVerdict
  /\ srv_pc' = "restart_alarm"
  /\ UNCHANGED <<time_left, scan, kernelVars, pc, pid, ticket>>

\* Mutant: main never starts the timer again.
RestartAlarmMissing ==
  /\ MainRuns("restart_alarm")
  /\ time_left' = FALSE
  /\ srv_pc' = "recvfrom"
  /\ UNCHANGED <<ticket_array, num_tickets_out, req, verdict, scan, grantee,
                 kernelVars, clientVars>>

\* alarm(time_left): alarm(0) stops the timer, which the handler has armed
\* meanwhile if it interrupted main; that one may run out inside the call too.
RestartAlarm ==
  /\ MainRuns("restart_alarm")
  /\ \/ alarm' = IF time_left THEN "armed" ELSE "off"
     \/ alarm = "armed" /\ alarm' = "pending"
  /\ time_left' = FALSE
  /\ srv_pc' = "recvfrom"
  /\ UNCHANGED <<ticket_array, num_tickets_out, req, verdict, scan, grantee,
                 srv_queue, crashes, orphaned, raced, clientVars>>
-----------------------------------------------------------------------------
(* SIGALRM and its handler ticket_reclaim *)

\* The kernel's timer runs out.
AlarmExpires ==
  /\ alarm = "armed"
  /\ alarm' = "pending"
  /\ UNCHANGED <<serverVars, srv_queue, crashes, orphaned, raced, clientVars>>

\* The handler starts (SIGALRM itself is blocked while it runs).
EnterHandler ==
  /\ alarm = "pending"
  /\ scan = MAXUSERS
  /\ scan' = 0
  /\ alarm' = "off"
  /\ UNCHANGED <<srv_pc, ticket_array, num_tickets_out, req, verdict, time_left, grantee,
                 srv_queue, crashes, orphaned, raced, clientVars>>

\* Mutant: ticket_reclaim does not look whether the process exists.
NoSuchProcessAssumed(p) == TRUE

\* kill(p,0) fails with ESRCH
NoSuchProcess(p) == p \notin PidsInUse

\* One turn of the loop, for slot i = scan; after the last one alarm() arms
\* the timer for RECLAIM_INTERVAL and the handler returns.
ReclaimSlot ==
  /\ scan \in Slots
  /\ \/ /\ ticket_array[scan] # TICKET_AVAIL
        /\ NoSuchProcess(ticket_array[scan])
        /\ ticket_array' = [ticket_array EXCEPT ![scan] = TICKET_AVAIL]
        /\ num_tickets_out' = num_tickets_out - 1
        /\ grantee' = [grantee EXCEPT ![scan] = NoClient]
     \/ /\ \/ ticket_array[scan] = TICKET_AVAIL
           \/ ~NoSuchProcess(ticket_array[scan])
        /\ UNCHANGED <<ticket_array, num_tickets_out, grantee>>
  /\ scan' = scan + 1
  /\ alarm' = IF scan + 1 = MAXUSERS THEN "armed" ELSE alarm
  /\ UNCHANGED <<srv_pc, req, verdict, time_left, srv_queue, crashes, orphaned, raced, clientVars>>
-----------------------------------------------------------------------------
\* setup, signal and alarm(RECLAIM_INTERVAL) at the start of the server's main.
\* setup clears the table; a new process has num_tickets_out = 0.
ServerReady ==
  /\ srv_pc' = "recvfrom"
  /\ ticket_array' = [s \in Slots |-> TICKET_AVAIL]
  /\ num_tickets_out' = 0
  /\ alarm' = "armed"

\* The server process dies, with its socket, its timer and its memory (an
\* error of recvfrom or sendto ends it too: oops).
ServerCrash ==
  /\ srv_pc # "down"
  /\ crashes < MaxCrashes
  /\ crashes' = crashes + 1
  /\ srv_pc' = "down"
  /\ srv_queue' = <<>>
  /\ alarm' = "off"
  /\ scan' = MAXUSERS
  /\ req' = NoRequest
  /\ verdict' = NoVerdict
  /\ time_left' = FALSE
  /\ grantee' = [s \in Slots |-> NoClient]
  /\ orphaned' = orphaned \union {c \in Clients : Alive(c)}
  /\ raced' = FALSE
  /\ UNCHANGED <<ticket_array, num_tickets_out, clientVars>>

ServerStart ==
  /\ srv_pc = "down"
  /\ ServerReady
  /\ UNCHANGED <<req, verdict, time_left, scan, grantee, srv_queue, crashes, orphaned, raced, clientVars>>
-----------------------------------------------------------------------------
\* The server is up, nobody has asked yet.
Init ==
  /\ srv_pc = "recvfrom"
  /\ ticket_array = [s \in Slots |-> TICKET_AVAIL]
  /\ num_tickets_out = 0
  /\ req = NoRequest
  /\ verdict = NoVerdict
  /\ time_left = FALSE
  /\ scan = MAXUSERS
  /\ srv_queue = <<>>
  /\ alarm = "armed"
  /\ crashes = 0
  /\ pc = [c \in Clients |-> "new"]
  /\ pid = [c \in Clients |-> TICKET_AVAIL]
  /\ ticket = [c \in Clients |-> NoTicket]
  /\ inbox = [c \in Clients |-> NoReply]
  /\ grantee = [s \in Slots |-> NoClient]
  /\ orphaned = {}
  /\ raced = FALSE

Main == Receive \/ StopAlarm \/ Lookup \/ Answer \/ RestartAlarm
Handler == EnterHandler \/ ReclaimSlot

RunSteps(c) ==
  \/ GetTicket(c)
  \/ SendValidate(c) \/ DoValidate(c)
  \/ SendGoodbye(c) \/ ReleaseTicket(c)

Next ==
  \/ \E c \in Clients : Start(c) \/ RunSteps(c) \/ Kill(c)
  \/ Main
  \/ AlarmExpires \/ Handler
  \/ ServerCrash \/ ServerStart

Spec == Init /\ [][Next]_vars

\* The kernel schedules every process that can run, and time passes.  Nothing
\* obliges a run to start, a process to be killed, or the server to crash.
\* The handler preempts main for a moment every RECLAIM_INTERVAL seconds: main
\* is stopped again and again but never kept from running for good (SF).
Fairness ==
  /\ SF_vars(Main)
  /\ WF_vars(AlarmExpires)
  /\ WF_vars(Handler)
  /\ WF_vars(ServerStart)
  /\ \A c \in Clients : WF_vars(RunSteps(c))

FairSpec == Spec /\ Fairness
-----------------------------------------------------------------------------
(* Properties *)

\* Only what succeeds names a slot, and only with a slot can a ticket be used.
Requests ==
  [type : {"HELO"}, from : Clients, ticket : Pids \X {NoSlot}] \union
  [type : {"VALD", "GBYE"}, from : Clients, ticket : Pids \X Slots]

Successes == {TICK, GOOD, THNX}
Failures == {FailFull, FailCorrupt, FailInvalid}

Replies ==
  [type : Successes, ticket : Pids \X Slots] \union [type : Failures, ticket : Pids \X {NoSlot}]

Verdicts == [type : Successes, slot : Slots] \union [type : Failures, slot : {NoSlot}]

\* The values the variables of the server, the kernel and the runs take.
TypeOK ==
  /\ srv_pc \in {"down", "recvfrom", "stop_alarm", "lookup", "answer", "restart_alarm"}
  /\ ticket_array \in [Slots -> Pids \union {TICKET_AVAIL}]
  /\ num_tickets_out \in Int
  /\ req \in Requests \union {NoRequest}
  /\ verdict \in Verdicts \union {NoVerdict}
  /\ time_left \in BOOLEAN
  /\ scan \in 0 .. MAXUSERS
  /\ srv_queue \in Seq(Requests)
  /\ alarm \in {"off", "armed", "pending"}
  /\ crashes \in Nat
  /\ pc \in [Clients -> {"new", "work", "release", "exit"} \union WaitStates]
  /\ pid \in [Clients -> Pids \union {TICKET_AVAIL}]
  /\ ticket \in [Clients -> (Pids \X Slots) \union {NoTicket}]
  /\ inbox \in [Clients -> Replies \union {NoReply}]
  /\ grantee \in [Slots -> Clients \union {NoClient}]
  /\ orphaned \in SUBSET Clients
  /\ raced \in BOOLEAN

TakenIn(table) == {s \in Slots : table[s] # TICKET_AVAIL}

\* num_tickets_out always equals the number of slots in use, although main
\* and the handler both change the two (lserv2.c: 79-80, 97-99, 110-111).
\* Otherwise do_hello refuses tickets it has or reports a corrupt database.
\* It takes that alarm(0) has stopped the timer before handle_request.
CountMatchesTable ==
  srv_pc # "down" /\ ~raced => num_tickets_out = Cardinality(TakenIn(ticket_array))

HoldsItsSlot(c) == OnRecord(ticket[c]) /\ ticket[c][1] = pid[c]

\* The license: at most MAXUSERS runs work at a time, and each keeps a slot of
\* its own: neither a late GBYE of an earlier process with the same pid nor
\* ticket_reclaim gives it to another run.  (A crashed server forgets the runs
\* it had.)
LicenseKept ==
  LET working == {c \in Clients \ orphaned : Licensed(c)} IN
    /\ \A c \in working : HoldsItsSlot(c)
    /\ Cardinality(working) <= MAXUSERS

\* A run is turned away only when every slot is in use (with the timer stopped
\* around handle_request, as above).
RefusedOnlyWhenFull ==
  [][\A c \in Clients :
       ~raced /\ inbox'[c].type \in {FailFull, FailCorrupt} /\ inbox[c] = NoReply
         => inbox'[c].type = FailFull /\ TakenIn(ticket_array) = Slots]_vars

\* The abstract specification: the tickets are the slots, a slot belongs to
\* the run it was issued to, and the runs that have sent GBYE ask for return.
Pool == INSTANCE TicketPool WITH
          Tickets <- Slots,
          owner <- grantee,
          live <- {c \in Clients : Alive(c)},
          returning <- {c \in Clients : pc[c] = "wait_goodbye"},
          epoch <- crashes
PoolSpec == Pool!Spec

\* The comment at lserv2.c:68: when a client dies its ticket is taken back.
\* A slot whose pid names no process is freed, or the pid is used again.
OfDeadRun(s, p) == ticket_array[s] = p /\ NoSuchProcess(p)

DeadHolderReclaimed ==
  \A s \in Slots, p \in Pids : OfDeadRun(s, p) ~> ~OfDeadRun(s, p)

\* The same as long as the timer does not run out inside alarm(): stopped and
\* started again for each request, it still gets the handler to run.
ReclaimedUnlessRaced ==
  \A s \in Slots, p \in Pids : OfDeadRun(s, p) ~> (~OfDeadRun(s, p) \/ raced)

\* A request that reached the server's queue is answered, whatever the timer
\* and the other runs do, unless the server crashes first: a waiting run gets
\* on (or is killed).  (A run whose datagram is lost waits for ever: recvfrom
\* in do_transaction, lclnt2.c:57, has no timeout.)
QueuedBy(c) ==
  \/ \E i \in DOMAIN srv_queue : srv_queue[i].from = c
  \/ req.from = c

QueuedRequestAnswered ==
  \A c \in Clients, w \in WaitStates :
    (pc[c] = w /\ QueuedBy(c)) ~> (pc[c] # w \/ c \in orphaned)
=============================================================================
