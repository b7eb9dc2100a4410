---------------------------- MODULE LicenseServ1 ----------------------------
(***************************************************************************)
(* The first license system of "20 licenseserv", lserv1.c and lclnt1.c:    *)
(* HELO and GBYE as in LicenseServ, but no timer, so that the server is    *)
(* sequential: recvfrom, handle_request and sendto are one step.  Nobody   *)
(* takes back the ticket of a run that dies without GBYE.                  *)
(***************************************************************************)
EXTENDS Integers, Sequences, FiniteSets

CONSTANTS
  Clients,       \* the runs of lclnt1; each is one process, started once
  Pids,          \* the process ids the kernel can give them
  MAXUSERS,      \* the number of tickets
  TICKET_AVAIL,  \* 0 in the code: a free slot, and no process's id
  NoClient,      \* not a run; used by the history variable grantee only
  QueueLen,      \* bound: datagrams the server's socket buffer holds
  MaxCrashes     \* bound: how often the server may crash and be restarted

ASSUME LicenseServ1Assumption ==
  /\ MAXUSERS \in Nat \ {0}
  /\ TICKET_AVAIL \notin Pids
  /\ NoClient \notin Clients
  /\ QueueLen \in Nat
  /\ MaxCrashes \in Nat

VARIABLES
  up,            \* does the server run?
  ticket_array, num_tickets_out,
  srv_queue,     \* the server's socket buffer
  pc, pid,       \* of each run
  ticket,        \* ticket_buf: <<pid, slot>>; NoTicket while have_ticket is false
  inbox,         \* the reply in its socket buffer, or NoReply
  grantee,       \* history: the run each slot was issued to, or NoClient
  crashes        \* history: how often the server has crashed

tableVars == <<ticket_array, num_tickets_out, grantee>>
serverVars == <<up, tableVars, crashes>>
runVars == <<pc, pid, ticket>>
vars == <<serverVars, srv_queue, runVars, inbox>>
-----------------------------------------------------------------------------
Slots == 0 .. (MAXUSERS - 1)
NoTicket == <<TICKET_AVAIL, MAXUSERS>>
NoReply == [type |-> "none", ticket |-> NoTicket]
Fail(reason) == [type |-> reason, ticket |-> NoTicket]

Alive(c) == pc[c] \notin {"new", "exit"}
PidsInUse == {pid[c] : c \in {d \in Clients : Alive(d)}}
-----------------------------------------------------------------------------
(* lclnt1.c: the runs *)

\* sendto: lost without a server, or when its socket buffer is full.
Send(m) ==
  srv_queue' = IF up /\ Len(srv_queue) < QueueLen THEN Append(srv_queue, m) ELSE srv_queue

\* setup and the first half of get_ticket: HELO pid
Start(c) ==
  /\ pc[c] = "new"
  /\ \E p \in Pids \ PidsInUse :
       /\ pid' = [pid EXCEPT ![c] = p]
       /\ Send([type |-> "HELO", from |-> c, ticket |-> <<p, MAXUSERS>>])
  /\ pc' = [pc EXCEPT ![c] = "wait_hello"]
  /\ UNCHANGED <<serverVars, ticket, inbox>>

\* The process is gone, by exit or by a signal.
Gone(c) ==
  /\ pc' = [pc EXCEPT ![c] = "exit"]
  /\ pid' = [pid EXCEPT ![c] = TICKET_AVAIL]
  /\ ticket' = [ticket EXCEPT ![c] = NoTicket]
  /\ inbox' = [inbox EXCEPT ![c] = NoReply]

\* The second half of get_ticket; main exits unless it returned 0.
GetTicket(c) ==
  /\ pc[c] = "wait_hello"
  /\ inbox[c] # NoReply
  /\ \/ /\ inbox[c].type = "TICK"
        /\ ticket' = [ticket EXCEPT ![c] = inbox[c].ticket]
        /\ pc' = [pc EXCEPT ![c] = "work"]
        /\ inbox' = [inbox EXCEPT ![c] = NoReply]
        /\ UNCHANGED pid
     \/ inbox[c].type # "TICK" /\ Gone(c)
  /\ UNCHANGED <<serverVars, srv_queue>>

\* do_regular_work is over: GBYE ticket, the first half of release_ticket.
SendGoodbye(c) ==
  /\ pc[c] = "work"
  /\ Send([type |-> "GBYE", from |-> c, ticket |-> ticket[c]])
  /\ pc' = [pc EXCEPT ![c] = "wait_goodbye"]
  /\ UNCHANGED <<serverVars, pid, ticket, inbox>>

\* The rest of release_ticket and of main: the process ends, whatever comes.
ReleaseTicket(c) ==
  /\ pc[c] = "wait_goodbye"
  /\ inbox[c] # NoReply
  /\ Gone(c)
  /\ UNCHANGED <<serverVars, srv_queue>>

\* The process is killed; the datagrams it has sent stay queued.
Kill(c) ==
  /\ Alive(c)
  /\ Gone(c)
  /\ UNCHANGED <<serverVars, srv_queue>>
-----------------------------------------------------------------------------
(* lserv1.c: the server *)

\* The sender's port does not exist any more when the sender is dead.
Reply(c, r) == inbox' = IF Alive(c) THEN [inbox EXCEPT ![c] = r] ELSE inbox

FirstFree(x) ==
  /\ ticket_array[x] = TICKET_AVAIL
  /\ \A y \in 0 .. (x - 1) : ticket_array[y] # TICKET_AVAIL

Refuse(m, reason) == Reply(m.from, Fail(reason)) /\ UNCHANGED tableVars

\* Mutant: if(num_tickets_out>MAXUSERS)
DoHelloOneMore(m) ==
  \/ num_tickets_out > MAXUSERS /\ Refuse(m, "FAIL,no tickets available")
  \/ /\ num_tickets_out <= MAXUSERS
     /\ \A x \in Slots : ticket_array[x] # TICKET_AVAIL
     /\ Refuse(m, "FAIL,database corrupt")
  \/ /\ num_tickets_out <= MAXUSERS
     /\ \E x \in Slots :
          /\ FirstFree(x)
          /\ ticket_array' = [ticket_array EXCEPT ![x] = m.ticket[1]]
          /\ grantee' = [grantee EXCEPT ![x] = m.from]
          /\ Reply(m.from, [type |-> "TICK", ticket |-> <<m.ticket[1], x>>])
     /\ num_tickets_out' = num_tickets_out + 1

\* HELO pid
DoHello(m) ==
  \/ num_tickets_out >= MAXUSERS /\ Refuse(m, "FAIL,no tickets available")
  \/ /\ num_tickets_out < MAXUSERS
     /\ \A x \in Slots : ticket_array[x] # TICKET_AVAIL
     /\ Refuse(m, "FAIL,database corrupt")
  \/ /\ num_tickets_out < MAXUSERS
     /\ \E x \in Slots :
          /\ FirstFree(x)
          /\ ticket_array' = [ticket_array EXCEPT ![x] = m.ticket[1]]
          /\ grantee' = [grantee EXCEPT ![x] = m.from]
          /\ Reply(m.from, [type |-> "TICK", ticket |-> <<m.ticket[1], x>>])
     /\ num_tickets_out' = num_tickets_out + 1

\* Mutant: do_goodbye does not look whose slot it is.
DoGoodbyeAnyPid(m) ==
  LET slot == m.ticket[2] IN
    /\ ticket_array' = [ticket_array EXCEPT ![slot] = TICKET_AVAIL]
    /\ grantee' = [grantee EXCEPT ![slot] = NoClient]
    /\ num_tickets_out' = num_tickets_out - 1
    /\ Reply(m.from, [type |-> "THNX", ticket |-> m.ticket])

\* GBYE pid.slot
DoGoodbye(m) ==
  LET slot == m.ticket[2] IN
    \/ /\ ticket_array[slot] = m.ticket[1]
       /\ ticket_array' = [ticket_array EXCEPT ![slot] = TICKET_AVAIL]
       /\ grantee' = [grantee EXCEPT ![slot] = NoClient]
       /\ num_tickets_out' = num_tickets_out - 1
       /\ Reply(m.from, [type |-> "THNX", ticket |-> m.ticket])
    \/ /\ ticket_array[slot] # m.ticket[1]
       /\ Refuse(m, "FAIL,invalid ticket")

\* One turn of the loop of main, with handle_request.
HandleRequest ==
  /\ up
  /\ srv_queue # <<>>
  /\ LET m == Head(srv_queue) IN
       \/ m.type = "HELO" /\ DoHello(m)
       \/ m.type = "GBYE" /\ DoGoodbye(m)
  /\ srv_queue' = Tail(srv_queue)
  /\ UNCHANGED <<up, crashes, runVars>>

\* The server dies, with its socket and its memory.
ServerCrash ==
  /\ up
  /\ crashes < MaxCrashes
  /\ crashes' = crashes + 1
  /\ up' = FALSE
  /\ srv_queue' = <<>>
  /\ grantee' = [s \in Slots |-> NoClient]
  /\ UNCHANGED <<ticket_array, num_tickets_out, runVars, inbox>>

\* setup clears the table; a new process has num_tickets_out = 0.
ServerStart ==
  /\ ~up
  /\ up' = TRUE
  /\ ticket_array' = [s \in Slots |-> TICKET_AVAIL]
  /\ num_tickets_out' = 0
  /\ UNCHANGED <<grantee, crashes, srv_queue, runVars, inbox>>

Init ==
  /\ up = TRUE
  /\ ticket_array = [s \in Slots |-> TICKET_AVAIL]
  /\ num_tickets_out = 0
  /\ srv_queue = <<>>
  /\ pc = [c \in Clients |-> "new"]
  /\ pid = [c \in Clients |-> TICKET_AVAIL]
  /\ ticket = [c \in Clients |-> NoTicket]
  /\ inbox = [c \in Clients |-> NoReply]
  /\ grantee = [s \in Slots |-> NoClient]
  /\ crashes = 0

RunSteps(c) == Start(c) \/ GetTicket(c) \/ SendGoodbye(c) \/ ReleaseTicket(c) \/ Kill(c)

Next == (\E c \in Clients : RunSteps(c)) \/ HandleRequest \/ ServerCrash \/ ServerStart

Spec == Init /\ [][Next]_vars
-----------------------------------------------------------------------------
(* Properties *)

Requests ==
  [type : {"HELO"}, from : Clients, ticket : Pids \X {MAXUSERS}] \union
  [type : {"GBYE"}, from : Clients, ticket : Pids \X Slots]

Failures == {"FAIL,no tickets available", "FAIL,invalid ticket"}

Replies ==
  [type : {"TICK", "THNX"}, ticket : Pids \X Slots] \union {Fail(reason) : reason \in Failures}

\* The values the variables take; in particular the count never exceeds the
\* table, a run only uses a ticket that names a slot, and nobody is told that
\* the database is corrupt.
TypeOK ==
  /\ up \in BOOLEAN
  /\ ticket_array \in [Slots -> Pids \union {TICKET_AVAIL}]
  /\ num_tickets_out \in 0 .. MAXUSERS
  /\ srv_queue \in Seq(Requests)
  /\ pc \in [Clients -> {"new", "wait_hello", "work", "wait_goodbye", "exit"}]
  /\ pid \in [Clients -> Pids \union {TICKET_AVAIL}]
  /\ ticket \in [Clients -> (Pids \X Slots) \union {NoTicket}]
  /\ inbox \in [Clients -> Replies \union {NoReply}]
  /\ grantee \in [Slots -> Clients \union {NoClient}]
  /\ crashes \in Nat

\* The server keeps the promise of TicketPool: a slot is issued only while it is
\* free, to a run that has none, and comes back only when that run asks for its
\* return or is dead (its GBYE was on the way): pids that are used again, late
\* datagrams and restarts of the server do not take it from anybody else.
Pool == INSTANCE TicketPool WITH
          Tickets <- Slots,
          owner <- grantee,
          live <- {c \in Clients : Alive(c)},
          returning <- {c \in Clients : pc[c] = "wait_goodbye"},
          epoch <- crashes
PoolSpec == Pool!Spec
=============================================================================
