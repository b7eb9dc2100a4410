------------------------- MODULE LicenseServProofs -------------------------
(***************************************************************************)
(* Theorems about LicenseServ, for every number of runs, pids, tickets,    *)
(* crashes and queue places.                                               *)
(***************************************************************************)
EXTENDS LicenseServ, FiniteSetTheorems, SequenceTheorems, TLAPS

\* Where main has a request in hand, and where it has decided on it.
InHand ==
  /\ srv_pc \in {"stop_alarm", "lookup", "answer"} => req \in Requests
  /\ srv_pc = "answer" => verdict \in Verdicts

\* A run past get_ticket has a ticket that names a slot.
TicketInHand == \A c \in Clients : Licensed(c) => ticket[c] \in Pids \X Slots

TypeInv == TypeOK /\ InHand /\ TicketInHand
-----------------------------------------------------------------------------
\* A datagram appended to the server's queue keeps it a sequence of requests.
LEMMA SendKeepsType ==
  ASSUME srv_queue \in Seq(Requests), NEW m \in Requests, Send(m)
  PROVE  srv_queue' \in Seq(Requests)
  BY DEF Send

\* Every value the variables of the server, the kernel and the runs take is
\* one the code can give them: in particular a run only ever uses a ticket
\* that names a slot of the table (lclnt2.c: get_ticket).
THEOREM TypeCorrect == Spec => []TypeInv
<1>. USE ConstantsAssumption DEF NoSlot, NoTicket
<1>1. Init => TypeInv
  <2>. SUFFICES ASSUME Init PROVE TypeInv
    OBVIOUS
  <2>1. raced \in BOOLEAN /\ time_left \in BOOLEAN
    BY Zenon DEF Init
  <2>. QED
    BY <2>1 DEF Init, TypeInv, TypeOK, InHand, TicketInHand, Licensed, Slots
<1>2. TypeInv /\ [Next]_vars => TypeInv'
  <2>. SUFFICES ASSUME TypeInv, [Next]_vars PROVE TypeInv'
    OBVIOUS
  <2>. USE DEF TypeInv
  <2>1. ASSUME NEW c \in Clients, Start(c) PROVE TypeInv'
    <3>1. PICK p \in Pids :
            /\ pid' = [pid EXCEPT ![c] = p]
            /\ Send([type |-> "HELO", from |-> c, ticket |-> <<p, NoSlot>>])
      BY <2>1 DEF Start
    <3>2. [type |-> "HELO", from |-> c, ticket |-> <<p, NoSlot>>] \in Requests
      BY DEF Requests
    <3>3. srv_queue' \in Seq(Requests)
      BY <3>1, <3>2, SendKeepsType DEF TypeOK
    <3>. QED
      BY <2>1, <3>1, <3>3 DEF Start, TypeOK, InHand, TicketInHand, Licensed, WaitStates, serverVars
  <2>2. ASSUME NEW c \in Clients, GetTicket(c) PROVE TypeInv'
    <3>1. inbox[c].type = TICK => inbox[c].ticket \in Pids \X Slots
      BY <2>2 DEF GetTicket, TypeOK, Replies, Failures, TICK, FailFull, FailCorrupt, FailInvalid
    <3>2. CASE inbox[c].type = TICK
      <4>1. /\ ticket' = [ticket EXCEPT ![c] = inbox[c].ticket]
            /\ pc' = [pc EXCEPT ![c] = "work"]
            /\ inbox' = [inbox EXCEPT ![c] = NoReply]
            /\ UNCHANGED <<pid, serverVars, kernelVars>>
        BY <2>2, <3>2 DEF GetTicket
      <4>2. TicketInHand'
        BY <4>1, <3>1, <3>2 DEF TypeOK, TicketInHand, Licensed
      <4>. QED
        BY <4>1, <4>2, <3>1, <3>2 DEF TypeOK, InHand, serverVars, kernelVars
    <3>3. CASE inbox[c].type # TICK
      <4>1. Gone(c) /\ UNCHANGED <<serverVars, kernelVars>>
        BY <2>2, <3>3 DEF GetTicket
      <4>. QED
        BY <4>1 DEF Gone, TypeOK, InHand, TicketInHand, Licensed, serverVars, kernelVars
    <3>. QED
      BY <3>2, <3>3
  <2>3. ASSUME NEW c \in Clients, SendValidate(c) PROVE TypeInv'
    <3>1. [type |-> "VALD", from |-> c, ticket |-> ticket[c]] \in Requests
      BY <2>3 DEF SendValidate, TicketInHand, Licensed, Requests
    <3>2. srv_queue' \in Seq(Requests)
      BY <2>3, <3>1, SendKeepsType DEF SendValidate, TypeOK
    <3>. QED
      BY <2>3, <3>2 DEF SendValidate, TypeOK, InHand, TicketInHand, Licensed, WaitStates, serverVars
  <2>4. ASSUME NEW c \in Clients, DoValidate(c) PROVE TypeInv'
    BY <2>4 DEF DoValidate, TypeOK, InHand, TicketInHand, Licensed, serverVars, kernelVars
  <2>5. ASSUME NEW c \in Clients, SendGoodbye(c) PROVE TypeInv'
    <3>1. [type |-> "GBYE", from |-> c, ticket |-> ticket[c]] \in Requests
      BY <2>5 DEF SendGoodbye, TicketInHand, Licensed, Requests
    <3>2. srv_queue' \in Seq(Requests)
      BY <2>5, <3>1, SendKeepsType DEF SendGoodbye, TypeOK
    <3>. QED
      BY <2>5, <3>2 DEF SendGoodbye, TypeOK, InHand, TicketInHand, Licensed, WaitStates, serverVars
  <2>6. ASSUME NEW c \in Clients, ReleaseTicket(c) \/ Kill(c) PROVE TypeInv'
    <3>1. Gone(c) /\ UNCHANGED <<serverVars, kernelVars>>
      BY <2>6 DEF ReleaseTicket, Kill
    <3>2. InHand'
      BY <3>1 DEF InHand, serverVars
    <3>3. TicketInHand'
      BY <3>1 DEF Gone, TypeOK, TicketInHand, Licensed
    <3>. QED
      BY <3>1, <3>2, <3>3 DEF Gone, TypeOK, serverVars, kernelVars
  <2>7. CASE Receive
    <3>1. Head(srv_queue) \in Requests /\ Tail(srv_queue) \in Seq(Requests)
      BY <2>7 DEF Receive, TypeOK
    <3>. QED
      BY <2>7, <3>1 DEF Receive, TypeOK, InHand, TicketInHand, Licensed, clientVars
  <2>8. CASE StopAlarm
    BY <2>8 DEF StopAlarm, MainRuns, TypeOK, InHand, TicketInHand, Licensed, clientVars
  <2>9. CASE Lookup
    <3>1. verdict' \in Verdicts
      BY <2>9 DEF Lookup, MainRuns, DoHello, DoTicket, Decide, InHand, Requests, Verdicts,
           Successes, Failures
    <3>. QED
      BY <2>9, <3>1 DEF Lookup, MainRuns, TypeOK, InHand, TicketInHand, Licensed,
           kernelVars, clientVars
  <2>10. CASE Answer
    <3>1. req \in Requests /\ verdict \in Verdicts
      BY <2>10 DEF Answer, MainRuns, InHand
    <3>2. req.ticket[1] \in Pids /\ req.from \in Clients
      BY <3>1 DEF Requests
    <3>3. [type |-> verdict.type, ticket |-> <<req.ticket[1], verdict.slot>>] \in Replies
      BY <3>1, <3>2 DEF Verdicts, Replies
    <3>4. inbox' \in [Clients -> Replies \union {NoReply}]
      BY <2>10, <3>3 DEF Answer, TypeOK
    <3>5. /\ ticket_array' \in [Slots -> Pids \union {TICKET_AVAIL}]
          /\ num_tickets_out' \in Int
          /\ grantee' \in [Slots -> Clients \union {NoClient}]
      BY <2>10, <3>2 DEF Answer, UpdateTable, TypeOK
    <3>. QED
      BY <2>10, <3>4, <3>5 DEF Answer, TypeOK, InHand, TicketInHand, Licensed, kernelVars
  <2>11. CASE RestartAlarm
    BY <2>11 DEF RestartAlarm, MainRuns, TypeOK, InHand, TicketInHand, Licensed, clientVars
  <2>12. CASE AlarmExpires
    BY <2>12 DEF AlarmExpires, TypeOK, InHand, TicketInHand, Licensed, serverVars, clientVars
  <2>13. CASE EnterHandler
    BY <2>13 DEF EnterHandler, TypeOK, InHand, TicketInHand, Licensed, clientVars
  <2>14. CASE ReclaimSlot
    <3>1. scan' \in 0 .. MAXUSERS /\ alarm' \in {"off", "armed", "pending"}
      BY <2>14 DEF ReclaimSlot, TypeOK, Slots
    <3>2. ticket_array' \in [Slots -> Pids \union {TICKET_AVAIL}]
      BY <2>14 DEF ReclaimSlot, TypeOK
    <3>3. num_tickets_out' \in Int
      BY <2>14 DEF ReclaimSlot, TypeOK
    <3>4. grantee' \in [Slots -> Clients \union {NoClient}]
      BY <2>14 DEF ReclaimSlot, TypeOK
    <3>. QED
      BY <2>14, <3>1, <3>2, <3>3, <3>4 DEF ReclaimSlot, TypeOK, InHand, TicketInHand, Licensed, clientVars
  <2>15. CASE ServerCrash
    <3>1. srv_queue' \in Seq(Requests) /\ orphaned' \in SUBSET Clients /\ crashes' \in Nat
      BY <2>15 DEF ServerCrash, TypeOK
    <3>2. grantee' \in [Slots -> Clients \union {NoClient}] /\ scan' \in 0 .. MAXUSERS
      BY <2>15 DEF ServerCrash
    <3>. QED
      BY <2>15, <3>1, <3>2 DEF ServerCrash, TypeOK, InHand, TicketInHand, Licensed, clientVars
  <2>16. CASE ServerStart
    BY <2>16 DEF ServerStart, ServerReady, TypeOK, InHand, TicketInHand, Licensed, clientVars
  <2>17. CASE UNCHANGED vars
    BY <2>17 DEF vars, serverVars, kernelVars, clientVars, TypeOK, InHand, TicketInHand, Licensed
  <2>. QED
    BY <2>1, <2>2, <2>3, <2>4, <2>5, <2>6, <2>7, <2>8, <2>9, <2>10, <2>11, <2>12, <2>13,
       <2>14, <2>15, <2>16, <2>17 DEF Next, RunSteps, Main, Handler
<1>. QED
  BY <1>1, <1>2, PTL DEF Spec

\* Type correctness alone, as TLC checks it.
THEOREM TypeSafe == Spec => []TypeOK
<1>1. TypeInv => TypeOK
  BY DEF TypeInv
<1>. QED
  BY <1>1, TypeCorrect, PTL
-----------------------------------------------------------------------------
Table == [Slots -> Pids \union {TICKET_AVAIL}]

\* The table of the server (lserv2.c:20) has MAXUSERS slots.
LEMMA SlotsFinite == IsFiniteSet(Slots) /\ Cardinality(Slots) = MAXUSERS
  BY ConstantsAssumption, FS_Interval DEF Slots

\* Issuing a free slot makes one more slot taken.
LEMMA TakeSlot ==
  ASSUME NEW table \in Table, NEW x \in Slots, NEW p \in Pids, table[x] = TICKET_AVAIL
  PROVE  Cardinality(TakenIn([table EXCEPT ![x] = p])) = Cardinality(TakenIn(table)) + 1
<1>1. IsFiniteSet(TakenIn(table))
  BY SlotsFinite, FS_Subset DEF TakenIn
<1>2. TakenIn([table EXCEPT ![x] = p]) = TakenIn(table) \union {x} /\ x \notin TakenIn(table)
  BY ConstantsAssumption DEF TakenIn, Table
<1>. QED
  BY <1>1, <1>2, FS_AddElement

\* Freeing a taken slot makes one less.
LEMMA FreeSlot ==
  ASSUME NEW table \in Table, NEW x \in Slots, table[x] # TICKET_AVAIL
  PROVE  Cardinality(TakenIn([table EXCEPT ![x] = TICKET_AVAIL])) = Cardinality(TakenIn(table)) - 1
<1>1. IsFiniteSet(TakenIn(table))
  BY SlotsFinite, FS_Subset DEF TakenIn
<1>2. TakenIn([table EXCEPT ![x] = TICKET_AVAIL]) = TakenIn(table) \ {x} /\ x \in TakenIn(table)
  BY DEF TakenIn, Table
<1>. QED
  BY <1>1, <1>2, FS_RemoveElement

\* An empty table has no slot taken.
LEMMA EmptyTable == Cardinality(TakenIn([s \in Slots |-> TICKET_AVAIL])) = 0
<1>1. TakenIn([s \in Slots |-> TICKET_AVAIL]) = {}
  BY DEF TakenIn
<1>. QED
  BY <1>1, FS_EmptySet

\* No table has more than MAXUSERS slots taken; with MAXUSERS it has them all.
LEMMA CountBounds ==
  ASSUME NEW table
  PROVE  /\ Cardinality(TakenIn(table)) \in Nat
         /\ Cardinality(TakenIn(table)) <= MAXUSERS
         /\ Cardinality(TakenIn(table)) = MAXUSERS <=> TakenIn(table) = Slots
<1>1. TakenIn(table) \in SUBSET Slots
  BY DEF TakenIn
<1>. QED
  BY <1>1, SlotsFinite, FS_Subset, FS_CardinalityType

\* While main handles a request nothing else changes the table: the timer is
\* stopped and the handler does not run.
TimerStopped ==
  srv_pc \in {"lookup", "answer"} /\ ~raced => alarm = "off" /\ scan = MAXUSERS

\* So what main has decided still fits the table when it acts on it.
VerdictStands ==
  srv_pc = "answer" /\ ~raced =>
    /\ verdict.type = TICK => ticket_array[verdict.slot] = TICKET_AVAIL
    /\ verdict.type = THNX => ticket_array[verdict.slot] # TICKET_AVAIL
    /\ verdict.type = FailFull => TakenIn(ticket_array) = Slots
    /\ verdict.type # FailCorrupt

CountInv == CountMatchesTable /\ TimerStopped /\ VerdictStands

\* One step keeps CountInv.
LEMMA CountStep ==
  ASSUME TypeInv, CountInv, [Next]_vars
  PROVE  CountInv'
<1>. USE ConstantsAssumption DEF CountInv
<1>. SUFFICES ASSUME ~raced' PROVE CountInv'
  BY DEF CountMatchesTable, TimerStopped, VerdictStands
<1>. DEFINE Unchanged == UNCHANGED <<srv_pc, ticket_array, num_tickets_out, verdict, scan, alarm, raced>>
<1>1. CASE Unchanged
  BY <1>1 DEF CountMatchesTable, TimerStopped, VerdictStands, TakenIn
<1>2. ASSUME NEW c \in Clients, Start(c) \/ RunSteps(c) \/ Kill(c) PROVE Unchanged
  BY <1>2 DEF Start, RunSteps, GetTicket, SendValidate, DoValidate, SendGoodbye, ReleaseTicket,
       Kill, serverVars, kernelVars
<1>3. CASE Receive \/ StopAlarm
  BY <1>3 DEF Receive, StopAlarm, MainRuns, CountMatchesTable, TimerStopped, VerdictStands
<1>4. CASE Lookup
  <2>1. num_tickets_out = Cardinality(TakenIn(ticket_array))
    BY <1>4 DEF Lookup, MainRuns, CountMatchesTable, kernelVars
  <2>2. ticket_array' = ticket_array
    BY <1>4 DEF Lookup
  <2>3. VerdictStands'
    <3>1. CASE req.type = "HELO" /\ DoHello
      <4>1. num_tickets_out >= MAXUSERS <=> TakenIn(ticket_array) = Slots
        <5>1. /\ Cardinality(TakenIn(ticket_array)) \in Nat
              /\ Cardinality(TakenIn(ticket_array)) <= MAXUSERS
              /\ Cardinality(TakenIn(ticket_array)) = MAXUSERS <=> TakenIn(ticket_array) = Slots
          BY CountBounds
        <5>. QED
          BY <2>1, <5>1
      <4>2. CASE num_tickets_out >= MAXUSERS /\ Decide(FailFull, NoSlot)
        BY <4>1, <4>2, <2>2 DEF Decide, VerdictStands, TICK, THNX, FailFull, FailCorrupt
      <4>3. CASE /\ num_tickets_out < MAXUSERS
                 /\ \A x \in Slots : ticket_array[x] # TICKET_AVAIL
        <5>1. TakenIn(ticket_array) = Slots
          BY <4>3 DEF TakenIn
        <5>. QED
          BY <2>1, <4>1, <4>3, <5>1, CountBounds
      <4>4. ASSUME NEW x \in Slots, FirstFree(x), Decide(TICK, x) PROVE VerdictStands'
        BY <4>4, <2>2 DEF FirstFree, Decide, VerdictStands, TICK, THNX, FailFull, FailCorrupt
      <4>. QED
        BY <3>1, <4>2, <4>3, <4>4 DEF DoHello
    <3>2. CASE req.type = "GBYE" /\ DoTicket(THNX)
      <4>1. req \in Requests
        BY <1>4 DEF Lookup, MainRuns, TypeInv, InHand
      <4>2. req.ticket[1] # TICKET_AVAIL
        BY <4>1 DEF Requests
      <4>. QED
        <5>1. CASE OnRecord(req.ticket) /\ Decide(THNX, req.ticket[2])
          BY <2>2, <4>2, <5>1 DEF OnRecord, Decide, VerdictStands, TICK, THNX, FailFull, FailCorrupt
        <5>2. CASE Decide(FailInvalid, NoSlot)
          BY <5>2 DEF Decide, VerdictStands, TICK, THNX, FailFull, FailCorrupt, FailInvalid
        <5>. QED
          BY <3>2, <5>1, <5>2 DEF DoTicket
    <3>3. CASE req.type = "VALD" /\ DoTicket(GOOD)
      <4>1. verdict'.type \in {GOOD, FailInvalid}
        BY <3>3 DEF DoTicket, Decide
      <4>. QED
        BY <4>1 DEF VerdictStands, TICK, GOOD, THNX, FailFull, FailCorrupt, FailInvalid
    <3>. QED
      BY <1>4, <3>1, <3>2, <3>3 DEF Lookup
  <2>. QED
    BY <1>4, <2>1, <2>3 DEF Lookup, MainRuns, CountMatchesTable, TimerStopped, kernelVars, TakenIn
<1>5. CASE Answer
  <2>1. /\ num_tickets_out = Cardinality(TakenIn(ticket_array))
        /\ verdict.type = TICK => ticket_array[verdict.slot] = TICKET_AVAIL
        /\ verdict.type = THNX => ticket_array[verdict.slot] # TICKET_AVAIL
    BY <1>5 DEF Answer, MainRuns, CountMatchesTable, VerdictStands, kernelVars
  <2>2. /\ ticket_array \in Table
        /\ req.ticket[1] \in Pids
        /\ verdict.type \in {TICK, THNX} => verdict.slot \in Slots
    BY <1>5 DEF Answer, MainRuns, TypeInv, TypeOK, InHand, Requests, Verdicts, Table,
         Failures, TICK, THNX, FailFull, FailCorrupt, FailInvalid
  <2>3. num_tickets_out' = Cardinality(TakenIn(ticket_array'))
    <3>1. CASE verdict.type = TICK
      BY <1>5, <2>1, <2>2, <3>1, TakeSlot DEF Answer, UpdateTable, TICK, THNX
    <3>2. CASE verdict.type = THNX
      BY <1>5, <2>1, <2>2, <3>2, FreeSlot DEF Answer, UpdateTable, TICK, THNX
    <3>3. CASE verdict.type \notin {TICK, THNX}
      BY <1>5, <2>1, <3>3 DEF Answer, UpdateTable
    <3>. QED
      BY <3>1, <3>2, <3>3
  <2>. QED
    BY <1>5, <2>3 DEF Answer, CountMatchesTable, TimerStopped, VerdictStands, TakenIn
<1>6. CASE RestartAlarm
  BY <1>6 DEF RestartAlarm, MainRuns, CountMatchesTable, TimerStopped, VerdictStands
<1>7. CASE AlarmExpires
  BY <1>7 DEF AlarmExpires, serverVars, CountMatchesTable, TimerStopped, VerdictStands
<1>8. CASE EnterHandler
  BY <1>8 DEF EnterHandler, CountMatchesTable, TimerStopped, VerdictStands
<1>9. CASE ReclaimSlot
  <2>1. srv_pc \notin {"lookup", "answer"}
    BY <1>9 DEF ReclaimSlot, TimerStopped, Slots
  <2>2. srv_pc # "down" => num_tickets_out' = Cardinality(TakenIn(ticket_array'))
    BY <1>9, FreeSlot DEF ReclaimSlot, CountMatchesTable, TypeInv, TypeOK, Table
  <2>. QED
    BY <1>9, <2>1, <2>2 DEF ReclaimSlot, CountMatchesTable, TimerStopped, VerdictStands, TakenIn
<1>10. CASE ServerCrash
  BY <1>10 DEF ServerCrash, CountMatchesTable, TimerStopped, VerdictStands
<1>11. CASE ServerStart
  BY <1>11, EmptyTable DEF ServerStart, ServerReady, CountMatchesTable, TimerStopped, VerdictStands
<1>12. CASE UNCHANGED vars
  BY <1>1, <1>12 DEF vars, serverVars, kernelVars
<1>. QED
  BY <1>1, <1>2, <1>3, <1>4, <1>5, <1>6, <1>7, <1>8, <1>9, <1>10, <1>11, <1>12
     DEF Next, Main, Handler

\* With the timer stopped around handle_request, num_tickets_out counts the
\* slots in use at every moment, however main, the handler, dying runs and
\* restarts of the server interleave (lserv2.c: 162-164).
THEOREM CountCorrect == Spec => []CountMatchesTable
<1>1. Init => CountInv
  BY EmptyTable DEF Init, CountInv, CountMatchesTable, TimerStopped, VerdictStands
<1>2. TypeInv /\ CountInv /\ [Next]_vars => CountInv'
  BY CountStep
<1>3. CountInv => CountMatchesTable
  BY DEF CountInv
<1>. QED
  BY <1>1, <1>2, <1>3, TypeCorrect, PTL DEF Spec

\* A run is turned away only when every ticket is out, and never because the
\* database looks corrupt.
THEOREM RefusalJustified == Spec => RefusedOnlyWhenFull
<1>. DEFINE Justified ==
       \A c \in Clients :
         ~raced /\ inbox'[c].type \in {FailFull, FailCorrupt} /\ inbox[c] = NoReply
           => inbox'[c].type = FailFull /\ TakenIn(ticket_array) = Slots
<1>1. TypeInv /\ CountInv /\ [Next]_vars => [Justified]_vars
  <2>. SUFFICES ASSUME TypeInv, CountInv, Next, NEW c \in Clients, ~raced,
                       inbox'[c].type \in {FailFull, FailCorrupt}, inbox[c] = NoReply
                PROVE  inbox'[c].type = FailFull /\ TakenIn(ticket_array) = Slots
    OBVIOUS
  <2>1. NoReply.type \notin {FailFull, FailCorrupt}
    BY DEF NoReply, FailFull, FailCorrupt
  <2>2. inbox'[c] # NoReply /\ inbox'[c] # inbox[c]
    BY <2>1
  <2>3. ASSUME NEW d \in Clients, Start(d) \/ RunSteps(d) \/ Kill(d) PROVE FALSE
    BY <2>2, <2>3 DEF Start, RunSteps, GetTicket, SendValidate, DoValidate, SendGoodbye,
         ReleaseTicket, Kill, Gone, TypeInv, TypeOK
  <2>4. Answer
    BY <2>2, <2>3 DEF Next, Main, Handler, Receive, StopAlarm, Lookup, RestartAlarm, AlarmExpires,
         EnterHandler, ReclaimSlot, ServerCrash, ServerStart, clientVars
  <2>5. inbox'[c].type = verdict.type
    BY <2>2, <2>4 DEF Answer, TypeInv, TypeOK
  <2>. QED
    BY <2>4, <2>5 DEF Answer, MainRuns, CountInv, VerdictStands
<1>2. Init => CountInv
  BY EmptyTable DEF Init, CountInv, CountMatchesTable, TimerStopped, VerdictStands
<1>3. TypeInv /\ CountInv /\ [Next]_vars => CountInv'
  BY CountStep
<1>. QED
  BY <1>1, <1>2, <1>3, TypeCorrect, PTL DEF Spec, RefusedOnlyWhenFull
-----------------------------------------------------------------------------
(***************************************************************************)
(* The license server with its timer keeps the promise of TicketPool, and  *)
(* every working run keeps a slot of its own, for every number of runs,    *)
(* pids, tickets, queue places and crashes, and also when the timer runs   *)
(* out inside alarm(0).                                                    *)
(***************************************************************************)
\* The requests on their way, the oldest first: the one main has in hand is at
\* place 0, those in the socket buffer behind it.
Places == {i \in 0 .. Len(srv_queue) : i = 0 => req # NoRequest}
At(i) == IF i = 0 THEN req ELSE srv_queue[i]

Granted(c) == \E s \in Slots : grantee[s] = c

\* Past get_ticket, and not gone.
HasTicket(c) == Licensed(c) \/ pc[c] = "wait_goodbye"

\* main has no request in hand when it is not handling one; a server that is
\* down has neither requests nor a timer, and has forgotten whom it served.
Idle ==
  /\ srv_pc \in {"down", "recvfrom", "restart_alarm"} => req = NoRequest
  /\ srv_pc = "down" =>
       /\ srv_queue = <<>>
       /\ alarm = "off" /\ scan = MAXUSERS
       /\ \A s \in Slots : grantee[s] = NoClient

\* What main has decided is about the request in hand.  The handler may still
\* free slots when alarm(0) came too late, so that the one of a GBYE may be
\* free already; a free one stays free.
Decided ==
  srv_pc = "answer" =>
    /\ verdict.type = TICK => req.type = "HELO" /\ ticket_array[verdict.slot] = TICKET_AVAIL
    /\ verdict.type = THNX =>
         /\ req.type = "GBYE" /\ verdict.slot = req.ticket[2]
         /\ ticket_array[verdict.slot] \in {req.ticket[1], TICKET_AVAIL}

\* A run that has not started has sent and got nothing; only a run that has a
\* ticket, or had one, has it validated.
Known ==
  /\ \A c \in Clients : pc[c] = "new" =>
       /\ ~Granted(c)
       /\ inbox[c] = NoReply
       /\ \A i \in Places : At(i).from # c
  /\ \A i \in Places : At(i).type = "VALD" => pc[At(i).from] # "wait_hello"

\* No two live processes have the same pid.
PidsDiffer == \A c, d \in Clients : Alive(c) /\ Alive(d) /\ pid[c] = pid[d] => c = d

\* The ticket of a live run, in its hands or on its way, has its pid.
OwnPid ==
  \A c \in Clients : Alive(c) =>
    /\ inbox[c].type = TICK => inbox[c].ticket[1] = pid[c]
    /\ HasTicket(c) => ticket[c][1] = pid[c]
    /\ \A i \in Places : At(i).from = c => At(i).ticket[1] = pid[c]

\* The run whose HELO is on its way has sent nothing else, has no ticket, and
\* waits or is dead.
HelloFirst ==
  \A i \in Places : At(i).type = "HELO" =>
    /\ pc[At(i).from] \in {"wait_hello", "exit"}
    /\ inbox[At(i).from] = NoReply
    /\ ~Granted(At(i).from)
    /\ \A j \in Places : At(j).from = At(i).from => j = i

\* When another live run has the pid in a GBYE, it started after the run that
\* sent it had died: what it has sent stands behind, and it has no ticket yet.
LateGoodbye ==
  \A i \in Places : At(i).type = "GBYE" =>
    /\ pc[At(i).from] \in {"wait_goodbye", "exit"}
    /\ \A d \in Clients : Alive(d) /\ pid[d] = At(i).ticket[1] /\ d # At(i).from =>
         ~Granted(d) /\ \A j \in Places : j < i => At(j).from # d

\* The table and who the slots were issued to: a slot holds the pid of its run
\* as long as that lives.
TableOfRuns ==
  /\ srv_pc # "down" => \A s \in Slots : ticket_array[s] = TICKET_AVAIL <=> grantee[s] = NoClient
  /\ \A s \in Slots : grantee[s] # NoClient /\ Alive(grantee[s]) => ticket_array[s] = pid[grantee[s]]

\* A run with a ticket, in its hands or in the reply, is the one its slot was
\* issued to, until it asks to give it back.
SlotsKept ==
  \A c \in Clients \ orphaned :
    /\ Licensed(c) => grantee[ticket[c][2]] = c
    /\ pc[c] = "wait_hello" /\ inbox[c].type = TICK => grantee[inbox[c].ticket[2]] = c

PoolInv ==
  /\ Idle /\ Decided
  /\ Known /\ PidsDiffer /\ OwnPid /\ HelloFirst /\ LateGoodbye
  /\ TableOfRuns /\ SlotsKept
-----------------------------------------------------------------------------
\* What is on its way is a request of a run.
LEMMA AtRequests ==
  ASSUME TypeInv
  PROVE  \A i \in Places : At(i) \in Requests /\ At(i).from \in Clients /\ At(i).ticket[1] \in Pids
<1>. SUFFICES ASSUME NEW i \in Places
              PROVE  At(i) \in Requests /\ At(i).from \in Clients /\ At(i).ticket[1] \in Pids
  OBVIOUS
<1>1. At(i) \in Requests
  <2>1. CASE i = 0
    BY <2>1 DEF At, Places, TypeInv, TypeOK
  <2>2. CASE i # 0
    <3>1. i \in 1 .. Len(srv_queue) /\ srv_queue \in Seq(Requests)
      BY <2>2 DEF Places, TypeInv, TypeOK
    <3>. QED
      BY <2>2, <3>1, ElementOfSeq DEF At
  <2>. QED
    BY <2>1, <2>2
<1>. QED
  BY <1>1 DEF Requests

\* A datagram a run sends comes last, or is lost.
LEMMA SentLast ==
  ASSUME TypeInv, NEW m \in Requests, Send(m), UNCHANGED req
  PROVE  /\ srv_pc = "down" => srv_queue' = srv_queue
         /\ \E last :
              /\ \A i \in Places : i \in Places' /\ At(i)' = At(i) /\ i < last /\ ~(last < i) /\ i # last
              /\ \A i \in Places' : i \in Places \/ (i = last /\ At(i)' = m)
<1>. DEFINE n == Len(srv_queue)
<1>1. srv_queue \in Seq(Requests) /\ n \in Nat
  BY DEF TypeInv, TypeOK
<1>2. /\ \A i \in Places : i < n + 1 /\ ~(n + 1 < i) /\ i # n + 1 /\ i \in 0 .. n
      /\ Places = {i \in 0 .. n : i = 0 => req # NoRequest}
      /\ Places' = {i \in 0 .. Len(srv_queue') : i = 0 => req # NoRequest}
  BY <1>1 DEF Places
<1>3. CASE srv_queue' = srv_queue
  BY <1>2, <1>3 DEF At
<1>4. CASE srv_pc # "down" /\ srv_queue' = Append(srv_queue, m)
  <2>1. /\ Len(srv_queue') = n + 1
        /\ \A i \in 1 .. n : srv_queue'[i] = srv_queue[i]
        /\ srv_queue'[n + 1] = m
    BY <1>1, <1>4
  <2>2. \A i \in Places : i \in Places' /\ At(i)' = At(i)
    BY <1>1, <1>2, <2>1 DEF At
  <2>3. \A i \in Places' : i \in Places \/ (i = n + 1 /\ At(i)' = m)
    BY <1>1, <1>2, <2>1 DEF At
  <2>. QED
    BY <1>2, <1>4, <2>2, <2>3
<1>. QED
  BY <1>3, <1>4 DEF Send
-----------------------------------------------------------------------------
(* The steps of a run *)

\* A run starts: nobody has heard of it.
LEMMA StartKeeps == ASSUME TypeInv, PoolInv, NEW c \in Clients, Start(c) PROVE PoolInv'
<1>. USE DEF PoolInv, serverVars
<1>1. PICK p \in Pids \ PidsInUse :
        /\ pid' = [pid EXCEPT ![c] = p]
        /\ Send([type |-> "HELO", from |-> c, ticket |-> <<p, NoSlot>>])
  BY DEF Start
<1>. DEFINE m == [type |-> "HELO", from |-> c, ticket |-> <<p, NoSlot>>]
<1>2. m \in Requests /\ m.from = c /\ m.type = "HELO" /\ m.ticket[1] = p
  BY DEF Requests
<1>. HIDE DEF m
<1>3. /\ pc[c] = "new" /\ pc' = [pc EXCEPT ![c] = "wait_hello"]
      /\ UNCHANGED <<srv_pc, ticket_array, num_tickets_out, req, verdict, time_left, scan, grantee>>
      /\ UNCHANGED <<alarm, crashes, orphaned, raced, ticket, inbox>>
  BY DEF Start
<1>4. /\ srv_pc = "down" => srv_queue' = srv_queue
      /\ \E last :
           /\ \A i \in Places : i \in Places' /\ At(i)' = At(i) /\ i < last /\ ~(last < i) /\ i # last
           /\ \A i \in Places' : i \in Places \/ (i = last /\ At(i)' = m)
  BY <1>1, <1>2, <1>3, SentLast DEF m
<1>5. PICK last :
        /\ \A i \in Places : i \in Places' /\ At(i)' = At(i) /\ i < last /\ ~(last < i) /\ i # last
        /\ \A i \in Places' : i \in Places \/ (i = last /\ At(i)' = m)
  BY <1>4
<1>6. /\ \A d \in Clients : d # c => pid'[d] = pid[d] /\ pc'[d] = pc[d] /\ (Alive(d)' <=> Alive(d))
                                     /\ (HasTicket(d)' <=> HasTicket(d))
      /\ pid'[c] = p /\ pc'[c] = "wait_hello" /\ Alive(c)' /\ ~Alive(c) /\ ~HasTicket(c)' /\ ~Licensed(c)'
      /\ \A d \in Clients : d # c => (Licensed(d)' <=> Licensed(d))
      /\ \A d \in Clients : Alive(d) => pid[d] # p
      /\ \A d : Granted(d)' <=> Granted(d)
      /\ ~Granted(c) /\ inbox[c] = NoReply
      /\ \A i \in Places : At(i).from # c
  BY <1>1, <1>3 DEF Alive, HasTicket, Licensed, PidsInUse, Granted, Known, TypeInv, TypeOK
<1>7. \A i \in Places : At(i).from \in Clients
  BY AtRequests
<1>8. NoReply.type # TICK
  BY DEF NoReply, TICK
<1>9. Idle' /\ Decided'
  BY <1>3, <1>4 DEF Idle, Decided
<1>10. Known' /\ PidsDiffer'
  BY <1>2, <1>3, <1>5, <1>6, <1>7 DEF Known, PidsDiffer
<1>11. OwnPid'
  BY <1>2, <1>3, <1>5, <1>6, <1>8 DEF OwnPid
<1>12. HelloFirst'
  BY <1>2, <1>3, <1>5, <1>6, <1>7 DEF HelloFirst
<1>13. LateGoodbye'
  BY <1>2, <1>3, <1>5, <1>6, <1>7 DEF LateGoodbye
<1>14. TableOfRuns'
  <2>1. \A s \in Slots : grantee[s] # c /\ grantee[s] \in Clients \union {NoClient}
    BY <1>6 DEF Granted, TypeInv, TypeOK
  <2>. QED
    BY <1>3, <1>6, <2>1 DEF TableOfRuns
<1>15. SlotsKept'
  BY <1>3, <1>6, <1>8 DEF SlotsKept
<1>. QED
  BY <1>9, <1>10, <1>11, <1>12, <1>13, <1>14, <1>15

\* The reply to HELO arrives, so that the request is not on its way any more.
LEMMA GetTicketKeeps ==
  ASSUME TypeInv, PoolInv, NEW c \in Clients, GetTicket(c), inbox[c].type = TICK
  PROVE  PoolInv'
<1>. USE DEF PoolInv, serverVars, kernelVars
<1>1. /\ ticket' = [ticket EXCEPT ![c] = inbox[c].ticket]
      /\ pc[c] = "wait_hello" /\ pc' = [pc EXCEPT ![c] = "work"]
      /\ inbox[c] # NoReply /\ inbox' = [inbox EXCEPT ![c] = NoReply]
      /\ UNCHANGED <<pid, serverVars, kernelVars>>
  BY DEF GetTicket
<1>2. /\ \A d \in Clients : d # c =>
           /\ pc'[d] = pc[d] /\ inbox'[d] = inbox[d] /\ ticket'[d] = ticket[d]
           /\ (Licensed(d)' <=> Licensed(d)) /\ (HasTicket(d)' <=> HasTicket(d))
      /\ \A d : Granted(d)' <=> Granted(d)
      /\ \A d \in Clients : Alive(d)' <=> Alive(d)
      /\ pc'[c] = "work" /\ inbox'[c] = NoReply /\ ticket'[c] = inbox[c].ticket /\ Alive(c)
      /\ NoReply.type # TICK
  BY <1>1 DEF Alive, Granted, Licensed, HasTicket, TypeInv, TypeOK, NoReply, TICK
<1>3. Places' = Places /\ \A i : At(i)' = At(i)
  BY <1>1 DEF Places, At
<1>4. \A i \in Places : At(i).from \in Clients
  BY AtRequests
<1>5. Idle' /\ Decided'
  BY <1>1 DEF Idle, Decided
<1>6. Known' /\ PidsDiffer'
  BY <1>1, <1>2, <1>3, <1>4 DEF Known, PidsDiffer
<1>7. OwnPid'
  BY <1>1, <1>2, <1>3 DEF OwnPid
<1>8. HelloFirst'
  BY <1>1, <1>2, <1>3, <1>4 DEF HelloFirst
<1>9. LateGoodbye'
  BY <1>1, <1>2, <1>3, <1>4 DEF LateGoodbye
<1>10. TableOfRuns'
  BY <1>1, <1>2 DEF TableOfRuns, TypeInv, TypeOK
<1>11. SlotsKept'
  BY <1>1, <1>2 DEF SlotsKept
<1>. QED
  BY <1>5, <1>6, <1>7, <1>8, <1>9, <1>10, <1>11

\* A run has its ticket validated, or gives it back: it is the only live run with
\* its pid.
LEMMA SendKeeps ==
  ASSUME TypeInv, PoolInv, NEW c \in Clients, SendValidate(c) \/ SendGoodbye(c)
  PROVE  PoolInv'
<1>. USE DEF PoolInv, serverVars
<1>1. PICK type \in {"VALD", "GBYE"} :
        /\ Send([type |-> type, from |-> c, ticket |-> ticket[c]])
        /\ Licensed(c)
        /\ pc' = [pc EXCEPT ![c] = IF type = "VALD" THEN "wait_validate" ELSE "wait_goodbye"]
  BY DEF SendValidate, SendGoodbye, Licensed
<1>. DEFINE m == [type |-> type, from |-> c, ticket |-> ticket[c]]
<1>2. m \in Requests /\ m.from = c /\ m.type = type /\ m.ticket = ticket[c]
  BY <1>1 DEF TypeInv, TicketInHand, Requests
<1>. HIDE DEF m
<1>3. /\ UNCHANGED <<srv_pc, ticket_array, num_tickets_out, req, verdict, time_left, scan, grantee>>
      /\ UNCHANGED <<alarm, crashes, orphaned, raced, pid, ticket, inbox>>
  BY DEF SendValidate, SendGoodbye
<1>4. /\ srv_pc = "down" => srv_queue' = srv_queue
      /\ \E last :
           /\ \A i \in Places : i \in Places' /\ At(i)' = At(i) /\ i < last /\ ~(last < i) /\ i # last
           /\ \A i \in Places' : i \in Places \/ (i = last /\ At(i)' = m)
  BY <1>1, <1>2, <1>3, SentLast DEF m
<1>5. PICK last :
        /\ \A i \in Places : i \in Places' /\ At(i)' = At(i) /\ i < last /\ ~(last < i) /\ i # last
        /\ \A i \in Places' : i \in Places \/ (i = last /\ At(i)' = m)
  BY <1>4
<1>6. /\ \A d \in Clients : d # c => pc'[d] = pc[d] /\ (Licensed(d)' <=> Licensed(d))
                                     /\ (HasTicket(d)' <=> HasTicket(d))
      /\ pc'[c] \in {"wait_validate", "wait_goodbye"}
      /\ type = "GBYE" => pc'[c] = "wait_goodbye"
      /\ pc[c] \notin {"new", "wait_hello", "wait_goodbye", "exit"}
      /\ HasTicket(c) /\ HasTicket(c)' /\ Alive(c)
      /\ \A d \in Clients : Alive(d)' <=> Alive(d)
      /\ \A d : Granted(d)' <=> Granted(d)
  BY <1>1, <1>3 DEF Alive, HasTicket, Licensed, Granted, TypeInv, TypeOK
<1>7. m.ticket[1] = pid[c]
  BY <1>2, <1>6 DEF OwnPid
<1>8. \A i \in Places : At(i).from \in Clients
  BY AtRequests
<1>9. \A i \in Places : At(i).type \in {"HELO", "GBYE"} => At(i).from # c
  BY <1>6 DEF HelloFirst, LateGoodbye
<1>10. Idle' /\ Decided'
  BY <1>3, <1>4 DEF Idle, Decided
<1>11. Known' /\ PidsDiffer'
  BY <1>2, <1>3, <1>5, <1>6, <1>8 DEF Known, PidsDiffer
<1>12. OwnPid'
  BY <1>2, <1>3, <1>5, <1>6, <1>7 DEF OwnPid
<1>13. HelloFirst'
  BY <1>2, <1>3, <1>5, <1>6, <1>8, <1>9 DEF HelloFirst
<1>14. LateGoodbye'
  <2>1. \A d \in Clients : Alive(d) /\ pid[d] = m.ticket[1] => d = c
    BY <1>6, <1>7 DEF PidsDiffer
  <2>. QED
    BY <1>2, <1>3, <1>5, <1>6, <1>8, <1>9, <2>1 DEF LateGoodbye
<1>15. TableOfRuns'
  BY <1>3, <1>6 DEF TableOfRuns, TypeInv, TypeOK
<1>16. SlotsKept'
  BY <1>1, <1>3, <1>6 DEF SlotsKept
<1>. QED
  BY <1>10, <1>11, <1>12, <1>13, <1>14, <1>15, <1>16

\* The reply to VALD changes nothing but the run's mind.
LEMMA DoValidateKeeps ==
  ASSUME TypeInv, PoolInv, NEW c \in Clients, DoValidate(c)
  PROVE  PoolInv'
<1>. USE DEF PoolInv, serverVars, kernelVars
<1>1. /\ pc[c] = "wait_validate" /\ pc' = [pc EXCEPT ![c] = "release"]
      /\ inbox' = [inbox EXCEPT ![c] = NoReply]
      /\ UNCHANGED <<pid, ticket, serverVars, kernelVars>>
  BY DEF DoValidate
<1>2. /\ \A d \in Clients : d # c => pc'[d] = pc[d] /\ inbox'[d] = inbox[d]
      /\ \A d \in Clients : /\ Alive(d)' <=> Alive(d)
                            /\ Licensed(d)' <=> Licensed(d)
                            /\ HasTicket(d)' <=> HasTicket(d)
      /\ \A d : Granted(d)' <=> Granted(d)
      /\ pc'[c] = "release" /\ inbox'[c] = NoReply
      /\ NoReply.type # TICK
  BY <1>1 DEF Alive, Granted, Licensed, HasTicket, TypeInv, TypeOK, NoReply, TICK
<1>3. Places' = Places /\ \A i : At(i)' = At(i)
  BY <1>1 DEF Places, At
<1>4. \A i \in Places : At(i).from \in Clients
  BY AtRequests
<1>5. Idle' /\ Decided'
  BY <1>1 DEF Idle, Decided
<1>6. Known' /\ PidsDiffer'
  BY <1>1, <1>2, <1>3, <1>4 DEF Known, PidsDiffer
<1>7. OwnPid'
  BY <1>1, <1>2, <1>3 DEF OwnPid
<1>8. HelloFirst'
  BY <1>1, <1>2, <1>3, <1>4 DEF HelloFirst
<1>9. LateGoodbye'
  BY <1>1, <1>2, <1>3, <1>4 DEF LateGoodbye
<1>10. TableOfRuns'
  BY <1>1, <1>2 DEF TableOfRuns, TypeInv, TypeOK
<1>11. SlotsKept'
  BY <1>1, <1>2 DEF SlotsKept
<1>. QED
  BY <1>5, <1>6, <1>7, <1>8, <1>9, <1>10, <1>11

\* A run dies, whatever it has sent.
LEMMA GoneKeeps ==
  ASSUME TypeInv, PoolInv, NEW c \in Clients, Alive(c), Gone(c), UNCHANGED <<serverVars, kernelVars>>
  PROVE  PoolInv'
<1>. USE DEF PoolInv, serverVars, kernelVars
<1>1. /\ \A d \in Clients : d # c =>
           /\ pc'[d] = pc[d] /\ pid'[d] = pid[d] /\ ticket'[d] = ticket[d] /\ inbox'[d] = inbox[d]
           /\ (Alive(d)' <=> Alive(d)) /\ (Licensed(d)' <=> Licensed(d)) /\ (HasTicket(d)' <=> HasTicket(d))
      /\ pc'[c] = "exit" /\ inbox'[c] = NoReply /\ ~Alive(c)' /\ ~Licensed(c)'
      /\ \A d : Granted(d)' <=> Granted(d)
  BY DEF Gone, Alive, Granted, Licensed, HasTicket, TypeInv, TypeOK
<1>2. Places' = Places /\ \A i : At(i)' = At(i)
  BY DEF Places, At
<1>3. \A i \in Places : At(i).from \in Clients
  BY AtRequests
<1>4. Idle' /\ Decided'
  BY DEF Idle, Decided
<1>5. Known' /\ PidsDiffer'
  BY <1>1, <1>2, <1>3 DEF Known, PidsDiffer
<1>6. OwnPid'
  BY <1>1, <1>2 DEF OwnPid
<1>7. HelloFirst'
  BY <1>1, <1>2, <1>3 DEF HelloFirst
<1>8. LateGoodbye'
  BY <1>1, <1>2, <1>3 DEF LateGoodbye
<1>9. TableOfRuns'
  BY <1>1 DEF TableOfRuns, TypeInv, TypeOK
<1>10. SlotsKept'
  BY <1>1 DEF SlotsKept
<1>. QED
  BY <1>4, <1>5, <1>6, <1>7, <1>8, <1>9, <1>10
-----------------------------------------------------------------------------
(* The steps of the server *)

\* Only the timer, or where main is outside of a request, or what it decided
\* changes.
LEMMA QuietKeeps ==
  ASSUME TypeInv, PoolInv,
         UNCHANGED <<ticket_array, req, srv_queue, grantee, clientVars, orphaned>>,
         Idle', Decided', srv_pc' = "down" <=> srv_pc = "down"
  PROVE  PoolInv'
<1>. USE DEF PoolInv, clientVars
<1>1. /\ \A d \in Clients : /\ Alive(d)' <=> Alive(d)
                            /\ Licensed(d)' <=> Licensed(d)
                            /\ HasTicket(d)' <=> HasTicket(d)
      /\ \A d : (Granted(d)' <=> Granted(d)) /\ (Alive(d)' <=> Alive(d))
      /\ Places' = Places /\ \A i : At(i)' = At(i)
  BY DEF Alive, Licensed, HasTicket, Granted, Places, At
<1>2. Known' /\ PidsDiffer' /\ OwnPid'
  BY <1>1 DEF Known, PidsDiffer, OwnPid
<1>3. HelloFirst'
  BY <1>1 DEF HelloFirst
<1>4. LateGoodbye'
  BY <1>1 DEF LateGoodbye
<1>5. TableOfRuns' /\ SlotsKept'
  BY <1>1 DEF TableOfRuns, SlotsKept
<1>. QED
  BY <1>2, <1>3, <1>4, <1>5

\* alarm(0), alarm(time_left), the timer, and the start of the handler
LEMMA TimerKeeps ==
  ASSUME TypeInv, PoolInv, StopAlarm \/ RestartAlarm \/ AlarmExpires \/ EnterHandler
  PROVE  PoolInv'
<1>1. /\ UNCHANGED <<ticket_array, req, verdict, srv_queue, grantee, clientVars, orphaned>>
      /\ srv_pc' = srv_pc \/ (srv_pc = "stop_alarm" /\ srv_pc' = "lookup")
                          \/ (srv_pc = "restart_alarm" /\ srv_pc' = "recvfrom")
      /\ srv_pc # "down"
  BY DEF StopAlarm, RestartAlarm, AlarmExpires, EnterHandler, MainRuns, serverVars, PoolInv, Idle
<1>2. Idle'
  BY <1>1 DEF PoolInv, Idle
<1>3. Decided'
  BY <1>1 DEF PoolInv, Decided
<1>4. srv_pc' = "down" <=> srv_pc = "down"
  BY <1>1
<1>. QED
  BY <1>1, <1>2, <1>3, <1>4, QuietKeeps

LEMMA LookupKeeps == ASSUME TypeInv, PoolInv, Lookup PROVE PoolInv'
<1>1. /\ UNCHANGED <<ticket_array, req, srv_queue, grantee, clientVars, orphaned>>
      /\ srv_pc = "lookup" /\ srv_pc' = "answer"
  BY DEF Lookup, MainRuns, kernelVars
<1>2. Idle'
  BY <1>1 DEF PoolInv, Idle
<1>3. Decided'
  <2>1. CASE req.type = "HELO" /\ DoHello
    <3>1. \/ verdict'.type \in {FailFull, FailCorrupt}
          \/ verdict'.type = TICK /\ ticket_array[verdict'.slot] = TICKET_AVAIL
      BY <2>1 DEF DoHello, Decide, FirstFree
    <3>. QED
      BY <1>1, <2>1, <3>1 DEF Decided, TICK, THNX, FailFull, FailCorrupt
  <2>2. CASE req.type = "GBYE" /\ DoTicket(THNX)
    <3>1. \/ verdict'.type = FailInvalid
          \/ /\ verdict'.type = THNX /\ verdict'.slot = req.ticket[2]
             /\ ticket_array[req.ticket[2]] = req.ticket[1]
      BY <2>2 DEF DoTicket, Decide, OnRecord
    <3>. QED
      BY <1>1, <2>2, <3>1 DEF Decided, TICK, THNX, FailInvalid
  <2>3. CASE req.type = "VALD" /\ DoTicket(GOOD)
    <3>1. verdict'.type \in {FailInvalid, GOOD}
      BY <2>3 DEF DoTicket, Decide
    <3>. QED
      BY <3>1 DEF Decided, TICK, THNX, GOOD, FailInvalid
  <2>. QED
    BY <2>1, <2>2, <2>3 DEF Lookup
<1>. QED
  BY <1>1, <1>2, <1>3, QuietKeeps

\* recvfrom: every request moves up by one place.
LEMMA ReceiveKeeps == ASSUME TypeInv, PoolInv, Receive PROVE PoolInv'
<1>. USE DEF PoolInv, clientVars
<1>. DEFINE n == Len(srv_queue)
<1>1. /\ srv_queue \in Seq(Requests) /\ srv_queue # <<>> /\ n \in Nat \ {0}
      /\ req' = srv_queue[1] /\ Len(srv_queue') = n - 1
      /\ \A i \in 1 .. (n - 1) : srv_queue'[i] = srv_queue[i + 1]
      /\ req = NoRequest /\ srv_pc = "recvfrom" /\ srv_pc' = "stop_alarm"
      /\ UNCHANGED <<ticket_array, verdict, scan, alarm, orphaned, grantee, pc, pid, ticket, inbox>>
  BY DEF Receive, MainRuns, Idle, TypeInv, TypeOK
<1>2. \A i \in Places' : i + 1 \in Places /\ At(i)' = At(i + 1)
  <2>1. /\ Places = {i \in 0 .. n : i = 0 => req # NoRequest}
        /\ Places' = {i \in 0 .. (n - 1) : i = 0 => req' # NoRequest}
    BY <1>1 DEF Places
  <2>. QED
    BY <1>1, <2>1 DEF At
<1>3. /\ \A i, j \in Places' : (i + 1 = j + 1 => i = j) /\ (i < j => i + 1 < j + 1)
      /\ \A i \in Places : At(i).from \in Clients
  BY AtRequests DEF Places
<1>4. /\ \A d : (Alive(d)' <=> Alive(d)) /\ (Licensed(d)' <=> Licensed(d)) /\ (HasTicket(d)' <=> HasTicket(d))
      /\ \A d : Granted(d)' <=> Granted(d)
  BY <1>1 DEF Alive, Licensed, HasTicket, Granted
<1>5. Idle' /\ Decided'
  BY <1>1 DEF Idle, Decided
<1>6. Known' /\ PidsDiffer'
  BY <1>1, <1>2, <1>4 DEF Known, PidsDiffer
<1>7. OwnPid'
  BY <1>1, <1>2, <1>4 DEF OwnPid
<1>8. HelloFirst'
  BY <1>1, <1>2, <1>3, <1>4 DEF HelloFirst
<1>9. LateGoodbye'
  BY <1>1, <1>2, <1>3, <1>4 DEF LateGoodbye
<1>10. TableOfRuns' /\ SlotsKept'
  BY <1>1, <1>4 DEF TableOfRuns, SlotsKept
<1>. QED
  BY <1>5, <1>6, <1>7, <1>8, <1>9, <1>10

\* A slot that main frees is free already, or was issued to a run that is dead or
\* has asked for it: whoever else has the pid of the GBYE has no slot yet.
LEMMA FreedByRight ==
  ASSUME TypeInv, PoolInv, srv_pc = "answer", verdict.type = THNX, NEW owner,
         owner = grantee[verdict.slot], owner # NoClient, Alive(owner)
  PROVE  owner \in Clients /\ pc[owner] = "wait_goodbye"
<1>. USE ConstantsAssumption DEF PoolInv
<1>1. /\ req \in Requests /\ req.type = "GBYE" /\ verdict.slot = req.ticket[2]
      /\ ticket_array[verdict.slot] \in {req.ticket[1], TICKET_AVAIL}
  BY DEF TypeInv, InHand, Decided
<1>2. verdict.slot \in Slots /\ req.ticket[1] \in Pids
  BY <1>1 DEF Requests
<1>3. 0 \in Places /\ At(0) = req
  BY <1>1 DEF Places, At, TypeInv, TypeOK, Requests, NoRequest
<1>4. owner \in Clients /\ Granted(owner)
  BY <1>2 DEF Granted, TypeInv, TypeOK
<1>5. ticket_array[verdict.slot] # TICKET_AVAIL /\ ticket_array[verdict.slot] = pid[owner]
  BY <1>2 DEF TableOfRuns
<1>6. owner = req.from
  BY <1>1, <1>3, <1>4, <1>5 DEF LateGoodbye
<1>7. pc[req.from] \in {"wait_goodbye", "exit"}
  BY <1>1, <1>3 DEF LateGoodbye
<1>. QED
  BY <1>4, <1>6, <1>7 DEF Alive

\* What Answer does to the table and to whom the slots belong.
LEMMA AnswerEffect ==
  ASSUME TypeInv, PoolInv, Answer
  PROVE  /\ \/ /\ verdict.type = TICK /\ verdict.slot \in Slots
               /\ req.type = "HELO" /\ grantee[verdict.slot] = NoClient
               /\ ticket_array' = [ticket_array EXCEPT ![verdict.slot] = req.ticket[1]]
               /\ grantee' = [grantee EXCEPT ![verdict.slot] = req.from]
            \/ /\ verdict.type = THNX /\ verdict.slot \in Slots
               /\ ticket_array' = [ticket_array EXCEPT ![verdict.slot] = TICKET_AVAIL]
               /\ grantee' = [grantee EXCEPT ![verdict.slot] = NoClient]
            \/ /\ verdict.type \notin {TICK, THNX}
               /\ UNCHANGED <<ticket_array, grantee>>
         /\ req \in Requests /\ req.from \in Clients /\ req.ticket[1] \in Pids
         /\ 0 \in Places /\ At(0) = req
         /\ Places' = Places \ {0} /\ \A i \in Places' : At(i)' = At(i) /\ i \in Places /\ 0 < i /\ i # 0
         /\ UNCHANGED <<pc, pid, ticket, orphaned>>
         /\ \A d \in Clients : d # req.from => inbox'[d] = inbox[d]
         /\ ~Alive(req.from) => inbox'[req.from] = inbox[req.from]
         /\ Alive(req.from) =>
              inbox'[req.from] = [type |-> verdict.type, ticket |-> <<req.ticket[1], verdict.slot>>]
<1>1. req \in Requests /\ verdict \in Verdicts /\ srv_pc = "answer"
  BY DEF Answer, MainRuns, TypeInv, InHand
<1>2. req.from \in Clients /\ req.ticket[1] \in Pids /\ req # NoRequest
  BY <1>1 DEF Requests, NoRequest
<1>3. /\ 0 \in Places /\ At(0) = req
      /\ Places' = Places \ {0}
      /\ \A i \in Places' : At(i)' = At(i) /\ i \in Places /\ 0 < i /\ i # 0
  <2>1. req' = NoRequest /\ srv_queue' = srv_queue /\ Len(srv_queue) \in Nat
    BY DEF Answer, kernelVars, TypeInv, TypeOK
  <2>. QED
    BY <1>2, <2>1 DEF Places, At
<1>4. /\ UNCHANGED <<pc, pid, ticket, orphaned>>
      /\ \A d \in Clients : d # req.from => inbox'[d] = inbox[d]
      /\ ~Alive(req.from) => inbox'[req.from] = inbox[req.from]
      /\ Alive(req.from) =>
           inbox'[req.from] = [type |-> verdict.type, ticket |-> <<req.ticket[1], verdict.slot>>]
  BY <1>2 DEF Answer, kernelVars, TypeInv, TypeOK
<1>5. verdict.type \in {TICK, THNX} => verdict.slot \in Slots
  BY <1>1 DEF Verdicts, Failures, TICK, THNX, FailFull, FailCorrupt, FailInvalid
<1>6. verdict.type = TICK => req.type = "HELO" /\ grantee[verdict.slot] = NoClient
  BY <1>1, <1>5 DEF PoolInv, Decided, TableOfRuns
<1>. QED
  BY <1>1, <1>2, <1>3, <1>4, <1>5, <1>6 DEF Answer, UpdateTable

LEMMA AnswerKeeps == ASSUME TypeInv, PoolInv, Answer PROVE PoolInv'
<1>. USE ConstantsAssumption DEF PoolInv
<1>. DEFINE f == req.from
            x == verdict.slot
<1>1. /\ \/ /\ verdict.type = TICK /\ x \in Slots
            /\ req.type = "HELO" /\ grantee[x] = NoClient
            /\ ticket_array' = [ticket_array EXCEPT ![x] = req.ticket[1]]
            /\ grantee' = [grantee EXCEPT ![x] = f]
         \/ /\ verdict.type = THNX /\ x \in Slots
            /\ ticket_array' = [ticket_array EXCEPT ![x] = TICKET_AVAIL]
            /\ grantee' = [grantee EXCEPT ![x] = NoClient]
         \/ /\ verdict.type \notin {TICK, THNX}
            /\ UNCHANGED <<ticket_array, grantee>>
      /\ req \in Requests /\ f \in Clients /\ req.ticket[1] \in Pids
      /\ 0 \in Places /\ At(0) = req
      /\ Places' = Places \ {0} /\ \A i \in Places' : At(i)' = At(i) /\ i \in Places /\ 0 < i /\ i # 0
      /\ UNCHANGED <<pc, pid, ticket, orphaned>>
      /\ \A d \in Clients : d # f => inbox'[d] = inbox[d]
      /\ ~Alive(f) => inbox'[f] = inbox[f]
      /\ Alive(f) => inbox'[f] = [type |-> verdict.type, ticket |-> <<req.ticket[1], x>>]
  BY AnswerEffect
<1>2. srv_pc = "answer" /\ srv_pc' = "restart_alarm" /\ req' = NoRequest
  BY DEF Answer, MainRuns
<1>3. /\ \A d : (Alive(d)' <=> Alive(d)) /\ (Licensed(d)' <=> Licensed(d)) /\ (HasTicket(d)' <=> HasTicket(d))
      /\ \A i \in Places : At(i).from \in Clients
  BY <1>1, AtRequests DEF Alive, Licensed, HasTicket
<1>4. \A d \in Clients : Granted(d)' => Granted(d) \/ (req.type = "HELO" /\ d = f)
  <2>1. \A s \in Slots : \/ grantee'[s] = grantee[s]
                         \/ grantee'[s] = NoClient
                         \/ req.type = "HELO" /\ grantee'[s] = f
    BY <1>1 DEF TypeInv, TypeOK
  <2>. QED
    BY <2>1 DEF Granted
<1>5. Idle' /\ Decided'
  BY <1>2 DEF Idle, Decided
<1>6. Known'
  <2>1. \A c \in Clients : pc[c] = "new" => c # f
    BY <1>1 DEF Known
  <2>. QED
    BY <1>1, <1>3, <1>4, <2>1 DEF Known
<1>7. PidsDiffer'
  BY <1>1, <1>3 DEF PidsDiffer
<1>8. OwnPid'
  <2>. SUFFICES ASSUME NEW c \in Clients, Alive(c) PROVE OwnPid!(c)'
    BY <1>3 DEF OwnPid
  <2>1. inbox'[c].type = TICK => inbox'[c].ticket[1] = pid[c]
    BY <1>1 DEF OwnPid
  <2>. QED
    BY <1>1, <1>3, <2>1 DEF OwnPid
<1>9. HelloFirst'
  <2>. SUFFICES ASSUME NEW i \in Places', At(i).type = "HELO"
                PROVE  /\ pc[At(i).from] \in {"wait_hello", "exit"}
                       /\ inbox'[At(i).from] = NoReply
                       /\ ~Granted(At(i).from)'
                       /\ \A j \in Places' : At(j).from = At(i).from => j = i
    BY <1>1 DEF HelloFirst
  <2>1. i \in Places /\ At(i).from \in Clients /\ At(i).from # f
    BY <1>1, <1>3 DEF HelloFirst
  <2>. QED
    BY <1>1, <1>4, <2>1 DEF HelloFirst
<1>10. LateGoodbye'
  <2>. SUFFICES ASSUME NEW i \in Places', At(i).type = "GBYE"
                PROVE  /\ pc[At(i).from] \in {"wait_goodbye", "exit"}
                       /\ \A d \in Clients :
                            Alive(d) /\ pid[d] = At(i).ticket[1] /\ d # At(i).from =>
                              ~Granted(d)' /\ \A j \in Places' : j < i => At(j).from # d
    BY <1>1, <1>3 DEF LateGoodbye
  <2>1. ASSUME NEW d \in Clients, Alive(d), pid[d] = At(i).ticket[1], d # At(i).from
        PROVE  ~Granted(d) /\ d # f /\ \A j \in Places : j < i => At(j).from # d
    BY <1>1, <2>1 DEF LateGoodbye
  <2>. QED
    BY <1>1, <1>4, <2>1 DEF LateGoodbye
<1>11. TableOfRuns'
  <2>1. Alive(f) => req.ticket[1] = pid[f]
    BY <1>1 DEF OwnPid
  <2>2. CASE verdict.type = TICK
    <3>1. /\ \A s \in Slots : s # x => ticket_array'[s] = ticket_array[s] /\ grantee'[s] = grantee[s]
          /\ ticket_array'[x] = req.ticket[1] /\ grantee'[x] = f
      BY <1>1, <2>2 DEF TypeInv, TypeOK, TICK, THNX
    <3>2. f # NoClient /\ req.ticket[1] # TICKET_AVAIL
      BY <1>1
    <3>3. \A s \in Slots : ticket_array'[s] = TICKET_AVAIL <=> grantee'[s] = NoClient
      BY <1>2, <3>1, <3>2 DEF TableOfRuns
    <3>4. \A s \in Slots : grantee'[s] # NoClient /\ Alive(grantee'[s]) => ticket_array'[s] = pid[grantee'[s]]
      BY <2>1, <3>1 DEF TableOfRuns
    <3>. QED
      BY <1>1, <1>3, <3>3, <3>4 DEF TableOfRuns
  <2>3. CASE verdict.type = THNX
    <3>1. /\ \A s \in Slots : s # x => ticket_array'[s] = ticket_array[s] /\ grantee'[s] = grantee[s]
          /\ ticket_array'[x] = TICKET_AVAIL /\ grantee'[x] = NoClient
      BY <1>1, <2>3 DEF TypeInv, TypeOK, TICK, THNX
    <3>. QED
      BY <1>1, <1>2, <1>3, <3>1 DEF TableOfRuns, TypeInv, TypeOK
  <2>4. CASE verdict.type \notin {TICK, THNX}
    BY <1>1, <1>2, <1>3, <2>4 DEF TableOfRuns
  <2>. QED
    BY <2>2, <2>3, <2>4
<1>12. SlotsKept'
  <2>. SUFFICES ASSUME NEW c \in Clients \ orphaned
                PROVE  /\ Licensed(c) => grantee'[ticket[c][2]] = c
                       /\ pc[c] = "wait_hello" /\ inbox'[c].type = TICK => grantee'[inbox'[c].ticket[2]] = c
    BY <1>1, <1>3 DEF SlotsKept
  <2>1. \A s \in Slots : grantee[s] = c /\ Alive(c) /\ pc[c] # "wait_goodbye" => grantee'[s] = c
    <3>. SUFFICES ASSUME NEW s \in Slots, grantee[s] = c, Alive(c), pc[c] # "wait_goodbye"
                  PROVE  grantee'[s] = c
      OBVIOUS
    <3>1. c # NoClient
      OBVIOUS
    <3>2. verdict.type = THNX => x # s
      BY <1>2, <3>1, FreedByRight
    <3>3. verdict.type = TICK => x # s
      BY <1>1, <3>1 DEF TICK, THNX
    <3>. QED
      BY <1>1, <3>2, <3>3 DEF TypeInv, TypeOK
  <2>2. Licensed(c) => grantee'[ticket[c][2]] = c
    <3>1. Licensed(c) => ticket[c][2] \in Slots /\ Alive(c) /\ pc[c] # "wait_goodbye"
      BY DEF TypeInv, TicketInHand, Licensed, Alive
    <3>. QED
      BY <2>1, <3>1 DEF SlotsKept
  <2>3. ASSUME pc[c] = "wait_hello", inbox'[c].type = TICK PROVE grantee'[inbox'[c].ticket[2]] = c
    <3>1. Alive(c)
      BY <2>3 DEF Alive
    <3>2. CASE c = f
      BY <1>1, <2>3, <3>1, <3>2 DEF TypeInv, TypeOK, TICK, THNX
    <3>3. CASE c # f
      <4>1. inbox'[c] = inbox[c] /\ inbox[c] \in Replies \union {NoReply}
        BY <1>1, <3>3 DEF TypeInv, TypeOK
      <4>2. inbox[c].ticket[2] \in Slots
        <5>1. NoReply.type # TICK /\ TICK \notin Failures
          BY DEF NoReply, Failures, TICK, FailFull, FailCorrupt, FailInvalid
        <5>2. inbox[c] \in [type : Successes, ticket : Pids \X Slots]
          BY <2>3, <4>1, <5>1 DEF Replies
        <5>. QED
          BY <5>2
      <4>. QED
        BY <2>1, <2>3, <3>1, <4>1, <4>2 DEF SlotsKept
    <3>. QED
      BY <3>2, <3>3
  <2>. QED
    BY <2>2, <2>3
<1>. QED
  BY <1>5, <1>6, <1>7, <1>8, <1>9, <1>10, <1>11, <1>12

\* The handler frees a slot whose pid no process has: the run it was issued to is
\* dead.
LEMMA ReclaimedByRight ==
  ASSUME TypeInv, PoolInv, ReclaimSlot
  PROVE  \/ UNCHANGED <<ticket_array, grantee>>
         \/ /\ scan \in Slots /\ grantee[scan] \in Clients /\ ~Alive(grantee[scan])
            /\ ticket_array' = [ticket_array EXCEPT ![scan] = TICKET_AVAIL]
            /\ grantee' = [grantee EXCEPT ![scan] = NoClient]
<1>. USE ConstantsAssumption DEF PoolInv
<1>. SUFFICES ASSUME ~UNCHANGED <<ticket_array, grantee>>
              PROVE  grantee[scan] \in Clients /\ ~Alive(grantee[scan])
  BY DEF ReclaimSlot
<1>1. /\ scan \in Slots /\ ticket_array[scan] # TICKET_AVAIL /\ NoSuchProcess(ticket_array[scan])
      /\ srv_pc # "down"
  BY DEF ReclaimSlot, Idle, Slots
<1>2. grantee[scan] \in Clients
  BY <1>1 DEF TableOfRuns, TypeInv, TypeOK
<1>3. Alive(grantee[scan]) => pid[grantee[scan]] \in PidsInUse
  BY <1>2 DEF PidsInUse
<1>. QED
  BY <1>1, <1>2, <1>3 DEF TableOfRuns, NoSuchProcess

LEMMA ReclaimKeeps == ASSUME TypeInv, PoolInv, ReclaimSlot PROVE PoolInv'
<1>. USE ConstantsAssumption DEF PoolInv, clientVars
<1>1. UNCHANGED <<srv_pc, req, verdict, srv_queue, orphaned, pc, pid, ticket, inbox>>
  BY DEF ReclaimSlot
<1>2. /\ \A d : (Alive(d)' <=> Alive(d)) /\ (Licensed(d)' <=> Licensed(d)) /\ (HasTicket(d)' <=> HasTicket(d))
      /\ Places' = Places /\ \A i : At(i)' = At(i)
  BY <1>1 DEF Alive, Licensed, HasTicket, Places, At
<1>3. /\ \A s \in Slots : \/ ticket_array'[s] = ticket_array[s] /\ grantee'[s] = grantee[s]
                          \/ /\ ticket_array'[s] = TICKET_AVAIL /\ grantee'[s] = NoClient
                             /\ grantee[s] \in Clients /\ ~Alive(grantee[s])
      /\ ticket_array' \in [Slots -> Pids \union {TICKET_AVAIL}]
      /\ \/ ticket_array' = ticket_array
         \/ ticket_array' = [ticket_array EXCEPT ![scan] = TICKET_AVAIL]
  BY ReclaimedByRight DEF TypeInv, TypeOK
<1>4. \A d \in Clients : Granted(d)' => Granted(d)
  BY <1>3 DEF Granted
<1>5. srv_pc # "down"
  BY DEF ReclaimSlot, Idle, Slots
<1>6. Idle'
  BY <1>1, <1>5 DEF Idle
<1>7. Decided'
  <2>. SUFFICES ASSUME srv_pc = "answer", verdict.type \in {TICK, THNX}
                PROVE  ticket_array'[verdict.slot] \in {ticket_array[verdict.slot], TICKET_AVAIL}
    BY <1>1 DEF Decided
  <2>1. verdict.slot \in Slots
    BY DEF TypeInv, InHand, Verdicts, Failures, TICK, THNX, FailFull, FailCorrupt, FailInvalid
  <2>. QED
    BY <1>3, <2>1
<1>8. Known' /\ PidsDiffer' /\ OwnPid'
  BY <1>1, <1>2, <1>4 DEF Known, PidsDiffer, OwnPid
<1>9. HelloFirst'
  BY <1>1, <1>2, <1>4, AtRequests DEF HelloFirst
<1>10. LateGoodbye'
  BY <1>1, <1>2, <1>4 DEF LateGoodbye
<1>11. TableOfRuns'
  BY <1>1, <1>2, <1>3 DEF TableOfRuns
<1>12. SlotsKept'
  <2>. SUFFICES ASSUME NEW c \in Clients \ orphaned
                PROVE  /\ Licensed(c) => grantee'[ticket[c][2]] = c
                       /\ pc[c] = "wait_hello" /\ inbox[c].type = TICK => grantee'[inbox[c].ticket[2]] = c
    BY <1>1, <1>2 DEF SlotsKept
  <2>1. \A s \in Slots : grantee[s] = c /\ Alive(c) => grantee'[s] = c
    BY <1>3
  <2>2. Licensed(c) => ticket[c][2] \in Slots /\ Alive(c)
    BY DEF TypeInv, TicketInHand, Licensed, Alive
  <2>3. ASSUME inbox[c].type = TICK PROVE inbox[c].ticket[2] \in Slots
    <3>1. NoReply.type # TICK /\ TICK \notin Failures
      BY DEF NoReply, Failures, TICK, FailFull, FailCorrupt, FailInvalid
    <3>2. inbox[c] \in [type : Successes, ticket : Pids \X Slots]
      BY <2>3, <3>1 DEF Replies, TypeInv, TypeOK
    <3>. QED
      BY <3>2
  <2>4. pc[c] = "wait_hello" => Alive(c)
    BY DEF Alive
  <2>. QED
    BY <2>1, <2>2, <2>3, <2>4 DEF SlotsKept
<1>. QED
  BY <1>6, <1>7, <1>8, <1>9, <1>10, <1>11, <1>12

\* After a crash nobody has a slot and no request is on its way, and the runs that
\* live are on their own; setup clears the table.
LEMMA RestartKeeps == ASSUME TypeInv, PoolInv, ServerCrash \/ ServerStart PROVE PoolInv'
<1>. USE ConstantsAssumption DEF PoolInv, clientVars
<1>1. /\ srv_queue' = <<>> /\ req' = NoRequest /\ (\A s \in Slots : grantee'[s] = NoClient)
      /\ UNCHANGED <<pc, pid, ticket, inbox>>
      /\ \/ srv_pc' = "down" /\ alarm' = "off" /\ scan' = MAXUSERS
         \/ srv_pc' = "recvfrom" /\ \A s \in Slots : ticket_array'[s] = TICKET_AVAIL
  BY DEF ServerCrash, ServerStart, ServerReady, Idle
<1>2. /\ Places' = {} /\ \A d \in Clients : ~Granted(d)'
      /\ \A d : (Alive(d)' <=> Alive(d)) /\ (Licensed(d)' <=> Licensed(d)) /\ (HasTicket(d)' <=> HasTicket(d))
  BY <1>1 DEF Places, Granted, Alive, Licensed, HasTicket
<1>3. Idle' /\ Decided'
  BY <1>1 DEF Idle, Decided
<1>4. Known' /\ PidsDiffer' /\ OwnPid'
  BY <1>1, <1>2 DEF Known, PidsDiffer, OwnPid
<1>5. HelloFirst' /\ LateGoodbye'
  BY <1>2 DEF HelloFirst, LateGoodbye
<1>6. TableOfRuns'
  BY <1>1 DEF TableOfRuns
<1>7. SlotsKept'
  <2>1. CASE ServerCrash
    <3>1. \A c \in Clients \ orphaned' : ~Alive(c)
      BY <2>1 DEF ServerCrash
    <3>. QED
      BY <1>1, <1>2, <3>1 DEF SlotsKept, Alive, Licensed
  <2>2. CASE ServerStart
    <3>1. UNCHANGED <<grantee, orphaned>>
      BY <2>2 DEF ServerStart
    <3>. QED
      BY <1>1, <1>2, <3>1 DEF SlotsKept
  <2>. QED
    BY <2>1, <2>2
<1>. QED
  BY <1>3, <1>4, <1>5, <1>6, <1>7

\* One step keeps PoolInv.
LEMMA PoolStep == ASSUME TypeInv, PoolInv, [Next]_vars PROVE PoolInv'
<1>1. ASSUME NEW c \in Clients, Start(c) \/ RunSteps(c) \/ Kill(c) PROVE PoolInv'
  <2>1. CASE GetTicket(c) /\ inbox[c].type = TICK
    BY <2>1, GetTicketKeeps
  <2>2. CASE Alive(c) /\ Gone(c) /\ UNCHANGED <<serverVars, kernelVars>>
    BY <2>2, GoneKeeps
  <2>. QED
    BY <1>1, <2>1, <2>2, StartKeeps, SendKeeps, DoValidateKeeps
       DEF RunSteps, GetTicket, ReleaseTicket, Kill, Alive
<1>2. CASE Main
  BY <1>2, ReceiveKeeps, TimerKeeps, LookupKeeps, AnswerKeeps DEF Main
<1>3. CASE AlarmExpires \/ Handler
  BY <1>3, TimerKeeps, ReclaimKeeps DEF Handler
<1>4. CASE UNCHANGED vars
  BY <1>4, QuietKeeps DEF vars, serverVars, kernelVars, PoolInv, Idle, Decided
<1>. QED
  BY <1>1, <1>2, <1>3, <1>4, RestartKeeps DEF Next

\* PoolInv holds at every moment.
LEMMA PoolCorrect == Spec => []PoolInv
<1>1. Init => PoolInv
  <2>. SUFFICES ASSUME Init PROVE PoolInv
    OBVIOUS
  <2>1. /\ Places = {} /\ (\A c \in Clients : ~Granted(c) /\ ~Alive(c) /\ ~Licensed(c))
        /\ \A s \in Slots : ticket_array[s] = TICKET_AVAIL /\ grantee[s] = NoClient
    BY ConstantsAssumption DEF Init, Places, Granted, Alive, Licensed
  <2>2. Idle /\ Decided
    BY DEF Init, Idle, Decided
  <2>3. Known /\ PidsDiffer /\ OwnPid
    BY <2>1 DEF Init, Known, PidsDiffer, OwnPid
  <2>4. HelloFirst /\ LateGoodbye
    BY <2>1 DEF HelloFirst, LateGoodbye
  <2>5. TableOfRuns /\ SlotsKept
    BY <2>1 DEF Init, TableOfRuns, SlotsKept
  <2>. QED
    BY <2>2, <2>3, <2>4, <2>5 DEF PoolInv
<1>2. TypeInv /\ PoolInv /\ [Next]_vars => PoolInv'
  BY PoolStep
<1>. QED
  BY <1>1, <1>2, TypeCorrect, PTL DEF Spec
-----------------------------------------------------------------------------
Live == {c \in Clients : Alive(c)}
Returning == {c \in Clients : pc[c] = "wait_goodbye"}

\* A step of a run is Enter, AskReturn or Die, or nothing.
LEMMA RunImplements ==
  ASSUME TypeInv, NEW c \in Clients, Start(c) \/ RunSteps(c) \/ Kill(c)
  PROVE  [Pool!Next]_(Pool!poolVars)
<1>. USE DEF serverVars, kernelVars, Pool!poolVars
<1>1. grantee' = grantee /\ crashes' = crashes
  BY DEF Start, RunSteps, GetTicket, SendValidate, DoValidate, SendGoodbye, ReleaseTicket, Kill
<1>2. CASE Start(c)
  <2>1. c \notin Live /\ Live' = Live \union {c} /\ Returning' = Returning
    BY <1>2 DEF Start, Live, Returning, Alive, TypeInv, TypeOK
  <2>2. Pool!Enter(c)
    BY <1>1, <2>1 DEF Pool!Enter, Live, Returning
  <2>. QED
    BY <2>2 DEF Pool!Next
<1>3. CASE SendGoodbye(c)
  <2>1. c \in Live /\ Live' = Live /\ Returning' = Returning \union {c}
    BY <1>3 DEF SendGoodbye, Live, Returning, Alive, TypeInv, TypeOK
  <2>2. Pool!AskReturn(c)
    BY <1>1, <2>1 DEF Pool!AskReturn, Live, Returning
  <2>. QED
    BY <2>2 DEF Pool!Next
<1>4. CASE (GetTicket(c) /\ inbox[c].type = TICK) \/ SendValidate(c) \/ DoValidate(c)
  <2>1. Live' = Live /\ Returning' = Returning
    BY <1>4 DEF GetTicket, SendValidate, DoValidate, Live, Returning, Alive, TypeInv, TypeOK
  <2>. QED
    BY <1>1, <2>1 DEF Live, Returning
<1>5. CASE Alive(c) /\ Gone(c)
  <2>1. c \in Live /\ Live' = Live \ {c} /\ Returning' = Returning \ {c}
    BY <1>5 DEF Gone, Live, Returning, Alive, TypeInv, TypeOK
  <2>2. Pool!Die(c)
    BY <1>1, <2>1 DEF Pool!Die, Live, Returning
  <2>. QED
    BY <2>2 DEF Pool!Next
<1>. QED
  BY <1>2, <1>3, <1>4, <1>5 DEF RunSteps, GetTicket, ReleaseTicket, Kill, Alive

\* The assignments of handle_request issue a free slot to a run without one, or
\* take a slot back from a run that returns it or is dead.
LEMMA AnswerImplements == ASSUME TypeInv, PoolInv, Answer PROVE [Pool!Next]_(Pool!poolVars)
<1>. USE ConstantsAssumption DEF Pool!poolVars
<1>. DEFINE x == verdict.slot
<1>1. /\ \/ /\ verdict.type = TICK /\ x \in Slots /\ req.type = "HELO" /\ grantee[x] = NoClient
            /\ grantee' = [grantee EXCEPT ![x] = req.from]
         \/ /\ verdict.type = THNX /\ x \in Slots
            /\ grantee' = [grantee EXCEPT ![x] = NoClient]
         \/ UNCHANGED grantee
      /\ req.from \in Clients /\ 0 \in Places /\ At(0) = req
      /\ srv_pc = "answer"
  BY AnswerEffect DEF Answer, MainRuns
<1>2. UNCHANGED <<pc, crashes>> /\ Live' = Live /\ Returning' = Returning
  BY DEF Answer, kernelVars, Live, Returning, Alive
<1>3. CASE UNCHANGED grantee
  BY <1>2, <1>3 DEF Live, Returning
<1>4. CASE /\ x \in Slots /\ req.type = "HELO" /\ grantee[x] = NoClient
           /\ grantee' = [grantee EXCEPT ![x] = req.from]
  <2>1. \A u \in Slots : grantee[u] # req.from
    BY <1>1, <1>4 DEF PoolInv, HelloFirst, Granted
  <2>2. Pool!Issue(x, req.from)
    BY <1>2, <1>4, <2>1 DEF Pool!Issue, Live, Returning
  <2>. QED
    BY <1>1, <1>4, <2>2 DEF Pool!Next
<1>5. CASE verdict.type = THNX /\ x \in Slots /\ grantee' = [grantee EXCEPT ![x] = NoClient]
  <2>1. CASE grantee[x] = NoClient
    <3>1. grantee' = grantee
      BY <1>5, <2>1 DEF TypeInv, TypeOK
    <3>. QED
      BY <1>3, <3>1
  <2>2. CASE grantee[x] # NoClient
    <3>1. grantee[x] \in Clients
      BY <1>5, <2>2 DEF TypeInv, TypeOK
    <3>2. Alive(grantee[x]) => grantee[x] \in Returning
      BY <1>1, <1>5, <2>2, <3>1, FreedByRight DEF Returning
    <3>3. Pool!Return(x) \/ Pool!Reclaim(x)
      BY <1>2, <1>5, <3>1, <3>2 DEF Pool!Return, Pool!Reclaim, Live, Returning
    <3>. QED
      BY <1>5, <3>3 DEF Pool!Next
  <2>. QED
    BY <2>1, <2>2
<1>. QED
  BY <1>1, <1>3, <1>4, <1>5

\* ticket_reclaim takes a slot back from a dead run only.
LEMMA ReclaimImplements == ASSUME TypeInv, PoolInv, ReclaimSlot PROVE [Pool!Next]_(Pool!poolVars)
<1>. USE DEF clientVars, Pool!poolVars
<1>1. UNCHANGED <<pc, crashes>> /\ Live' = Live /\ Returning' = Returning
  BY DEF ReclaimSlot, Live, Returning, Alive
<1>2. CASE UNCHANGED grantee
  BY <1>1, <1>2 DEF Live, Returning
<1>3. CASE /\ scan \in Slots /\ grantee[scan] \in Clients /\ ~Alive(grantee[scan])
           /\ grantee' = [grantee EXCEPT ![scan] = NoClient]
  <2>1. Pool!Reclaim(scan)
    BY <1>1, <1>3 DEF Pool!Reclaim, Live, Returning
  <2>. QED
    BY <1>3, <2>1 DEF Pool!Next
<1>. QED
  BY <1>2, <1>3, ReclaimedByRight

\* The server of lserv2.c keeps the promise of TicketPool: neither a late GBYE of
\* a process whose pid is used again nor ticket_reclaim, which runs between any
\* two steps of main, takes a slot from a run that lives and has not asked, and
\* no slot is issued twice; also when alarm(0) came too late.
THEOREM KeepsPromise == Spec => PoolSpec
<1>1. Init => Pool!Init
  BY DEF Init, Pool!Init, Alive
<1>2. TypeInv /\ PoolInv /\ [Next]_vars => [Pool!Next]_(Pool!poolVars)
  <2>. SUFFICES ASSUME TypeInv, PoolInv, [Next]_vars PROVE [Pool!Next]_(Pool!poolVars)
    OBVIOUS
  <2>1. CASE ServerCrash
    <3>1. Live' = Live /\ Returning' = Returning
      BY <2>1 DEF ServerCrash, clientVars, Live, Returning, Alive
    <3>2. Pool!Reset
      BY <2>1, <3>1 DEF ServerCrash, Pool!Reset, Live, Returning
    <3>. QED
      BY <3>2 DEF Pool!Next
  <2>2. ASSUME UNCHANGED <<grantee, pc, crashes>> PROVE [Pool!Next]_(Pool!poolVars)
    BY <2>2 DEF Pool!poolVars, Alive
  <2>3. CASE Receive \/ StopAlarm \/ Lookup \/ RestartAlarm
    <3>1. UNCHANGED <<grantee, pc, crashes>>
      BY <2>3 DEF Receive, StopAlarm, Lookup, RestartAlarm, clientVars, kernelVars
    <3>. QED
      BY <2>2, <3>1
  <2>4. CASE AlarmExpires \/ EnterHandler \/ ServerStart \/ UNCHANGED vars
    <3>1. UNCHANGED <<grantee, pc, crashes>>
      BY <2>4 DEF AlarmExpires, EnterHandler, ServerStart, vars, clientVars, kernelVars, serverVars
    <3>. QED
      BY <2>2, <3>1
  <2>. QED
    BY <2>1, <2>3, <2>4, RunImplements, AnswerImplements, ReclaimImplements DEF Next, Main, Handler
<1>. QED
  BY <1>1, <1>2, TypeCorrect, PoolCorrect, PTL DEF Spec, PoolSpec, Pool!Spec

\* The license is kept: every run that works has a slot with its own pid, and so
\* never more than MAXUSERS do (but for the runs a crashed server has forgotten).
THEOREM LicenseSafe == Spec => []LicenseKept
<1>1. TypeInv /\ PoolInv => LicenseKept
  <2>. SUFFICES ASSUME TypeInv, PoolInv PROVE LicenseKept
    OBVIOUS
  <2>. DEFINE working == {c \in Clients \ orphaned : Licensed(c)}
              slotOf == [c \in working |-> ticket[c][2]]
  <2>1. ASSUME NEW c \in working PROVE ticket[c][2] \in Slots /\ grantee[ticket[c][2]] = c /\ Alive(c)
    BY DEF TypeInv, TicketInHand, PoolInv, SlotsKept, Licensed, Alive
  <2>2. ASSUME NEW c \in working PROVE HoldsItsSlot(c)
    <3>1. ticket[c][1] = pid[c]
      BY <2>1 DEF PoolInv, OwnPid, HasTicket
    <3>2. ticket_array[ticket[c][2]] = pid[c]
      <4>1. c # NoClient
        BY ConstantsAssumption
      <4>. QED
        BY <2>1, <4>1 DEF PoolInv, TableOfRuns
    <3>. QED
      BY <3>1, <3>2 DEF HoldsItsSlot, OnRecord
  <2>3. slotOf \in Injection(working, Slots)
    BY <2>1 DEF Injection, IsInjective
  <2>4. Cardinality(working) <= MAXUSERS
    BY <2>3, SlotsFinite, FS_Injection
  <2>. QED
    BY <2>2, <2>4 DEF LicenseKept
<1>. QED
  BY <1>1, TypeCorrect, PoolCorrect, PTL
=============================================================================
