------------------------- MODULE LicenseServ1Proofs -------------------------
(***************************************************************************)
(* The license server without a timer keeps the promise of TicketPool, for *)
(* every number of runs, pids, tickets, queue places and crashes.          *)
(***************************************************************************)
EXTENDS LicenseServ1, FiniteSetTheorems, SequenceTheorems, TLAPS

TakenIn(table) == {s \in Slots : table[s] # TICKET_AVAIL}
Table == [Slots -> Pids \union {TICKET_AVAIL}]

\* The table is never wrong about the number of tickets that are out.
Count == num_tickets_out = Cardinality(TakenIn(ticket_array))

\* A run that has its ticket knows which.
TicketInHand == \A c \in Clients : pc[c] \in {"work", "wait_goodbye"} => ticket[c] \in Pids \X Slots

\* A live run has a pid.
PidOfLive == \A c \in Clients : Alive(c) => pid[c] \in Pids

TypeInv == TypeOK /\ Count /\ TicketInHand /\ PidOfLive
-----------------------------------------------------------------------------
\* The table (lserv1.c) has MAXUSERS slots.
LEMMA SlotsFinite == IsFiniteSet(Slots) /\ Cardinality(Slots) = MAXUSERS
  BY LicenseServ1Assumption, FS_Interval DEF Slots

\* do_hello takes a free slot: one more is out, and there was room for it.
LEMMA TakeSlot ==
  ASSUME NEW table \in Table, NEW x \in Slots, NEW p \in Pids, table[x] = TICKET_AVAIL
  PROVE  /\ Cardinality(TakenIn([table EXCEPT ![x] = p])) = Cardinality(TakenIn(table)) + 1
         /\ Cardinality(TakenIn(table)) \in 0 .. (MAXUSERS - 1)
<1>1. IsFiniteSet(TakenIn(table)) /\ TakenIn(table) \subseteq Slots \ {x}
  BY SlotsFinite, FS_Subset DEF TakenIn
<1>2. TakenIn([table EXCEPT ![x] = p]) = TakenIn(table) \union {x} /\ x \notin TakenIn(table)
  BY LicenseServ1Assumption DEF TakenIn, Table
<1>3. Cardinality(TakenIn(table)) <= Cardinality(Slots \ {x})
  BY <1>1, SlotsFinite, FS_Subset, FS_RemoveElement
<1>4. Cardinality(Slots \ {x}) = MAXUSERS - 1
  BY SlotsFinite, FS_RemoveElement
<1>5. Cardinality(TakenIn(table)) \in Nat
  BY <1>1, FS_CardinalityType
<1>6. MAXUSERS \in Nat
  BY LicenseServ1Assumption
<1>7. Cardinality(TakenIn([table EXCEPT ![x] = p])) = Cardinality(TakenIn(table)) + 1
  BY <1>1, <1>2, FS_AddElement
<1>. QED
  BY <1>3, <1>4, <1>5, <1>6, <1>7

\* do_goodbye frees a slot that is taken: one less is out.
LEMMA FreeSlot ==
  ASSUME NEW table \in Table, NEW x \in Slots, table[x] # TICKET_AVAIL
  PROVE  /\ Cardinality(TakenIn([table EXCEPT ![x] = TICKET_AVAIL])) = Cardinality(TakenIn(table)) - 1
         /\ Cardinality(TakenIn(table)) \in 1 .. MAXUSERS
<1>1. IsFiniteSet(TakenIn(table)) /\ TakenIn(table) \subseteq Slots /\ x \in TakenIn(table)
  BY SlotsFinite, FS_Subset DEF TakenIn
<1>2. TakenIn([table EXCEPT ![x] = TICKET_AVAIL]) = TakenIn(table) \ {x}
  BY DEF TakenIn, Table
<1>3. Cardinality(TakenIn(table)) <= MAXUSERS
  BY <1>1, SlotsFinite, FS_Subset
<1>4. Cardinality(TakenIn(table)) \in Nat
  BY <1>1, FS_CardinalityType
<1>5. MAXUSERS \in Nat
  BY LicenseServ1Assumption
<1>6. Cardinality(TakenIn([table EXCEPT ![x] = TICKET_AVAIL])) = Cardinality(TakenIn(table)) - 1
  BY <1>1, <1>2, FS_RemoveElement
<1>7. Cardinality(TakenIn(table)) # 0
  BY <1>1, FS_EmptySet
<1>. QED
  BY <1>3, <1>4, <1>5, <1>6, <1>7

\* With every slot taken all tickets are out; setup leaves none taken.
LEMMA FullAndEmpty ==
  /\ \A table : TakenIn(table) = Slots => Cardinality(TakenIn(table)) = MAXUSERS
  /\ Cardinality(TakenIn([s \in Slots |-> TICKET_AVAIL])) = 0
<1>1. TakenIn([s \in Slots |-> TICKET_AVAIL]) = {}
  BY DEF TakenIn
<1>. QED
  BY <1>1, SlotsFinite, FS_EmptySet

\* A datagram a run sends is appended, or lost.
LEMMA Sent ==
  ASSUME srv_queue \in Seq(Requests), NEW m \in Requests, Send(m)
  PROVE  /\ srv_queue' \in Seq(Requests)
         /\ \/ srv_queue' = srv_queue
            \/ /\ up
               /\ Len(srv_queue') = Len(srv_queue) + 1
               /\ \A i \in 1 .. Len(srv_queue) : srv_queue'[i] = srv_queue[i]
               /\ srv_queue'[Len(srv_queue) + 1] = m
  BY DEF Send

\* The server takes the oldest datagram; the others move up.
LEMMA Taken ==
  ASSUME srv_queue \in Seq(Requests), srv_queue # <<>>, srv_queue' = Tail(srv_queue)
  PROVE  /\ srv_queue' \in Seq(Requests)
         /\ Head(srv_queue) \in Requests /\ Head(srv_queue) = srv_queue[1]
         /\ Len(srv_queue) \in Nat \ {0}
         /\ Len(srv_queue') = Len(srv_queue) - 1
         /\ \A i \in 1 .. Len(srv_queue') : srv_queue'[i] = srv_queue[i + 1]
  OBVIOUS
-----------------------------------------------------------------------------
\* What handle_request keeps of the types.
LEMMA HandleKeepsTypes == ASSUME TypeInv, HandleRequest PROVE TypeInv'
<1>. USE LicenseServ1Assumption
<1>. DEFINE m == Head(srv_queue)
<1>1. /\ srv_queue' \in Seq(Requests) /\ m \in Requests
      /\ UNCHANGED <<up, crashes, pc, pid, ticket>>
  BY Taken DEF HandleRequest, TypeInv, TypeOK, runVars
<1>2. m.from \in Clients /\ m.ticket[1] \in Pids
  BY <1>1 DEF Requests
<1>3. ticket_array \in Table /\ num_tickets_out = Cardinality(TakenIn(ticket_array))
  BY DEF TypeInv, TypeOK, Count, Table
<1>4. ASSUME NEW reason \in Failures, Refuse(m, reason) PROVE TypeInv'
  <2>1. inbox' \in [Clients -> Replies \union {NoReply}]
    BY <1>2, <1>4 DEF Refuse, Reply, TypeInv, TypeOK, Replies
  <2>. QED
    BY <1>1, <1>4, <2>1 DEF Refuse, tableVars, TypeInv, TypeOK, Count, TicketInHand, PidOfLive, Alive
<1>5. CASE m.type = "HELO" /\ DoHello(m)
  <2>1. CASE num_tickets_out >= MAXUSERS /\ Refuse(m, "FAIL,no tickets available")
    BY <1>4, <2>1 DEF Failures
  <2>2. CASE num_tickets_out < MAXUSERS /\ \A x \in Slots : ticket_array[x] # TICKET_AVAIL
    <3>1. TakenIn(ticket_array) = Slots
      BY <2>2 DEF TakenIn
    <3>. QED
      BY <1>3, <2>2, <3>1, FullAndEmpty
  <2>3. ASSUME NEW x \in Slots,
               FirstFree(x),
               ticket_array' = [ticket_array EXCEPT ![x] = m.ticket[1]],
               grantee' = [grantee EXCEPT ![x] = m.from],
               Reply(m.from, [type |-> "TICK", ticket |-> <<m.ticket[1], x>>]),
               num_tickets_out' = num_tickets_out + 1
        PROVE  TypeInv'
    <3>1. [type |-> "TICK", ticket |-> <<m.ticket[1], x>>] \in Replies
      BY <1>2 DEF Replies
    <3>2. inbox' \in [Clients -> Replies \union {NoReply}]
      BY <1>2, <2>3, <3>1 DEF Reply, TypeInv, TypeOK
    <3>3. /\ num_tickets_out' = Cardinality(TakenIn(ticket_array'))
          /\ num_tickets_out' \in 0 .. MAXUSERS
      <4>1. ticket_array[x] = TICKET_AVAIL
        BY <2>3 DEF FirstFree
      <4>. QED
        <5>1. num_tickets_out \in 0 .. (MAXUSERS - 1) /\ MAXUSERS \in Nat
          BY <1>2, <1>3, <4>1, TakeSlot
        <5>2. num_tickets_out' = Cardinality(TakenIn(ticket_array'))
          BY <1>2, <1>3, <2>3, <4>1, TakeSlot
        <5>. QED
          BY <2>3, <5>1, <5>2
    <3>4. /\ ticket_array' \in [Slots -> Pids \union {TICKET_AVAIL}]
          /\ grantee' \in [Slots -> Clients \union {NoClient}]
      BY <1>2, <2>3 DEF TypeInv, TypeOK
    <3>. QED
      BY <1>1, <3>2, <3>3, <3>4 DEF TypeInv, TypeOK, Count, TicketInHand, PidOfLive, Alive
  <2>. QED
    BY <1>5, <2>1, <2>2, <2>3 DEF DoHello
<1>6. CASE m.type = "GBYE" /\ DoGoodbye(m)
  <2>. DEFINE slot == m.ticket[2]
  <2>1. slot \in Slots /\ m.ticket \in Pids \X Slots
    BY <1>1, <1>6 DEF Requests
  <2>2. CASE ticket_array[slot] # m.ticket[1]
    BY <1>4, <1>6, <2>2 DEF DoGoodbye, Failures
  <2>3. CASE ticket_array[slot] = m.ticket[1]
    <3>1. /\ ticket_array' = [ticket_array EXCEPT ![slot] = TICKET_AVAIL]
          /\ grantee' = [grantee EXCEPT ![slot] = NoClient]
          /\ num_tickets_out' = num_tickets_out - 1
          /\ Reply(m.from, [type |-> "THNX", ticket |-> m.ticket])
      BY <1>6, <2>3 DEF DoGoodbye
    <3>2. [type |-> "THNX", ticket |-> m.ticket] \in Replies
      BY <2>1 DEF Replies
    <3>3. inbox' \in [Clients -> Replies \union {NoReply}]
      BY <1>2, <3>1, <3>2 DEF Reply, TypeInv, TypeOK
    <3>4. /\ num_tickets_out' = Cardinality(TakenIn(ticket_array'))
          /\ num_tickets_out' \in 0 .. MAXUSERS
      <4>1. ticket_array[slot] # TICKET_AVAIL
        BY <1>2, <2>3
      <4>. QED
        <5>1. num_tickets_out \in 1 .. MAXUSERS /\ MAXUSERS \in Nat
          BY <1>3, <2>1, <4>1, FreeSlot
        <5>2. num_tickets_out' = Cardinality(TakenIn(ticket_array'))
          BY <1>3, <2>1, <3>1, <4>1, FreeSlot
        <5>. QED
          BY <3>1, <5>1, <5>2
    <3>5. /\ ticket_array' \in [Slots -> Pids \union {TICKET_AVAIL}]
          /\ grantee' \in [Slots -> Clients \union {NoClient}]
      BY <2>1, <3>1 DEF TypeInv, TypeOK
    <3>. QED
      BY <1>1, <3>3, <3>4, <3>5 DEF TypeInv, TypeOK, Count, TicketInHand, PidOfLive, Alive
  <2>. QED
    BY <2>2, <2>3
<1>. QED
  BY <1>5, <1>6 DEF HandleRequest

\* What the steps of a run keep of the types.
LEMMA RunKeepsTypes == ASSUME TypeInv, NEW c \in Clients, RunSteps(c) PROVE TypeInv'
<1>. USE LicenseServ1Assumption DEF serverVars, tableVars
<1>1. CASE Start(c)
  <2>1. PICK p \in Pids \ PidsInUse :
          /\ pid' = [pid EXCEPT ![c] = p]
          /\ Send([type |-> "HELO", from |-> c, ticket |-> <<p, MAXUSERS>>])
    BY <1>1 DEF Start
  <2>2. [type |-> "HELO", from |-> c, ticket |-> <<p, MAXUSERS>>] \in Requests
    BY DEF Requests
  <2>3. srv_queue' \in Seq(Requests)
    BY <2>1, <2>2, Sent DEF TypeInv, TypeOK
  <2>4. TypeOK'
    BY <1>1, <2>1, <2>3 DEF Start, TypeInv, TypeOK
  <2>5. TicketInHand' /\ PidOfLive' /\ Count'
    BY <1>1, <2>1 DEF Start, TypeInv, TypeOK, Count, TicketInHand, PidOfLive, Alive
  <2>. QED
    BY <2>4, <2>5 DEF TypeInv
<1>2. CASE GetTicket(c) /\ inbox[c].type = "TICK"
  <2>1. /\ ticket' = [ticket EXCEPT ![c] = inbox[c].ticket]
        /\ pc' = [pc EXCEPT ![c] = "work"]
        /\ inbox' = [inbox EXCEPT ![c] = NoReply]
        /\ UNCHANGED <<pid, serverVars, srv_queue>>
        /\ pc[c] = "wait_hello"
    BY <1>2 DEF GetTicket
  <2>2. inbox[c].ticket \in Pids \X Slots
    <3>1. inbox[c] \in Replies \union {NoReply} /\ inbox[c] # NoReply
      BY <1>2 DEF GetTicket, TypeInv, TypeOK
    <3>2. \A reason \in Failures : Fail(reason).type # "TICK"
      BY DEF Fail, Failures
    <3>. QED
      BY <1>2, <3>1, <3>2 DEF Replies
  <2>3. TypeOK'
    BY <2>1, <2>2 DEF TypeInv, TypeOK
  <2>4. TicketInHand' /\ PidOfLive' /\ Count'
    BY <2>1, <2>2 DEF TypeInv, TypeOK, Count, TicketInHand, PidOfLive, Alive
  <2>. QED
    BY <2>3, <2>4 DEF TypeInv
<1>3. CASE SendGoodbye(c)
  <2>1. [type |-> "GBYE", from |-> c, ticket |-> ticket[c]] \in Requests
    BY <1>3 DEF SendGoodbye, TypeInv, TicketInHand, Requests
  <2>2. srv_queue' \in Seq(Requests)
    BY <1>3, <2>1, Sent DEF SendGoodbye, TypeInv, TypeOK
  <2>3. TypeOK'
    BY <1>3, <2>2 DEF SendGoodbye, TypeInv, TypeOK
  <2>4. TicketInHand' /\ PidOfLive' /\ Count'
    BY <1>3 DEF SendGoodbye, TypeInv, TypeOK, Count, TicketInHand, PidOfLive, Alive
  <2>. QED
    BY <2>3, <2>4 DEF TypeInv
<1>4. CASE Gone(c) /\ UNCHANGED <<serverVars, srv_queue>>
  <2>1. TypeOK'
    BY <1>4 DEF Gone, TypeInv, TypeOK
  <2>2. TicketInHand' /\ PidOfLive' /\ Count'
    BY <1>4 DEF Gone, TypeInv, TypeOK, Count, TicketInHand, PidOfLive, Alive
  <2>. QED
    BY <2>1, <2>2 DEF TypeInv
<1>. QED
  BY <1>1, <1>2, <1>3, <1>4 DEF RunSteps, GetTicket, ReleaseTicket, Kill

\* Every value the server and the runs use is one the code can give them, the
\* number of tickets that are out is the number of taken slots (lserv1.c: the
\* count and the table change together), and "database corrupt" is never sent.
THEOREM TypeCorrect == Spec => []TypeInv
<1>1. Init => TypeInv
  <2>. SUFFICES ASSUME Init PROVE TypeInv
    OBVIOUS
  <2>1. TypeOK
    <3>1. up \in BOOLEAN
      BY Zenon DEF Init
    <3>. QED
      BY <3>1, LicenseServ1Assumption DEF Init, TypeOK
  <2>2. TicketInHand /\ PidOfLive /\ Count
    BY FullAndEmpty DEF Init, TicketInHand, PidOfLive, Count, Alive
  <2>. QED
    BY <2>1, <2>2 DEF TypeInv
<1>2. TypeInv /\ [Next]_vars => TypeInv'
  <2>. SUFFICES ASSUME TypeInv, [Next]_vars PROVE TypeInv'
    OBVIOUS
  <2>1. CASE ServerCrash
    <3>0. up' \in BOOLEAN
      BY <2>1, Zenon DEF ServerCrash
    <3>1. srv_queue' \in Seq(Requests) /\ crashes' \in Nat
      BY <2>1 DEF ServerCrash, TypeInv, TypeOK
    <3>2. grantee' \in [Slots -> Clients \union {NoClient}]
      BY <2>1 DEF ServerCrash
    <3>3. TypeOK'
      BY <2>1, <3>0, <3>1, <3>2 DEF ServerCrash, runVars, TypeInv, TypeOK
    <3>. QED
      BY <2>1, <3>3 DEF ServerCrash, runVars, TypeInv, Count, TicketInHand, PidOfLive, Alive
  <2>2. CASE ServerStart
    BY <2>2, LicenseServ1Assumption, FullAndEmpty
       DEF ServerStart, runVars, TypeInv, TypeOK, Count, TicketInHand, PidOfLive, Alive
  <2>3. CASE UNCHANGED vars
    BY <2>3 DEF vars, serverVars, tableVars, runVars, TypeInv, TypeOK, Count, TicketInHand, PidOfLive, Alive
  <2>. QED
    BY <2>1, <2>2, <2>3, RunKeepsTypes, HandleKeepsTypes DEF Next
<1>. QED
  BY <1>1, <1>2, PTL DEF Spec

\* Type correctness as TLC checks it.
THEOREM TypeSafe == Spec => []TypeOK
<1>1. TypeInv => TypeOK
  BY DEF TypeInv
<1>. QED
  BY <1>1, TypeCorrect, PTL
-----------------------------------------------------------------------------
Queued == 1 .. Len(srv_queue)
Granted(c) == \E s \in Slots : grantee[s] = c

\* A run that has not started has sent and got nothing.
Unheard ==
  \A c \in Clients : pc[c] = "new" =>
    /\ ~Granted(c)
    /\ inbox[c] = NoReply
    /\ \A i \in Queued : srv_queue[i].from # c

\* No two live processes have the same pid.
PidsDiffer == \A c, d \in Clients : Alive(c) /\ Alive(d) /\ pid[c] = pid[d] => c = d

\* The ticket of a live run, in its hands or on its way, has its pid.
OwnPid ==
  \A c \in Clients : Alive(c) =>
    /\ inbox[c].type = "TICK" => inbox[c].ticket[1] = pid[c]
    /\ pc[c] \in {"work", "wait_goodbye"} => ticket[c][1] = pid[c]
    /\ \A i \in Queued : srv_queue[i].from = c => srv_queue[i].ticket[1] = pid[c]

\* The run whose HELO is queued has sent nothing else, has no ticket, and waits
\* or is dead.
HelloFirst ==
  \A i \in Queued : srv_queue[i].type = "HELO" =>
    /\ pc[srv_queue[i].from] \in {"wait_hello", "exit"}
    /\ inbox[srv_queue[i].from] = NoReply
    /\ ~Granted(srv_queue[i].from)
    /\ \A j \in Queued : srv_queue[j].from = srv_queue[i].from => j = i

\* When another live run has the pid in a GBYE, it started after the run that
\* sent it had died: its own HELO stands behind, and it has no ticket yet.
LateGoodbye ==
  \A i \in Queued : srv_queue[i].type = "GBYE" =>
    /\ pc[srv_queue[i].from] \in {"wait_goodbye", "exit"}
    /\ \A d \in Clients : Alive(d) /\ pid[d] = srv_queue[i].ticket[1] /\ d # srv_queue[i].from =>
         ~Granted(d) /\ \A j \in 1 .. (i - 1) : srv_queue[j].from # d

\* The table and who the slots were issued to: a slot holds the pid of its run
\* as long as that lives.
TableOfRuns ==
  /\ up => \A s \in Slots : ticket_array[s] = TICKET_AVAIL <=> grantee[s] = NoClient
  /\ ~up => srv_queue = <<>> /\ \A s \in Slots : grantee[s] = NoClient
  /\ \A s \in Slots : grantee[s] # NoClient /\ Alive(grantee[s]) => ticket_array[s] = pid[grantee[s]]

PoolInv == Unheard /\ PidsDiffer /\ OwnPid /\ HelloFirst /\ LateGoodbye /\ TableOfRuns
-----------------------------------------------------------------------------
\* A run starts: nobody has heard of it.
LEMMA StartKeeps == ASSUME TypeInv, PoolInv, NEW c \in Clients, Start(c) PROVE PoolInv'
<1>. USE DEF PoolInv, serverVars, tableVars
<1>1. PICK p \in Pids \ PidsInUse :
        /\ pid' = [pid EXCEPT ![c] = p]
        /\ Send([type |-> "HELO", from |-> c, ticket |-> <<p, MAXUSERS>>])
  BY DEF Start
<1>. DEFINE m == [type |-> "HELO", from |-> c, ticket |-> <<p, MAXUSERS>>]
            n == Len(srv_queue)
<1>2. m \in Requests
  BY DEF Requests
<1>3. /\ srv_queue' \in Seq(Requests) /\ srv_queue \in Seq(Requests) /\ n \in Nat
      /\ \/ srv_queue' = srv_queue
         \/ /\ up /\ Len(srv_queue') = n + 1
            /\ \A i \in 1 .. n : srv_queue'[i] = srv_queue[i]
            /\ srv_queue'[n + 1] = m
  BY <1>1, <1>2, Sent DEF TypeInv, TypeOK
<1>. HIDE DEF n
<1>4. /\ m.from = c /\ m.type = "HELO" /\ m.ticket[1] = p
      /\ pc[c] = "new" /\ pc' = [pc EXCEPT ![c] = "wait_hello"]
      /\ UNCHANGED <<up, ticket_array, grantee, ticket, inbox>>
  BY DEF Start
<1>. HIDE DEF m
<1>5. /\ pc \in [Clients -> {"new", "wait_hello", "work", "wait_goodbye", "exit"}]
      /\ pid \in [Clients -> Pids \union {TICKET_AVAIL}]
      /\ \A i \in 1 .. n : srv_queue[i] \in Requests
  BY <1>3, ElementOfSeq DEF TypeInv, TypeOK, n
<1>6. \A i \in 1 .. n : srv_queue[i].from \in Clients
  BY <1>5 DEF Requests
<1>7. /\ \A d \in Clients : d # c => pid'[d] = pid[d] /\ pc'[d] = pc[d] /\ (Alive(d)' <=> Alive(d))
      /\ pid'[c] = p /\ pc'[c] = "wait_hello" /\ Alive(c)' /\ ~Alive(c)
      /\ \A d \in Clients : Alive(d) => pid[d] # p
      /\ \A d : Granted(d)' <=> Granted(d)
      /\ ~Granted(c) /\ inbox[c] = NoReply
      /\ \A i \in 1 .. n : srv_queue[i].from # c
  BY <1>1, <1>4, <1>5 DEF Alive, PidsInUse, Granted, Unheard, Queued, n
<1>8. /\ \A i \in Queued : srv_queue'[i] = srv_queue[i]
      /\ \A i \in Queued' : i \in Queued \/ (i = n + 1 /\ srv_queue'[i] = m)
      /\ \A i \in Queued : \A j \in 1 .. (i - 1) : j \in Queued
      /\ n + 1 \notin Queued
      /\ \A i \in Queued : srv_queue[i].from \in Clients
      /\ \A i \in Queued : srv_queue[i].from # c
  <2>1. Queued = 1 .. n /\ Queued' = 1 .. Len(srv_queue')
    BY DEF Queued, n
  <2>2. Queued' = Queued \/ (Queued' = 1 .. (n + 1) /\ srv_queue'[n + 1] = m)
    <3>1. CASE srv_queue' = srv_queue
      BY <3>1 DEF Queued
    <3>2. CASE Len(srv_queue') = n + 1 /\ srv_queue'[n + 1] = m
      BY <2>1, <3>2
    <3>. QED
      BY <1>3, <3>1, <3>2
  <2>. QED
    BY <1>3, <1>6, <1>7, <2>1, <2>2
<1>9. NoReply.type # "TICK"
  BY DEF NoReply
<1>10. Unheard' /\ PidsDiffer'
  BY <1>4, <1>7, <1>8 DEF Unheard, PidsDiffer
<1>11. OwnPid'
  BY <1>4, <1>7, <1>8, <1>9 DEF OwnPid
<1>12. HelloFirst'
  BY <1>4, <1>7, <1>8 DEF HelloFirst
<1>13. LateGoodbye'
  BY <1>4, <1>7, <1>8 DEF LateGoodbye
<1>14. TableOfRuns'
  <2>1. \A s \in Slots : grantee[s] # c /\ grantee[s] \in Clients \union {NoClient}
    BY <1>7 DEF Granted, TypeInv, TypeOK
  <2>2. ~up => srv_queue' = srv_queue
    BY <1>3
  <2>. QED
    BY <1>4, <1>7, <2>1, <2>2 DEF TableOfRuns
<1>. QED
  BY <1>10, <1>11, <1>12, <1>13, <1>14

\* The reply to HELO arrives, so that it is not queued any more.
LEMMA GetTicketKeeps ==
  ASSUME TypeInv, PoolInv, NEW c \in Clients, GetTicket(c), inbox[c].type = "TICK"
  PROVE  PoolInv'
<1>. USE DEF PoolInv, serverVars, tableVars
<1>1. /\ ticket' = [ticket EXCEPT ![c] = inbox[c].ticket]
      /\ pc[c] = "wait_hello" /\ pc' = [pc EXCEPT ![c] = "work"]
      /\ inbox[c] # NoReply /\ inbox' = [inbox EXCEPT ![c] = NoReply]
      /\ UNCHANGED <<pid, up, ticket_array, grantee, srv_queue>>
  BY DEF GetTicket
<1>2. /\ \A d \in Clients : d # c => pc'[d] = pc[d] /\ inbox'[d] = inbox[d] /\ ticket'[d] = ticket[d]
      /\ \A d : Granted(d)' <=> Granted(d)
      /\ \A d \in Clients : Alive(d)' <=> Alive(d)
      /\ pc'[c] = "work" /\ inbox'[c] = NoReply /\ ticket'[c] = inbox[c].ticket /\ Alive(c)
      /\ NoReply.type # "TICK"
      /\ Queued' = Queued
  BY <1>1 DEF Alive, Granted, TypeInv, TypeOK, Queued, NoReply
<1>3. \A i \in Queued : srv_queue[i].from \in Clients
  BY ElementOfSeq DEF TypeInv, TypeOK, Queued, Requests
<1>4. Unheard' /\ PidsDiffer' /\ OwnPid'
  BY <1>1, <1>2 DEF Unheard, PidsDiffer, OwnPid
<1>5. HelloFirst'
  BY <1>1, <1>2, <1>3 DEF HelloFirst
<1>6. LateGoodbye'
  BY <1>1, <1>2, <1>3 DEF LateGoodbye
<1>7. TableOfRuns'
  BY <1>1, <1>2 DEF TableOfRuns, TypeInv, TypeOK
<1>. QED
  BY <1>4, <1>5, <1>6, <1>7

\* A run gives its ticket back: no other live run has its pid.
LEMMA SendGoodbyeKeeps == ASSUME TypeInv, PoolInv, NEW c \in Clients, SendGoodbye(c) PROVE PoolInv'
<1>. USE DEF PoolInv, serverVars, tableVars
<1>. DEFINE m == [type |-> "GBYE", from |-> c, ticket |-> ticket[c]]
            n == Len(srv_queue)
<1>1. m \in Requests
  BY DEF SendGoodbye, Requests, TypeInv, TicketInHand
<1>2. /\ srv_queue' \in Seq(Requests) /\ srv_queue \in Seq(Requests) /\ n \in Nat
      /\ \/ srv_queue' = srv_queue
         \/ /\ up /\ Len(srv_queue') = n + 1
            /\ \A i \in 1 .. n : srv_queue'[i] = srv_queue[i]
            /\ srv_queue'[n + 1] = m
  BY <1>1, Sent DEF SendGoodbye, TypeInv, TypeOK
<1>. HIDE DEF n
<1>3. /\ m.from = c /\ m.type = "GBYE" /\ m.ticket = ticket[c]
      /\ pc[c] = "work" /\ pc' = [pc EXCEPT ![c] = "wait_goodbye"]
      /\ UNCHANGED <<pid, up, ticket_array, grantee, ticket, inbox>>
  BY DEF SendGoodbye
<1>. HIDE DEF m
<1>4. \A i \in 1 .. n : srv_queue[i] \in Requests
  BY <1>2, ElementOfSeq DEF n
<1>5. \A i \in 1 .. n : srv_queue[i].from \in Clients
  BY <1>4 DEF Requests
<1>6. /\ \A d \in Clients : d # c => pc'[d] = pc[d]
      /\ \A d : Granted(d)' <=> Granted(d)
      /\ \A d \in Clients : Alive(d)' <=> Alive(d)
      /\ pc'[c] = "wait_goodbye" /\ Alive(c)
      /\ m.ticket[1] = pid[c]
  BY <1>3 DEF Alive, Granted, TypeInv, TypeOK, OwnPid
<1>7. /\ \A i \in Queued : srv_queue'[i] = srv_queue[i]
      /\ \A i \in Queued' : i \in Queued \/ (i = n + 1 /\ srv_queue'[i] = m)
      /\ \A i \in Queued : \A j \in 1 .. (i - 1) : j \in Queued
      /\ n + 1 \notin Queued
      /\ \A i \in Queued : srv_queue[i].from \in Clients
  <2>1. Queued = 1 .. n /\ Queued' = 1 .. Len(srv_queue')
    BY DEF Queued, n
  <2>2. Queued' = Queued \/ (Queued' = 1 .. (n + 1) /\ srv_queue'[n + 1] = m)
    <3>1. CASE srv_queue' = srv_queue
      BY <3>1 DEF Queued
    <3>2. CASE Len(srv_queue') = n + 1 /\ srv_queue'[n + 1] = m
      BY <2>1, <3>2
    <3>. QED
      BY <1>2, <3>1, <3>2
  <2>. QED
    BY <1>2, <1>5, <2>1, <2>2
<1>8. \A i \in Queued : srv_queue[i].type = "HELO" => srv_queue[i].from # c
  BY <1>3 DEF HelloFirst
<1>9. Unheard' /\ PidsDiffer'
  BY <1>3, <1>6, <1>7 DEF Unheard, PidsDiffer
<1>10. OwnPid'
  BY <1>3, <1>6, <1>7 DEF OwnPid
<1>11. HelloFirst'
  BY <1>3, <1>6, <1>7, <1>8 DEF HelloFirst
<1>12. LateGoodbye'
  <2>1. \A d \in Clients : Alive(d) /\ pid[d] = m.ticket[1] => d = c
    BY <1>6 DEF PidsDiffer
  <2>. QED
    BY <1>3, <1>6, <1>7, <2>1 DEF LateGoodbye
<1>13. TableOfRuns'
  <2>1. ~up => srv_queue' = srv_queue
    BY <1>2
  <2>. QED
    BY <1>3, <1>6, <2>1 DEF TableOfRuns, TypeInv, TypeOK
<1>. QED
  BY <1>9, <1>10, <1>11, <1>12, <1>13

\* A run dies, whatever it has sent.
LEMMA GoneKeeps ==
  ASSUME TypeInv, PoolInv, NEW c \in Clients, Alive(c), Gone(c), UNCHANGED <<serverVars, srv_queue>>
  PROVE  PoolInv'
<1>. USE DEF PoolInv, serverVars, tableVars
<1>1. /\ \A d \in Clients : d # c => pc'[d] = pc[d] /\ pid'[d] = pid[d] /\ ticket'[d] = ticket[d]
                                     /\ inbox'[d] = inbox[d] /\ (Alive(d)' <=> Alive(d))
      /\ pc'[c] = "exit" /\ inbox'[c] = NoReply /\ ~Alive(c)'
      /\ UNCHANGED <<up, ticket_array, grantee, srv_queue>>
      /\ \A d : Granted(d)' <=> Granted(d)
      /\ Queued' = Queued
  BY DEF Gone, Alive, Granted, Queued, TypeInv, TypeOK
<1>2. \A i \in Queued : srv_queue[i].from \in Clients
  BY ElementOfSeq DEF TypeInv, TypeOK, Queued, Requests
<1>3. Unheard' /\ PidsDiffer' /\ OwnPid'
  BY <1>1 DEF Unheard, PidsDiffer, OwnPid
<1>4. HelloFirst'
  BY <1>1, <1>2 DEF HelloFirst
<1>5. LateGoodbye'
  BY <1>1, <1>2 DEF LateGoodbye
<1>6. TableOfRuns'
  BY <1>1 DEF TableOfRuns, TypeInv, TypeOK
<1>. QED
  BY <1>3, <1>4, <1>5, <1>6

\* A reply reaches the run it is for, if that lives.
LEMMA Replied ==
  ASSUME TypeInv, NEW c \in Clients, NEW r, Reply(c, r)
  PROVE  /\ \A d \in Clients : d # c => inbox'[d] = inbox[d]
         /\ Alive(c) => inbox'[c] = r
         /\ ~Alive(c) => inbox'[c] = inbox[c]
  BY DEF Reply, TypeInv, TypeOK

\* The server takes the oldest datagram: a HELO gives a free slot to a run that
\* has none, a GBYE frees a slot.
LEMMA HandleKeeps == ASSUME TypeInv, PoolInv, HandleRequest PROVE PoolInv'
<1>. USE LicenseServ1Assumption DEF PoolInv, tableVars, runVars
<1>. DEFINE m == Head(srv_queue)
<1>1. /\ srv_queue' \in Seq(Requests) /\ m \in Requests /\ m = srv_queue[1]
      /\ Len(srv_queue) \in Nat \ {0}
      /\ Len(srv_queue') = Len(srv_queue) - 1
      /\ \A i \in 1 .. Len(srv_queue') : srv_queue'[i] = srv_queue[i + 1]
  BY Taken DEF HandleRequest, TypeInv, TypeOK
<1>2. /\ up /\ up' = up
      /\ UNCHANGED <<pc, pid, ticket>>
      /\ \/ m.type = "HELO" /\ DoHello(m)
         \/ m.type = "GBYE" /\ DoGoodbye(m)
  BY DEF HandleRequest
<1>. HIDE DEF m
<1>3. m.from \in Clients /\ m.ticket[1] \in Pids
  BY <1>1 DEF Requests
<1>4. /\ 1 \in Queued
      /\ \A i \in Queued' : /\ i + 1 \in Queued /\ srv_queue'[i] = srv_queue[i + 1] /\ i + 1 # 1
                            /\ 1 \in 1 .. ((i + 1) - 1)
      /\ \A i \in Queued' : \A j \in 1 .. (i - 1) :
           j + 1 \in 1 .. ((i + 1) - 1) /\ srv_queue'[j] = srv_queue[j + 1]
      /\ \A i, j \in Queued' : i + 1 = j + 1 => i = j
      /\ \A i \in Queued : srv_queue[i].from \in Clients
  <2>1. \A i \in Queued : srv_queue[i].from \in Clients
    BY ElementOfSeq DEF Queued, Requests, TypeInv, TypeOK
  <2>. QED
    BY <1>1, <2>1 DEF Queued
<1>5. \A d \in Clients : Alive(d)' <=> Alive(d)
  BY <1>2 DEF Alive
<1>6. ASSUME NEW r, Reply(m.from, r),
             r.type = "TICK" => r.ticket[1] = m.ticket[1],
             \A d \in Clients : Granted(d)' => Granted(d) \/ (m.type = "HELO" /\ d = m.from),
             TableOfRuns'
      PROVE  PoolInv'
  <2>1. /\ \A d \in Clients : d # m.from => inbox'[d] = inbox[d]
        /\ Alive(m.from) => inbox'[m.from] = r
        /\ ~Alive(m.from) => inbox'[m.from] = inbox[m.from]
    BY <1>3, <1>6, Replied
  <2>2. Unheard'
    BY <1>1, <1>2, <1>4, <1>6, <2>1 DEF Unheard
  <2>3. PidsDiffer'
    BY <1>2, <1>5 DEF PidsDiffer
  <2>4. OwnPid'
    BY <1>1, <1>2, <1>3, <1>4, <1>5, <1>6, <2>1 DEF OwnPid
  <2>5. HelloFirst'
    <3>. SUFFICES ASSUME NEW i \in Queued', srv_queue'[i].type = "HELO"
                  PROVE  /\ pc'[srv_queue'[i].from] \in {"wait_hello", "exit"}
                         /\ inbox'[srv_queue'[i].from] = NoReply
                         /\ ~Granted(srv_queue[i].from)'
                         /\ \A j \in Queued' : srv_queue'[j].from = srv_queue'[i].from => j = i
      BY DEF HelloFirst
    <3>1. i + 1 \in Queued /\ srv_queue'[i] = srv_queue[i + 1] /\ i + 1 # 1
      BY <1>4
    <3>2. PICK f \in Clients : f = srv_queue[i + 1].from
      BY <1>4, <3>1
    <3>3. /\ pc[f] \in {"wait_hello", "exit"} /\ inbox[f] = NoReply /\ ~Granted(f)
          /\ \A j \in Queued : srv_queue[j].from = f => j = i + 1
      BY <3>1, <3>2 DEF HelloFirst
    <3>4. f # m.from
      BY <1>1, <1>4, <3>1, <3>3
    <3>5. \A j \in Queued' : srv_queue'[j].from = f => j = i
      BY <1>4, <3>3
    <3>. QED
      BY <1>2, <1>6, <2>1, <3>1, <3>2, <3>3, <3>4, <3>5
  <2>6. LateGoodbye'
    <3>. SUFFICES ASSUME NEW i \in Queued', srv_queue'[i].type = "GBYE"
                  PROVE  /\ pc'[srv_queue'[i].from] \in {"wait_goodbye", "exit"}
                         /\ \A d \in Clients :
                              Alive(d)' /\ pid'[d] = srv_queue'[i].ticket[1] /\ d # srv_queue'[i].from =>
                                ~Granted(d)' /\ \A j \in 1 .. (i - 1) : srv_queue'[j].from # d
      BY DEF LateGoodbye
    <3>1. i + 1 \in Queued /\ srv_queue'[i] = srv_queue[i + 1] /\ 1 \in 1 .. ((i + 1) - 1)
      BY <1>4
    <3>2. pc[srv_queue[i + 1].from] \in {"wait_goodbye", "exit"}
      BY <3>1 DEF LateGoodbye
    <3>3. ASSUME NEW d \in Clients, Alive(d), pid[d] = srv_queue[i + 1].ticket[1],
                 d # srv_queue[i + 1].from
          PROVE  ~Granted(d)' /\ \A j \in 1 .. (i - 1) : srv_queue'[j].from # d
      <4>1. ~Granted(d) /\ \A j \in 1 .. ((i + 1) - 1) : srv_queue[j].from # d
        BY <3>1, <3>3 DEF LateGoodbye
      <4>2. d # m.from
        BY <1>1, <3>1, <4>1
      <4>. QED
        BY <1>4, <1>6, <4>1, <4>2
    <3>. QED
      BY <1>2, <1>5, <3>1, <3>2, <3>3
  <2>. QED
    BY <1>6, <2>2, <2>3, <2>4, <2>5, <2>6
<1>7. ASSUME NEW reason \in Failures, Refuse(m, reason) PROVE PoolInv'
  <2>1. Reply(m.from, Fail(reason)) /\ grantee' = grantee /\ ticket_array' = ticket_array
    BY <1>7 DEF Refuse
  <2>2. Fail(reason).type # "TICK"
    BY DEF Fail, Failures
  <2>3. \A d \in Clients : Granted(d)' => Granted(d)
    BY <2>1 DEF Granted
  <2>4. TableOfRuns'
    BY <1>2, <1>5, <2>1 DEF TableOfRuns, TypeInv, TypeOK
  <2>. QED
    BY <1>6, <2>1, <2>2, <2>3, <2>4
<1>8. ASSUME m.type = "HELO", NEW x \in Slots,
             FirstFree(x),
             ticket_array' = [ticket_array EXCEPT ![x] = m.ticket[1]],
             grantee' = [grantee EXCEPT ![x] = m.from],
             Reply(m.from, [type |-> "TICK", ticket |-> <<m.ticket[1], x>>])
      PROVE  PoolInv'
  <2>1. \A d \in Clients : Granted(d)' => Granted(d) \/ d = m.from
    BY <1>8 DEF Granted, TypeInv, TypeOK
  <2>2. Alive(m.from) => m.ticket[1] = pid[m.from]
    BY <1>1, <1>3, <1>4 DEF OwnPid
  <2>3. TableOfRuns'
    <3>1. /\ \A s \in Slots : s # x => ticket_array'[s] = ticket_array[s] /\ grantee'[s] = grantee[s]
          /\ ticket_array'[x] = m.ticket[1] /\ grantee'[x] = m.from
      BY <1>8 DEF TypeInv, TypeOK
    <3>. QED
      BY <1>2, <1>3, <1>5, <2>2, <3>1 DEF TableOfRuns, TypeInv, TypeOK
  <2>. QED
    BY <1>6, <1>8, <2>1, <2>3
<1>9. ASSUME m.type = "GBYE", ticket_array[m.ticket[2]] = m.ticket[1], DoGoodbye(m) PROVE PoolInv'
  <2>. DEFINE slot == m.ticket[2]
  <2>1. /\ slot \in Slots
        /\ ticket_array' = [ticket_array EXCEPT ![slot] = TICKET_AVAIL]
        /\ grantee' = [grantee EXCEPT ![slot] = NoClient]
        /\ Reply(m.from, [type |-> "THNX", ticket |-> m.ticket])
    BY <1>1, <1>9 DEF DoGoodbye, Requests
  <2>2. /\ \A s \in Slots : s # slot => ticket_array'[s] = ticket_array[s] /\ grantee'[s] = grantee[s]
        /\ ticket_array'[slot] = TICKET_AVAIL /\ grantee'[slot] = NoClient
    BY <2>1 DEF TypeInv, TypeOK
  <2>3. \A d \in Clients : Granted(d)' => Granted(d)
    BY <2>2 DEF Granted
  <2>4. TableOfRuns'
    BY <1>2, <1>5, <2>2 DEF TableOfRuns, TypeInv, TypeOK
  <2>. QED
    BY <1>6, <2>1, <2>3, <2>4
<1>10. CASE m.type = "HELO" /\ DoHello(m)
  <2>1. CASE \A x \in Slots : ticket_array[x] # TICKET_AVAIL
    <3>1. TakenIn(ticket_array) = Slots
      BY <2>1 DEF TakenIn
    <3>2. num_tickets_out = MAXUSERS /\ MAXUSERS \in Nat
      BY <3>1, FullAndEmpty DEF TypeInv, Count
    <3>3. Refuse(m, "FAIL,no tickets available")
      <4>1. ~(num_tickets_out < MAXUSERS)
        BY <3>2
      <4>. QED
        BY <1>10, <4>1, Zenon DEF DoHello
    <3>. QED
      BY <1>7, <3>3 DEF Failures
  <2>2. CASE Refuse(m, "FAIL,no tickets available")
    BY <1>7, <2>2 DEF Failures
  <2>. QED
    BY <1>8, <1>10, <2>1, <2>2 DEF DoHello
<1>11. CASE m.type = "GBYE" /\ DoGoodbye(m)
  BY <1>7, <1>9, <1>11 DEF DoGoodbye, Failures
<1>. QED
  BY <1>2, <1>10, <1>11

\* After a crash nobody has a ticket and no datagram is queued; setup clears the
\* table.
LEMMA RestartKeeps == ASSUME TypeInv, PoolInv, ServerCrash \/ ServerStart PROVE PoolInv'
<1>. USE LicenseServ1Assumption DEF PoolInv, runVars
<1>1. CASE ServerCrash
  <2>1. /\ up' = FALSE /\ srv_queue' = <<>> /\ grantee' = [s \in Slots |-> NoClient]
        /\ UNCHANGED <<ticket_array, pc, pid, ticket, inbox>>
    BY <1>1 DEF ServerCrash
  <2>2. /\ Queued' = {} /\ \A d \in Clients : ~Granted(d)'
        /\ \A d \in Clients : Alive(d)' <=> Alive(d)
    BY <2>1 DEF Queued, Granted, Alive
  <2>3. Unheard' /\ PidsDiffer' /\ OwnPid'
    BY <2>1, <2>2 DEF Unheard, PidsDiffer, OwnPid
  <2>4. HelloFirst' /\ LateGoodbye'
    BY <2>2 DEF HelloFirst, LateGoodbye
  <2>5. TableOfRuns'
    BY <2>1 DEF TableOfRuns
  <2>. QED
    BY <2>3, <2>4, <2>5
<1>2. CASE ServerStart
  <2>1. /\ ~up /\ ticket_array' = [s \in Slots |-> TICKET_AVAIL]
        /\ UNCHANGED <<grantee, srv_queue, pc, pid, ticket, inbox>>
        /\ srv_queue = <<>> /\ \A s \in Slots : grantee[s] = NoClient
    BY <1>2 DEF ServerStart, TableOfRuns
  <2>2. /\ Queued' = {} /\ \A d \in Clients : ~Granted(d)'
        /\ \A d \in Clients : Alive(d)' <=> Alive(d)
    BY <2>1 DEF Queued, Granted, Alive
  <2>3. Unheard' /\ PidsDiffer' /\ OwnPid'
    BY <2>1, <2>2 DEF Unheard, PidsDiffer, OwnPid
  <2>4. HelloFirst' /\ LateGoodbye'
    BY <2>2 DEF HelloFirst, LateGoodbye
  <2>5. TableOfRuns'
    BY <2>1 DEF TableOfRuns
  <2>. QED
    BY <2>3, <2>4, <2>5
<1>. QED
  BY <1>1, <1>2

\* One step keeps PoolInv.
LEMMA PoolStep == ASSUME TypeInv, PoolInv, [Next]_vars PROVE PoolInv'
<1>1. ASSUME NEW c \in Clients, RunSteps(c) PROVE PoolInv'
  <2>1. CASE GetTicket(c) /\ inbox[c].type = "TICK"
    BY <2>1, GetTicketKeeps
  <2>2. CASE Alive(c) /\ Gone(c) /\ UNCHANGED <<serverVars, srv_queue>>
    BY <2>2, GoneKeeps
  <2>. QED
    BY <1>1, <2>1, <2>2, StartKeeps, SendGoodbyeKeeps DEF RunSteps, GetTicket, ReleaseTicket, Kill, Alive
<1>2. CASE UNCHANGED vars
  BY <1>2 DEF vars, serverVars, tableVars, runVars, PoolInv, Unheard, PidsDiffer, OwnPid, HelloFirst,
       LateGoodbye, TableOfRuns, Granted, Queued, Alive
<1>. QED
  BY <1>1, <1>2, HandleKeeps, RestartKeeps DEF Next

\* PoolInv holds at every moment.
LEMMA PoolCorrect == Spec => []PoolInv
<1>1. Init => PoolInv
  BY LicenseServ1Assumption
     DEF Init, PoolInv, Unheard, PidsDiffer, OwnPid, HelloFirst, LateGoodbye, TableOfRuns, Granted, Queued, Alive, Slots
<1>2. TypeInv /\ PoolInv /\ [Next]_vars => PoolInv'
  BY PoolStep
<1>. QED
  BY <1>1, <1>2, TypeCorrect, PTL DEF Spec
-----------------------------------------------------------------------------
Live == {c \in Clients : Alive(c)}
Returning == {c \in Clients : pc[c] = "wait_goodbye"}

\* A step of a run is Enter, AskReturn or Die, or nothing.
LEMMA RunImplements == ASSUME TypeInv, PoolInv, NEW c \in Clients, RunSteps(c) PROVE [Pool!Next]_(Pool!poolVars)
<1>. USE DEF serverVars, tableVars, Pool!poolVars
<1>1. grantee' = grantee /\ crashes' = crashes
  BY DEF RunSteps, Start, GetTicket, SendGoodbye, ReleaseTicket, Kill
<1>2. CASE Start(c)
  <2>1. c \notin Live /\ Live' = Live \union {c} /\ Returning' = Returning
    BY <1>2 DEF Start, Live, Returning, Alive, TypeInv, TypeOK
  <2>2. Pool!Enter(c)
    BY <1>1, <2>1 DEF Pool!Enter, Live, Returning
  <2>. QED
    BY <2>2 DEF Pool!Next
<1>3. CASE GetTicket(c) /\ inbox[c].type = "TICK"
  <2>1. Live' = Live /\ Returning' = Returning
    BY <1>3 DEF GetTicket, Live, Returning, Alive, TypeInv, TypeOK
  <2>. QED
    BY <1>1, <2>1 DEF Live, Returning
<1>4. CASE SendGoodbye(c)
  <2>1. c \in Live /\ Live' = Live /\ Returning' = Returning \union {c}
    BY <1>4 DEF SendGoodbye, Live, Returning, Alive, TypeInv, TypeOK
  <2>2. Pool!AskReturn(c)
    BY <1>1, <2>1 DEF Pool!AskReturn, Live, Returning
  <2>. QED
    BY <2>2 DEF Pool!Next
<1>5. CASE Alive(c) /\ Gone(c)
  <2>1. c \in Live /\ Live' = Live \ {c} /\ Returning' = Returning \ {c}
    BY <1>5 DEF Gone, Live, Returning, Alive, TypeInv, TypeOK
  <2>2. Pool!Die(c)
    BY <1>1, <2>1 DEF Pool!Die, Live, Returning
  <2>. QED
    BY <2>2 DEF Pool!Next
<1>. QED
  BY <1>2, <1>3, <1>4, <1>5 DEF RunSteps, GetTicket, ReleaseTicket, Kill, Alive

\* handle_request issues a free slot to a run without one, or takes a slot back
\* from a run that returns it or is dead.
LEMMA HandleImplements == ASSUME TypeInv, PoolInv, HandleRequest PROVE [Pool!Next]_(Pool!poolVars)
<1>. USE LicenseServ1Assumption DEF tableVars, runVars, Pool!poolVars
<1>. DEFINE m == Head(srv_queue)
<1>1. /\ m \in Requests /\ m = srv_queue[1] /\ 1 \in Queued
      /\ up /\ UNCHANGED <<pc, pid, crashes>>
      /\ \/ m.type = "HELO" /\ DoHello(m)
         \/ m.type = "GBYE" /\ DoGoodbye(m)
  BY Taken DEF HandleRequest, TypeInv, TypeOK, Queued
<1>. HIDE DEF m
<1>2. m.from \in Clients /\ m.ticket[1] \in Pids
  BY <1>1 DEF Requests
<1>3. Live' = Live /\ Returning' = Returning /\ crashes' = crashes
  BY <1>1 DEF Live, Returning, Alive
<1>4. CASE grantee' = grantee
  BY <1>3, <1>4 DEF Live, Returning
<1>5. ASSUME m.type = "HELO", NEW x \in Slots, FirstFree(x), grantee' = [grantee EXCEPT ![x] = m.from]
      PROVE  Pool!Next
  <2>1. grantee[x] = NoClient
    BY <1>1, <1>5 DEF FirstFree, PoolInv, TableOfRuns
  <2>2. \A u \in Slots : grantee[u] # m.from
    BY <1>1, <1>5 DEF PoolInv, HelloFirst, Granted
  <2>3. Pool!Issue(x, m.from)
    BY <1>3, <1>5, <2>1, <2>2 DEF Pool!Issue, Live, Returning
  <2>. QED
    BY <1>2, <2>3 DEF Pool!Next
<1>6. ASSUME m.type = "GBYE", ticket_array[m.ticket[2]] = m.ticket[1],
             grantee' = [grantee EXCEPT ![m.ticket[2]] = NoClient]
      PROVE  Pool!Next
  <2>. DEFINE slot == m.ticket[2]
              owner == grantee[slot]
  <2>1. slot \in Slots
    BY <1>1, <1>6 DEF Requests
  <2>2. owner \in Clients
    BY <1>1, <1>2, <1>6, <2>1 DEF PoolInv, TableOfRuns, TypeInv, TypeOK
  <2>3. owner \in Returning \/ owner \in Clients \ Live
    <3>. SUFFICES ASSUME Alive(owner) PROVE pc[owner] = "wait_goodbye"
      BY <2>2 DEF Live, Returning
    <3>1. pid[owner] = m.ticket[1]
      BY <1>6, <2>1, <2>2 DEF PoolInv, TableOfRuns
    <3>2. Granted(owner)
      BY <2>1 DEF Granted
    <3>3. owner = m.from
      BY <1>1, <1>6, <2>2, <3>1, <3>2 DEF PoolInv, LateGoodbye
    <3>4. pc[m.from] \in {"wait_goodbye", "exit"}
      BY <1>1, <1>6 DEF PoolInv, LateGoodbye
    <3>. QED
      BY <3>3, <3>4 DEF Alive
  <2>4. Pool!Return(slot) \/ Pool!Reclaim(slot)
    BY <1>3, <1>6, <2>3 DEF Pool!Return, Pool!Reclaim, Live, Returning
  <2>. QED
    BY <2>1, <2>4 DEF Pool!Next
<1>7. CASE m.type = "HELO" /\ DoHello(m)
  BY <1>4, <1>5, <1>7 DEF DoHello, Refuse
<1>8. CASE m.type = "GBYE" /\ DoGoodbye(m)
  BY <1>4, <1>6, <1>8 DEF DoGoodbye, Refuse
<1>. QED
  BY <1>1, <1>7, <1>8

\* The server of lserv1.c keeps the promise of TicketPool: a ticket is issued
\* only while it is free, to a run that has none, and comes back only from a run
\* that asked for its return or is dead, although the server knows its clients
\* by pid only, pids are used again, datagrams are late and the server may crash.
THEOREM KeepsPromise == Spec => PoolSpec
<1>1. Init => Pool!Init
  BY DEF Init, Pool!Init, Alive
<1>2. TypeInv /\ PoolInv /\ [Next]_vars => [Pool!Next]_(Pool!poolVars)
  <2>. SUFFICES ASSUME TypeInv, PoolInv, [Next]_vars PROVE [Pool!Next]_(Pool!poolVars)
    OBVIOUS
  <2>1. CASE ServerCrash
    <3>1. Live' = Live /\ Returning' = Returning
      BY <2>1 DEF ServerCrash, runVars, Live, Returning, Alive
    <3>2. Pool!Reset
      BY <2>1, <3>1 DEF ServerCrash, Pool!Reset, Live, Returning
    <3>. QED
      BY <3>2 DEF Pool!Next
  <2>2. CASE ServerStart
    BY <2>2 DEF ServerStart, runVars, Pool!poolVars, Alive
  <2>3. CASE UNCHANGED vars
    BY <2>3 DEF vars, serverVars, tableVars, runVars, Pool!poolVars, Alive
  <2>. QED
    BY <2>1, <2>2, <2>3, RunImplements, HandleImplements DEF Next
<1>. QED
  BY <1>1, <1>2, TypeCorrect, PoolCorrect, PTL DEF Spec, PoolSpec, Pool!Spec
=============================================================================
