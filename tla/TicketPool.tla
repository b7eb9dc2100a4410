----------------------------- MODULE TicketPool -----------------------------
(***************************************************************************)
(* What the license server of "20 licenseserv" promises, without           *)
(* datagrams, pids, counters or timers: a fixed number of tickets, each    *)
(* either free or issued to ONE run of the licensed program.  A ticket     *)
(* comes back for two reasons only: the run it was issued to asked for its *)
(* return, or that run is dead.                                            *)
(*                                                                         *)
(* LicenseServ.tla and LicenseServ1.tla implement it (their Pool).         *)
(***************************************************************************)

EXTENDS Naturals

CONSTANTS
  Clients,   \* the runs of the licensed program
  Tickets,   \* the tickets of the pool
  NoClient   \* marks a ticket nobody has

VARIABLES
  owner,      \* owner[t]: the run ticket t is issued to, or NoClient
  live,       \* the runs whose process exists
  returning,  \* the live runs that asked to give their ticket back
  epoch       \* how many times the server has lost its memory

poolVars == <<owner, live, returning, epoch>>

Init ==
  /\ owner = [t \in Tickets |-> NoClient]
  /\ live = {}
  /\ returning = {}
  /\ epoch = 0

Enter(c) ==
  /\ c \notin live
  /\ live' = live \union {c}
  /\ UNCHANGED <<owner, returning, epoch>>

\* The run may have died since it asked: the server cannot know yet.
Issue(t, c) ==
  /\ owner[t] = NoClient
  /\ \A u \in Tickets : owner[u] # c
  /\ owner' = [owner EXCEPT ![t] = c]
  /\ UNCHANGED <<live, returning, epoch>>

AskReturn(c) ==
  /\ c \in live
  /\ returning' = returning \union {c}
  /\ UNCHANGED <<owner, live, epoch>>

Return(t) ==
  /\ owner[t] \in returning
  /\ owner' = [owner EXCEPT ![t] = NoClient]
  /\ UNCHANGED <<live, returning, epoch>>

Reclaim(t) ==
  /\ owner[t] \in Clients \ live
  /\ owner' = [owner EXCEPT ![t] = NoClient]
  /\ UNCHANGED <<live, returning, epoch>>

Die(c) ==
  /\ c \in live
  /\ live' = live \ {c}
  /\ returning' = returning \ {c}
  /\ UNCHANGED <<owner, epoch>>

\* The server lost its memory: it restarts with every ticket free.
Reset ==
  /\ owner' = [t \in Tickets |-> NoClient]
  /\ epoch' = epoch + 1
  /\ UNCHANGED <<live, returning>>

Next ==
  \/ \E c \in Clients : Enter(c) \/ AskReturn(c) \/ Die(c)
  \/ \E t \in Tickets : Return(t) \/ Reclaim(t) \/ \E c \in Clients : Issue(t, c)
  \/ Reset

Spec == Init /\ [][Next]_poolVars
=============================================================================
