---------------------------- MODULE MCWebServers ----------------------------
(***************************************************************************)
(* The two web servers, the one with threads (TWebServ) and the one with   *)
(* processes (WebServ).  A behaviour is of one of them.                    *)
(***************************************************************************)
EXTENDS TWebServ, TLC

CONSTANTS Clients, Requests, Procs, Main         \* see WebServ
CONSTANT MaxLost           \* bound: so many clients of TWebServ send nothing or hang up

VARIABLES client, wants, hungup, accepted, open, received, place, conn, request, failed, dropped
VARIABLE server    \* which one runs

forkingVars == <<client, wants, hungup, accepted, open, received, place, conn, request, failed, dropped>>

Forking == INSTANCE WebServ WITH Conns <- Clients, Kinds <- Requests, got <- received, pc <- place,
                                gone <- hungup

ASSUME WebServersAssumption == Forking!WebServAssumption

AllInit ==
  /\ server \in {"threads", "processes"}
  /\ Init /\ Forking!Init

Bounded == Cardinality(silent \union gone) <= MaxLost

Runs(name) == server = name /\ UNCHANGED server

AllNext ==
  \/ Runs("threads") /\ Next /\ Bounded' /\ UNCHANGED forkingVars
  \/ Runs("processes") /\ Forking!Next /\ UNCHANGED vars

AllSpec == AllInit /\ [][AllNext]_<<server, vars, forkingVars>>

Symmetry == Permutations(Conns)

\* The values of all variables.
AllTypeOK == TypeOK /\ Forking!TypeOK

\* The forking server: when the connection of a client that waits for its answer
\* is closed, the client has it, once, whole and in order (WebServ, AnsweredInFull).
AnsweredByChild == Forking!AnsweredInFull

\* The forking server: no child of a good request goes on as a server.
ServersAccountedFor == Forking!ServersAccountedFor
=============================================================================
