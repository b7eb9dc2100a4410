------------------------------ MODULE WebServ ------------------------------
(***************************************************************************)
(* "18 webserv", webserv.c: main accepts a connection, reads the request   *)
(* and forks; the child answers through its copy of the connection.  The   *)
(* client has the whole answer when the LAST copy is closed: main closes   *)
(* its own, the child's goes with the process (or, in do_ls and do_exec,   *)
(* with the program it has become).                                        *)
(*                                                                         *)
(* Not every child exits: after cannot_do, do_404 and a request that is    *)
(* no request process_rq returns, and the child goes on in the loop of     *)
(* main, as one more server on the same socket.  Nobody waits for children,*)
(* so that a process id is never used again.                               *)
(***************************************************************************)
EXTENDS Naturals, Sequences, FiniteSets

CONSTANTS
  Conns,   \* the connections; a client makes one and sends one request
  Kinds,   \* the requests the clients send, out of AllKinds
  Procs,   \* the process ids there are
  Main,    \* the process the server is started as
  None     \* no connection

\* What process_rq makes of a request: no two words, not GET, not existing,
\* a directory, a .cgi file, a file, a file that cannot be opened.
AllKinds == {"malformed", "notGET", "missing", "dir", "cgi", "file", "unreadable"}

ErrorKinds == {"malformed", "notGET", "missing"}

ASSUME WebServAssumption ==
  /\ Kinds \subseteq AllKinds
  /\ Main \in Procs
  /\ None \notin Conns

VARIABLES
  \* The clients and their connections.
  client,    \* client[c]: "new", "connected", "sent" its request, or "silent":
             \* has said that it will send none
  wants,     \* wants[c]: the kind of its request
  gone,      \* the clients that have hung up
  accepted,  \* the connections accept has returned
  open,      \* open[c]: the processes that have c open
  got,       \* got[c]: the pieces of text the client has received
  \* The processes of the server.
  pc,        \* pc[p]; "none": not forked yet
  conn,      \* conn[p]: fd
  request,   \* request[p]: the buffer of main, and what process_rq gets
  \* History.
  failed,    \* the connections from which a request was read that gets an
             \* error, or no answer
  dropped    \* the connections whose fork failed

clientVars == <<client, wants, gone>>
serverVars == <<pc, conn, request>>
vars == <<clientVars, accepted, open, got, serverVars, failed, dropped>>
-----------------------------------------------------------------------------
GoTo(p, label) == pc' = [pc EXCEPT ![p] = label]

Close(p) == open' = [open EXCEPT ![conn[p]] = @ \ {p}]

\* The process ends; it stays in the table as a zombie.
Exit(p) ==
  /\ GoTo(p, "exit")
  /\ Close(p)
  /\ conn' = [conn EXCEPT ![p] = None]
  /\ request' = [request EXCEPT ![p] = "malformed"]

\* What a client that has hung up is sent is lost.
Write(p, text) ==
  got' = IF conn[p] \in gone THEN got ELSE [got EXCEPT ![conn[p]] = @ \o text]
-----------------------------------------------------------------------------
(* The clients, as webclnt.c is one; others send other requests or none. *)

Connect(c) ==
  /\ client[c] = "new"
  /\ client' = [client EXCEPT ![c] = "connected"]
  /\ UNCHANGED <<wants, gone, accepted, open, got, serverVars, failed, dropped>>

SendRequest(c) ==
  /\ client[c] = "connected"
  /\ \/ /\ client' = [client EXCEPT ![c] = "sent"]
        /\ \E k \in Kinds : wants' = [wants EXCEPT ![c] = k]
     \/ /\ client' = [client EXCEPT ![c] = "silent"]
        /\ UNCHANGED wants
  /\ UNCHANGED <<gone, accepted, open, got, serverVars, failed, dropped>>

\* Before it has seen the end of its answer.
HangUp(c) ==
  /\ client[c] \in {"sent", "silent"}
  /\ c \in accepted => open[c] # {}
  /\ gone' = gone \union {c}
  /\ UNCHANGED <<client, wants, accepted, open, got, serverVars, failed, dropped>>
-----------------------------------------------------------------------------
(* main *)

Accept(p) ==
  /\ pc[p] = "accept"
  /\ \E c \in Conns \ accepted :
       /\ client[c] # "new"
       /\ accepted' = accepted \union {c}
       /\ conn' = [conn EXCEPT ![p] = c]
       /\ open' = [open EXCEPT ![c] = {p}]
  /\ GoTo(p, "read")
  /\ UNCHANGED <<clientVars, got, request, failed, dropped>>

\* fgets, and request[len-1]=0: if there is no request fgets leaves the buffer
\* alone, and it is the previous one without its last character, whatever that
\* says (before the first request: what is on the stack).
Read(p) ==
  /\ pc[p] = "read"
  /\ LET c == conn[p] IN
       /\ \/ client[c] = "sent" /\ request' = [request EXCEPT ![p] = wants[c]]
          \/ client[c] = "silent" /\ \E k \in Kinds : request' = [request EXCEPT ![p] = k]
       /\ failed' = IF request'[p] \in ErrorKinds THEN failed \union {c} ELSE failed
  /\ GoTo(p, "fork")
  /\ UNCHANGED <<clientVars, accepted, open, got, conn, dropped>>

\* if(fork()!=0) return: the parent, and the server whose fork has failed.
Fork(p) ==
  /\ pc[p] = "fork"
  /\ \/ \E q \in Procs :
          /\ pc[q] = "none"
          /\ pc' = [pc EXCEPT ![p] = "close_in", ![q] = "process"]
          /\ conn' = [conn EXCEPT ![q] = conn[p]]
          /\ request' = [request EXCEPT ![q] = request[p]]
          /\ open' = [open EXCEPT ![conn[p]] = @ \union {q}]
          /\ UNCHANGED dropped
     \/ /\ \A q \in Procs : pc[q] # "none"
        /\ GoTo(p, "close_in")
        /\ dropped' = dropped \union {conn[p]}
        /\ UNCHANGED <<conn, request, open>>
  /\ UNCHANGED <<clientVars, accepted, got, failed>>

\* Mutant: main does not close its copy of the connection.
CloseInForgotten(p) ==
  /\ pc[p] = "close_in"
  /\ conn' = [conn EXCEPT ![p] = None]
  /\ GoTo(p, "accept")
  /\ UNCHANGED <<clientVars, accepted, open, got, request, failed, dropped>>

\* fclose(fpin), in the parent and in a child that has returned.
CloseIn(p) ==
  /\ pc[p] = "close_in"
  /\ Close(p)
  /\ conn' = [conn EXCEPT ![p] = None]
  /\ GoTo(p, "accept")
  /\ UNCHANGED <<clientVars, accepted, got, request, failed, dropped>>
-----------------------------------------------------------------------------
(* The child: process_rq *)

\* sscanf(...)!=2: the child returns.
Malformed(q) ==
  /\ pc[q] = "process"
  /\ request[q] = "malformed"
  /\ GoTo(q, "close_in")
  /\ UNCHANGED <<clientVars, accepted, open, got, conn, request, failed, dropped>>

\* cannot_do and do_404: the answer goes out with fclose(fp), which closes the
\* connection; the child returns.
CannotDo(q) ==
  /\ pc[q] = "process"
  /\ request[q] \in {"notGET", "missing"}
  /\ Write(q, <<request[q]>>)
  /\ Close(q)
  /\ GoTo(q, "close_in")
  /\ UNCHANGED <<clientVars, accepted, conn, request, failed, dropped>>

\* Mutant: without fflush(fp) the header is lost with the memory of the child.
DoExecUnflushed(q) ==
  /\ pc[q] = "process"
  /\ request[q] \in {"dir", "cgi"}
  /\ GoTo(q, "exec")
  /\ UNCHANGED <<clientVars, accepted, open, got, conn, request, failed, dropped>>

\* do_ls and do_exec up to execl: the header; the connection becomes 1 and 2.
DoExec(q) ==
  /\ pc[q] = "process"
  /\ request[q] \in {"dir", "cgi"}
  /\ Write(q, <<"header">>)
  /\ GoTo(q, "exec")
  /\ UNCHANGED <<clientVars, accepted, open, conn, request, failed, dropped>>

\* ls, or the .cgi, writes and ends; or execl fails, and perror writes.
Exec(q) ==
  /\ pc[q] = "exec"
  /\ \/ Write(q, <<"body">>)
     \/ request[q] = "cgi" /\ Write(q, <<"error">>)
  /\ Exit(q)
  /\ UNCHANGED <<clientVars, accepted, failed, dropped>>

\* Mutant: do_cat returns like the others.
DoCatReturns(q) ==
  /\ pc[q] = "process"
  /\ request[q] \in {"file", "unreadable"}
  /\ Write(q, IF request[q] = "file" THEN <<"header", "body">> ELSE <<>>)
  /\ Close(q)
  /\ GoTo(q, "close_in")
  /\ UNCHANGED <<clientVars, accepted, conn, request, failed, dropped>>

\* do_cat; without the file there is no answer.
DoCat(q) ==
  /\ pc[q] = "process"
  /\ request[q] \in {"file", "unreadable"}
  /\ Write(q, IF request[q] = "file" THEN <<"header", "body">> ELSE <<>>)
  /\ Exit(q)
  /\ UNCHANGED <<clientVars, accepted, failed, dropped>>

\* SIGPIPE: the client has hung up, and writing to it ends the process.
Sigpipe(q) ==
  /\ \/ pc[q] = "exec"
     \/ pc[q] = "process" /\ request[q] \in {"notGET", "missing", "dir", "cgi", "file"}
  /\ conn[q] \in gone
  /\ Exit(q)
  /\ UNCHANGED <<clientVars, accepted, got, failed, dropped>>
-----------------------------------------------------------------------------
Init ==
  /\ client = [c \in Conns |-> "new"]
  /\ wants = [c \in Conns |-> "malformed"]
  /\ gone = {}
  /\ accepted = {}
  /\ open = [c \in Conns |-> {}]
  /\ got = [c \in Conns |-> <<>>]
  /\ pc = [p \in Procs |-> IF p = Main THEN "accept" ELSE "none"]
  /\ conn = [p \in Procs |-> None]
  /\ request = [p \in Procs |-> "malformed"]
  /\ failed = {}
  /\ dropped = {}

ProcessSteps(p) ==
  \/ Accept(p) \/ Read(p) \/ Fork(p) \/ CloseIn(p)
  \/ Malformed(p) \/ CannotDo(p) \/ DoExec(p) \/ Exec(p) \/ DoCat(p)

Next ==
  \/ \E c \in Conns : Connect(c) \/ SendRequest(c) \/ HangUp(c)
  \/ \E p \in Procs : ProcessSteps(p) \/ Sigpipe(p)

Spec == Init /\ [][Next]_vars

\* The processes are scheduled, and a client that has connected sends a request
\* or says that it will not: one that does neither keeps a server in fgets for
\* ever.
Fairness ==
  /\ \A p \in Procs : WF_vars(ProcessSteps(p))
  /\ \A c \in Conns : WF_vars(SendRequest(c))

FairSpec == Spec /\ Fairness
-----------------------------------------------------------------------------
(* Properties *)

Texts == {"notGET", "missing", "header", "body", "error"}

TypeOK ==
  /\ client \in [Conns -> {"new", "connected", "sent", "silent"}]
  /\ wants \in [Conns -> AllKinds]
  /\ gone \in SUBSET Conns
  /\ accepted \in SUBSET Conns
  /\ open \in [Conns -> SUBSET Procs]
  /\ \A c \in Conns : got[c] \in Seq(Texts) /\ Len(got[c]) <= 2
  /\ pc \in [Procs -> {"none", "accept", "read", "fork", "close_in", "process", "exec", "exit"}]
  /\ conn \in [Procs -> Conns \union {None}]
  /\ request \in [Procs -> AllKinds]
  /\ failed \in SUBSET Conns
  /\ dropped \in SUBSET Conns

Answers(k) ==
  CASE k \in {"malformed", "unreadable"} -> {<<>>}
    [] k \in {"notGET", "missing"} -> {<<k>>}
    [] k \in {"dir", "file"} -> {<<"header", "body">>}
    [] k = "cgi" -> {<<"header", "body">>, <<"header", "error">>}

\* The comments of process_rq (webserv.c:148-156) say what each request gets.
\* When the connection of a client that waits for it is closed, the client has
\* exactly that: once, whole and in order, however many servers there are by
\* then, unless there was no process left to answer it.
AnsweredInFull ==
  \A c \in accepted \ (gone \union dropped) :
    client[c] = "sent" /\ open[c] = {} => got[c] \in Answers(wants[c])

\* The servers that accept connections are the first one and the children of
\* requests that were answered with an error, or not at all: no child of a
\* good request becomes a server.
ServersAccountedFor ==
  LET Serving == {p \in Procs : pc[p] \in {"accept", "read", "fork", "close_in"}} IN
    /\ Main \in Serving
    /\ Cardinality(Serving) <= 1 + Cardinality(failed)

\* Every client that sends a request sees the end of its answer: no process
\* keeps a copy of its connection open.
AnswerEnds ==
  \A c \in Conns : client[c] = "sent" ~> (c \in accepted /\ open[c] = {})
=============================================================================
