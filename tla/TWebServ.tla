------------------------------ MODULE TWebServ ------------------------------
(***************************************************************************)
(* "22 pthread", twebserv.c: main accepts connections and starts one       *)
(* detached thread for each; the threads share the process's descriptor    *)
(* table, where the kernel always hands out the lowest free number.        *)
(*                                                                         *)
(* handle_call opens two streams on the descriptor of its connection: fpin *)
(* to read, and (in the functions that answer) fp to write.  fclose closes *)
(* the descriptor NUMBER, so that after the answer's fclose(fp) the        *)
(* fclose(fpin) of handle_call closes whatever has that number by then.    *)
(* The answer is two pieces: the header, written by fflush in http_reply,  *)
(* and the body, written by fclose.                                        *)
(***************************************************************************)
EXTENDS Naturals, FiniteSets, FiniteSetsExt

CONSTANTS
  Conns,       \* the connections, one request each; a thread has the name of
               \* the connection it is started for
  Kinds,       \* the requests the clients send, out of AllKinds
  MaxFd,       \* bound: the process may have descriptors 0 .. MaxFd open
  MaxOverlap,  \* bound: so many threads run at a time
  Stdin,       \* what descriptor 0 is when the process starts
  None         \* a free descriptor; nobody's request

\* What process_rq makes of a request: malformed, not GET, "status", not
\* existing, a directory, a file, a file that cannot be opened.
AllKinds == {"malformed", "notGET", "status", "missing", "dir", "file", "unreadable"}

\* The file or directory thread c has open.
File(c) == <<"file", c>>

\* There are numbers for one connection and one file, at least.
ASSUME TWebServAssumption ==
  /\ Kinds \subseteq AllKinds
  /\ IsFiniteSet(Conns)
  /\ {Stdin, None} \cap Conns = {}
  /\ Stdin # None
  /\ \A c \in Conns : File(c) \notin Conns \union {Stdin, None}
  /\ MaxFd \in Nat /\ MaxFd >= 2
  /\ MaxOverlap \in Nat \ {0}

VARIABLES
  pc,               \* of thread c; "none" before accept
  fdtab,            \* fdtab[i]: the connection, or the file of a thread, open as i; or None
  unread,           \* the connections whose request is still in the socket, or to come
  silent,           \* the clients that turned out to send none
  gone,             \* the clients that turned out to have hung up before their answer's end
  fd,               \* fd[c]: the number accept returned for c
  filefd,           \* filefd[c]: the number of the file or directory it reads
  rq,               \* rq[c]: what thread c has read: whose request, of which kind
  got,              \* got[c]: the pieces the client of c has received
  bytes,            \* bytes[c]: the pieces thread c has counted
  loaded,           \* the value of server_bytes_sent thread c is adding to
  server_bytes_sent,
  crashed,          \* the whole process is gone
  overlap           \* history: have two threads run at a time?

clientVars == <<unread, silent, gone>>
threadVars == <<fd, filefd, rq, bytes, loaded>>
vars == <<pc, fdtab, clientVars, threadVars, got, server_bytes_sent, crashed, overlap>>
-----------------------------------------------------------------------------
Fds == 0 .. MaxFd
Garbage(k) == [of |-> None, kind |-> k]

Lowest(i) == fdtab[i] = None /\ \A j \in 0 .. (i - 1) : fdtab[j] # None
TableFull == \A i \in Fds : fdtab[i] # None

\* The connection descriptor i names, if it names one.
IsConn(i) == fdtab[i] \in Conns

Busy == {c \in Conns : pc[c] \notin {"none", "ended"}}

\* Thread c takes a step of its own while the process exists.
At(c, label) == pc[c] = label /\ ~crashed
GoTo(c, label) == pc' = [pc EXCEPT ![c] = label]

\* The process dies: of an access through a NULL stream, or of SIGPIPE.
Crash == crashed' = TRUE /\ UNCHANGED pc

\* Open the lowest free number for x.
OpenAs(i, x) == Lowest(i) /\ fdtab' = [fdtab EXCEPT ![i] = x]
Close(i) == fdtab' = [fdtab EXCEPT ![i] = None]

\* A piece of the answer to request r is written to descriptor i; it is lost
\* unless i names a connection (a file is open for reading only) whose client is
\* still there.
Write(r, i, piece) ==
  \/ /\ IsConn(i) /\ fdtab[i] \notin gone
     /\ got' = [got EXCEPT ![fdtab[i]] = @ \union {<<r.of, piece>>}]
     /\ UNCHANGED gone
  \/ /\ IsConn(i)
     /\ gone' = gone \union {fdtab[i]}
     /\ UNCHANGED got
  \/ ~IsConn(i) /\ UNCHANGED <<got, gone>>

\* Nothing more comes from connection i: its client closes it, without having sent
\* anything, or after its request was read.
AtEnd(i) ==
  /\ IsConn(i)
  /\ unread' = unread \ {fdtab[i]}
  /\ IF fdtab[i] \in unread \union silent
       THEN silent' = silent \union {fdtab[i]} /\ UNCHANGED gone
       ELSE gone' = gone \union {fdtab[i]} /\ UNCHANGED silent
-----------------------------------------------------------------------------
\* main: accept and pthread_create.  With every number in use accept returns
\* -1, main does not look, and the new thread uses the NULL stream.
Accept(c) ==
  /\ At(c, "none")
  /\ Cardinality(Busy) < MaxOverlap
  /\ overlap' = (overlap \/ Busy # {})
  /\ \/ /\ \E i \in Fds : OpenAs(i, c) /\ fd' = [fd EXCEPT ![c] = i]
        /\ GoTo(c, "open_in")
        /\ UNCHANGED crashed
     \/ /\ TableFull
        /\ Crash
        /\ UNCHANGED <<fdtab, fd>>
  /\ UNCHANGED <<clientVars, filefd, rq, bytes, loaded, got, server_bytes_sent>>

\* handle_call: fdopen(fd,"r"), NULL when the number is not open any more.
OpenIn(c) ==
  /\ At(c, "open_in")
  /\ \/ fdtab[fd[c]] # None /\ GoTo(c, "read") /\ UNCHANGED crashed
     \/ fdtab[fd[c]] = None /\ Crash
  /\ UNCHANGED <<fdtab, clientVars, threadVars, got, server_bytes_sent, overlap>>

\* fgets: the request of the connection that has the number NOW (it blocks
\* when another thread has read that one); if none has, or its client closes
\* instead, the buffer keeps what earlier threads left on the stack.
Read(c) ==
  /\ At(c, "read")
  /\ \/ /\ fdtab[fd[c]] \in unread
        /\ unread' = unread \ {fdtab[fd[c]]}
        /\ \E k \in Kinds : rq' = [rq EXCEPT ![c] = [of |-> fdtab[fd[c]], kind |-> k]]
        /\ UNCHANGED <<silent, gone>>
     \/ /\ \/ AtEnd(fd[c])
           \/ ~IsConn(fd[c]) /\ UNCHANGED clientVars
        /\ \E k \in Kinds \union {"malformed"} : rq' = [rq EXCEPT ![c] = Garbage(k)]
  /\ GoTo(c, "reply")
  /\ UNCHANGED <<fdtab, fd, filefd, bytes, loaded, got, server_bytes_sent, crashed, overlap>>

\* process_rq of a malformed request sends nothing.  cannot_do and do_404
\* write the whole answer; the close(fp) of http_reply takes the FILE* for a
\* number: it closes nothing, or descriptor 0 when fp is NULL.
ReplyAtOnce(c) ==
  /\ At(c, "reply")
  /\ \/ rq[c].kind = "malformed" /\ UNCHANGED <<fdtab, got, gone>>
     \/ /\ rq[c].kind \in {"notGET", "missing"}
        /\ Write(rq[c], fd[c], "all")
        /\ IF IsConn(fd[c]) THEN UNCHANGED fdtab ELSE Close(0)
  /\ GoTo(c, "close_in")
  /\ UNCHANGED <<unread, silent, threadVars, server_bytes_sent, crashed, overlap>>

\* do_cat: fdopen(fd,"w") and fopen; when one of them fails nothing is sent,
\* and neither stream is closed.
OpenFile(c) ==
  /\ At(c, "reply")
  /\ \/ /\ rq[c].kind = "file"
        /\ \E i \in Fds : OpenAs(i, File(c)) /\ filefd' = [filefd EXCEPT ![c] = i]
        /\ GoTo(c, IF IsConn(fd[c]) THEN "header" ELSE "load")
     \/ /\ rq[c].kind \in (IF TableFull THEN {"unreadable", "file"} ELSE {"unreadable"})
        /\ GoTo(c, "load")
        /\ UNCHANGED <<fdtab, filefd>>
  /\ UNCHANGED <<clientVars, fd, rq, bytes, loaded, got, server_bytes_sent, crashed, overlap>>

\* http_reply of built_in, do_ls and do_cat: the header, on a stream of its
\* own; its caller then writes to the stream, NULL or not.
Header(c) ==
  /\ \/ At(c, "reply") /\ rq[c].kind \in {"status", "dir"}
     \/ At(c, "header")
  /\ \/ /\ IsConn(fd[c])
        /\ Write(rq[c], fd[c], "header")
        /\ bytes' = [bytes EXCEPT ![c] = IF rq[c].kind = "status" THEN @ ELSE @ + 1]
        /\ GoTo(c, CASE rq[c].kind = "status" -> "close_out"
                     [] rq[c].kind = "dir" -> "opendir"
                     [] rq[c].kind = "file" -> "close_file")
        /\ UNCHANGED crashed
     \/ /\ ~IsConn(fd[c])
        /\ Crash
        /\ UNCHANGED <<got, gone, bytes>>
  /\ UNCHANGED <<fdtab, unread, silent, fd, filefd, rq, loaded, server_bytes_sent, overlap>>

\* Mutant: the title of the listing is counted on top of its header twice.
OpenDirCountedTwice(c) ==
  /\ At(c, "opendir")
  /\ \/ /\ \E i \in Fds : OpenAs(i, File(c)) /\ filefd' = [filefd EXCEPT ![c] = i]
        /\ GoTo(c, "close_file")
     \/ /\ TableFull
        /\ GoTo(c, "close_out")
        /\ UNCHANGED <<fdtab, filefd>>
  /\ bytes' = [bytes EXCEPT ![c] = @ + @ + 1]
  /\ UNCHANGED <<clientVars, fd, rq, loaded, got, server_bytes_sent, crashed, overlap>>

\* do_ls: opendir; without a free number the listing is only its title.
OpenDir(c) ==
  /\ At(c, "opendir")
  /\ \/ /\ \E i \in Fds : OpenAs(i, File(c)) /\ filefd' = [filefd EXCEPT ![c] = i]
        /\ GoTo(c, "close_file")
     \/ /\ TableFull
        /\ GoTo(c, "close_out")
        /\ UNCHANGED <<fdtab, filefd>>
  /\ bytes' = [bytes EXCEPT ![c] = @ + 1]
  /\ UNCHANGED <<clientVars, fd, rq, loaded, got, server_bytes_sent, crashed, overlap>>

\* closedir, or the getc loop of do_cat and fclose(fpfile).  When the number
\* has become a connection's, getc takes its request and waits for more, until
\* the client closes.
CloseFile(c) ==
  /\ At(c, "close_file")
  /\ \/ /\ \/ (rq[c].kind = "dir" \/ ~IsConn(filefd[c])) /\ UNCHANGED clientVars
           \/ rq[c].kind = "file" /\ AtEnd(filefd[c])
        /\ Close(filefd[c])
        /\ GoTo(c, "close_out")
     \/ /\ rq[c].kind = "file"
        /\ fdtab[filefd[c]] \in unread
        /\ unread' = unread \ {fdtab[filefd[c]]}
        /\ UNCHANGED <<silent, gone, fdtab, pc>>
  /\ UNCHANGED <<threadVars, got, server_bytes_sent, crashed, overlap>>

\* Mutant: the answer's stream is closed with close(fd), its buffer unwritten.
CloseOutUnwritten(c) ==
  /\ At(c, "close_out")
  /\ Close(fd[c])
  /\ GoTo(c, IF rq[c].kind = "status" THEN "close_in" ELSE "load")
  /\ UNCHANGED <<clientVars, threadVars, got, server_bytes_sent, crashed, overlap>>

\* fclose(fp), fclose(fpsock): writes the body and closes the number.
CloseOut(c) ==
  /\ At(c, "close_out")
  /\ Write(rq[c], fd[c], "body")
  /\ Close(fd[c])
  /\ GoTo(c, IF rq[c].kind = "status" THEN "close_in" ELSE "load")
  /\ UNCHANGED <<unread, silent, threadVars, server_bytes_sent, crashed, overlap>>

\* Mutant: server_bytes_sent=bytes.
AddBytesAssigned(c) ==
  /\ \/ /\ At(c, "load")
        /\ loaded' = [loaded EXCEPT ![c] = server_bytes_sent]
        /\ GoTo(c, "store")
        /\ UNCHANGED server_bytes_sent
     \/ /\ At(c, "store")
        /\ server_bytes_sent' = bytes[c]
        /\ GoTo(c, "close_in")
        /\ UNCHANGED loaded
  /\ UNCHANGED <<fdtab, clientVars, fd, filefd, rq, bytes, got, crashed, overlap>>

\* server_bytes_sent+=bytes at the end of do_ls and do_cat: a load and a store.
AddBytes(c) ==
  /\ \/ /\ At(c, "load")
        /\ loaded' = [loaded EXCEPT ![c] = server_bytes_sent]
        /\ GoTo(c, "store")
        /\ UNCHANGED server_bytes_sent
     \/ /\ At(c, "store")
        /\ server_bytes_sent' = loaded[c] + bytes[c]
        /\ GoTo(c, "close_in")
        /\ UNCHANGED loaded
  /\ UNCHANGED <<fdtab, clientVars, fd, filefd, rq, bytes, got, crashed, overlap>>

\* Mutant: handle_call relies on the close in the functions that answer.
CloseInForgotten(c) ==
  /\ At(c, "close_in")
  /\ GoTo(c, "ended")
  /\ UNCHANGED <<fdtab, clientVars, threadVars, got, server_bytes_sent, crashed, overlap>>

\* The end of handle_call: fclose(fpin) closes the number again.
CloseIn(c) ==
  /\ At(c, "close_in")
  /\ Close(fd[c])
  /\ GoTo(c, "ended")
  /\ UNCHANGED <<clientVars, threadVars, got, server_bytes_sent, crashed, overlap>>

\* SIGPIPE: the client has hung up, and writing to it ends the process.
Sigpipe(c) ==
  /\ \/ At(c, "reply") /\ rq[c].kind \in {"notGET", "missing", "status", "dir"}
     \/ At(c, "header") \/ At(c, "close_out")
  /\ IsConn(fd[c])
  /\ gone' = gone \union {fdtab[fd[c]]}
  /\ Crash
  /\ UNCHANGED <<fdtab, unread, silent, threadVars, got, server_bytes_sent, overlap>>
-----------------------------------------------------------------------------
Init ==
  /\ pc = [c \in Conns |-> "none"]
  /\ fdtab = [i \in Fds |-> IF i = 0 THEN Stdin ELSE None]
  /\ unread = Conns
  /\ silent = {}
  /\ gone = {}
  /\ fd = [c \in Conns |-> 0]
  /\ filefd = [c \in Conns |-> 0]
  /\ rq = [c \in Conns |-> Garbage("malformed")]
  /\ got = [c \in Conns |-> {}]
  /\ bytes = [c \in Conns |-> 0]
  /\ loaded = [c \in Conns |-> 0]
  /\ server_bytes_sent = 0
  /\ crashed = FALSE
  /\ overlap = FALSE

HandleCall(c) ==
  \/ OpenIn(c) \/ Read(c) \/ ReplyAtOnce(c)
  \/ OpenFile(c) \/ Header(c) \/ OpenDir(c) \/ CloseFile(c) \/ CloseOut(c)
  \/ AddBytes(c) \/ CloseIn(c)

Next == \E c \in Conns : Accept(c) \/ HandleCall(c) \/ Sigpipe(c)

Spec == Init /\ [][Next]_vars
-----------------------------------------------------------------------------
(* Properties *)

Owners == Conns \union {None}
Pieces == Owners \X {"all", "header", "body"}

TypeOK ==
  /\ pc \in [Conns -> {"none", "open_in", "read", "reply", "header", "opendir", "close_file",
                       "close_out", "load", "store", "close_in", "ended"}]
  /\ fdtab \in [Fds -> Owners \union {Stdin} \union {File(c) : c \in Conns}]
  /\ {unread, silent, gone} \subseteq SUBSET Conns
  /\ fd \in [Conns -> Fds]
  /\ filefd \in [Conns -> Fds]
  /\ rq \in [Conns -> [of : Owners, kind : AllKinds]]
  /\ got \in [Conns -> SUBSET Pieces]
  /\ bytes \in [Conns -> 0 .. 2]
  /\ loaded \in [Conns -> Nat]
  /\ server_bytes_sent \in Nat
  /\ crashed \in BOOLEAN
  /\ overlap \in BOOLEAN

\* The pieces that process_rq sends for request r.
Answer(r) ==
  CASE r.kind \in {"malformed", "unreadable"} -> {}
    [] r.kind \in {"notGET", "missing"} -> {<<r.of, "all">>}
    [] r.kind \in {"status", "dir", "file"} -> {<<r.of, "header">>, <<r.of, "body">>}

\* The comments of process_rq (twebserv.c:154-162) say what each request gets:
\* when the thread of a client that has sent one and waits for the answer has
\* ended, the client has that answer, all of it, and nothing of another client's.
AnsweredInFull ==
  \A c \in Conns \ (silent \union gone) :
    pc[c] = "ended" => rq[c].of = c /\ got[c] = Answer(rq[c])

\* The same as long as the server has had one thread at a time; and then a client
\* that sends nothing gets the answer to what was on the stack (twebserv.c:180),
\* but nothing of what another client is sent.
AnsweredAlone ==
  ~overlap =>
    /\ AnsweredInFull
    /\ \A c \in silent \ gone :
         pc[c] = "ended" => rq[c].of = None /\ got[c] = Answer(rq[c])

\* As long as one thread runs at a time each leaves the descriptors as it found
\* them, so that the server can go on for ever, and none uses a NULL stream: the
\* process only dies when a client hangs up.
DescriptorsReturned ==
  ~overlap =>
    /\ Busy = {} => \A i \in Fds \ {0} : fdtab[i] = None
    /\ crashed => gone # {}

\* do_ls counts a listing and its header, do_cat the header of a file.
Counts(r, piece) == r.kind = "dir" \/ (r.kind = "file" /\ piece[2] = "header")

\* Of what the client of c has received, so many pieces count.
Received == [c \in Conns |-> Cardinality({piece \in got[c] : Counts(rq[c], piece)})]

\* One thread at a time, server_bytes_sent is what the clients have received of
\* listings and headers, unless one has hung up.  When threads overlap it may miss
\* what another adds at the same moment, and count what went to a closed number:
\* but it is never more than what the threads have counted, each once.
BytesCounted ==
  /\ server_bytes_sent <= MapThenSumSet(LAMBDA c : bytes[c], Conns)
  /\ ~overlap /\ Busy = {} /\ gone = {} =>
       server_bytes_sent = MapThenSumSet(LAMBDA c : Received[c], Conns)
=============================================================================
