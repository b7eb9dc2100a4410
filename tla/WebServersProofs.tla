-------------------------- MODULE WebServersProofs --------------------------
(***************************************************************************)
(* What the two web servers keep to, for any number of clients, threads,   *)
(* descriptors and processes.                                              *)
(*                                                                         *)
(* The threads: as long as they run one at a time each client gets its     *)
(* answer, no descriptor is lost, and the count of the bytes sent is that  *)
(* of the bytes received; however they interleave, and whatever they close *)
(* under each other, it never exceeds what they have counted.              *)
(* The processes: each connection has one process that answers it, however *)
(* many children have become servers, and each server but the first one    *)
(* has a request of its own that was a bad one.                            *)
(***************************************************************************)
EXTENDS MCWebServers, FiniteSetTheorems, SequenceTheorems, WellFoundedInduction, TLAPS

Labels ==
  {"none", "open_in", "read", "reply", "header", "opendir", "close_file",
   "close_out", "load", "store", "close_in", "ended"}

\* What a thread is about fits the request it has read, and it has not counted
\* the pieces it is going to send.
Expected ==
  \A c \in Conns :
    /\ pc[c] \in {"none", "open_in", "read", "reply", "header"} => bytes[c] = 0
    /\ pc[c] = "opendir" => bytes[c] \in {0, 1} /\ rq[c].kind = "dir"
    /\ pc[c] = "header" => rq[c].kind = "file"

TypeInv == TypeOK /\ Expected
-----------------------------------------------------------------------------
\* One thread goes on, the others stay where they are.
LEMMA GoToOnly ==
  ASSUME TypeOK, NEW c \in Conns, NEW label \in Labels, GoTo(c, label)
  PROVE  /\ pc' \in [Conns -> Labels]
         /\ pc'[c] = label
         /\ \A d \in Conns \ {c} : pc'[d] = pc[d]
BY DEF GoTo, TypeOK, Labels

\* A piece that is written keeps the type, wherever it goes.
LEMMA WriteKeeps ==
  ASSUME TypeOK, NEW c \in Conns, NEW piece \in {"all", "header", "body"}, Write(rq[c], fd[c], piece)
  PROVE  got' \in [Conns -> SUBSET Pieces] /\ gone' \in SUBSET Conns /\ gone \subseteq gone'
<1>1. <<rq[c].of, piece>> \in Pieces
  BY DEF TypeOK, Pieces
<1>2. got \in [Conns -> SUBSET Pieces] /\ gone \in SUBSET Conns
  BY DEF TypeOK
<1>3. CASE fdtab[fd[c]] \in Conns /\ got' = [got EXCEPT ![fdtab[fd[c]]] = @ \union {<<rq[c].of, piece>>}]
           /\ UNCHANGED gone
  BY <1>1, <1>2, <1>3
<1>4. CASE UNCHANGED got /\ fdtab[fd[c]] \in Conns /\ gone' = gone \union {fdtab[fd[c]]}
  BY <1>2, <1>4
<1>5. CASE UNCHANGED <<got, gone>>
  BY <1>2, <1>5
<1>. QED
  BY <1>3, <1>4, <1>5 DEF Write, IsConn

\* What becomes known of the clients is about clients.
LEMMA AtEndKeeps ==
  ASSUME TypeOK, NEW i, AtEnd(i)
  PROVE  {unread', silent', gone'} \subseteq SUBSET Conns
BY DEF TypeOK, AtEnd, IsConn

\* A number is closed, or opened for a file of a connection.
LEMMA TableKeeps ==
  ASSUME TypeOK, NEW i \in Fds,
         UNCHANGED fdtab \/ Close(i) \/ (\E c \in Conns : OpenAs(i, File(c)) \/ OpenAs(i, c))
  PROVE  fdtab' \in [Fds -> Owners \union {Stdin} \union {File(c) : c \in Conns}]
BY DEF TypeOK, Close, OpenAs, Owners

LEMMA TypeInvInit == Init => TypeInv
<1>. SUFFICES ASSUME Init PROVE TypeInv
  OBVIOUS
<1>. USE TWebServAssumption
<1>1. 0 \in Fds
  BY DEF Fds
<1>2. fdtab \in [Fds -> Owners \union {Stdin} \union {File(c) : c \in Conns}]
  BY DEF Init, Owners
<1>3. rq \in [Conns -> [of : Owners, kind : AllKinds]]
  BY DEF Init, Garbage, Owners, AllKinds
<1>4. /\ pc \in [Conns -> Labels] /\ {unread, silent, gone} \subseteq SUBSET Conns
      /\ fd \in [Conns -> Fds] /\ filefd \in [Conns -> Fds]
      /\ got \in [Conns -> SUBSET Pieces]
      /\ bytes \in [Conns -> 0 .. 2] /\ loaded \in [Conns -> Nat]
      /\ server_bytes_sent \in Nat
  BY <1>1 DEF Init, Labels
<1>7. crashed \in BOOLEAN /\ overlap \in BOOLEAN
  BY Zenon DEF Init
<1>5. TypeOK
  BY <1>2, <1>3, <1>4, <1>7 DEF TypeOK, Labels
<1>6. Expected
  BY DEF Init, Expected
<1>. QED
  BY <1>5, <1>6 DEF TypeInv

\* Every step keeps the types, step by step.
LEMMA TypeInvNext == TypeInv /\ [Next]_vars => TypeInv'
<1>. SUFFICES ASSUME TypeInv, [Next]_vars PROVE TypeInv'
  OBVIOUS
<1>. USE TWebServAssumption
<1>0. TypeOK /\ Expected
  BY DEF TypeInv
<1>. DEFINE Table == fdtab' \in [Fds -> Owners \union {Stdin} \union {File(c) : c \in Conns}]
<1>1. ASSUME NEW c \in Conns, Accept(c) PROVE TypeInv'
  <2>1. /\ pc[c] = "none" /\ UNCHANGED <<unread, silent, gone, filefd, rq, bytes, loaded, got, server_bytes_sent>>
        /\ overlap' \in BOOLEAN
    BY <1>0, <1>1 DEF Accept, At, TypeOK, clientVars
  <2>2. CASE crashed' = crashed
    <3>1. PICK i \in Fds : OpenAs(i, c) /\ fd' = [fd EXCEPT ![c] = i] /\ GoTo(c, "open_in")
      BY <1>1, <2>2 DEF Accept, Crash, At
    <3>2. Table
      BY <1>0, <3>1, TableKeeps
    <3>3. pc' \in [Conns -> Labels] /\ pc'[c] = "open_in" /\ \A d \in Conns \ {c} : pc'[d] = pc[d]
      BY <1>0, <3>1, GoToOnly DEF Labels
    <3>4. TypeOK'
      BY <1>0, <2>1, <2>2, <3>1, <3>2, <3>3 DEF TypeOK, Labels
    <3>5. Expected'
      BY <1>0, <2>1, <3>3 DEF Expected
    <3>. QED
      BY <3>4, <3>5 DEF TypeInv
  <2>3. CASE Crash /\ UNCHANGED <<fdtab, fd>>
    <3>1. TypeOK'
      BY <1>0, <2>1, <2>3 DEF TypeOK, Crash
    <3>2. Expected'
      BY <1>0, <2>1, <2>3 DEF Expected, Crash
    <3>. QED
      BY <3>1, <3>2 DEF TypeInv
  <2>. QED
    BY <1>1, <2>2, <2>3 DEF Accept
<1>2. ASSUME NEW c \in Conns, OpenIn(c) PROVE TypeInv'
  <2>1. /\ pc[c] = "open_in" /\ UNCHANGED <<fdtab, unread, silent, gone>>
        /\ UNCHANGED <<fd, filefd, rq, bytes, loaded, got, server_bytes_sent, overlap>>
        /\ (GoTo(c, "read") /\ UNCHANGED crashed) \/ Crash
    BY <1>2 DEF OpenIn, At, threadVars, clientVars
  <2>2. /\ pc' \in [Conns -> Labels] /\ pc'[c] \in {"open_in", "read"}
        /\ \A d \in Conns \ {c} : pc'[d] = pc[d]
        /\ crashed' \in BOOLEAN
    <3>1. CASE GoTo(c, "read") /\ UNCHANGED crashed
      BY <1>0, <3>1, GoToOnly DEF Labels, TypeOK
    <3>2. CASE Crash
      BY <1>0, <2>1, <3>2 DEF Crash, Labels, TypeOK
    <3>. QED
      BY <2>1, <3>1, <3>2
  <2>3. TypeOK'
    BY <1>0, <2>1, <2>2 DEF TypeOK, Labels
  <2>4. Expected'
    BY <1>0, <2>1, <2>2 DEF Expected
  <2>. QED
    BY <2>3, <2>4 DEF TypeInv
<1>3. ASSUME NEW c \in Conns, Read(c) PROVE TypeInv'
  <2>1. /\ pc[c] = "read" /\ GoTo(c, "reply")
        /\ UNCHANGED <<fdtab, fd, filefd, bytes, loaded, got, server_bytes_sent, crashed, overlap>>
    BY <1>3 DEF Read, At
  <2>2. pc' \in [Conns -> Labels] /\ pc'[c] = "reply" /\ \A d \in Conns \ {c} : pc'[d] = pc[d]
    BY <1>0, <2>1, GoToOnly DEF Labels
  <2>3. PICK r \in [of : Owners, kind : AllKinds] : rq' = [rq EXCEPT ![c] = r]
    <3>1. CASE fdtab[fd[c]] \in unread /\ \E k \in Kinds : rq' = [rq EXCEPT ![c] = [of |-> fdtab[fd[c]], kind |-> k]]
      <4>1. fdtab[fd[c]] \in Owners
        BY <1>0, <3>1 DEF TypeOK, Owners
      <4>. QED
        BY <3>1, <4>1
    <3>2. CASE \E k \in Kinds \union {"malformed"} : rq' = [rq EXCEPT ![c] = Garbage(k)]
      BY <3>2 DEF Garbage, Owners, AllKinds
    <3>. QED
      BY <1>3, <3>1, <3>2 DEF Read
  <2>4. rq' \in [Conns -> [of : Owners, kind : AllKinds]] /\ \A d \in Conns \ {c} : rq'[d] = rq[d]
    <3>1. rq \in [Conns -> [of : Owners, kind : AllKinds]]
      BY <1>0 DEF TypeOK
    <3>. QED
      BY <2>3, <3>1
  <2>5. {unread', silent', gone'} \subseteq SUBSET Conns
    <3>1. CASE AtEnd(fd[c])
      BY <1>0, <3>1, AtEndKeeps
    <3>2. CASE unread' \subseteq unread /\ UNCHANGED <<silent, gone>>
      BY <1>0, <3>2 DEF TypeOK
    <3>. QED
      BY <1>3, <3>1, <3>2 DEF Read, clientVars
  <2>6. TypeOK'
    BY <1>0, <2>1, <2>2, <2>4, <2>5 DEF TypeOK, Labels
  <2>7. Expected'
    BY <1>0, <2>1, <2>2, <2>4 DEF Expected
  <2>. QED
    BY <2>6, <2>7 DEF TypeInv
<1>4. ASSUME NEW c \in Conns, ReplyAtOnce(c) PROVE TypeInv'
  <2>1. /\ pc[c] = "reply" /\ GoTo(c, "close_in")
        /\ UNCHANGED <<unread, silent, fd, filefd, rq, bytes, loaded, server_bytes_sent, crashed, overlap>>
    BY <1>4 DEF ReplyAtOnce, At, threadVars
  <2>2. pc' \in [Conns -> Labels] /\ pc'[c] = "close_in" /\ \A d \in Conns \ {c} : pc'[d] = pc[d]
    BY <1>0, <2>1, GoToOnly DEF Labels
  <2>3. got' \in [Conns -> SUBSET Pieces] /\ gone' \in SUBSET Conns
    BY <1>0, <1>4, WriteKeeps DEF ReplyAtOnce, TypeOK
  <2>4. Table
    <3>1. 0 \in Fds
      BY DEF Fds
    <3>2. UNCHANGED fdtab \/ Close(0)
      BY <1>4 DEF ReplyAtOnce
    <3>. QED
      BY <1>0, <3>1, <3>2, TableKeeps
  <2>5. TypeOK'
    BY <1>0, <2>1, <2>2, <2>3, <2>4 DEF TypeOK, Labels
  <2>6. Expected'
    BY <1>0, <2>1, <2>2 DEF Expected
  <2>. QED
    BY <2>5, <2>6 DEF TypeInv
<1>5. ASSUME NEW c \in Conns, OpenFile(c) PROVE TypeInv'
  <2>1. /\ pc[c] = "reply"
        /\ UNCHANGED <<unread, silent, gone, fd, rq, bytes, loaded, got, server_bytes_sent, crashed, overlap>>
    BY <1>5 DEF OpenFile, At, clientVars
  <2>2. /\ GoTo(c, "load") \/ (rq[c].kind = "file" /\ GoTo(c, "header"))
        /\ Table /\ filefd' \in [Conns -> Fds]
    <3>1. CASE UNCHANGED <<fdtab, filefd>> /\ GoTo(c, "load")
      BY <1>0, <3>1 DEF TypeOK
    <3>2. CASE /\ rq[c].kind = "file"
               /\ \E i \in Fds : OpenAs(i, File(c)) /\ filefd' = [filefd EXCEPT ![c] = i]
               /\ GoTo(c, IF IsConn(fd[c]) THEN "header" ELSE "load")
      <4>1. PICK i \in Fds : OpenAs(i, File(c)) /\ filefd' = [filefd EXCEPT ![c] = i]
        BY <3>2
      <4>2. Table
        BY <1>0, <4>1, TableKeeps
      <4>. QED
        BY <1>0, <3>2, <4>1, <4>2 DEF TypeOK
    <3>. QED
      BY <1>5, <3>1, <3>2 DEF OpenFile
  <2>3. /\ pc' \in [Conns -> Labels]
        /\ pc'[c] = "load" \/ (rq[c].kind = "file" /\ pc'[c] = "header")
        /\ \A d \in Conns \ {c} : pc'[d] = pc[d]
    BY <1>0, <2>2, GoToOnly DEF Labels
  <2>4. TypeOK'
    BY <1>0, <2>1, <2>2, <2>3 DEF TypeOK, Labels
  <2>5. Expected'
    BY <1>0, <2>1, <2>3 DEF Expected
  <2>. QED
    BY <2>4, <2>5 DEF TypeInv
<1>6. ASSUME NEW c \in Conns, Header(c) PROVE TypeInv'
  <2>1. /\ pc[c] \in {"reply", "header"} /\ bytes[c] = 0
        /\ rq[c].kind \in {"status", "dir", "file"} /\ (pc[c] = "header" => rq[c].kind = "file")
        /\ UNCHANGED <<fdtab, unread, silent, fd, filefd, rq, loaded, server_bytes_sent, overlap>>
    BY <1>0, <1>6 DEF Header, At, Expected
  <2>2. CASE UNCHANGED crashed
    <3>1. /\ Write(rq[c], fd[c], "header")
          /\ bytes' = [bytes EXCEPT ![c] = IF rq[c].kind = "status" THEN @ ELSE @ + 1]
          /\ GoTo(c, CASE rq[c].kind = "status" -> "close_out"
                       [] rq[c].kind = "dir" -> "opendir"
                       [] rq[c].kind = "file" -> "close_file")
      BY <1>6, <2>2 DEF Header, Crash, At
    <3>2. PICK label \in {"close_out", "opendir", "close_file"} :
            GoTo(c, label) /\ (label = "opendir" => rq[c].kind = "dir")
      <4>1. CASE rq[c].kind = "status"
        BY <3>1, <4>1
      <4>2. CASE rq[c].kind = "dir"
        BY <3>1, <4>2
      <4>3. CASE rq[c].kind = "file"
        BY <3>1, <4>3
      <4>. QED
        BY <2>1, <4>1, <4>2, <4>3
    <3>3. pc' \in [Conns -> Labels] /\ pc'[c] = label /\ \A d \in Conns \ {c} : pc'[d] = pc[d]
      BY <1>0, <3>2, GoToOnly DEF Labels
    <3>4. got' \in [Conns -> SUBSET Pieces] /\ gone' \in SUBSET Conns
      BY <1>0, <3>1, WriteKeeps
    <3>5. bytes' \in [Conns -> 0 .. 2] /\ bytes'[c] \in {0, 1} /\ \A d \in Conns \ {c} : bytes'[d] = bytes[d]
      BY <1>0, <2>1, <3>1 DEF TypeOK
    <3>6. TypeOK'
      BY <1>0, <2>1, <2>2, <3>3, <3>4, <3>5 DEF TypeOK, Labels
    <3>7. Expected'
      BY <1>0, <2>1, <3>2, <3>3, <3>5 DEF Expected
    <3>. QED
      BY <3>6, <3>7 DEF TypeInv
  <2>3. CASE Crash /\ UNCHANGED <<got, gone, bytes>>
    <3>1. TypeOK'
      BY <1>0, <2>1, <2>3 DEF TypeOK, Crash
    <3>2. Expected'
      BY <1>0, <2>1, <2>3 DEF Expected, Crash
    <3>. QED
      BY <3>1, <3>2 DEF TypeInv
  <2>. QED
    BY <1>6, <2>2, <2>3 DEF Header
<1>7. ASSUME NEW c \in Conns, OpenDir(c) PROVE TypeInv'
  <2>1. /\ pc[c] = "opendir" /\ bytes[c] \in {0, 1}
        /\ bytes' = [bytes EXCEPT ![c] = @ + 1]
        /\ UNCHANGED <<unread, silent, gone, fd, rq, loaded, got, server_bytes_sent, crashed, overlap>>
    BY <1>0, <1>7 DEF OpenDir, At, Expected, clientVars
  <2>2. PICK label \in {"close_file", "close_out"} : GoTo(c, label)
    BY <1>7 DEF OpenDir
  <2>3. Table /\ filefd' \in [Conns -> Fds]
    <3>1. CASE UNCHANGED <<fdtab, filefd>>
      BY <1>0, <3>1 DEF TypeOK
    <3>2. CASE \E i \in Fds : OpenAs(i, File(c)) /\ filefd' = [filefd EXCEPT ![c] = i]
      BY <1>0, <3>2, TableKeeps DEF TypeOK
    <3>. QED
      BY <1>7, <3>1, <3>2 DEF OpenDir
  <2>4. pc' \in [Conns -> Labels] /\ pc'[c] = label /\ \A d \in Conns \ {c} : pc'[d] = pc[d]
    BY <1>0, <2>2, GoToOnly DEF Labels
  <2>5. bytes' \in [Conns -> 0 .. 2] /\ \A d \in Conns \ {c} : bytes'[d] = bytes[d]
    BY <1>0, <2>1 DEF TypeOK
  <2>6. TypeOK'
    BY <1>0, <2>1, <2>3, <2>4, <2>5 DEF TypeOK, Labels
  <2>7. Expected'
    BY <1>0, <2>1, <2>4, <2>5 DEF Expected
  <2>. QED
    BY <2>6, <2>7 DEF TypeInv
<1>8. ASSUME NEW c \in Conns, CloseFile(c) PROVE TypeInv'
  <2>1. /\ pc[c] = "close_file"
        /\ UNCHANGED <<fd, filefd, rq, bytes, loaded, got, server_bytes_sent, crashed, overlap>>
        /\ \/ Close(filefd[c]) /\ GoTo(c, "close_out")
           \/ UNCHANGED <<fdtab, pc>>
    BY <1>8 DEF CloseFile, At, threadVars
  <2>2. filefd[c] \in Fds
    BY <1>0 DEF TypeOK
  <2>3. Table
    BY <1>0, <2>1, <2>2, TableKeeps
  <2>4. pc' \in [Conns -> Labels] /\ pc'[c] \in {"close_file", "close_out"} /\ \A d \in Conns \ {c} : pc'[d] = pc[d]
    <3>1. CASE GoTo(c, "close_out")
      BY <1>0, <3>1, GoToOnly DEF Labels
    <3>2. CASE UNCHANGED pc
      BY <1>0, <2>1, <3>2 DEF TypeOK, Labels
    <3>. QED
      BY <2>1, <3>1, <3>2
  <2>5. {unread', silent', gone'} \subseteq SUBSET Conns
    <3>1. CASE AtEnd(filefd[c])
      BY <1>0, <3>1, AtEndKeeps
    <3>2. CASE unread' \subseteq unread /\ UNCHANGED <<silent, gone>>
      BY <1>0, <3>2 DEF TypeOK
    <3>. QED
      BY <1>8, <3>1, <3>2 DEF CloseFile, clientVars
  <2>6. TypeOK'
    BY <1>0, <2>1, <2>3, <2>4, <2>5 DEF TypeOK, Labels
  <2>7. Expected'
    BY <1>0, <2>1, <2>4 DEF Expected
  <2>. QED
    BY <2>6, <2>7 DEF TypeInv
<1>9. ASSUME NEW c \in Conns, CloseOut(c) \/ CloseIn(c) PROVE TypeInv'
  <2>1. /\ pc[c] \in {"close_out", "close_in"} /\ Close(fd[c])
        /\ UNCHANGED <<unread, silent, fd, filefd, rq, bytes, loaded, server_bytes_sent, crashed, overlap>>
        /\ UNCHANGED <<got, gone>> \/ Write(rq[c], fd[c], "body")
    BY <1>9 DEF CloseOut, CloseIn, At, threadVars, clientVars
  <2>2. PICK label \in {"close_in", "load", "ended"} : GoTo(c, label)
    BY <1>9 DEF CloseOut, CloseIn
  <2>3. fd[c] \in Fds
    BY <1>0 DEF TypeOK
  <2>4. Table
    BY <1>0, <2>1, <2>3, TableKeeps
  <2>5. got' \in [Conns -> SUBSET Pieces] /\ gone' \in SUBSET Conns
    BY <1>0, <2>1, WriteKeeps DEF TypeOK
  <2>6. pc' \in [Conns -> Labels] /\ pc'[c] = label /\ \A d \in Conns \ {c} : pc'[d] = pc[d]
    BY <1>0, <2>2, GoToOnly DEF Labels
  <2>7. TypeOK'
    BY <1>0, <2>1, <2>4, <2>5, <2>6 DEF TypeOK, Labels
  <2>8. Expected'
    BY <1>0, <2>1, <2>6 DEF Expected
  <2>. QED
    BY <2>7, <2>8 DEF TypeInv
<1>10. ASSUME NEW c \in Conns, AddBytes(c) PROVE TypeInv'
  <2>1. /\ pc[c] \in {"load", "store"}
        /\ UNCHANGED <<fdtab, unread, silent, gone, fd, filefd, rq, bytes, got, crashed, overlap>>
        /\ loaded' \in [Conns -> Nat] /\ server_bytes_sent' \in Nat
    <3>1. loaded[c] + bytes[c] \in Nat
      BY <1>0 DEF TypeOK
    <3>. QED
      BY <1>0, <1>10, <3>1 DEF AddBytes, At, TypeOK, clientVars
  <2>2. PICK label \in {"store", "close_in"} : GoTo(c, label)
    BY <1>10 DEF AddBytes
  <2>3. pc' \in [Conns -> Labels] /\ pc'[c] = label /\ \A d \in Conns \ {c} : pc'[d] = pc[d]
    BY <1>0, <2>2, GoToOnly DEF Labels
  <2>4. TypeOK'
    BY <1>0, <2>1, <2>3 DEF TypeOK, Labels
  <2>5. Expected'
    BY <1>0, <2>1, <2>3 DEF Expected
  <2>. QED
    BY <2>4, <2>5 DEF TypeInv
<1>11. ASSUME NEW c \in Conns, Sigpipe(c) PROVE TypeInv'
  <2>1. /\ Crash /\ fdtab[fd[c]] \in Conns /\ gone' = gone \union {fdtab[fd[c]]}
        /\ UNCHANGED <<fdtab, unread, silent, fd, filefd, rq, bytes, loaded, got, server_bytes_sent, overlap>>
    BY <1>11 DEF Sigpipe, IsConn, threadVars
  <2>2. TypeOK'
    BY <1>0, <2>1 DEF TypeOK, Crash
  <2>3. Expected'
    BY <1>0, <2>1 DEF Expected, Crash
  <2>. QED
    BY <2>2, <2>3 DEF TypeInv
<1>12. CASE UNCHANGED vars
  BY <1>0, <1>12 DEF vars, threadVars, clientVars, TypeInv, TypeOK, Expected
<1>. QED
  BY <1>1, <1>2, <1>3, <1>4, <1>5, <1>6, <1>7, <1>8, <1>9, <1>10, <1>11, <1>12 DEF Next, HandleCall

-----------------------------------------------------------------------------
(* One thread at a time *)

\* The pieces of the answer to request r that count.
Size(r) == CASE r.kind = "dir" -> 2 [] r.kind = "file" -> 1 [] OTHER -> 0

\* Thread c has got no further than its own request (if there was one), its numbers
\* are its own: fdtab[fd[c]] is its connection until it closes it; and what its
\* client has, while it is there, is what the thread has written and counted.
AloneAt(c) ==
  /\ pc[c] \in {"none", "open_in", "read"} => c \in unread /\ c \notin silent
  /\ pc[c] \in {"none", "open_in", "read", "reply", "header"} => got[c] = {}
  /\ pc[c] \in {"opendir", "close_file", "close_out"} /\ c \notin gone => got[c] = {<<rq[c].of, "header">>}
  /\ pc[c] \in {"load", "store", "close_in", "ended"} /\ c \notin gone => got[c] = Answer(rq[c])
  /\ pc[c] \notin {"none", "open_in", "read"} => rq[c].of = (IF c \in silent THEN None ELSE c)
  /\ pc[c] \notin {"none", "ended"} => fd[c] # 0 /\ fdtab[fd[c]] \in {c, None}
  /\ pc[c] \in {"open_in", "read", "reply", "header", "opendir", "close_file", "close_out"}
       => fdtab[fd[c]] = c
  /\ pc[c] \in {"header", "close_file"} => filefd[c] # 0 /\ fdtab[filefd[c]] = File(c)
  /\ pc[c] = "close_file" => rq[c].kind \in {"dir", "file"}
  /\ pc[c] = "close_out" => rq[c].kind \in {"dir", "file", "status"}
  /\ pc[c] = "opendir" => bytes[c] = 1
  /\ pc[c] \in {"close_file", "close_out", "load", "store", "close_in", "ended"} => bytes[c] = Size(rq[c])

\* Number i is free, or what thread c has open as i.
FreeOrOwn(i, c) ==
  \/ fdtab[i] = None
  \/ i = fd[c] /\ fdtab[i] = c /\ pc[c] \notin {"none", "ended"}
  \/ i = filefd[c] /\ fdtab[i] = File(c) /\ pc[c] \in {"header", "close_file"}

Alone ==
  ~overlap =>
    /\ crashed => gone # {}
    /\ fdtab[0] = Stdin
    /\ \A c, d \in Busy : c = d
    /\ \A c \in Conns : AloneAt(c)
    /\ \A i \in Fds \ {0} : fdtab[i] = None \/ \E c \in Busy : FreeOrOwn(i, c)

LEMMA AnswerIs ==
  ASSUME NEW r
  PROVE  /\ r.kind \in {"malformed", "unreadable"} => Answer(r) = {}
         /\ r.kind \in {"notGET", "missing"} => Answer(r) = {<<r.of, "all">>}
         /\ r.kind \in {"status", "dir", "file"}
              => Answer(r) = {<<r.of, "header">>} \union {<<r.of, "body">>}
<1>1. CASE r.kind \in {"malformed", "unreadable"}
  BY <1>1 DEF Answer
<1>2. CASE r.kind \in {"notGET", "missing"}
  BY <1>2 DEF Answer
<1>3. CASE r.kind \in {"status", "dir", "file"}
  BY <1>3 DEF Answer
<1>. QED
  BY <1>1, <1>2, <1>3

LEMMA SizeIs ==
  ASSUME NEW r
  PROVE  /\ r.kind = "dir" => Size(r) = 2
         /\ r.kind = "file" => Size(r) = 1
         /\ r.kind \in {"malformed", "notGET", "status", "missing", "unreadable"} => Size(r) = 0
BY DEF Size

\* The only busy thread c takes a step, and leaves a table of its own.
LEMMA AloneKept ==
  ASSUME TypeInv, Alone, ~overlap, ~overlap', NEW c \in Conns,
         gone \subseteq gone', crashed' => crashed \/ gone' # {},
         \A d \in Conns \ {c} : /\ d \notin Busy
                                /\ pc'[d] = pc[d] /\ got'[d] = got[d] /\ rq'[d] = rq[d] /\ bytes'[d] = bytes[d]
                                /\ (d \in unread => d \in unread') /\ (d \in silent <=> d \in silent'),
         fdtab'[0] = Stdin, AloneAt(c)', \A i \in Fds \ {0} : FreeOrOwn(i, c)'
  PROVE  Alone'
<1>1. \A d \in Conns \ {c} : pc[d] \in {"none", "ended"} /\ AloneAt(d)
  BY DEF Busy, Alone
<1>2. \A d \in Conns \ {c} : AloneAt(d)'
  BY <1>1 DEF AloneAt
<1>3. Busy' \subseteq {c}
  BY <1>1 DEF Busy
<1>4. \A i \in Fds \ {0} : (fdtab[i] = None \/ \E d \in Busy : FreeOrOwn(i, d))'
  <2>. SUFFICES ASSUME NEW i \in Fds \ {0}, fdtab'[i] # None
                PROVE  c \in Busy'
    OBVIOUS
  <2>1. pc'[c] \notin {"none", "ended"}
    BY DEF FreeOrOwn
  <2>. QED
    BY <2>1 DEF Busy
<1>. QED
  BY <1>2, <1>3, <1>4 DEF Alone

\* What is known of a thread that takes a step alone.
LEMMA AloneNow ==
  ASSUME TypeInv, Alone, ~overlap, NEW c \in Conns, pc[c] \notin {"none", "ended"}
  PROVE  /\ \A d \in Conns \ {c} : d \notin Busy
         /\ fdtab[0] = Stdin /\ AloneAt(c) /\ fd[c] \in Fds \ {0} /\ filefd[c] \in Fds
         /\ \A i \in Fds \ {0} : FreeOrOwn(i, c)
         /\ fdtab \in [Fds -> Owners \union {Stdin} \union {File(d) : d \in Conns}]
         /\ 0 \in Fds /\ rq[c].kind \in AllKinds
         /\ File(c) \notin Conns \union {Stdin, None} /\ c # None /\ c # Stdin /\ Stdin # None
<1>1. c \in Busy
  BY DEF Busy
<1>2. \A d \in Conns \ {c} : d \notin Busy
  BY <1>1 DEF Alone
<1>3. \A i \in Fds \ {0} : FreeOrOwn(i, c)
  BY <1>1 DEF Alone, FreeOrOwn
<1>4. AloneAt(c) /\ fd[c] # 0
  BY DEF Alone, AloneAt
<1>. QED
  BY <1>2, <1>3, <1>4, TWebServAssumption DEF Alone, TypeInv, TypeOK, Fds

\* What it writes goes to its own client, if to any.
LEMMA WriteAlone ==
  ASSUME TypeInv, NEW c \in Conns, fdtab[fd[c]] = c, NEW piece, Write(rq[c], fd[c], piece)
  PROVE  /\ gone \subseteq gone'
         /\ c \notin gone' => c \notin gone /\ got'[c] = got[c] \union {<<rq[c].of, piece>>}
         /\ \A d \in Conns \ {c} : got'[d] = got[d]
<1>1. got \in [Conns -> SUBSET Pieces]
  BY DEF TypeInv, TypeOK
<1>. QED
  BY <1>1 DEF Write, IsConn

LEMMA AloneInit == Init => Alone
<1>. SUFFICES ASSUME Init PROVE Alone
  OBVIOUS
<1>1. /\ ~crashed /\ fdtab[0] = Stdin /\ \A i \in Fds \ {0} : fdtab[i] = None
      /\ \A c \in Conns : pc[c] = "none" /\ c \in unread /\ c \notin silent /\ got[c] = {}
  BY TWebServAssumption DEF Init, Fds
<1>2. \A c \in Conns : AloneAt(c)
  BY <1>1 DEF AloneAt
<1>3. Busy = {}
  BY <1>1 DEF Busy
<1>. QED
  BY <1>1, <1>2, <1>3 DEF Alone

LEMMA AloneNext == TypeInv /\ Alone /\ [Next]_vars => Alone'
<1>. SUFFICES ASSUME TypeInv, Alone, [Next]_vars, ~overlap' PROVE Alone'
  BY DEF Alone
<1>0. TypeOK /\ \A c \in Conns : File(c) \notin Conns /\ File(c) # None
  BY TWebServAssumption DEF TypeInv
<1>1. ASSUME NEW c \in Conns, Accept(c) PROVE Alone'
  <2>1. /\ pc[c] = "none" /\ ~crashed /\ Busy = {} /\ ~overlap
        /\ UNCHANGED <<unread, silent, gone, filefd, rq, bytes, got>>
    BY <1>1 DEF Accept, At, clientVars
  <2>2. fdtab[0] = Stdin /\ AloneAt(c) /\ \A i \in Fds \ {0} : fdtab[i] = None
    BY <2>1 DEF Alone
  <2>3. 1 \in Fds /\ 0 \in Fds /\ Stdin # None /\ Stdin # c /\ c # None
    BY TWebServAssumption DEF Fds
  <2>4. ~TableFull
    BY <2>2, <2>3 DEF TableFull
  <2>5. PICK i \in Fds : /\ OpenAs(i, c) /\ fd' = [fd EXCEPT ![c] = i] /\ GoTo(c, "open_in")
                         /\ UNCHANGED crashed
    BY <1>1, <2>4 DEF Accept
  <2>6. i # 0
    BY <2>2, <2>3, <2>5 DEF OpenAs, Lowest
  <2>7. pc'[c] = "open_in" /\ \A d \in Conns \ {c} : pc'[d] = pc[d]
    BY <1>0, <2>5, GoToOnly DEF Labels
  <2>8. fd'[c] = i /\ fdtab'[i] = c /\ \A j \in Fds \ {i} : fdtab'[j] = fdtab[j]
    BY <1>0, <2>5 DEF OpenAs, TypeOK
  <2>9. AloneAt(c)'
    BY <2>1, <2>2, <2>6, <2>7, <2>8 DEF AloneAt
  <2>10. \A j \in Fds \ {0} : FreeOrOwn(j, c)'
    BY <2>2, <2>7, <2>8 DEF FreeOrOwn
  <2>. QED
    BY <2>1, <2>2, <2>3, <2>5, <2>6, <2>7, <2>8, <2>9, <2>10, AloneKept
<1>2. ASSUME NEW c \in Conns, OpenIn(c) PROVE Alone'
  <2>1. /\ pc[c] = "open_in" /\ ~overlap
        /\ UNCHANGED <<fdtab, unread, silent, gone, fd, filefd, rq, bytes, got>>
    BY <1>2 DEF OpenIn, At, threadVars, clientVars
  <2>2. fdtab[fd[c]] # None
    BY <2>1, AloneNow DEF AloneAt
  <2>3. GoTo(c, "read") /\ UNCHANGED crashed
    BY <1>2, <2>2 DEF OpenIn
  <2>4. pc'[c] = "read" /\ \A d \in Conns \ {c} : pc'[d] = pc[d]
    BY <1>0, <2>3, GoToOnly DEF Labels
  <2>5. AloneAt(c)'
    BY <2>1, <2>4, AloneNow DEF AloneAt
  <2>6. \A j \in Fds \ {0} : FreeOrOwn(j, c)'
    BY <2>1, <2>4, AloneNow DEF FreeOrOwn
  <2>. QED
    BY <2>1, <2>3, <2>4, <2>5, <2>6, AloneNow, AloneKept
<1>3. ASSUME NEW c \in Conns, Read(c) PROVE Alone'
  <2>1. /\ pc[c] = "read" /\ ~overlap /\ GoTo(c, "reply")
        /\ UNCHANGED <<fdtab, fd, filefd, bytes, got, crashed>>
    BY <1>3 DEF Read, At
  <2>2. fdtab[fd[c]] = c /\ IsConn(fd[c]) /\ c \in unread /\ c \notin silent
    BY <2>1, AloneNow DEF AloneAt, IsConn
  <2>3. /\ unread' = unread \ {c} /\ UNCHANGED gone
        /\ \/ UNCHANGED silent /\ \E k \in Kinds : rq' = [rq EXCEPT ![c] = [of |-> c, kind |-> k]]
           \/ /\ silent' = silent \union {c}
              /\ \E k \in Kinds \union {"malformed"} : rq' = [rq EXCEPT ![c] = [of |-> None, kind |-> k]]
    BY <1>3, <2>2 DEF Read, AtEnd, Garbage
  <2>4. pc'[c] = "reply" /\ \A d \in Conns \ {c} : pc'[d] = pc[d]
    BY <1>0, <2>1, GoToOnly DEF Labels
  <2>5. /\ rq'[c].of = IF c \in silent' THEN None ELSE c
        /\ \A d \in Conns \ {c} : rq'[d] = rq[d] /\ (d \in silent <=> d \in silent')
    BY <1>0, <2>2, <2>3 DEF TypeOK
  <2>6. AloneAt(c)'
    BY <2>1, <2>2, <2>4, <2>5, AloneNow DEF AloneAt
  <2>7. \A j \in Fds \ {0} : FreeOrOwn(j, c)'
    BY <2>1, <2>4, AloneNow DEF FreeOrOwn
  <2>. QED
    BY <2>1, <2>3, <2>4, <2>5, <2>6, <2>7, AloneNow, AloneKept
<1>4. ASSUME NEW c \in Conns, ReplyAtOnce(c) PROVE Alone'
  <2>1. /\ pc[c] = "reply" /\ ~overlap /\ GoTo(c, "close_in")
        /\ UNCHANGED <<unread, silent, fd, filefd, rq, bytes, crashed>>
    BY <1>4 DEF ReplyAtOnce, At, threadVars
  <2>2. fdtab[fd[c]] = c /\ IsConn(fd[c]) /\ got[c] = {} /\ bytes[c] = 0
    BY <2>1, AloneNow DEF AloneAt, IsConn, TypeInv, Expected
  <2>3. pc'[c] = "close_in" /\ \A d \in Conns \ {c} : pc'[d] = pc[d]
    BY <1>0, <2>1, GoToOnly DEF Labels
  <2>4. /\ UNCHANGED fdtab /\ gone \subseteq gone'
        /\ c \notin gone' => got'[c] = Answer(rq[c])
        /\ \A d \in Conns \ {c} : got'[d] = got[d]
        /\ bytes[c] = Size(rq[c])
    <3>1. CASE rq[c].kind = "malformed" /\ UNCHANGED <<fdtab, got, gone>>
      BY <2>2, <3>1, AnswerIs, SizeIs
    <3>2. CASE /\ rq[c].kind \in {"notGET", "missing"}
               /\ Write(rq[c], fd[c], "all") /\ UNCHANGED fdtab
      <4>1. /\ gone \subseteq gone'
            /\ c \notin gone' => got'[c] = got[c] \union {<<rq[c].of, "all">>}
            /\ \A d \in Conns \ {c} : got'[d] = got[d]
        BY <2>2, <3>2, WriteAlone
      <4>2. Answer(rq[c]) = {<<rq[c].of, "all">>} /\ Size(rq[c]) = 0
        BY <3>2, AnswerIs, SizeIs
      <4>. QED
        BY <2>2, <3>2, <4>1, <4>2
    <3>. QED
      BY <1>4, <2>2, <3>1, <3>2 DEF ReplyAtOnce
  <2>5. AloneAt(c)'
    BY <2>1, <2>2, <2>3, <2>4, AloneNow DEF AloneAt
  <2>6. \A j \in Fds \ {0} : FreeOrOwn(j, c)'
    BY <2>1, <2>3, <2>4, AloneNow DEF FreeOrOwn
  <2>. QED
    BY <2>1, <2>3, <2>4, <2>5, <2>6, AloneNow, AloneKept
<1>5. ASSUME NEW c \in Conns, OpenFile(c) PROVE Alone'
  <2>1. /\ pc[c] = "reply" /\ ~overlap
        /\ UNCHANGED <<unread, silent, gone, fd, rq, bytes, got, crashed>>
    BY <1>5 DEF OpenFile, At, clientVars
  <2>2. fdtab[fd[c]] = c /\ IsConn(fd[c]) /\ got[c] = {} /\ bytes[c] = 0
    BY <2>1, AloneNow DEF AloneAt, IsConn, TypeInv, Expected
  <2>3. ~TableFull
    <3>1. PICK i \in Fds \ {0} : i # fd[c]
      <4>1. 1 \in Fds \ {0} /\ 2 \in Fds \ {0}
        BY TWebServAssumption DEF Fds
      <4>. QED
        BY <4>1
    <3>2. fdtab[i] = None
      BY <2>1, <3>1, AloneNow DEF FreeOrOwn
    <3>. QED
      BY <3>2 DEF TableFull
  <2>4. CASE rq[c].kind = "unreadable" /\ GoTo(c, "load") /\ UNCHANGED <<fdtab, filefd>>
    <3>1. pc'[c] = "load" /\ \A d \in Conns \ {c} : pc'[d] = pc[d]
      BY <1>0, <2>4, GoToOnly DEF Labels
    <3>2. got[c] = Answer(rq[c]) /\ bytes[c] = Size(rq[c])
      BY <2>2, <2>4, AnswerIs, SizeIs
    <3>3. AloneAt(c)'
      BY <2>1, <2>2, <2>4, <3>1, <3>2, AloneNow DEF AloneAt
    <3>4. \A j \in Fds \ {0} : FreeOrOwn(j, c)'
      BY <2>1, <2>4, <3>1, AloneNow DEF FreeOrOwn
    <3>. QED
      BY <2>1, <2>4, <3>1, <3>3, <3>4, AloneNow, AloneKept
  <2>5. CASE /\ GoTo(c, "header")
             /\ \E i \in Fds : OpenAs(i, File(c)) /\ filefd' = [filefd EXCEPT ![c] = i]
    <3>1. PICK i \in Fds : OpenAs(i, File(c)) /\ filefd' = [filefd EXCEPT ![c] = i]
      BY <2>5
    <3>2. i # 0 /\ i # fd[c]
      BY <2>1, <2>2, <3>1, AloneNow DEF OpenAs, Lowest
    <3>3. pc'[c] = "header" /\ \A d \in Conns \ {c} : pc'[d] = pc[d]
      BY <1>0, <2>5, GoToOnly DEF Labels
    <3>4. filefd'[c] = i /\ fdtab'[i] = File(c) /\ \A j \in Fds \ {i} : fdtab'[j] = fdtab[j]
      BY <1>0, <3>1 DEF OpenAs, TypeOK
    <3>5. AloneAt(c)'
      BY <2>1, <2>2, <3>2, <3>3, <3>4, AloneNow DEF AloneAt
    <3>6. \A j \in Fds \ {0} : FreeOrOwn(j, c)'
      BY <2>1, <3>3, <3>4, AloneNow DEF FreeOrOwn
    <3>. QED
      BY <2>1, <3>2, <3>3, <3>4, <3>5, <3>6, AloneNow, AloneKept
  <2>. QED
    BY <1>5, <2>2, <2>3, <2>4, <2>5 DEF OpenFile
<1>6. ASSUME NEW c \in Conns, Header(c) PROVE Alone'
  <2>1. /\ pc[c] \in {"reply", "header"} /\ ~overlap
        /\ rq[c].kind \in {"status", "dir", "file"} /\ (rq[c].kind # "file" => pc[c] = "reply")
        /\ UNCHANGED <<fdtab, unread, silent, fd, filefd, rq>>
    BY <1>6 DEF Header, At, TypeInv, Expected
  <2>2. fdtab[fd[c]] = c /\ IsConn(fd[c]) /\ got[c] = {} /\ bytes[c] = 0
    BY <2>1, AloneNow DEF AloneAt, IsConn, TypeInv, Expected
  <2>3. /\ Write(rq[c], fd[c], "header") /\ UNCHANGED crashed
        /\ bytes' = [bytes EXCEPT ![c] = IF rq[c].kind = "status" THEN @ ELSE @ + 1]
        /\ GoTo(c, CASE rq[c].kind = "status" -> "close_out"
                     [] rq[c].kind = "dir" -> "opendir"
                     [] rq[c].kind = "file" -> "close_file")
    BY <1>6, <2>2 DEF Header
  <2>4. /\ gone \subseteq gone'
        /\ c \notin gone' => got'[c] = {<<rq[c].of, "header">>}
        /\ \A d \in Conns \ {c} : got'[d] = got[d] /\ bytes'[d] = bytes[d]
        /\ bytes'[c] = IF rq[c].kind = "status" THEN 0 ELSE 1
    BY <1>0, <2>2, <2>3, WriteAlone DEF TypeOK
  <2>5. PICK label \in {"close_out", "opendir", "close_file"} :
          /\ GoTo(c, label)
          /\ label = "opendir" => rq[c].kind = "dir"
          /\ label = "close_file" => rq[c].kind = "file" /\ Size(rq[c]) = 1
          /\ label = "close_out" => rq[c].kind = "status" /\ Size(rq[c]) = 0
    <3>1. CASE rq[c].kind = "status"
      BY <2>3, <3>1, SizeIs
    <3>2. CASE rq[c].kind = "dir"
      BY <2>3, <3>2
    <3>3. CASE rq[c].kind = "file"
      BY <2>3, <3>3, SizeIs
    <3>. QED
      BY <2>1, <3>1, <3>2, <3>3
  <2>6. pc'[c] = label /\ \A d \in Conns \ {c} : pc'[d] = pc[d]
    BY <1>0, <2>5, GoToOnly DEF Labels
  <2>7. pc[c] = "header" <=> label = "close_file"
    <3>1. (At(c, "reply") /\ rq[c].kind \in {"status", "dir"}) \/ At(c, "header")
      BY <1>6 DEF Header
    <3>. QED
      BY <2>1, <2>5, <3>1 DEF At
  <2>8. AloneAt(c)'
    BY <2>1, <2>2, <2>4, <2>5, <2>6, <2>7, AloneNow DEF AloneAt
  <2>9. \A j \in Fds \ {0} : FreeOrOwn(j, c)'
    BY <2>1, <2>6, <2>7, AloneNow DEF FreeOrOwn
  <2>. QED
    BY <2>1, <2>3, <2>4, <2>6, <2>8, <2>9, AloneNow, AloneKept
<1>7. ASSUME NEW c \in Conns, OpenDir(c) PROVE Alone'
  <2>1. /\ pc[c] = "opendir" /\ ~overlap /\ rq[c].kind = "dir"
        /\ UNCHANGED <<unread, silent, gone, fd, rq, got, crashed>>
        /\ bytes'[c] = Size(rq[c]) /\ \A d \in Conns \ {c} : bytes'[d] = bytes[d]
    <3>1. /\ pc[c] = "opendir" /\ ~overlap /\ rq[c].kind = "dir"
          /\ UNCHANGED <<unread, silent, gone, fd, rq, got, crashed>>
          /\ bytes' = [bytes EXCEPT ![c] = @ + 1]
      BY <1>7 DEF OpenDir, At, TypeInv, Expected, clientVars
    <3>2. bytes[c] = 1 /\ Size(rq[c]) = 2
      BY <3>1, AloneNow, SizeIs DEF AloneAt
    <3>. QED
      BY <1>0, <3>1, <3>2 DEF TypeOK
  <2>2. CASE GoTo(c, "close_out") /\ UNCHANGED <<fdtab, filefd>>
    <3>1. pc'[c] = "close_out" /\ \A d \in Conns \ {c} : pc'[d] = pc[d]
      BY <1>0, <2>2, GoToOnly DEF Labels
    <3>2. AloneAt(c)'
      BY <2>1, <2>2, <3>1, AloneNow DEF AloneAt
    <3>3. \A j \in Fds \ {0} : FreeOrOwn(j, c)'
      BY <2>1, <2>2, <3>1, AloneNow DEF FreeOrOwn
    <3>. QED
      BY <2>1, <2>2, <3>1, <3>2, <3>3, AloneNow, AloneKept
  <2>3. CASE /\ GoTo(c, "close_file")
             /\ \E i \in Fds : OpenAs(i, File(c)) /\ filefd' = [filefd EXCEPT ![c] = i]
    <3>1. PICK i \in Fds : OpenAs(i, File(c)) /\ filefd' = [filefd EXCEPT ![c] = i]
      BY <2>3
    <3>2. i # 0 /\ i # fd[c]
      BY <2>1, <3>1, AloneNow DEF OpenAs, Lowest, AloneAt
    <3>3. pc'[c] = "close_file" /\ \A d \in Conns \ {c} : pc'[d] = pc[d]
      BY <1>0, <2>3, GoToOnly DEF Labels
    <3>4. filefd'[c] = i /\ fdtab'[i] = File(c) /\ \A j \in Fds \ {i} : fdtab'[j] = fdtab[j]
      BY <1>0, <3>1 DEF OpenAs, TypeOK
    <3>5. AloneAt(c)'
      BY <2>1, <3>2, <3>3, <3>4, AloneNow DEF AloneAt
    <3>6. \A j \in Fds \ {0} : FreeOrOwn(j, c)'
      BY <2>1, <3>3, <3>4, AloneNow DEF FreeOrOwn
    <3>. QED
      BY <2>1, <3>2, <3>3, <3>4, <3>5, <3>6, AloneNow, AloneKept
  <2>. QED
    BY <1>7, <2>2, <2>3 DEF OpenDir
<1>8. ASSUME NEW c \in Conns, CloseFile(c) PROVE Alone'
  <2>1. /\ pc[c] = "close_file" /\ ~overlap
        /\ UNCHANGED <<fd, filefd, rq, bytes, got, crashed>>
    BY <1>8 DEF CloseFile, At, threadVars
  <2>2. /\ fdtab[filefd[c]] = File(c) /\ filefd[c] # 0 /\ filefd[c] # fd[c] /\ fdtab[fd[c]] = c
        /\ File(c) \notin unread
    BY <1>0, <2>1, AloneNow DEF AloneAt, TypeOK
  <2>3. Close(filefd[c]) /\ GoTo(c, "close_out") /\ UNCHANGED <<unread, silent, gone>>
    BY <1>0, <1>8, <2>2 DEF CloseFile, AtEnd, IsConn, clientVars
  <2>4. pc'[c] = "close_out" /\ \A d \in Conns \ {c} : pc'[d] = pc[d]
    BY <1>0, <2>3, GoToOnly DEF Labels
  <2>5. fdtab'[filefd[c]] = None /\ \A j \in Fds \ {filefd[c]} : fdtab'[j] = fdtab[j]
    BY <2>1, <2>3, AloneNow DEF Close
  <2>6. AloneAt(c)'
    BY <2>1, <2>2, <2>3, <2>4, <2>5, AloneNow DEF AloneAt
  <2>7. \A j \in Fds \ {0} : FreeOrOwn(j, c)'
    BY <2>1, <2>2, <2>4, <2>5, AloneNow DEF FreeOrOwn
  <2>. QED
    BY <2>1, <2>2, <2>3, <2>4, <2>5, <2>6, <2>7, AloneNow, AloneKept
<1>9. ASSUME NEW c \in Conns, CloseOut(c) PROVE Alone'
  <2>1. /\ pc[c] = "close_out" /\ ~overlap
        /\ UNCHANGED <<unread, silent, fd, filefd, rq, bytes, crashed>>
        /\ Write(rq[c], fd[c], "body") /\ Close(fd[c])
    BY <1>9 DEF CloseOut, At, threadVars
  <2>2. /\ fdtab[fd[c]] = c /\ rq[c].kind \in {"dir", "file", "status"}
        /\ c \notin gone => got[c] = {<<rq[c].of, "header">>}
    BY <2>1, AloneNow DEF AloneAt
  <2>3. /\ gone \subseteq gone'
        /\ c \notin gone' => got'[c] = Answer(rq[c])
        /\ \A d \in Conns \ {c} : got'[d] = got[d]
    <3>1. /\ gone \subseteq gone'
          /\ c \notin gone' => c \notin gone /\ got'[c] = got[c] \union {<<rq[c].of, "body">>}
          /\ \A d \in Conns \ {c} : got'[d] = got[d]
      BY <2>1, <2>2, WriteAlone
    <3>2. Answer(rq[c]) = {<<rq[c].of, "header">>} \union {<<rq[c].of, "body">>}
      BY <2>2, AnswerIs
    <3>. QED
      BY <2>2, <3>1, <3>2
  <2>4. PICK label \in {"close_in", "load"} : GoTo(c, label)
    BY <1>9 DEF CloseOut
  <2>5. pc'[c] = label /\ \A d \in Conns \ {c} : pc'[d] = pc[d]
    BY <1>0, <2>4, GoToOnly DEF Labels
  <2>6. fdtab'[fd[c]] = None /\ \A j \in Fds \ {fd[c]} : fdtab'[j] = fdtab[j]
    BY <2>1, AloneNow DEF Close
  <2>7. AloneAt(c)'
    BY <2>1, <2>2, <2>3, <2>5, <2>6, AloneNow DEF AloneAt
  <2>8. \A j \in Fds \ {0} : FreeOrOwn(j, c)'
    BY <2>1, <2>5, <2>6, AloneNow DEF FreeOrOwn
  <2>. QED
    BY <2>1, <2>3, <2>5, <2>6, <2>7, <2>8, AloneNow, AloneKept
<1>10. ASSUME NEW c \in Conns, AddBytes(c) PROVE Alone'
  <2>1. /\ pc[c] \in {"load", "store"} /\ ~overlap
        /\ UNCHANGED <<fdtab, unread, silent, gone, fd, filefd, rq, bytes, got, crashed>>
    BY <1>10 DEF AddBytes, At, clientVars
  <2>2. PICK label \in {"close_in", "store"} : GoTo(c, label)
    BY <1>10 DEF AddBytes
  <2>3. pc'[c] = label /\ \A d \in Conns \ {c} : pc'[d] = pc[d]
    BY <1>0, <2>2, GoToOnly DEF Labels
  <2>4. AloneAt(c)'
    BY <2>1, <2>3, AloneNow DEF AloneAt
  <2>5. \A j \in Fds \ {0} : FreeOrOwn(j, c)'
    BY <2>1, <2>3, AloneNow DEF FreeOrOwn
  <2>. QED
    BY <2>1, <2>3, <2>4, <2>5, AloneNow, AloneKept
<1>11. ASSUME NEW c \in Conns, CloseIn(c) PROVE Alone'
  <2>1. /\ pc[c] = "close_in" /\ ~overlap /\ Close(fd[c]) /\ GoTo(c, "ended")
        /\ UNCHANGED <<unread, silent, gone, fd, filefd, rq, bytes, got, crashed>>
    BY <1>11 DEF CloseIn, At, threadVars, clientVars
  <2>2. pc'[c] = "ended" /\ \A d \in Conns \ {c} : pc'[d] = pc[d]
    BY <1>0, <2>1, GoToOnly DEF Labels
  <2>3. fdtab'[fd[c]] = None /\ \A j \in Fds \ {fd[c]} : fdtab'[j] = fdtab[j]
    BY <2>1, AloneNow DEF Close
  <2>4. AloneAt(c)'
    BY <2>1, <2>2, AloneNow DEF AloneAt
  <2>5. \A j \in Fds \ {0} : FreeOrOwn(j, c)'
    BY <2>1, <2>2, <2>3, AloneNow DEF FreeOrOwn
  <2>. QED
    BY <2>1, <2>2, <2>3, <2>4, <2>5, AloneNow, AloneKept
<1>12. ASSUME NEW c \in Conns, Sigpipe(c) PROVE Alone'
  <2>1. /\ pc[c] \in {"reply", "header", "close_out"} /\ ~overlap /\ UNCHANGED pc
        /\ gone' = gone \union {fdtab[fd[c]]}
        /\ UNCHANGED <<fdtab, unread, silent, fd, filefd, rq, bytes, got>>
    BY <1>12 DEF Sigpipe, At, Crash, threadVars
  <2>2. AloneAt(c)'
    BY <2>1, AloneNow DEF AloneAt
  <2>3. \A j \in Fds \ {0} : FreeOrOwn(j, c)'
    BY <2>1, AloneNow DEF FreeOrOwn
  <2>. QED
    BY <2>1, <2>2, <2>3, AloneNow, AloneKept
<1>13. CASE UNCHANGED vars
  <2>1. UNCHANGED <<pc, fdtab, unread, silent, gone, fd, filefd, rq, bytes, got, crashed, overlap>>
    BY <1>13 DEF vars, threadVars, clientVars
  <2>2. Busy' = Busy /\ (\A c : AloneAt(c)' <=> AloneAt(c)) /\ \A i, c : FreeOrOwn(i, c)' <=> FreeOrOwn(i, c)
    BY <2>1 DEF Busy, AloneAt, FreeOrOwn
  <2>. QED
    BY <2>1, <2>2 DEF Alone
<1>. QED
  BY <1>1, <1>2, <1>3, <1>4, <1>5, <1>6, <1>7, <1>8, <1>9, <1>10, <1>11, <1>12, <1>13 DEF Next, HandleCall

-----------------------------------------------------------------------------
(* The sum over a finite set *)

SumOf(f, S) == MapThenSumSet(LAMBDA v : f[v], S)

\* The element that the fold takes from a set.
Taken(s) == CHOOSE v \in s : TRUE

\* What the fold computes for the subset s from smaller ones.
Added(f, h, s) == IF s = {} THEN 0 ELSE f[Taken(s)] + h[s \ {Taken(s)}]

\* Induction over the subsets of a finite set, in the order of the fold.
LEMMA SubsetInduction ==
  ASSUME NEW S, IsFiniteSet(S), NEW G, {} \in G,
         \A s \in SUBSET S : s # {} /\ s \ {Taken(s)} \in G => s \in G
  PROVE  SUBSET S \subseteq G
<1>. DEFINE T == {Cardinality(s) : s \in (SUBSET S) \ G}
<1>1. \A s \in SUBSET S : IsFiniteSet(s) /\ Cardinality(s) \in Nat
  BY FS_Subset, FS_CardinalityType
<1>2. SUFFICES ASSUME (SUBSET S) \ G # {} PROVE FALSE
  OBVIOUS
<1>3. T \subseteq Nat /\ T # {}
  BY <1>1, <1>2
<1>4. PICK n \in T : \A m \in T : ~ (<<m, n>> \in OpToRel(<, Nat))
  <2>. HIDE DEF T
  <2>. QED
    BY <1>3, NatLessThanWellFounded, WFMin
<1>5. PICK s \in (SUBSET S) \ G : n = Cardinality(s)
  BY <1>4
<1>6. s # {}
  BY <1>5
<1>7. Taken(s) \in s
  BY <1>6 DEF Taken
<1>8. s \ {Taken(s)} \in SUBSET S /\ s \ {Taken(s)} \notin G
  BY <1>5, <1>6
<1>9. Cardinality(s \ {Taken(s)}) \in T /\ Cardinality(s \ {Taken(s)}) = n - 1
  BY <1>1, <1>5, <1>7, <1>8, FS_RemoveElement
<1>10. n \in Nat /\ n - 1 \in Nat
  BY <1>1, <1>3, <1>5, <1>9
<1>11. <<n - 1, n>> \in OpToRel(<, Nat)
  BY <1>10 DEF OpToRel
<1>. QED
  BY <1>4, <1>9, <1>11

LEMMA NatSteps ==
  ASSUME NEW G, 0 \in G, \A n \in Nat : n \in G => n + 1 \in G
  PROVE  Nat \subseteq G
<1>1. SUFFICES ASSUME Nat \ G # {} PROVE FALSE
  OBVIOUS
<1>2. PICK n \in Nat \ G : \A m \in Nat \ G : ~ (<<m, n>> \in OpToRel(<, Nat))
  BY <1>1, NatLessThanWellFounded, WFMin
<1>3. n - 1 \in Nat \ G
  <2>1. n \in Nat /\ n \notin G
    OBVIOUS
  <2>2. n # 0
    BY <2>1
  <2>3. n - 1 \in Nat /\ (n - 1) + 1 = n
    BY <2>1, <2>2
  <2>. QED
    BY <2>1, <2>3
<1>4. <<n - 1, n>> \in OpToRel(<, Nat)
  BY <1>2, <1>3 DEF OpToRel
<1>. QED
  BY <1>2, <1>3, <1>4

LEMMA SumDefined ==
  ASSUME NEW S, IsFiniteSet(S), NEW f \in [S -> Nat]
  PROVE  \E h \in [SUBSET S -> Nat] : \A s \in SUBSET S : h[s] = Added(f, h, s)
<1>. DEFINE Upto(n, h) == \A s \in SUBSET S : Cardinality(s) <= n => h[s] = Added(f, h, s)
            G == {n \in Nat : \E h \in [SUBSET S -> Nat] : Upto(n, h)}
<1>1. \A s \in SUBSET S : Cardinality(s) \in 0 .. Cardinality(S) /\ Cardinality(S) \in Nat /\ IsFiniteSet(s)
  BY FS_Subset, FS_CardinalityType
<1>2. 0 \in G
  <2>1. \A s \in SUBSET S : Cardinality(s) <= 0 => s = {}
    BY <1>1, FS_EmptySet
  <2>2. [s \in SUBSET S |-> 0] \in [SUBSET S -> Nat]
    OBVIOUS
  <2>3. Upto(0, [s \in SUBSET S |-> 0])
    BY <2>1 DEF Added
  <2>. QED
    BY <2>2, <2>3
<1>3. ASSUME NEW n \in Nat, n \in G PROVE n + 1 \in G
  <2>1. PICK h \in [SUBSET S -> Nat] : Upto(n, h)
    BY <1>3
  <2>. DEFINE g == [s \in SUBSET S |-> IF Cardinality(s) <= n THEN h[s] ELSE Added(f, h, s)]
  <2>2. \A s \in SUBSET S : s # {} => /\ Taken(s) \in s /\ s \ {Taken(s)} \in SUBSET S
                                    /\ Cardinality(s \ {Taken(s)}) = Cardinality(s) - 1
    BY <1>1, FS_RemoveElement DEF Taken
  <2>3. \A s \in SUBSET S : Added(f, h, s) \in Nat
    <3>1. \A s \in SUBSET S : s # {} => f[Taken(s)] \in Nat /\ h[s \ {Taken(s)}] \in Nat
      BY <2>2
    <3>. QED
      BY <3>1 DEF Added
  <2>4. g \in [SUBSET S -> Nat]
    BY <2>3
  <2>5. ASSUME NEW s \in SUBSET S, Cardinality(s) <= n + 1 PROVE g[s] = Added(f, g, s)
    <3>1. CASE s = {}
      BY <2>1, <1>1, <3>1 DEF Added
    <3>2. CASE s # {}
      <4>1. /\ Taken(s) \in s /\ s \ {Taken(s)} \in SUBSET S
            /\ Cardinality(s \ {Taken(s)}) <= n
        BY <1>1, <2>2, <2>5, <3>2
      <4>2. g[s \ {Taken(s)}] = h[s \ {Taken(s)}]
        BY <4>1
      <4>3. Added(f, g, s) = Added(f, h, s)
        BY <4>2 DEF Added
      <4>4. g[s] = Added(f, h, s)
        BY <2>1
      <4>. QED
        BY <4>3, <4>4
    <3>. QED
      BY <3>1, <3>2
  <2>6. Upto(n + 1, g)
    BY <2>5
  <2>. HIDE DEF Upto, g
  <2>. QED
    BY <2>4, <2>6
<1>4. Nat \subseteq G
  <2>. HIDE DEF G
  <2>. QED
    BY <1>2, <1>3, NatSteps
<1>5. PICK h \in [SUBSET S -> Nat] : Upto(Cardinality(S), h)
  BY <1>1, <1>4
<1>. QED
  BY <1>1, <1>5

\* The fold, as a recursive definition.
LEMMA SumRecursive ==
  ASSUME NEW S, IsFiniteSet(S), NEW f \in [S -> Nat]
  PROVE  \E h : /\ \A s \in SUBSET S : h[s] = Added(f, h, s)
               /\ SumOf(f, S) = h[S]
<1>. DEFINE Eq(h) == h = [s \in SUBSET S |-> IF s = {} THEN 0 ELSE f[CHOOSE v \in s : TRUE] + h[s \ {CHOOSE v \in s : TRUE}]]
            iter == CHOOSE h : Eq(h)
<1>1. \E h : Eq(h)
  <2>1. PICK h \in [SUBSET S -> Nat] : \A s \in SUBSET S : h[s] = Added(f, h, s)
    BY SumDefined
  <2>. QED
    BY <2>1 DEF Added, Taken
<1>2. Eq(iter)
  BY <1>1
<1>3. SumOf(f, S) = iter[S]
  BY DEF SumOf, MapThenSumSet, MapThenFoldSet
<1>4. \A s \in SUBSET S : iter[s] = Added(f, iter, s)
  <2>. HIDE DEF iter
  <2>. QED
    BY <1>2 DEF Added, Taken
<1>. QED
  BY <1>3, <1>4
\* One step of the fold.
LEMMA TakenFrom ==
  ASSUME NEW S, IsFiniteSet(S), NEW s \in SUBSET S, s # {}
  PROVE  /\ Taken(s) \in S /\ Taken(s) \in s /\ s \ {Taken(s)} \in SUBSET S
         /\ Cardinality(s) \in Nat /\ Cardinality(s \ {Taken(s)}) = Cardinality(s) - 1
         /\ s # {}
BY FS_Subset, FS_CardinalityType, FS_RemoveElement DEF Taken

LEMMA SumIsNat ==
  ASSUME NEW S, IsFiniteSet(S), NEW f \in [S -> Nat]
  PROVE  SumOf(f, S) \in Nat
<1>1. PICK h : (\A s \in SUBSET S : h[s] = Added(f, h, s)) /\ SumOf(f, S) = h[S]
  BY SumRecursive
<1>. DEFINE G == {s \in SUBSET S : h[s] \in Nat}
<1>2. {} \in G
  <2>1. h[{}] = 0
    BY <1>1 DEF Added
  <2>. QED
    BY <2>1
<1>3. ASSUME NEW s \in SUBSET S, s # {}, s \ {Taken(s)} \in G PROVE s \in G
  <2>1. h[s] = f[Taken(s)] + h[s \ {Taken(s)}]
    BY <1>1, <1>3 DEF Added
  <2>2. f[Taken(s)] \in Nat /\ h[s \ {Taken(s)}] \in Nat
    BY <1>3, TakenFrom
  <2>. QED
    BY <2>1, <2>2
<1>4. SUBSET S \subseteq G
  <2>. HIDE DEF G
  <2>. QED
    BY <1>2, <1>3, SubsetInduction
<1>. QED
  BY <1>1, <1>4

\* When one summand grows the sum grows by as much.
LEMMA SumGrows ==
  ASSUME NEW S, IsFiniteSet(S), NEW f \in [S -> Nat], NEW g \in [S -> Nat], NEW w \in S,
         \A v \in S \ {w} : g[v] = f[v]
  PROVE  SumOf(g, S) = SumOf(f, S) + (g[w] - f[w])
<1>1. PICK h : (\A s \in SUBSET S : h[s] = Added(f, h, s)) /\ SumOf(f, S) = h[S]
  BY SumRecursive
<1>2. PICK k : (\A s \in SUBSET S : k[s] = Added(g, k, s)) /\ SumOf(g, S) = k[S]
  BY SumRecursive
<1>. DEFINE G == {s \in SUBSET S : /\ h[s] \in Int
                                  /\ k[s] = h[s] + (IF w \in s THEN g[w] - f[w] ELSE 0)}
<1>3. {} \in G
  <2>1. h[{}] = 0 /\ k[{}] = 0
    BY <1>1, <1>2 DEF Added
  <2>. QED
    BY <2>1
<1>4. ASSUME NEW s \in SUBSET S, s # {}, s \ {Taken(s)} \in G PROVE s \in G
  <2>1. /\ h[s] = f[Taken(s)] + h[s \ {Taken(s)}]
        /\ k[s] = g[Taken(s)] + k[s \ {Taken(s)}]
    BY <1>1, <1>2, <1>4 DEF Added
  <2>2. /\ Taken(s) \in S /\ Taken(s) \in s /\ h[s \ {Taken(s)}] \in Int
        /\ k[s \ {Taken(s)}] = h[s \ {Taken(s)}] + (IF w \in s \ {Taken(s)} THEN g[w] - f[w] ELSE 0)
    BY <1>4, TakenFrom
  <2>3. f[Taken(s)] \in Int /\ g[Taken(s)] \in Int /\ f[w] \in Int /\ g[w] \in Int
    BY <2>2
  <2>4. CASE Taken(s) = w
    BY <2>1, <2>2, <2>3, <2>4
  <2>5. CASE Taken(s) # w
    BY <2>1, <2>2, <2>3, <2>5
  <2>. QED
    BY <2>4, <2>5
<1>5. SUBSET S \subseteq G
  <2>. HIDE DEF G
  <2>. QED
    BY <1>3, <1>4, SubsetInduction
<1>6. S \in G
  BY <1>5
<1>. QED
  BY <1>1, <1>2, <1>6

\* The sum grows with its summands.
LEMMA SumMonotone ==
  ASSUME NEW S, IsFiniteSet(S), NEW f \in [S -> Nat], NEW g \in [S -> Nat],
         \A v \in S : f[v] <= g[v]
  PROVE  SumOf(f, S) <= SumOf(g, S)
<1>1. PICK h : (\A s \in SUBSET S : h[s] = Added(f, h, s)) /\ SumOf(f, S) = h[S]
  BY SumRecursive
<1>2. PICK k : (\A s \in SUBSET S : k[s] = Added(g, k, s)) /\ SumOf(g, S) = k[S]
  BY SumRecursive
<1>. DEFINE G == {s \in SUBSET S : h[s] \in Int /\ k[s] \in Int /\ h[s] <= k[s]}
<1>3. {} \in G
  <2>1. h[{}] = 0 /\ k[{}] = 0
    BY <1>1, <1>2 DEF Added
  <2>. QED
    BY <2>1
<1>4. ASSUME NEW s \in SUBSET S, s # {}, s \ {Taken(s)} \in G PROVE s \in G
  <2>1. /\ h[s] = f[Taken(s)] + h[s \ {Taken(s)}]
        /\ k[s] = g[Taken(s)] + k[s \ {Taken(s)}]
    BY <1>1, <1>2, <1>4 DEF Added
  <2>2. /\ Taken(s) \in S
        /\ h[s \ {Taken(s)}] \in Int /\ k[s \ {Taken(s)}] \in Int /\ h[s \ {Taken(s)}] <= k[s \ {Taken(s)}]
    BY <1>4, TakenFrom
  <2>3. f[Taken(s)] \in Int /\ g[Taken(s)] \in Int /\ f[Taken(s)] <= g[Taken(s)]
    BY <2>2
  <2>. QED
    BY <2>1, <2>2, <2>3
<1>5. SUBSET S \subseteq G
  <2>. HIDE DEF G
  <2>. QED
    BY <1>3, <1>4, SubsetInduction
<1>6. S \in G
  BY <1>5
<1>. QED
  BY <1>1, <1>2, <1>6

\* Nothing adds up to nothing.
LEMMA SumIsZero ==
  ASSUME NEW S, IsFiniteSet(S), NEW f \in [S -> Nat], \A v \in S : f[v] = 0
  PROVE  SumOf(f, S) = 0
<1>1. PICK h : (\A s \in SUBSET S : h[s] = Added(f, h, s)) /\ SumOf(f, S) = h[S]
  BY SumRecursive
<1>. DEFINE G == {s \in SUBSET S : h[s] = 0}
<1>2. {} \in G
  <2>1. h[{}] = 0
    BY <1>1 DEF Added
  <2>. QED
    BY <2>1
<1>3. ASSUME NEW s \in SUBSET S, s # {}, s \ {Taken(s)} \in G PROVE s \in G
  <2>1. h[s] = f[Taken(s)] + h[s \ {Taken(s)}]
    BY <1>1, <1>3 DEF Added
  <2>2. f[Taken(s)] = 0 /\ h[s \ {Taken(s)}] = 0
    BY <1>3, TakenFrom
  <2>. QED
    BY <2>1, <2>2
<1>4. SUBSET S \subseteq G
  <2>. HIDE DEF G
  <2>. QED
    BY <1>2, <1>3, SubsetInduction
<1>. QED
  BY <1>1, <1>4
-----------------------------------------------------------------------------
(* The bytes *)

\* What the threads have added, those whose sums were overwritten included: a
\* thread adds once, on its way to the end of handle_call.
Counted == [c \in Conns |-> IF pc[c] \in {"close_in", "ended"} THEN bytes[c] ELSE 0]

\* Neither the total nor any copy a thread is adding to exceeds it.
Within ==
  /\ server_bytes_sent <= SumOf(Counted, Conns)
  /\ \A c \in Conns : loaded[c] <= SumOf(Counted, Conns)

LEMMA CountedIsNat ==
  ASSUME TypeOK
  PROVE  Counted \in [Conns -> Nat] /\ SumOf(Counted, Conns) \in Nat
<1>1. Counted \in [Conns -> Nat]
  BY DEF TypeOK, Counted
<1>. QED
  BY <1>1, SumIsNat, TWebServAssumption

\* A thread that is not yet at close_in stays away from it, or has been there.
LEMMA WithinKept ==
  ASSUME TypeOK, TypeOK', Within, NEW c \in Conns,
         \A d \in Conns \ {c} : pc'[d] = pc[d] /\ bytes'[d] = bytes[d],
         \/ pc[c] \notin {"close_in", "ended"} /\ pc'[c] \notin {"close_in", "ended"}
         \/ /\ pc[c] \in {"close_in", "ended"} <=> pc'[c] \in {"close_in", "ended"}
            /\ bytes'[c] = bytes[c],
         UNCHANGED server_bytes_sent,
         \A d \in Conns : loaded'[d] \in {loaded[d], server_bytes_sent}
  PROVE  Within'
<1>1. \A d \in Conns : Counted'[d] = Counted[d]
  BY DEF Counted
<1>2. Counted' = Counted
  BY <1>1 DEF Counted
<1>. QED
  BY <1>2 DEF Within

\* It gets there, and the total has become at most what it added more.
LEMMA WithinCloses ==
  ASSUME TypeOK, TypeOK', Within, NEW c \in Conns,
         \A d \in Conns \ {c} : pc'[d] = pc[d],
         pc[c] \notin {"close_in", "ended"}, pc'[c] = "close_in",
         UNCHANGED <<bytes, loaded>>,
         server_bytes_sent' \in {server_bytes_sent, loaded[c] + bytes[c]}
  PROVE  Within'
<1>1. /\ Counted[c] = 0 /\ Counted'[c] = bytes[c]
      /\ \A d \in Conns \ {c} : Counted'[d] = Counted[d]
  BY DEF Counted
<1>2. /\ Counted \in [Conns -> Nat] /\ SumOf(Counted, Conns) \in Nat
      /\ Counted' \in [Conns -> Nat]
  <2>1. Counted \in [Conns -> Nat] /\ SumOf(Counted, Conns) \in Nat
    BY CountedIsNat
  <2>2. Counted' \in [Conns -> Nat]
    <3>0. bytes' \in [Conns -> 0 .. 2]
      BY Zenon DEF TypeOK
    <3>1. \A d \in Conns : bytes'[d] \in Nat
      BY <3>0
    <3>. QED
      BY <3>1 DEF Counted
  <2>. QED
    BY <2>1, <2>2
<1>3. SumOf(Counted', Conns) = SumOf(Counted, Conns) + (bytes[c] - 0)
  BY <1>1, <1>2, SumGrows, TWebServAssumption
<1>4. bytes[c] \in Nat /\ server_bytes_sent \in Nat /\ \A d \in Conns : loaded[d] \in Nat
  BY DEF TypeOK
<1>5. server_bytes_sent' <= SumOf(Counted', Conns)
  BY <1>2, <1>3, <1>4 DEF Within
<1>6. \A d \in Conns : loaded'[d] <= SumOf(Counted', Conns)
  BY <1>2, <1>3, <1>4 DEF Within
<1>. QED
  BY <1>5, <1>6 DEF Within

LEMMA WithinInit == Init => Within
<1>. SUFFICES ASSUME Init PROVE Within
  OBVIOUS
<1>1. TypeOK
  BY TypeInvInit DEF TypeInv
<1>2. SumOf(Counted, Conns) \in Nat
  BY <1>1, CountedIsNat
<1>. QED
  BY <1>2 DEF Init, Within

LEMMA WithinNext == TypeInv /\ Within /\ [Next]_vars => Within'
<1>. SUFFICES ASSUME TypeInv, Within, [Next]_vars PROVE Within'
  OBVIOUS
<1>0. TypeOK /\ TypeOK'
  BY TypeInvNext DEF TypeInv
<1>1. ASSUME NEW c \in Conns, \/ Accept(c) \/ OpenIn(c) \/ Read(c) \/ OpenFile(c) \/ CloseFile(c)
                              \/ CloseIn(c) \/ Sigpipe(c)
      PROVE  Within'
  <2>1. UNCHANGED <<bytes, loaded, server_bytes_sent>>
    BY <1>1 DEF Accept, OpenIn, Read, OpenFile, CloseFile, CloseIn, Sigpipe, threadVars
  <2>2. \/ UNCHANGED pc
        \/ \E label \in {"open_in", "read", "reply", "header", "load", "close_out"} :
             GoTo(c, label) /\ pc[c] \in {"none", "open_in", "read", "reply", "close_file"}
        \/ GoTo(c, "ended") /\ pc[c] = "close_in"
    BY <1>1 DEF Accept, OpenIn, Read, OpenFile, CloseFile, CloseIn, Sigpipe, At, Crash
  <2>3. \A d \in Conns \ {c} : pc'[d] = pc[d]
    BY <1>0, <2>2 DEF GoTo, TypeOK
  <2>4. \/ pc[c] \notin {"close_in", "ended"} /\ pc'[c] \notin {"close_in", "ended"}
        \/ pc[c] \in {"close_in", "ended"} <=> pc'[c] \in {"close_in", "ended"}
    BY <1>0, <2>2 DEF GoTo, TypeOK
  <2>. QED
    BY <1>0, <2>1, <2>3, <2>4, WithinKept
<1>2. ASSUME NEW c \in Conns, Header(c) \/ OpenDir(c) PROVE Within'
  <2>1. /\ UNCHANGED <<loaded, server_bytes_sent>>
        /\ \A d \in Conns \ {c} : bytes'[d] = bytes[d]
        /\ pc[c] \in {"reply", "header", "opendir"}
    BY <1>0, <1>2 DEF Header, OpenDir, At, TypeOK
  <2>2. \A d \in Conns \ {c} : pc'[d] = pc[d]
    BY <1>0, <1>2 DEF Header, OpenDir, GoTo, Crash, TypeOK
  <2>3. pc'[c] \notin {"close_in", "ended"}
    <3>1. CASE UNCHANGED pc
      BY <2>1, <3>1
    <3>2. CASE OpenDir(c)
      BY <1>0, <3>2 DEF OpenDir, GoTo, TypeOK
    <3>3. CASE Header(c) /\ pc' # pc
      <4>1. /\ (pc[c] = "reply" /\ rq[c].kind \in {"status", "dir"}) \/ pc[c] = "header"
            /\ GoTo(c, CASE rq[c].kind = "status" -> "close_out"
                         [] rq[c].kind = "dir" -> "opendir"
                         [] rq[c].kind = "file" -> "close_file")
        BY <3>3 DEF Header, At, Crash
      <4>2. rq[c].kind \in {"status", "dir", "file"}
        BY <4>1 DEF TypeInv, Expected
      <4>. QED
        BY <1>0, <4>1, <4>2 DEF GoTo, TypeOK
    <3>. QED
      BY <1>2, <3>1, <3>2, <3>3
  <2>. QED
    BY <1>0, <2>1, <2>2, <2>3, WithinKept
<1>3. ASSUME NEW c \in Conns, ReplyAtOnce(c) \/ CloseOut(c) PROVE Within'
  <2>1. /\ UNCHANGED <<bytes, loaded, server_bytes_sent>>
        /\ pc[c] \in {"reply", "close_out"}
    BY <1>3 DEF ReplyAtOnce, CloseOut, At, threadVars
  <2>2. GoTo(c, "close_in") \/ GoTo(c, "load")
    BY <1>3 DEF ReplyAtOnce, CloseOut
  <2>3. pc'[c] \in {"close_in", "load"} /\ \A d \in Conns \ {c} : pc'[d] = pc[d]
    BY <1>0, <2>2 DEF GoTo, TypeOK
  <2>4. CASE pc'[c] = "load"
    BY <1>0, <2>1, <2>3, <2>4, WithinKept
  <2>5. CASE pc'[c] = "close_in"
    BY <1>0, <2>1, <2>3, <2>5, WithinCloses
  <2>. QED
    BY <2>3, <2>4, <2>5
<1>4. ASSUME NEW c \in Conns, AddBytes(c) PROVE Within'
  <2>1. CASE /\ At(c, "load") /\ loaded' = [loaded EXCEPT ![c] = server_bytes_sent]
             /\ GoTo(c, "store") /\ UNCHANGED server_bytes_sent
    <3>1. pc[c] = "load" /\ pc'[c] = "store" /\ \A d \in Conns \ {c} : pc'[d] = pc[d]
      BY <1>0, <2>1 DEF At, GoTo, TypeOK
    <3>2. UNCHANGED bytes /\ \A d \in Conns : loaded'[d] \in {loaded[d], server_bytes_sent}
      BY <1>0, <1>4, <2>1 DEF AddBytes, TypeOK
    <3>. QED
      BY <1>0, <2>1, <3>1, <3>2, WithinKept
  <2>2. CASE /\ At(c, "store") /\ server_bytes_sent' = loaded[c] + bytes[c]
             /\ GoTo(c, "close_in") /\ UNCHANGED loaded
    <3>1. pc[c] = "store" /\ pc'[c] = "close_in" /\ \A d \in Conns \ {c} : pc'[d] = pc[d]
      BY <1>0, <2>2 DEF At, GoTo, TypeOK
    <3>2. UNCHANGED <<bytes, loaded>>
      BY <1>4, <2>2 DEF AddBytes
    <3>. QED
      BY <1>0, <2>2, <3>1, <3>2, WithinCloses
  <2>. QED
    BY <1>4, <2>1, <2>2 DEF AddBytes
<1>5. CASE UNCHANGED vars
  BY <1>5 DEF vars, threadVars, Within, Counted
<1>. QED
  BY <1>1, <1>2, <1>3, <1>4, <1>5 DEF Next, HandleCall

\* One thread at a time, the total is what the threads have added, and so is the copy
\* a thread is about to store.
Exact ==
  ~overlap =>
    /\ server_bytes_sent = SumOf(Counted, Conns)
    /\ \A c \in Conns : pc[c] = "store" => loaded[c] = server_bytes_sent

LEMMA ExactInit == Init => Exact
<1>. SUFFICES ASSUME Init PROVE Exact
  OBVIOUS
<1>1. TypeOK
  BY TypeInvInit DEF TypeInv
<1>2. Within /\ SumOf(Counted, Conns) \in Nat /\ server_bytes_sent = 0
  BY <1>1, WithinInit, CountedIsNat DEF Init
<1>3. \A c \in Conns : pc[c] = "none" /\ bytes[c] = 0
  BY DEF Init
<1>4. \A c \in Conns : Counted[c] = 0
  BY <1>3 DEF Counted
<1>5. SumOf(Counted, Conns) = 0
  BY <1>1, <1>4, SumIsZero, CountedIsNat, TWebServAssumption
<1>. QED
  BY <1>2, <1>3, <1>5 DEF Exact

\* No thread gets to close_in, or one that has nothing to add.
LEMMA ExactKept ==
  ASSUME TypeInv, Exact, ~overlap, NEW c \in Conns,
         \A d \in Conns \ {c} : /\ pc[d] \notin {"load", "store"}
                                /\ pc'[d] = pc[d] /\ bytes'[d] = bytes[d],
         \/ pc[c] \notin {"close_in", "ended"} /\ pc'[c] \notin {"close_in", "ended"}
         \/ /\ pc[c] \in {"close_in", "ended"} <=> pc'[c] \in {"close_in", "ended"}
            /\ bytes'[c] = bytes[c]
         \/ pc[c] \notin {"close_in", "ended"} /\ bytes'[c] = 0,
         UNCHANGED server_bytes_sent,
         pc'[c] = "store" => loaded'[c] = server_bytes_sent
  PROVE  Exact'
<1>1. \A d \in Conns : Counted'[d] = Counted[d]
  BY DEF Counted
<1>2. Counted' = Counted
  BY <1>1 DEF Counted
<1>. QED
  BY <1>2 DEF Exact

\* The only busy thread stores the sum.
LEMMA ExactStores ==
  ASSUME TypeInv, Exact, ~overlap, NEW c \in Conns,
         \A d \in Conns \ {c} : pc[d] \notin {"load", "store"} /\ pc'[d] = pc[d],
         pc[c] = "store", pc'[c] = "close_in", UNCHANGED bytes,
         server_bytes_sent' = loaded[c] + bytes[c]
  PROVE  Exact'
<1>1. /\ Counted[c] = 0 /\ Counted'[c] = bytes[c]
      /\ \A d \in Conns \ {c} : Counted'[d] = Counted[d]
  BY DEF Counted
<1>2. Counted \in [Conns -> Nat] /\ SumOf(Counted, Conns) \in Nat /\ bytes[c] \in Nat
  BY CountedIsNat DEF TypeInv, TypeOK
<1>3. Counted' \in [Conns -> Nat]
  <2>1. \A d \in Conns : Counted'[d] \in Nat
    BY <1>1, <1>2
  <2>. QED
    BY <2>1 DEF Counted
<1>4. SumOf(Counted', Conns) = SumOf(Counted, Conns) + (bytes[c] - 0)
  BY <1>1, <1>2, <1>3, SumGrows, TWebServAssumption
<1>5. loaded[c] = SumOf(Counted, Conns)
  BY DEF Exact
<1>6. server_bytes_sent' = SumOf(Counted', Conns)
  BY <1>2, <1>4, <1>5
<1>7. \A d \in Conns : pc'[d] # "store"
  OBVIOUS
<1>. QED
  BY <1>6, <1>7 DEF Exact

LEMMA ExactNext == TypeInv /\ Alone /\ Exact /\ [Next]_vars => Exact'
<1>. SUFFICES ASSUME TypeInv, Alone, Exact, [Next]_vars, ~overlap' PROVE Exact'
  BY DEF Exact
<1>0. TypeOK
  BY DEF TypeInv
<1>1. ASSUME NEW c \in Conns, Accept(c) PROVE Exact'
  <2>1. ~overlap /\ Busy = {} /\ pc[c] = "none" /\ UNCHANGED <<bytes, loaded, server_bytes_sent>>
    BY <1>1 DEF Accept, At
  <2>2. \A d \in Conns : pc[d] \in {"none", "ended"}
    BY <2>1 DEF Busy
  <2>3. UNCHANGED pc \/ GoTo(c, "open_in")
    BY <1>1 DEF Accept, Crash
  <2>4. pc'[c] \in {"none", "open_in"} /\ \A d \in Conns \ {c} : pc'[d] = pc[d]
    BY <1>0, <2>1, <2>3 DEF GoTo, TypeOK
  <2>. QED
    BY <2>1, <2>2, <2>4, ExactKept
<1>2. ASSUME NEW c \in Conns, HandleCall(c) \/ Sigpipe(c) PROVE Exact'
  <2>1. pc[c] \notin {"none", "ended"} /\ ~overlap
    BY <1>2 DEF HandleCall, OpenIn, Read, ReplyAtOnce, OpenFile, Header, OpenDir, CloseFile, CloseOut,
                AddBytes, CloseIn, Sigpipe, At
  <2>2. \A d \in Conns \ {c} : pc[d] \notin {"load", "store"}
    BY <2>1, AloneNow DEF Busy
  <2>3. CASE OpenIn(c) \/ Read(c) \/ OpenFile(c) \/ CloseFile(c) \/ CloseIn(c) \/ Sigpipe(c)
    <3>1. UNCHANGED <<bytes, server_bytes_sent>>
      BY <2>3 DEF OpenIn, Read, OpenFile, CloseFile, CloseIn, Sigpipe, threadVars
    <3>2. \/ UNCHANGED pc /\ pc[c] # "store"
          \/ \E label \in {"read", "reply", "header", "load", "close_out"} :
               GoTo(c, label) /\ pc[c] \in {"open_in", "read", "reply", "close_file"}
          \/ GoTo(c, "ended") /\ pc[c] = "close_in"
      BY <2>3 DEF OpenIn, Read, OpenFile, CloseFile, CloseIn, Sigpipe, At, Crash
    <3>3. \A d \in Conns \ {c} : pc'[d] = pc[d]
      BY <1>0, <3>2 DEF GoTo, TypeOK
    <3>4. /\ pc'[c] # "store"
          /\ \/ pc[c] \notin {"close_in", "ended"} /\ pc'[c] \notin {"close_in", "ended"}
             \/ pc[c] \in {"close_in", "ended"} <=> pc'[c] \in {"close_in", "ended"}
      BY <1>0, <3>2 DEF GoTo, TypeOK
    <3>. QED
      BY <2>1, <2>2, <3>1, <3>3, <3>4, ExactKept
  <2>4. CASE Header(c) \/ OpenDir(c)
    <3>1. /\ UNCHANGED server_bytes_sent
          /\ \A d \in Conns \ {c} : bytes'[d] = bytes[d]
          /\ pc[c] \in {"reply", "header", "opendir"}
      BY <1>0, <2>4 DEF Header, OpenDir, At, TypeOK
    <3>2. UNCHANGED pc \/ \E label \in {"close_out", "opendir", "close_file"} : GoTo(c, label)
      <4>1. CASE OpenDir(c)
        BY <4>1 DEF OpenDir
      <4>2. CASE Header(c) /\ pc' # pc
        <5>1. rq[c].kind \in {"status", "dir", "file"}
          BY <4>2 DEF Header, At, TypeInv, Expected
        <5>2. GoTo(c, CASE rq[c].kind = "status" -> "close_out"
                        [] rq[c].kind = "dir" -> "opendir"
                        [] rq[c].kind = "file" -> "close_file")
          BY <4>2 DEF Header, Crash
        <5>3. CASE rq[c].kind = "status"
          BY <5>2, <5>3
        <5>4. CASE rq[c].kind = "dir"
          BY <5>2, <5>4
        <5>5. CASE rq[c].kind = "file"
          BY <5>2, <5>5
        <5>. QED
          BY <5>1, <5>3, <5>4, <5>5
      <4>. QED
        BY <2>4, <4>1, <4>2
    <3>3. /\ pc'[c] \notin {"close_in", "ended", "store"}
          /\ \A d \in Conns \ {c} : pc'[d] = pc[d]
      BY <1>0, <3>1, <3>2 DEF GoTo, TypeOK
    <3>. QED
      BY <2>1, <2>2, <3>1, <3>3, ExactKept
  <2>5. CASE ReplyAtOnce(c)
    <3>1. UNCHANGED <<bytes, server_bytes_sent>> /\ pc[c] = "reply" /\ bytes[c] = 0 /\ GoTo(c, "close_in")
      BY <2>5 DEF ReplyAtOnce, At, threadVars, TypeInv, Expected
    <3>2. pc'[c] = "close_in" /\ \A d \in Conns \ {c} : pc'[d] = pc[d]
      BY <1>0, <3>1 DEF GoTo, TypeOK
    <3>. QED
      BY <2>1, <2>2, <3>1, <3>2, ExactKept
  <2>6. CASE CloseOut(c)
    <3>1. /\ UNCHANGED <<bytes, server_bytes_sent>> /\ pc[c] = "close_out"
          /\ GoTo(c, IF rq[c].kind = "status" THEN "close_in" ELSE "load")
      BY <2>6 DEF CloseOut, At, threadVars
    <3>2. bytes[c] = Size(rq[c])
      BY <2>1, <3>1, AloneNow DEF AloneAt
    <3>3. CASE rq[c].kind = "status"
      <4>1. bytes[c] = 0
        BY <3>2, <3>3, SizeIs
      <4>2. pc'[c] = "close_in" /\ \A d \in Conns \ {c} : pc'[d] = pc[d]
        BY <1>0, <3>1, <3>3 DEF GoTo, TypeOK
      <4>. QED
        BY <2>1, <2>2, <3>1, <4>1, <4>2, ExactKept
    <3>4. CASE rq[c].kind # "status"
      <4>1. pc'[c] = "load" /\ \A d \in Conns \ {c} : pc'[d] = pc[d]
        BY <1>0, <3>1, <3>4 DEF GoTo, TypeOK
      <4>. QED
        BY <2>1, <2>2, <3>1, <4>1, ExactKept
    <3>. QED
      BY <3>3, <3>4
  <2>7. CASE AddBytes(c)
    <3>1. UNCHANGED bytes
      BY <2>7 DEF AddBytes
    <3>2. CASE /\ At(c, "load") /\ loaded' = [loaded EXCEPT ![c] = server_bytes_sent]
               /\ GoTo(c, "store") /\ UNCHANGED server_bytes_sent
      <4>1. /\ pc[c] = "load" /\ pc'[c] = "store" /\ \A d \in Conns \ {c} : pc'[d] = pc[d]
            /\ loaded'[c] = server_bytes_sent
        BY <1>0, <3>2 DEF At, GoTo, TypeOK
      <4>. QED
        BY <2>1, <2>2, <3>1, <3>2, <4>1, ExactKept
    <3>3. CASE /\ At(c, "store") /\ server_bytes_sent' = loaded[c] + bytes[c]
               /\ GoTo(c, "close_in")
      <4>1. pc[c] = "store" /\ pc'[c] = "close_in" /\ \A d \in Conns \ {c} : pc'[d] = pc[d]
        BY <1>0, <3>3 DEF At, GoTo, TypeOK
      <4>. QED
        BY <2>1, <2>2, <3>1, <3>3, <4>1, ExactStores
    <3>. QED
      BY <2>7, <3>2, <3>3 DEF AddBytes
  <2>. QED
    BY <1>2, <2>3, <2>4, <2>5, <2>6, <2>7 DEF HandleCall
<1>3. CASE UNCHANGED vars
  BY <1>3 DEF vars, threadVars, Exact, Counted
<1>. QED
  BY <1>1, <1>2, <1>3 DEF Next

\* What counts of a whole answer.
LEMMA CountsOf ==
  ASSUME NEW r, r.kind \in AllKinds
  PROVE  Cardinality({piece \in Answer(r) : Counts(r, piece)}) = Size(r)
<1>. DEFINE Counting == {piece \in Answer(r) : Counts(r, piece)}
            header == <<r.of, "header">>
            body == <<r.of, "body">>
<1>1. Cardinality({}) = 0 /\ Cardinality({header}) = 1
  BY FS_EmptySet, FS_Singleton
<1>2. Cardinality({header} \union {body}) = 2
  <2>1. IsFiniteSet({header}) /\ body \notin {header}
    <3>1. body # header
      OBVIOUS
    <3>. QED
      BY <3>1, FS_Singleton
  <2>2. Cardinality({header} \union {body}) = Cardinality({header}) + 1
    <3>. HIDE DEF header, body
    <3>. QED
      BY <2>1, FS_AddElement
  <2>. QED
    BY <1>1, <2>1, <2>2
<1>3. CASE r.kind = "dir"
  <2>1. Answer(r) = {header} \union {body} /\ Size(r) = 2
    BY <1>3, AnswerIs, SizeIs
  <2>2. Counting = {header} \union {body}
    BY <1>3, <2>1 DEF Counts
  <2>. QED
    BY <1>2, <2>1, <2>2
<1>4. CASE r.kind = "file"
  <2>1. Answer(r) = {header} \union {body} /\ Size(r) = 1
    BY <1>4, AnswerIs, SizeIs
  <2>2. header[2] = "header" /\ body[2] # "header"
    OBVIOUS
  <2>3. Counting = {header}
    BY <1>4, <2>1, <2>2 DEF Counts
  <2>. QED
    BY <1>1, <2>1, <2>3
<1>5. CASE r.kind \notin {"dir", "file"}
  <2>1. Counting = {}
    BY <1>5 DEF Counts
  <2>2. Size(r) = 0
    BY <1>5 DEF Size
  <2>. QED
    BY <1>1, <2>1, <2>2
<1>. QED
  BY <1>3, <1>4, <1>5

\* Each thread has counted what it adds; one at a time, its client has received it.
LEMMA WithinCounts == TypeInv /\ Alone /\ Within /\ Exact => BytesCounted
<1>. SUFFICES ASSUME TypeInv, Alone, Within, Exact PROVE BytesCounted
  OBVIOUS
<1>1. /\ Counted \in [Conns -> Nat] /\ SumOf(Counted, Conns) \in Nat
      /\ bytes \in [Conns -> Nat] /\ server_bytes_sent \in Nat
  BY CountedIsNat DEF TypeInv, TypeOK
<1>2. \A c \in Conns : Counted[c] <= bytes[c]
  BY <1>1 DEF Counted
<1>3. SumOf(bytes, Conns) \in Nat /\ SumOf(Counted, Conns) <= SumOf(bytes, Conns)
  BY <1>1, <1>2, SumIsNat, SumMonotone, TWebServAssumption
<1>4. server_bytes_sent <= SumOf(bytes, Conns)
  BY <1>1, <1>3 DEF Within
<1>5. ASSUME ~overlap, Busy = {}, gone = {} PROVE server_bytes_sent = SumOf(Received, Conns)
  <2>1. ASSUME NEW c \in Conns PROVE Received[c] = Counted[c]
    <3>1. AloneAt(c) /\ pc[c] \in {"none", "ended"}
      BY <1>5 DEF Alone, Busy
    <3>2. CASE pc[c] = "none"
      <4>1. got[c] = {}
        BY <3>1, <3>2 DEF AloneAt
      <4>2. Received[c] = Cardinality({})
        BY <4>1 DEF Received
      <4>. QED
        BY <3>2, <4>2, FS_EmptySet DEF Counted
    <3>3. CASE pc[c] = "ended"
      <4>1. got[c] = Answer(rq[c]) /\ bytes[c] = Size(rq[c])
        BY <1>5, <3>1, <3>3 DEF AloneAt
      <4>2. rq[c].kind \in AllKinds
        BY DEF TypeInv, TypeOK
      <4>3. Received[c] = Cardinality({piece \in Answer(rq[c]) : Counts(rq[c], piece)})
        BY <4>1 DEF Received
      <4>. QED
        BY <3>3, <4>1, <4>2, <4>3, CountsOf DEF Counted
    <3>. QED
      BY <3>1, <3>2, <3>3
  <2>2. Received = Counted
    BY <2>1 DEF Received, Counted
  <2>. QED
    BY <1>5, <2>2 DEF Exact
<1>. QED
  BY <1>4, <1>5 DEF BytesCounted, SumOf
-----------------------------------------------------------------------------
(* The server with processes *)

Working == {"read", "fork", "process", "exec"}

\* Who has a connection: it has been accepted, and is open for those who read from it
\* or answer.  What is answered is the request of its client, unless the client has
\* said that there will be none.
Connected == \A p \in Procs :
  /\ conn[p] \in Clients <=> place[p] \in Working \union {"close_in"}
  /\ conn[p] \in Clients => conn[p] \in accepted
  /\ place[p] \in Working => p \in open[conn[p]]
  /\ place[p] \in {"fork", "process", "exec"} =>
       \/ client[conn[p]] = "silent"
       \/ client[conn[p]] = "sent" /\ request[p] = wants[conn[p]]

\* A connection has one process that answers it, or is about to have one.
OneWorker == \A p, q \in Procs :
  p # q /\ conn[p] = conn[q] /\ conn[p] \in Clients =>
    /\ place[p] \notin {"read", "fork"}
    /\ ~(place[p] \in {"process", "exec"} /\ place[q] \in {"process", "exec"})

\* Nothing is sent before the answer, and before the program that writes its body
\* only the header.
Unwritten ==
  /\ \A c \in Clients \ accepted : received[c] = <<>>
  /\ \A p \in Procs :
       /\ place[p] \in {"read", "fork", "process"} => received[conn[p]] = <<>>
       /\ place[p] = "exec" =>
            /\ request[p] \in {"dir", "cgi"}
            /\ received[conn[p]] = <<"header">> \/ (received[conn[p]] = <<>> /\ conn[p] \in hungup)

\* p is at work on the answer to c.
AtWork(p, c) == place[p] \in {"fork", "process", "exec"} /\ conn[p] = c

\* Where the answer to a connection is: not begun, not asked for, given up, on its way
\* or there.
ServedAt(c) ==
  \/ \E p \in Procs : place[p] = "read" /\ conn[p] = c
  \/ client[c] = "silent"
  \/ client[c] = "sent" /\ c \in hungup \union dropped
  \/ client[c] = "sent" /\ \E p \in Procs : AtWork(p, c)
  \/ client[c] = "sent" /\ received[c] \in Forking!Answers(wants[c])

Served == \A c \in accepted : ServedAt(c)

ServingLabels == {"accept", "read", "fork", "close_in"}
Serving == {p \in Procs : place[p] \in ServingLabels}

\* Each server but the first one has a connection of its own, that it was forked
\* for and whose request was a bad one.
Descent(f) ==
  /\ f \in [Serving \ {Main} -> failed]
  /\ \A p, q \in Serving \ {Main} : f[p] = f[q] => p = q
  /\ \A q \in Procs : place[q] \in {"read", "fork", "process"} => \A p \in Serving \ {Main} : f[p] # conn[q]

Offspring ==
  /\ IsFiniteSet(failed) /\ failed \subseteq accepted
  /\ Main \in Serving
  /\ \A p \in Procs : place[p] \in {"fork", "process"} /\ request[p] \in Forking!ErrorKinds => conn[p] \in failed
  /\ \E f : Descent(f)

ProcessTypes == Forking!TypeOK /\ received \in [Clients -> Seq(Forking!Texts)]

ProcessInv == ProcessTypes /\ Connected /\ OneWorker /\ Unwritten /\ Served /\ Offspring
-----------------------------------------------------------------------------
\* There are processes, and the requests are of known kinds.
LEMMA ProcessesAre == Requests \subseteq Forking!AllKinds /\ Main \in Procs /\ None \notin Clients
BY WebServersAssumption DEF WebServersAssumption, Forking!WebServAssumption

\* The texts and the answers.
LEMMA TextsAre ==
  /\ \A s \in Seq(Forking!Texts) : <<>> \o s = s /\ s \o <<>> = s
  /\ \A t \in Forking!Texts : <<t>> \in Seq(Forking!Texts) /\ Len(<<t>>) = 1
  /\ \A t \in Forking!Texts : <<"header">> \o <<t>> = <<"header", t>> /\ Len(<<"header", t>>) = 2
  /\ \A t \in Forking!Texts : <<"header", t>> \in Seq(Forking!Texts)
  /\ <<>> \in Seq(Forking!Texts) /\ Len(<<>>) = 0
<1>1. \A s \in Seq(Forking!Texts) : <<>> \o s = s /\ s \o <<>> = s
  BY EmptySeq, ConcatEmptySeq
<1>2. \A t \in Forking!Texts : <<t>> \in Seq(Forking!Texts) /\ Len(<<t>>) = 1
  OBVIOUS
<1>3. \A t \in Forking!Texts : <<"header", t>> \in Seq(Forking!Texts) /\ Len(<<"header", t>>) = 2
  BY DEF Forking!Texts
<1>4. ASSUME NEW t \in Forking!Texts PROVE <<"header">> \o <<t>> = <<"header", t>>
  <2>. DEFINE one == <<"header">>
              two == <<t>>
              both == <<"header", t>>
  <2>1. /\ one \in Seq(Forking!Texts) /\ Len(one) = 1 /\ one[1] = "header"
        /\ two \in Seq(Forking!Texts) /\ Len(two) = 1 /\ two[1] = t
        /\ both \in Seq(Forking!Texts) /\ Len(both) = 2 /\ both[1] = "header" /\ both[2] = t
    BY <1>3 DEF Forking!Texts
  <2>. HIDE DEF one, two, both
  <2>2. /\ one \o two \in Seq(Forking!Texts) /\ Len(one \o two) = 2
        /\ \A i \in 1 .. 2 : (one \o two)[i] = IF i <= 1 THEN one[i] ELSE two[i - 1]
    BY <2>1, ConcatProperties
  <2>3. \A i \in 1 .. 2 : (one \o two)[i] = both[i]
    BY <2>1, <2>2
  <2>4. one \o two = both
    BY <2>1, <2>2, <2>3, SeqEqual
  <2>. QED
    BY <2>4 DEF one, two, both
<1>. QED
  BY <1>1, <1>2, <1>3, <1>4

\* What is written to p's connection.
LEMMA WriteIs ==
  ASSUME received \in [Clients -> Seq(Forking!Texts)], NEW p, conn[p] \in Clients, NEW text, Forking!Write(p, text),
         received[conn[p]] \o text \in Seq(Forking!Texts)
  PROVE  /\ received' \in [Clients -> Seq(Forking!Texts)]
         /\ received'[conn[p]] = IF conn[p] \in hungup THEN received[conn[p]] ELSE received[conn[p]] \o text
         /\ \A c \in Clients \ {conn[p]} : received'[c] = received[c]
BY DEF Forking!Write

\* The pieces of an answer, written to a connection that has got nothing yet, or the
\* header.
LEMMA PiecesAre ==
  ASSUME received \in [Clients -> Seq(Forking!Texts)], NEW p, conn[p] \in Clients, NEW text, Forking!Write(p, text),
         \/ received[conn[p]] = <<>> /\ text \in {<<>>, <<"notGET">>, <<"missing">>, <<"header">>, <<"header", "body">>}
         \/ received[conn[p]] \in {<<>>, <<"header">>} /\ text \in {<<"body">>, <<"error">>}
  PROVE  /\ received' \in [Clients -> Seq(Forking!Texts)]
         /\ \A c \in Clients \ {conn[p]} : received'[c] = received[c]
         /\ Len(received'[conn[p]]) <= 2
         /\ conn[p] \in hungup => received'[conn[p]] = received[conn[p]]
         /\ conn[p] \notin hungup /\ received[conn[p]] = <<>> => received'[conn[p]] = text
         /\ conn[p] \notin hungup /\ received[conn[p]] = <<"header">> =>
              /\ text = <<"body">> => received'[conn[p]] = <<"header", "body">>
              /\ text = <<"error">> => received'[conn[p]] = <<"header", "error">>
<1>. DEFINE old == received[conn[p]]
            new == old \o text
<1>1. text \in Seq(Forking!Texts) /\ Len(text) <= 2
  <2>1. \A t \in {"notGET", "missing", "header", "body", "error"} : t \in Forking!Texts
    BY DEF Forking!Texts
  <2>2. \A t \in Forking!Texts : <<t>> \in Seq(Forking!Texts) /\ Len(<<t>>) <= 2
    BY TextsAre
  <2>3. \A t \in Forking!Texts : <<"header", t>> \in Seq(Forking!Texts) /\ Len(<<"header", t>>) <= 2
    BY TextsAre
  <2>4. <<>> \in Seq(Forking!Texts) /\ Len(<<>>) <= 2
    BY TextsAre
  <2>5. text \in {<<>>, <<"notGET">>, <<"missing">>, <<"header">>, <<"body">>, <<"error">>} \/ text = <<"header", "body">>
    OBVIOUS
  <2>6. CASE text = <<>>
    BY <2>4, <2>6
  <2>7. CASE text = <<"header", "body">>
    BY <2>1, <2>3, <2>7
  <2>8. CASE \E t \in {"notGET", "missing", "header", "body", "error"} : text = <<t>>
    BY <2>1, <2>2, <2>8
  <2>. QED
    BY <2>5, <2>6, <2>7, <2>8
<1>2. ASSUME new \in Seq(Forking!Texts)
      PROVE  /\ received' \in [Clients -> Seq(Forking!Texts)]
             /\ \A c \in Clients \ {conn[p]} : received'[c] = received[c]
             /\ received'[conn[p]] = IF conn[p] \in hungup THEN old ELSE new
  BY <1>2, WriteIs
<1>3. CASE old = <<>>
  <2>1. new = text
    BY <1>1, <1>3, TextsAre
  <2>2. old # <<"header">> /\ Len(old) <= 2
    BY <1>3, TextsAre
  <2>. HIDE DEF old, new
  <2>3. /\ received' \in [Clients -> Seq(Forking!Texts)]
        /\ \A c \in Clients \ {conn[p]} : received'[c] = received[c]
        /\ received'[conn[p]] = IF conn[p] \in hungup THEN old ELSE text
    BY <1>1, <1>2, <2>1
  <2>. QED
    BY <1>1, <1>3, <2>2, <2>3 DEF old
<1>4. CASE old = <<"header">> /\ text \in {<<"body">>, <<"error">>}
  <2>1. /\ old # <<>> /\ Len(old) <= 2
        /\ <<"body">> # <<"error">>
    BY <1>4
  <2>2. \A t \in {"body", "error"} :
          <<"header">> \o <<t>> = <<"header", t>> /\ <<"header", t>> \in Seq(Forking!Texts) /\ Len(<<"header", t>>) = 2
    BY TextsAre DEF Forking!Texts
  <2>3. PICK t \in {"body", "error"} : text = <<t>>
    BY <1>4
  <2>4. new = <<"header", t>> /\ new \in Seq(Forking!Texts) /\ Len(new) <= 2
    BY <1>4, <2>2, <2>3
  <2>5. t = "body" <=> text = <<"body">>
    BY <2>3
  <2>. HIDE DEF old, new
  <2>6. /\ received' \in [Clients -> Seq(Forking!Texts)]
        /\ \A c \in Clients \ {conn[p]} : received'[c] = received[c]
        /\ received'[conn[p]] = IF conn[p] \in hungup THEN old ELSE new
    BY <1>2, <2>4
  <2>7. /\ text = <<"body">> => new = <<"header", "body">>
        /\ text = <<"error">> => new = <<"header", "error">>
    BY <2>1, <2>3, <2>4, <2>5
  <2>. QED
    BY <1>4, <2>1, <2>4, <2>6, <2>7 DEF old
<1>. QED
  BY <1>3, <1>4

LEMMA ProcessMoves ==
  ASSUME Forking!TypeOK, NEW p \in Procs, NEW label, Forking!GoTo(p, label)
  PROVE  /\ place'[p] = label /\ \A r \in Procs \ {p} : place'[r] = place[r]
BY DEF Forking!TypeOK, Forking!GoTo

\* A process that ends.
LEMMA ExitIs ==
  ASSUME Forking!TypeOK, NEW p \in Procs, conn[p] \in Clients, Forking!Exit(p)
  PROVE  /\ place'[p] = "exit" /\ conn'[p] = None /\ request'[p] = "malformed"
         /\ \A r \in Procs \ {p} : place'[r] = place[r] /\ conn'[r] = conn[r] /\ request'[r] = request[r]
         /\ \A c \in Clients : open'[c] = IF c = conn[p] THEN open[c] \ {p} ELSE open[c]
BY DEF Forking!TypeOK, Forking!Exit, Forking!GoTo, Forking!Close

\* Where the servers remain the same ones.
LEMMA OffspringKept ==
  ASSUME Offspring, failed \subseteq failed', IsFiniteSet(failed'), failed' \subseteq accepted',
         \A p \in Procs : place'[p] \in ServingLabels <=> place[p] \in ServingLabels,
         \A p \in Procs : place'[p] \in {"fork", "process"} /\ request'[p] \in Forking!ErrorKinds => conn'[p] \in failed',
         \A q \in Procs : place'[q] \in {"read", "fork", "process"} =>
           \/ conn'[q] \notin failed
           \/ \E r \in Procs : place[r] \in {"read", "fork", "process"} /\ conn[r] = conn'[q]
  PROVE  Offspring'
<1>1. Serving' = Serving
  BY DEF Serving
<1>2. PICK f : Descent(f)
  BY DEF Offspring
<1>3. f \in [Serving \ {Main} -> failed]
  BY <1>2 DEF Descent
<1>4. ASSUME NEW q \in Procs, place'[q] \in {"read", "fork", "process"}, NEW p \in Serving \ {Main}
      PROVE  f[p] # conn'[q]
  <2>1. f[p] \in failed
    BY <1>3
  <2>2. \A r \in Procs : place[r] \in {"read", "fork", "process"} => f[p] # conn[r]
    BY <1>2 DEF Descent
  <2>. QED
    BY <1>4, <2>1, <2>2
<1>5. f \in [Serving \ {Main} -> failed']
  BY <1>3
<1>6. Descent(f)'
  BY <1>1, <1>2, <1>4, <1>5 DEF Descent
<1>. QED
  BY <1>1, <1>6 DEF Offspring

LEMMA ProcessInit == Forking!Init => ProcessInv
<1>. SUFFICES ASSUME Forking!Init PROVE ProcessInv
  OBVIOUS
<1>1. ProcessTypes
  BY ProcessesAre, TextsAre DEF Forking!Init, ProcessTypes, Forking!TypeOK, Forking!AllKinds
<1>2. Connected /\ OneWorker
  BY ProcessesAre DEF Forking!Init, Connected, OneWorker, Working
<1>3. Unwritten /\ Served
  BY DEF Forking!Init, Unwritten, Served
<1>4. Offspring
  <2>1. Serving = {Main}
    BY ProcessesAre DEF Forking!Init, Serving, ServingLabels
  <2>2. IsFiniteSet(failed)
    BY FS_EmptySet DEF Forking!Init
  <2>. DEFINE f == [p \in {} |-> {}]
  <2>3. Descent(f)
    <3>1. Serving \ {Main} = {}
      BY <2>1
    <3>2. f \in [{} -> failed]
      OBVIOUS
    <3>. HIDE DEF f
    <3>. QED
      BY <3>1, <3>2 DEF Descent
  <2>. HIDE DEF f
  <2>4. \A p \in Procs : place[p] \notin {"fork", "process"}
    BY DEF Forking!Init
  <2>. QED
    BY <2>1, <2>2, <2>3, <2>4 DEF Offspring, Forking!Init
<1>. QED
  BY <1>1, <1>2, <1>3, <1>4 DEF ProcessInv

\* What is never changed once it is there.
LEMMA ClientKeeps ==
  ASSUME ProcessInv, NEW c \in Clients, Forking!Connect(c) \/ Forking!SendRequest(c) \/ Forking!HangUp(c)
  PROVE  ProcessInv'
<1>0. Forking!TypeOK /\ ProcessTypes /\ Connected /\ OneWorker /\ Unwritten /\ Served /\ Offspring
  BY DEF ProcessInv, ProcessTypes
<1>1. UNCHANGED <<accepted, open, received, Forking!serverVars, failed, dropped>> /\ hungup \subseteq hungup'
  BY DEF Forking!Connect, Forking!SendRequest, Forking!HangUp
<1>2. /\ client' \in [Clients -> {"new", "connected", "sent", "silent"}]
      /\ wants' \in [Clients -> Forking!AllKinds] /\ hungup' \in SUBSET Clients
      /\ \A d \in Clients : client[d] \in {"sent", "silent"} => client'[d] = client[d] /\ wants'[d] = wants[d]
  BY <1>0, ProcessesAre DEF Forking!TypeOK, Forking!Connect, Forking!SendRequest, Forking!HangUp
<1>3. ProcessTypes'
  BY <1>0, <1>1, <1>2 DEF ProcessTypes, Forking!TypeOK, Forking!serverVars
<1>4. Connected'
  BY <1>0, <1>1, <1>2 DEF Connected, Working, Forking!serverVars, Forking!TypeOK
<1>5. OneWorker' /\ Unwritten'
  BY <1>0, <1>1 DEF OneWorker, Unwritten, Forking!serverVars
<1>6. Served'
  <2>. SUFFICES ASSUME NEW d \in accepted' PROVE ServedAt(d)'
    BY DEF Served
  <2>1. d \in accepted /\ d \in Clients
    BY <1>0, <1>1 DEF Forking!TypeOK
  <2>2. CASE \E p \in Procs : place[p] = "read" /\ conn[p] = d
    BY <1>1, <2>2 DEF ServedAt, Forking!serverVars
  <2>3. CASE client[d] \in {"sent", "silent"}
    <3>1. client'[d] = client[d] /\ wants'[d] = wants[d] /\ UNCHANGED <<place, conn, request, received, dropped>>
      BY <1>1, <1>2, <2>1, <2>3 DEF Forking!serverVars
    <3>2. \A p \in Procs : AtWork(p, d) => AtWork(p, d)'
      BY <3>1 DEF AtWork
    <3>. QED
      BY <1>0, <1>1, <2>1, <2>3, <3>1, <3>2 DEF Served, ServedAt
  <2>. QED
    BY <1>0, <2>1, <2>2, <2>3 DEF Served, ServedAt
<1>7. Offspring'
  <2>1. UNCHANGED <<place, conn, request, failed, accepted>>
    BY <1>1 DEF Forking!serverVars
  <2>. QED
    BY <1>0, <2>1, OffspringKept DEF Offspring
<1>. QED
  BY <1>3, <1>4, <1>5, <1>6, <1>7 DEF ProcessInv

LEMMA AcceptKeeps == ASSUME ProcessInv, NEW p \in Procs, Forking!Accept(p) PROVE ProcessInv'
<1>0. Forking!TypeOK /\ ProcessTypes /\ Connected /\ OneWorker /\ Unwritten /\ Served /\ Offspring
  BY DEF ProcessInv, ProcessTypes
<1>1. PICK c \in Clients \ accepted :
        /\ client[c] # "new"
        /\ accepted' = accepted \union {c}
        /\ conn' = [conn EXCEPT ![p] = c]
        /\ open' = [open EXCEPT ![c] = {p}]
  BY DEF Forking!Accept
<1>2. /\ place[p] = "accept" /\ place'[p] = "read" /\ conn'[p] = c
      /\ \A r \in Procs \ {p} : place'[r] = place[r] /\ conn'[r] = conn[r]
      /\ open'[c] = {p} /\ \A d \in Clients \ {c} : open'[d] = open[d]
      /\ UNCHANGED <<client, wants, hungup, received, request, failed, dropped>>
  BY <1>0, <1>1, ProcessMoves DEF Forking!Accept, Forking!TypeOK, Forking!clientVars
<1>3. \A r \in Procs : conn[r] # c
  BY <1>0, <1>1 DEF Connected
<1>4. ProcessTypes'
  BY <1>0, <1>1, <1>2 DEF ProcessTypes, Forking!TypeOK, Forking!Accept, Forking!GoTo
<1>5. Connected'
  BY <1>0, <1>1, <1>2, <1>3 DEF Connected, Working, Forking!TypeOK
<1>6. OneWorker'
  BY <1>0, <1>1, <1>2, <1>3 DEF OneWorker
<1>7. Unwritten'
  <2>1. \A d \in Clients \ accepted' : received'[d] = <<>>
    BY <1>0, <1>1, <1>2 DEF Unwritten
  <2>2. received'[c] = <<>>
    BY <1>0, <1>1, <1>2 DEF Unwritten
  <2>3. \A r \in Procs \ {p} : place'[r] = place[r] /\ conn'[r] = conn[r] /\ request'[r] = request[r]
    BY <1>2
  <2>4. place'[p] = "read" /\ conn'[p] = c /\ UNCHANGED <<received, hungup>>
    BY <1>2
  <2>. QED
    BY <1>0, <2>1, <2>2, <2>3, <2>4 DEF Unwritten
<1>8. Served'
  <2>. SUFFICES ASSUME NEW d \in accepted' PROVE ServedAt(d)'
    BY DEF Served
  <2>1. CASE d = c
    BY <1>2, <2>1 DEF ServedAt
  <2>2. CASE d \in accepted
    <3>1. \A r \in Procs : AtWork(r, d) => AtWork(r, d)'
      BY <1>2 DEF AtWork
    <3>2. \A r \in Procs : place[r] = "read" => r # p
      BY <1>2
    <3>. QED
      BY <1>0, <1>2, <2>2, <3>1, <3>2 DEF Served, ServedAt
  <2>. QED
    BY <1>1, <2>1, <2>2
<1>9. Offspring'
  <2>1. failed \subseteq accepted' /\ c \notin failed
    BY <1>0, <1>1 DEF Offspring
  <2>. QED
    BY <1>0, <1>2, <2>1, OffspringKept DEF Offspring, ServingLabels
<1>. QED
  BY <1>4, <1>5, <1>6, <1>7, <1>8, <1>9 DEF ProcessInv

LEMMA ReadKeeps == ASSUME ProcessInv, NEW p \in Procs, Forking!Read(p) PROVE ProcessInv'
<1>0. Forking!TypeOK /\ ProcessTypes /\ Connected /\ OneWorker /\ Unwritten /\ Served /\ Offspring
  BY DEF ProcessInv, ProcessTypes
<1>. DEFINE c == conn[p]
<1>1. /\ place[p] = "read" /\ place'[p] = "fork"
      /\ \A r \in Procs \ {p} : place'[r] = place[r]
      /\ UNCHANGED <<Forking!clientVars, accepted, open, received, conn, dropped>>
  BY <1>0, ProcessMoves DEF Forking!Read
<1>2. c \in Clients /\ c \in accepted
  BY <1>0, <1>1 DEF Connected, Working
<1>3. /\ request' \in [Procs -> Forking!AllKinds]
      /\ \A r \in Procs \ {p} : request'[r] = request[r]
      /\ client[c] = "silent" \/ (client[c] = "sent" /\ request'[p] = wants[c])
  <2>1. CASE client[c] = "sent" /\ request' = [request EXCEPT ![p] = wants[c]]
    BY <1>0, <1>2, <2>1 DEF Forking!TypeOK
  <2>2. CASE client[c] = "silent" /\ \E k \in Requests : request' = [request EXCEPT ![p] = k]
    BY <1>0, <2>2, ProcessesAre DEF Forking!TypeOK
  <2>. QED
    BY <2>1, <2>2 DEF Forking!Read
<1>4. failed' = IF request'[p] \in Forking!ErrorKinds THEN failed \union {c} ELSE failed
  BY DEF Forking!Read
<1>5. ProcessTypes'
  BY <1>0, <1>1, <1>2, <1>3, <1>4
     DEF ProcessTypes, Forking!TypeOK, Forking!Read, Forking!GoTo, Forking!clientVars
<1>6. Connected'
  BY <1>0, <1>1, <1>2, <1>3 DEF Connected, Working, Forking!clientVars
<1>7. OneWorker'
  BY <1>0, <1>1 DEF OneWorker
<1>8. Unwritten'
  BY <1>0, <1>1, <1>3 DEF Unwritten, Forking!clientVars
<1>9. Served'
  <2>. SUFFICES ASSUME NEW d \in accepted' PROVE ServedAt(d)'
    BY DEF Served
  <2>1. CASE d = c
    <3>1. AtWork(p, d)'
      BY <1>1, <2>1 DEF AtWork
    <3>. QED
      BY <1>1, <1>3, <2>1, <3>1 DEF ServedAt, Forking!clientVars
  <2>2. CASE d # c
    <3>1. \A r \in Procs : AtWork(r, d) => AtWork(r, d)'
      BY <1>1 DEF AtWork
    <3>2. \A r \in Procs : place[r] = "read" /\ conn[r] = d => place'[r] = "read" /\ conn'[r] = d
      BY <1>1, <2>2
    <3>. QED
      BY <1>0, <1>1, <3>1, <3>2 DEF Served, ServedAt, Forking!clientVars
  <2>. QED
    BY <2>1, <2>2
<1>10. Offspring'
  <2>1. IsFiniteSet(failed') /\ failed \subseteq failed' /\ failed' \subseteq accepted'
    BY <1>0, <1>1, <1>2, <1>4, FS_AddElement DEF Offspring
  <2>2. \A r \in Procs : place'[r] \in ServingLabels <=> place[r] \in ServingLabels
    BY <1>1 DEF ServingLabels
  <2>3. \A r \in Procs : place'[r] \in {"fork", "process"} /\ request'[r] \in Forking!ErrorKinds => conn'[r] \in failed'
    BY <1>0, <1>1, <1>3, <1>4 DEF Offspring
  <2>4. \A r \in Procs : place'[r] \in {"read", "fork", "process"} =>
          place[r] \in {"read", "fork", "process"} /\ conn[r] = conn'[r]
    BY <1>1
  <2>. QED
    BY <1>0, <2>1, <2>2, <2>3, <2>4, OffspringKept
<1>. QED
  BY <1>5, <1>6, <1>7, <1>8, <1>9, <1>10 DEF ProcessInv

\* fork: the child takes the work over.
LEMMA ForkKeeps ==
  ASSUME ProcessInv, NEW p \in Procs, NEW q \in Procs, place[p] = "fork", place[q] = "none",
         place' = [place EXCEPT ![p] = "close_in", ![q] = "process"],
         conn' = [conn EXCEPT ![q] = conn[p]],
         request' = [request EXCEPT ![q] = request[p]],
         open' = [open EXCEPT ![conn[p]] = @ \union {q}],
         UNCHANGED <<Forking!clientVars, accepted, received, failed, dropped>>
  PROVE  ProcessInv'
<1>0. Forking!TypeOK /\ ProcessTypes /\ Connected /\ OneWorker /\ Unwritten /\ Served /\ Offspring
  BY DEF ProcessInv, ProcessTypes
<1>. DEFINE c == conn[p]
<1>1. /\ p # q /\ place'[p] = "close_in" /\ place'[q] = "process"
      /\ conn'[q] = c /\ request'[q] = request[p]
      /\ \A r \in Procs \ {p, q} : place'[r] = place[r]
      /\ \A r \in Procs \ {q} : conn'[r] = conn[r] /\ request'[r] = request[r]
  BY <1>0 DEF Forking!TypeOK
<1>2. c \in Clients /\ c \in accepted /\ conn[q] \notin Clients
  BY <1>0 DEF Connected, Working
<1>3. open'[c] = open[c] \union {q} /\ \A d \in Clients \ {c} : open'[d] = open[d]
  BY <1>0, <1>2 DEF Forking!TypeOK
<1>4. \A r \in Procs \ {p} : conn[r] # c
  BY <1>0, <1>2 DEF OneWorker
<1>5. ProcessTypes'
  BY <1>0, <1>2 DEF ProcessTypes, Forking!TypeOK, Forking!clientVars
<1>6. Connected'
  <2>1. UNCHANGED <<client, wants, accepted>>
    BY DEF Forking!clientVars
  <2>2. ASSUME NEW r \in Procs \ {p, q}, conn[r] \in Clients PROVE open'[conn[r]] = open[conn[r]]
    BY <1>3, <1>4, <2>2
  <2>3. c \in accepted' /\ q \in open'[c] /\ (client'[c] = "silent" \/ (client'[c] = "sent" /\ request'[q] = wants'[c]))
    BY <1>0, <1>1, <1>2, <1>3, <2>1 DEF Connected
  <2>. DEFINE Kept(r) ==
                /\ conn[r] \in Clients <=> place[r] \in Working \union {"close_in"}
                /\ conn[r] \in Clients => conn[r] \in accepted
                /\ place[r] \in Working => r \in open[conn[r]]
                /\ place[r] \in {"fork", "process", "exec"} =>
                     \/ client[conn[r]] = "silent"
                     \/ client[conn[r]] = "sent" /\ request[r] = wants[conn[r]]
  <2>4. Kept(q)'
    BY <1>1, <1>2, <2>3 DEF Working
  <2>5. Kept(p)'
    BY <1>1, <1>2, <2>1 DEF Working
  <2>6. ASSUME NEW r \in Procs \ {p, q} PROVE Kept(r)'
    <3>1. Kept(r)
      BY <1>0 DEF Connected
    <3>2. place'[r] = place[r] /\ conn'[r] = conn[r] /\ request'[r] = request[r]
      BY <1>1
    <3>. QED
      BY <2>1, <2>2, <3>1, <3>2 DEF Working
  <2>. QED
    BY <2>4, <2>5, <2>6 DEF Connected
<1>7. OneWorker'
  <2>. SUFFICES ASSUME NEW r \in Procs, NEW s \in Procs, r # s, conn'[r] = conn'[s], conn'[r] \in Clients
                PROVE  /\ place'[r] \notin {"read", "fork"}
                       /\ ~(place'[r] \in {"process", "exec"} /\ place'[s] \in {"process", "exec"})
    BY DEF OneWorker
  <2>1. CASE conn'[r] = c
    BY <1>1, <1>4, <2>1
  <2>2. CASE conn'[r] # c
    <3>1. r # q /\ s # q /\ conn[r] = conn[s] /\ conn[r] \in Clients
      BY <1>1, <2>2
    <3>2. r # p /\ s # p
      BY <1>1, <2>2, <3>1
    <3>3. place'[r] = place[r] /\ place'[s] = place[s]
      BY <1>1, <3>1, <3>2
    <3>. QED
      BY <1>0, <3>1, <3>3 DEF OneWorker
  <2>. QED
    BY <2>1, <2>2
<1>8. Unwritten'
  <2>1. UNCHANGED <<received, hungup, accepted>>
    BY DEF Forking!clientVars
  <2>2. received[c] = <<>>
    BY <1>0 DEF Unwritten
  <2>3. \A r \in Procs \ {p, q} : place'[r] = place[r] /\ conn'[r] = conn[r] /\ request'[r] = request[r]
    BY <1>1
  <2>4. ASSUME NEW r \in Procs
        PROVE  /\ place'[r] \in {"read", "fork", "process"} => received[conn'[r]] = <<>>
               /\ place'[r] = "exec" =>
                    /\ request'[r] \in {"dir", "cgi"}
                    /\ received[conn'[r]] = <<"header">> \/ (received[conn'[r]] = <<>> /\ conn'[r] \in hungup)
    <3>1. CASE r \in {p, q}
      BY <1>1, <2>2, <3>1
    <3>2. CASE r \notin {p, q}
      BY <1>0, <2>3, <3>2 DEF Unwritten
    <3>. QED
      BY <3>1, <3>2
  <2>. QED
    BY <1>0, <2>1, <2>4 DEF Unwritten
<1>9. Served'
  <2>. SUFFICES ASSUME NEW d \in accepted' PROVE ServedAt(d)'
    BY DEF Served
  <2>1. (\E r \in Procs : AtWork(r, d)) => \E r \in Procs : AtWork(r, d)'
    <3>1. AtWork(p, d) => AtWork(q, d)'
      BY <1>1 DEF AtWork
    <3>2. ~AtWork(q, d)
      BY DEF AtWork
    <3>3. \A r \in Procs \ {p, q} : AtWork(r, d) => AtWork(r, d)'
      BY <1>1 DEF AtWork
    <3>. QED
      BY <3>1, <3>2, <3>3
  <2>2. \A r \in Procs : place[r] = "read" /\ conn[r] = d => place'[r] = "read" /\ conn'[r] = d
    BY <1>1
  <2>. QED
    BY <1>0, <2>1, <2>2 DEF Served, ServedAt, Forking!clientVars
<1>10. Offspring'
  <2>1. \A r \in Procs : place'[r] \in ServingLabels <=> place[r] \in ServingLabels
    BY <1>1 DEF ServingLabels
  <2>2. \A r \in Procs : place'[r] \in {"fork", "process"} /\ request'[r] \in Forking!ErrorKinds => conn'[r] \in failed'
    BY <1>0, <1>1 DEF Offspring
  <2>3. \A r \in Procs : place'[r] \in {"read", "fork", "process"} =>
          \E s \in Procs : place[s] \in {"read", "fork", "process"} /\ conn[s] = conn'[r]
    BY <1>1
  <2>4. IsFiniteSet(failed') /\ failed \subseteq failed' /\ failed' \subseteq accepted'
    BY <1>0 DEF Offspring
  <2>. QED
    BY <1>0, <2>1, <2>2, <2>3, <2>4, OffspringKept
<1>. QED
  BY <1>5, <1>6, <1>7, <1>8, <1>9, <1>10 DEF ProcessInv

\* fork fails: the connection is closed unanswered.
LEMMA ForkFailsKeeps ==
  ASSUME ProcessInv, NEW p \in Procs, place[p] = "fork", Forking!GoTo(p, "close_in"),
         dropped' = dropped \union {conn[p]},
         UNCHANGED <<Forking!clientVars, accepted, open, received, conn, request, failed>>
  PROVE  ProcessInv'
<1>0. Forking!TypeOK /\ ProcessTypes /\ Connected /\ OneWorker /\ Unwritten /\ Served /\ Offspring
  BY DEF ProcessInv, ProcessTypes
<1>1. place'[p] = "close_in" /\ \A r \in Procs \ {p} : place'[r] = place[r]
  BY <1>0, ProcessMoves
<1>2. conn[p] \in Clients /\ (client[conn[p]] \in {"sent", "silent"})
  BY <1>0 DEF Connected, Working
<1>3. ProcessTypes'
  BY <1>0, <1>2 DEF ProcessTypes, Forking!TypeOK, Forking!GoTo, Forking!clientVars
<1>4. Connected' /\ OneWorker' /\ Unwritten'
  <2>1. Connected'
    BY <1>0, <1>1 DEF Connected, Working, Forking!clientVars
  <2>2. OneWorker'
    BY <1>0, <1>1 DEF OneWorker
  <2>3. Unwritten'
    BY <1>0, <1>1 DEF Unwritten, Forking!clientVars
  <2>. QED
    BY <2>1, <2>2, <2>3
<1>5. Served'
  <2>. SUFFICES ASSUME NEW d \in accepted' PROVE ServedAt(d)'
    BY DEF Served
  <2>1. CASE d = conn[p]
    BY <1>2, <2>1 DEF ServedAt, Forking!clientVars
  <2>2. CASE d # conn[p]
    <3>1. \A r \in Procs : AtWork(r, d) => AtWork(r, d)'
      BY <1>1, <2>2 DEF AtWork
    <3>2. \A r \in Procs : place[r] = "read" /\ conn[r] = d => place'[r] = "read" /\ conn'[r] = d
      BY <1>1
    <3>. QED
      BY <1>0, <3>1, <3>2 DEF Served, ServedAt, Forking!clientVars
  <2>. QED
    BY <2>1, <2>2
<1>6. Offspring'
  <2>1. \A r \in Procs : place'[r] \in ServingLabels <=> place[r] \in ServingLabels
    BY <1>1 DEF ServingLabels
  <2>2. \A r \in Procs : place'[r] \in {"read", "fork", "process"} => place[r] = place'[r] /\ conn[r] = conn'[r]
    BY <1>1
  <2>. QED
    BY <1>0, <2>1, <2>2, OffspringKept DEF Offspring
<1>. QED
  BY <1>3, <1>4, <1>5, <1>6 DEF ProcessInv

LEMMA CloseInKeeps == ASSUME ProcessInv, NEW p \in Procs, Forking!CloseIn(p) PROVE ProcessInv'
<1>0. Forking!TypeOK /\ ProcessTypes /\ Connected /\ OneWorker /\ Unwritten /\ Served /\ Offspring
  BY DEF ProcessInv, ProcessTypes
<1>1. /\ place[p] = "close_in" /\ place'[p] = "accept" /\ conn'[p] = None
      /\ \A r \in Procs \ {p} : place'[r] = place[r] /\ conn'[r] = conn[r]
      /\ UNCHANGED <<Forking!clientVars, accepted, received, request, failed, dropped>>
  BY <1>0, ProcessMoves DEF Forking!CloseIn, Forking!TypeOK
<1>2. \A d \in Clients : open'[d] = open[d] \/ open'[d] = open[d] \ {p}
  BY <1>0 DEF Forking!CloseIn, Forking!Close, Forking!TypeOK
<1>3. ProcessTypes'
  <2>1. conn[p] \in Clients
    BY <1>0, <1>1 DEF Connected
  <2>. QED
    BY <1>0, <1>1, <2>1
       DEF ProcessTypes, Forking!TypeOK, Forking!CloseIn, Forking!Close, Forking!GoTo, Forking!clientVars
<1>4. Connected'
  BY <1>0, <1>1, <1>2, ProcessesAre DEF Connected, Working, Forking!TypeOK, Forking!clientVars
<1>5. OneWorker'
  BY <1>0, <1>1, ProcessesAre DEF OneWorker
<1>6. Unwritten'
  BY <1>0, <1>1 DEF Unwritten, Forking!clientVars
<1>7. Served'
  <2>. SUFFICES ASSUME NEW d \in accepted' PROVE ServedAt(d)'
    BY DEF Served
  <2>1. \A r \in Procs : AtWork(r, d) => AtWork(r, d)'
    BY <1>1 DEF AtWork
  <2>2. \A r \in Procs : place[r] = "read" /\ conn[r] = d => place'[r] = "read" /\ conn'[r] = d
    BY <1>1
  <2>. QED
    BY <1>0, <1>1, <2>1, <2>2 DEF Served, ServedAt, Forking!clientVars
<1>8. Offspring'
  <2>1. \A r \in Procs : place'[r] \in ServingLabels <=> place[r] \in ServingLabels
    BY <1>1 DEF ServingLabels
  <2>2. \A r \in Procs : place'[r] \in {"read", "fork", "process"} =>
          place[r] = place'[r] /\ conn[r] = conn'[r] /\ request[r] = request'[r]
    BY <1>1
  <2>3. failed' = failed /\ accepted' = accepted
    BY <1>1
  <2>. QED
    BY <1>0, <2>1, <2>2, <2>3, OffspringKept DEF Offspring
<1>. QED
  BY <1>3, <1>4, <1>5, <1>6, <1>7, <1>8 DEF ProcessInv

\* Who answers is the only one at work on its connection, and no server is its child.
LEMMA AloneWith ==
  ASSUME ProcessInv, NEW q \in Procs, place[q] \in {"process", "exec"}
  PROVE  /\ conn[q] \in Clients /\ conn[q] \in accepted
         /\ \A r \in Procs \ {q} : conn[r] = conn[q] => place[r] \notin Working
         /\ client[conn[q]] = "silent" \/ (client[conn[q]] = "sent" /\ request[q] = wants[conn[q]])
         /\ q # Main
<1>1. conn[q] \in Clients /\ conn[q] \in accepted
  BY DEF ProcessInv, Connected, Working
<1>2. \A r \in Procs \ {q} : conn[r] = conn[q] => place[r] \notin Working
  BY <1>1 DEF ProcessInv, OneWorker, Working
<1>3. client[conn[q]] = "silent" \/ (client[conn[q]] = "sent" /\ request[q] = wants[conn[q]])
  BY DEF ProcessInv, Connected
<1>4. q # Main
  BY DEF ProcessInv, Offspring, Serving, ServingLabels
<1>. QED
  BY <1>1, <1>2, <1>3, <1>4

\* The child of a bad request becomes a server: it descends from that request.
LEMMA OffspringGrows ==
  ASSUME ProcessInv, NEW q \in Procs, place[q] = "process", request[q] \in Forking!ErrorKinds,
         place'[q] = "close_in", \A r \in Procs \ {q} : place'[r] = place[r],
         UNCHANGED <<conn, request, failed, accepted>>
  PROVE  Offspring'
<1>0. Offspring
  BY DEF ProcessInv
<1>1. PICK f : Descent(f)
  BY <1>0 DEF Offspring
<1>. DEFINE old == Serving \ {Main}
            c == conn[q]
            g == [p \in old \union {q} |-> IF p = q THEN c ELSE f[p]]
<1>2. /\ f \in [old -> failed]
      /\ \A p, r \in old : f[p] = f[r] => p = r
      /\ \A r \in Procs : place[r] \in {"read", "fork", "process"} => \A p \in old : f[p] # conn[r]
  BY <1>1 DEF Descent
<1>3. c \in failed
  BY <1>0 DEF Offspring
<1>4. q # Main /\ q \notin old /\ Serving' \ {Main} = old \union {q} /\ Main \in Serving'
  BY <1>0, AloneWith DEF Offspring, Serving, ServingLabels
<1>5. g \in [old \union {q} -> failed]
  BY <1>2, <1>3
<1>6. \A p \in old : g[p] = f[p] /\ f[p] # c
  BY <1>2, <1>4
<1>7. g[q] = c
  OBVIOUS
<1>8. ASSUME NEW p \in old \union {q}, NEW r \in old \union {q}, g[p] = g[r] PROVE p = r
  BY <1>2, <1>6, <1>7, <1>8
<1>9. ASSUME NEW r \in Procs, place'[r] \in {"read", "fork", "process"}, NEW p \in old \union {q}
      PROVE  g[p] # conn'[r]
  <2>1. r # q /\ place[r] \in {"read", "fork", "process"} /\ conn'[r] = conn[r]
    BY <1>9
  <2>2. conn[r] # c
    BY <2>1, AloneWith DEF Working
  <2>3. \A s \in old : f[s] # conn[r]
    BY <1>2, <2>1
  <2>. QED
    BY <1>6, <1>7, <2>1, <2>2, <2>3
<1>. HIDE DEF old, c, g
<1>10. \E h : Descent(h)'
  <2>1. PICK h : h = g
    OBVIOUS
  <2>2. /\ h \in [old \union {q} -> failed]
        /\ \A p, r \in old \union {q} : h[p] = h[r] => p = r
        /\ \A r \in Procs : place'[r] \in {"read", "fork", "process"} => \A p \in old \union {q} : h[p] # conn'[r]
    BY <1>5, <1>8, <1>9, <2>1
  <2>3. Descent(h)'
    BY <1>4, <2>2 DEF Descent
  <2>. QED
    BY <2>3
<1>11. \A r \in Procs : place'[r] \in {"fork", "process"} /\ request'[r] \in Forking!ErrorKinds => conn'[r] \in failed'
  BY <1>0 DEF Offspring
<1>. QED
  BY <1>0, <1>4, <1>10, <1>11 DEF Offspring

\* A child of a bad request returns.
LEMMA ReturnKeeps ==
  ASSUME ProcessInv, NEW q \in Procs, place[q] = "process", request[q] \in Forking!ErrorKinds,
         Forking!GoTo(q, "close_in"), open' = open \/ Forking!Close(q),
         received' \in [Clients -> Seq(Forking!Texts)],
         \A d \in Clients \ {conn[q]} : received'[d] = received[d],
         Len(received'[conn[q]]) <= 2,
         conn[q] \in hungup \/ received'[conn[q]] \in Forking!Answers(request[q]),
         UNCHANGED <<Forking!clientVars, accepted, conn, request, failed, dropped>>
  PROVE  ProcessInv'
<1>0. Forking!TypeOK /\ ProcessTypes /\ Connected /\ OneWorker /\ Unwritten /\ Served /\ Offspring
  BY DEF ProcessInv, ProcessTypes
<1>. DEFINE c == conn[q]
<1>1. place'[q] = "close_in" /\ \A r \in Procs \ {q} : place'[r] = place[r]
  BY <1>0, ProcessMoves
<1>2. /\ c \in Clients /\ c \in accepted
      /\ \A r \in Procs \ {q} : conn[r] = c => place[r] \notin Working
      /\ client[c] = "silent" \/ (client[c] = "sent" /\ request[q] = wants[c])
  BY AloneWith
<1>3. \A d \in Clients : open'[d] = open[d] \/ open'[d] = open[d] \ {q}
  BY <1>0 DEF Forking!Close, Forking!TypeOK
<1>4. ProcessTypes'
  <2>1. \A d \in Clients : received'[d] \in Seq(Forking!Texts) /\ Len(received'[d]) <= 2
    BY <1>0 DEF Forking!TypeOK
  <2>2. open' \in [Clients -> SUBSET Procs]
    <3>1. open \in [Clients -> SUBSET Procs] /\ [open EXCEPT ![c] = @ \ {q}] \in [Clients -> SUBSET Procs]
      BY <1>0, <1>2 DEF Forking!TypeOK
    <3>. QED
      BY <3>1 DEF Forking!Close
  <2>3. place' \in [Procs -> {"none", "accept", "read", "fork", "close_in", "process", "exec", "exit"}]
    BY <1>0 DEF Forking!TypeOK, Forking!GoTo
  <2>. QED
    BY <1>0, <2>1, <2>2, <2>3 DEF ProcessTypes, Forking!TypeOK, Forking!clientVars
<1>5. Connected'
  BY <1>0, <1>1, <1>3 DEF Connected, Working, Forking!clientVars
<1>6. OneWorker'
  BY <1>0, <1>1 DEF OneWorker
<1>7. Unwritten'
  <2>1. \A d \in Clients \ accepted : received'[d] = <<>>
    BY <1>0, <1>2 DEF Unwritten
  <2>2. \A r \in Procs : place'[r] \in Working => r # q /\ place'[r] = place[r] /\ conn[r] # c /\ conn[r] \in Clients
    BY <1>0, <1>1, <1>2 DEF Working, Connected
  <2>3. \A r \in Procs : place'[r] \in Working => received'[conn[r]] = received[conn[r]] /\ place'[r] = place[r]
    BY <2>2
  <2>. QED
    BY <1>0, <2>1, <2>3 DEF Unwritten, Working, Forking!clientVars
<1>8. Served'
  <2>. SUFFICES ASSUME NEW d \in accepted' PROVE ServedAt(d)'
    BY DEF Served
  <2>1. CASE d = c
    BY <1>2, <2>1 DEF ServedAt, Forking!Answers, Forking!clientVars
  <2>2. CASE d # c
    <3>1. \A r \in Procs : AtWork(r, d) => AtWork(r, d)'
      BY <1>1, <2>2 DEF AtWork
    <3>2. \A r \in Procs : place[r] = "read" /\ conn[r] = d => place'[r] = "read" /\ conn'[r] = d
      BY <1>1
    <3>3. received'[d] = received[d]
      BY <1>0, <2>2 DEF Forking!TypeOK
    <3>. QED
      BY <1>0, <3>1, <3>2, <3>3 DEF Served, ServedAt, Forking!Answers, Forking!clientVars
  <2>. QED
    BY <2>1, <2>2
<1>9. Offspring'
  BY <1>1, OffspringGrows
<1>. QED
  BY <1>4, <1>5, <1>6, <1>7, <1>8, <1>9 DEF ProcessInv

\* A process ends; its client has the answer, or has hung up.
LEMMA EndKeeps ==
  ASSUME ProcessInv, NEW q \in Procs, place[q] \in {"process", "exec"}, Forking!Exit(q),
         received' \in [Clients -> Seq(Forking!Texts)],
         \A d \in Clients \ {conn[q]} : received'[d] = received[d],
         Len(received'[conn[q]]) <= 2,
         conn[q] \in hungup \/ received'[conn[q]] \in Forking!Answers(request[q]),
         UNCHANGED <<Forking!clientVars, accepted, failed, dropped>>
  PROVE  ProcessInv'
<1>0. Forking!TypeOK /\ ProcessTypes /\ Connected /\ OneWorker /\ Unwritten /\ Served /\ Offspring
  BY DEF ProcessInv, ProcessTypes
<1>. DEFINE c == conn[q]
<1>1. /\ c \in Clients /\ c \in accepted
      /\ \A r \in Procs \ {q} : conn[r] = c => place[r] \notin Working
      /\ client[c] = "silent" \/ (client[c] = "sent" /\ request[q] = wants[c])
  BY AloneWith
<1>2. /\ place'[q] = "exit" /\ conn'[q] = None
      /\ \A r \in Procs \ {q} : place'[r] = place[r] /\ conn'[r] = conn[r] /\ request'[r] = request[r]
      /\ \A d \in Clients : open'[d] = open[d] \/ open'[d] = open[d] \ {q}
  BY <1>0, <1>1, ExitIs
<1>3. ProcessTypes'
  <2>1. \A d \in Clients : received'[d] \in Seq(Forking!Texts) /\ Len(received'[d]) <= 2
    BY <1>0 DEF Forking!TypeOK
  <2>2. /\ open' \in [Clients -> SUBSET Procs]
        /\ place' \in [Procs -> {"none", "accept", "read", "fork", "close_in", "process", "exec", "exit"}]
        /\ conn' \in [Procs -> Clients \union {None}]
        /\ request' \in [Procs -> Forking!AllKinds]
    BY <1>0, <1>1 DEF Forking!TypeOK, Forking!Exit, Forking!Close, Forking!GoTo, Forking!AllKinds
  <2>. QED
    BY <1>0, <2>1, <2>2 DEF ProcessTypes, Forking!TypeOK, Forking!clientVars
<1>4. Connected'
  BY <1>0, <1>2, ProcessesAre DEF Connected, Working, Forking!TypeOK, Forking!clientVars
<1>5. OneWorker'
  BY <1>0, <1>2, ProcessesAre DEF OneWorker
<1>6. Unwritten'
  <2>1. \A d \in Clients \ accepted : received'[d] = <<>>
    BY <1>0, <1>1 DEF Unwritten
  <2>2. \A r \in Procs : place'[r] \in Working =>
          /\ r # q /\ place'[r] = place[r] /\ conn'[r] = conn[r] /\ request'[r] = request[r]
          /\ conn[r] # c /\ conn[r] \in Clients
    BY <1>0, <1>1, <1>2 DEF Working, Connected
  <2>3. \A r \in Procs : place'[r] \in Working =>
          received'[conn'[r]] = received[conn[r]] /\ place'[r] = place[r] /\ request'[r] = request[r] /\ conn'[r] = conn[r]
    BY <2>2
  <2>. QED
    BY <1>0, <2>1, <2>3 DEF Unwritten, Working, Forking!clientVars
<1>7. Served'
  <2>. SUFFICES ASSUME NEW d \in accepted' PROVE ServedAt(d)'
    BY DEF Served
  <2>1. CASE d = c
    BY <1>1, <2>1 DEF ServedAt, Forking!Answers, Forking!clientVars
  <2>2. CASE d # c
    <3>1. \A r \in Procs : AtWork(r, d) => AtWork(r, d)'
      BY <1>2, <2>2 DEF AtWork
    <3>2. \A r \in Procs : place[r] = "read" /\ conn[r] = d => place'[r] = "read" /\ conn'[r] = d
      BY <1>2
    <3>3. received'[d] = received[d]
      BY <1>0, <2>2 DEF Forking!TypeOK
    <3>. QED
      BY <1>0, <3>1, <3>2, <3>3 DEF Served, ServedAt, Forking!Answers, Forking!clientVars
  <2>. QED
    BY <2>1, <2>2
<1>8. Offspring'
  <2>1. \A r \in Procs : place'[r] \in ServingLabels <=> place[r] \in ServingLabels
    BY <1>2 DEF ServingLabels
  <2>2. \A r \in Procs : place'[r] \in {"read", "fork", "process"} =>
          place[r] = place'[r] /\ conn[r] = conn'[r] /\ request[r] = request'[r]
    BY <1>2
  <2>. QED
    BY <1>0, <2>1, <2>2, OffspringKept DEF Offspring
<1>. QED
  BY <1>3, <1>4, <1>5, <1>6, <1>7, <1>8 DEF ProcessInv

LEMMA MalformedKeeps == ASSUME ProcessInv, NEW q \in Procs, Forking!Malformed(q) PROVE ProcessInv'
<1>0. Forking!TypeOK /\ ProcessTypes /\ Unwritten
  BY DEF ProcessInv, ProcessTypes
<1>1. /\ place[q] = "process" /\ request[q] = "malformed" /\ Forking!GoTo(q, "close_in")
      /\ UNCHANGED <<Forking!clientVars, accepted, open, received, conn, request, failed, dropped>>
  BY DEF Forking!Malformed
<1>2. conn[q] \in Clients
  BY <1>1, AloneWith
<1>3. received'[conn[q]] = <<>> /\ <<>> \in Forking!Answers(request[q])
  BY <1>0, <1>1 DEF Unwritten, Forking!Answers
<1>4. Len(received'[conn[q]]) <= 2
  BY <1>3, TextsAre
<1>5. received' \in [Clients -> Seq(Forking!Texts)] /\ \A d \in Clients : received'[d] = received[d]
  BY <1>0, <1>1 DEF ProcessTypes
<1>. QED
  BY <1>1, <1>3, <1>4, <1>5, ReturnKeeps DEF Forking!ErrorKinds

LEMMA CannotDoKeeps == ASSUME ProcessInv, NEW q \in Procs, Forking!CannotDo(q) PROVE ProcessInv'
<1>0. Forking!TypeOK /\ ProcessTypes /\ Unwritten
  BY DEF ProcessInv, ProcessTypes
<1>1. /\ place[q] = "process" /\ request[q] \in {"notGET", "missing"} /\ Forking!GoTo(q, "close_in")
      /\ Forking!Write(q, <<request[q]>>) /\ Forking!Close(q)
      /\ UNCHANGED <<Forking!clientVars, accepted, conn, request, failed, dropped>>
  BY DEF Forking!CannotDo
<1>2. conn[q] \in Clients /\ received[conn[q]] = <<>>
  BY <1>0, <1>1, AloneWith DEF Unwritten
<1>. DEFINE text == <<request[q]>>
<1>3. text \in {<<>>, <<"notGET">>, <<"missing">>, <<"header">>, <<"header", "body">>}
  BY <1>1
<1>4. text \in Forking!Answers(request[q]) /\ request[q] \in Forking!ErrorKinds
  BY <1>1 DEF Forking!Answers, Forking!ErrorKinds
<1>. HIDE DEF text
<1>5. /\ received' \in [Clients -> Seq(Forking!Texts)]
      /\ \A d \in Clients \ {conn[q]} : received'[d] = received[d]
      /\ Len(received'[conn[q]]) <= 2
      /\ conn[q] \notin hungup => received'[conn[q]] = text
  BY <1>0, <1>1, <1>2, <1>3, PiecesAre DEF ProcessTypes, text
<1>6. conn[q] \in hungup \/ received'[conn[q]] \in Forking!Answers(request[q])
  BY <1>4, <1>5
<1>. QED
  BY <1>1, <1>4, <1>5, <1>6, ReturnKeeps

\* The header is written and the program started that writes the body.
LEMMA DoExecKeeps == ASSUME ProcessInv, NEW q \in Procs, Forking!DoExec(q) PROVE ProcessInv'
<1>0. Forking!TypeOK /\ ProcessTypes /\ Connected /\ OneWorker /\ Unwritten /\ Served /\ Offspring
  BY DEF ProcessInv, ProcessTypes
<1>. DEFINE c == conn[q]
<1>1. /\ place[q] = "process" /\ place'[q] = "exec" /\ request[q] \in {"dir", "cgi"}
      /\ \A r \in Procs \ {q} : place'[r] = place[r]
      /\ Forking!Write(q, <<"header">>)
      /\ UNCHANGED <<Forking!clientVars, accepted, open, conn, request, failed, dropped>>
  BY <1>0, ProcessMoves DEF Forking!DoExec
<1>2. /\ c \in Clients /\ c \in accepted /\ received[c] = <<>>
      /\ \A r \in Procs \ {q} : conn[r] = c => place[r] \notin Working
  BY <1>0, <1>1, AloneWith DEF Unwritten
<1>3. /\ received' \in [Clients -> Seq(Forking!Texts)]
      /\ \A d \in Clients \ {c} : received'[d] = received[d]
      /\ Len(received'[c]) <= 2
      /\ c \in hungup => received'[c] = <<>>
      /\ c \notin hungup => received'[c] = <<"header">>
  BY <1>0, <1>1, <1>2, PiecesAre DEF ProcessTypes
<1>4. ProcessTypes'
  <2>1. \A d \in Clients : received'[d] \in Seq(Forking!Texts) /\ Len(received'[d]) <= 2
    BY <1>0, <1>3 DEF Forking!TypeOK
  <2>2. place' \in [Procs -> {"none", "accept", "read", "fork", "close_in", "process", "exec", "exit"}]
    BY <1>0 DEF Forking!TypeOK, Forking!GoTo, Forking!DoExec
  <2>. QED
    BY <1>0, <1>1, <1>3, <2>1, <2>2 DEF ProcessTypes, Forking!TypeOK, Forking!clientVars
<1>5. Connected'
  BY <1>0, <1>1 DEF Connected, Working, Forking!clientVars
<1>6. OneWorker'
  BY <1>0, <1>1 DEF OneWorker
<1>7. Unwritten'
  <2>1. \A d \in Clients \ accepted : received'[d] = <<>>
    BY <1>0, <1>2, <1>3 DEF Unwritten
  <2>2. received'[c] = <<"header">> \/ (received'[c] = <<>> /\ c \in hungup)
    BY <1>3
  <2>3. \A r \in Procs \ {q} : place[r] \in Working => conn[r] # c /\ conn[r] \in Clients
    BY <1>0, <1>2 DEF Connected, Working
  <2>4. \A r \in Procs \ {q} : place[r] \in Working => received'[conn[r]] = received[conn[r]]
    BY <1>3, <2>3
  <2>5. ASSUME NEW r \in Procs
        PROVE  /\ place'[r] \in {"read", "fork", "process"} => received'[conn[r]] = <<>>
               /\ place'[r] = "exec" =>
                    /\ request[r] \in {"dir", "cgi"}
                    /\ received'[conn[r]] = <<"header">> \/ (received'[conn[r]] = <<>> /\ conn[r] \in hungup)
    <3>1. CASE r = q
      BY <1>1, <2>2, <3>1
    <3>2. CASE r # q
      BY <1>0, <1>1, <2>4, <3>2 DEF Unwritten, Working
    <3>. QED
      BY <3>1, <3>2
  <2>. QED
    BY <1>1, <2>1, <2>5 DEF Unwritten, Forking!clientVars
<1>8. Served'
  <2>. SUFFICES ASSUME NEW d \in accepted' PROVE ServedAt(d)'
    BY DEF Served
  <2>1. \A r \in Procs : AtWork(r, d) => AtWork(r, d)'
    BY <1>1 DEF AtWork
  <2>2. CASE d = c
    <3>1. AtWork(q, d)'
      BY <1>1, <2>2 DEF AtWork
    <3>2. client[c] = "silent" \/ client[c] = "sent"
      BY <1>1, AloneWith
    <3>. QED
      BY <1>1, <2>2, <3>1, <3>2 DEF ServedAt, Forking!clientVars
  <2>3. CASE d # c
    <3>1. \A r \in Procs : place[r] = "read" /\ conn[r] = d => place'[r] = "read" /\ conn'[r] = d
      BY <1>1
    <3>2. received'[d] = received[d]
      BY <1>0, <1>1, <1>3, <2>3 DEF Forking!TypeOK
    <3>. QED
      BY <1>0, <1>1, <2>1, <3>1, <3>2 DEF Served, ServedAt, Forking!Answers, Forking!clientVars
  <2>. QED
    BY <2>2, <2>3
<1>9. Offspring'
  <2>1. \A r \in Procs : place'[r] \in ServingLabels <=> place[r] \in ServingLabels
    BY <1>1 DEF ServingLabels
  <2>2. \A r \in Procs : place'[r] \in {"read", "fork", "process"} =>
          place[r] = place'[r] /\ conn[r] = conn'[r] /\ request[r] = request'[r]
    BY <1>1
  <2>3. failed' = failed /\ accepted' = accepted
    BY <1>1
  <2>. QED
    BY <1>0, <2>1, <2>2, <2>3, OffspringKept DEF Offspring
<1>. QED
  BY <1>4, <1>5, <1>6, <1>7, <1>8, <1>9 DEF ProcessInv

\* The program writes its body and ends, or could not be started.
LEMMA ExecKeeps == ASSUME ProcessInv, NEW q \in Procs, Forking!Exec(q) PROVE ProcessInv'
<1>0. Forking!TypeOK /\ ProcessTypes /\ Unwritten
  BY DEF ProcessInv, ProcessTypes
<1>1. /\ place[q] = "exec" /\ Forking!Exit(q)
      /\ UNCHANGED <<Forking!clientVars, accepted, failed, dropped>>
  BY DEF Forking!Exec
<1>2. /\ conn[q] \in Clients /\ request[q] \in {"dir", "cgi"}
      /\ received[conn[q]] = <<"header">> \/ (received[conn[q]] = <<>> /\ conn[q] \in hungup)
  BY <1>0, <1>1, AloneWith DEF Unwritten
<1>3. ASSUME NEW text, Forking!Write(q, text), text = <<"body">> \/ (text = <<"error">> /\ request[q] = "cgi")
      PROVE  /\ received' \in [Clients -> Seq(Forking!Texts)]
             /\ \A d \in Clients \ {conn[q]} : received'[d] = received[d]
             /\ Len(received'[conn[q]]) <= 2
             /\ conn[q] \in hungup \/ received'[conn[q]] \in Forking!Answers(request[q])
  <2>1. text \in {<<"body">>, <<"error">>} /\ received[conn[q]] \in {<<>>, <<"header">>} /\ received \in [Clients -> Seq(Forking!Texts)]
    BY <1>0, <1>2, <1>3 DEF ProcessTypes
  <2>2. /\ received' \in [Clients -> Seq(Forking!Texts)]
        /\ \A d \in Clients \ {conn[q]} : received'[d] = received[d]
        /\ Len(received'[conn[q]]) <= 2
        /\ conn[q] \notin hungup /\ received[conn[q]] = <<"header">> =>
             /\ text = <<"body">> => received'[conn[q]] = <<"header", "body">>
             /\ text = <<"error">> => received'[conn[q]] = <<"header", "error">>
    BY <1>2, <1>3, <2>1, PiecesAre
  <2>3. conn[q] \notin hungup => received[conn[q]] = <<"header">>
    BY <1>2
  <2>4. /\ <<"header", "body">> \in Forking!Answers(request[q])
        /\ request[q] = "cgi" => <<"header", "error">> \in Forking!Answers(request[q])
    BY <1>2 DEF Forking!Answers
  <2>. QED
    BY <1>3, <2>2, <2>3, <2>4
<1>4. CASE Forking!Write(q, <<"body">>)
  BY <1>1, <1>3, <1>4, EndKeeps
<1>5. CASE request[q] = "cgi" /\ Forking!Write(q, <<"error">>)
  BY <1>1, <1>3, <1>5, EndKeeps
<1>. QED
  BY <1>4, <1>5 DEF Forking!Exec

LEMMA DoCatKeeps == ASSUME ProcessInv, NEW q \in Procs, Forking!DoCat(q) PROVE ProcessInv'
<1>0. Forking!TypeOK /\ ProcessTypes /\ Unwritten
  BY DEF ProcessInv, ProcessTypes
<1>. DEFINE text == IF request[q] = "file" THEN <<"header", "body">> ELSE <<>>
<1>1. /\ place[q] = "process" /\ request[q] \in {"file", "unreadable"}
      /\ Forking!Write(q, text) /\ Forking!Exit(q)
      /\ UNCHANGED <<Forking!clientVars, accepted, failed, dropped>>
  BY DEF Forking!DoCat
<1>2. conn[q] \in Clients /\ received[conn[q]] = <<>>
  BY <1>0, <1>1, AloneWith DEF Unwritten
<1>3. text \in {<<>>, <<"notGET">>, <<"missing">>, <<"header">>, <<"header", "body">>}
  OBVIOUS
<1>4. text \in Forking!Answers(request[q])
  BY <1>1 DEF Forking!Answers
<1>. HIDE DEF text
<1>5. /\ received' \in [Clients -> Seq(Forking!Texts)]
      /\ \A d \in Clients \ {conn[q]} : received'[d] = received[d]
      /\ Len(received'[conn[q]]) <= 2
      /\ conn[q] \notin hungup => received'[conn[q]] = text
  BY <1>0, <1>1, <1>2, <1>3, PiecesAre DEF ProcessTypes
<1>6. conn[q] \in hungup \/ received'[conn[q]] \in Forking!Answers(request[q])
  BY <1>4, <1>5
<1>. QED
  BY <1>1, <1>5, <1>6, EndKeeps

LEMMA SigpipeKeeps == ASSUME ProcessInv, NEW q \in Procs, Forking!Sigpipe(q) PROVE ProcessInv'
<1>0. Forking!TypeOK /\ ProcessTypes
  BY DEF ProcessInv, ProcessTypes
<1>1. /\ place[q] \in {"process", "exec"} /\ conn[q] \in hungup /\ Forking!Exit(q)
      /\ UNCHANGED <<Forking!clientVars, accepted, received, failed, dropped>>
  BY DEF Forking!Sigpipe
<1>2. conn[q] \in Clients
  BY <1>1, AloneWith
<1>3. /\ received' \in [Clients -> Seq(Forking!Texts)]
      /\ \A d \in Clients \ {conn[q]} : received'[d] = received[d]
      /\ Len(received'[conn[q]]) <= 2
  BY <1>0, <1>1, <1>2 DEF ProcessTypes, Forking!TypeOK
<1>. QED
  BY <1>1, <1>3, EndKeeps

LEMMA ProcessNext == ProcessInv /\ [Forking!Next]_forkingVars => ProcessInv'
<1>. SUFFICES ASSUME ProcessInv, [Forking!Next]_forkingVars PROVE ProcessInv'
  OBVIOUS
<1>1. ASSUME NEW c \in Clients, Forking!Connect(c) \/ Forking!SendRequest(c) \/ Forking!HangUp(c) PROVE ProcessInv'
  BY <1>1, ClientKeeps
<1>2. ASSUME NEW p \in Procs, Forking!Fork(p) PROVE ProcessInv'
  <2>1. place[p] = "fork" /\ UNCHANGED <<Forking!clientVars, accepted, received, failed>>
    BY <1>2 DEF Forking!Fork
  <2>2. CASE \E q \in Procs :
               /\ place[q] = "none"
               /\ place' = [place EXCEPT ![p] = "close_in", ![q] = "process"]
               /\ conn' = [conn EXCEPT ![q] = conn[p]]
               /\ request' = [request EXCEPT ![q] = request[p]]
               /\ open' = [open EXCEPT ![conn[p]] = @ \union {q}]
               /\ UNCHANGED dropped
    BY <2>1, <2>2, ForkKeeps
  <2>3. CASE Forking!GoTo(p, "close_in") /\ dropped' = dropped \union {conn[p]} /\ UNCHANGED <<conn, request, open>>
    BY <2>1, <2>3, ForkFailsKeeps
  <2>. QED
    BY <1>2, <2>2, <2>3 DEF Forking!Fork
<1>3. ASSUME NEW p \in Procs, Forking!ProcessSteps(p) \/ Forking!Sigpipe(p) PROVE ProcessInv'
  BY <1>2, <1>3, AcceptKeeps, ReadKeeps, CloseInKeeps, MalformedKeeps, CannotDoKeeps, DoExecKeeps,
     ExecKeeps, DoCatKeeps, SigpipeKeeps DEF Forking!ProcessSteps
<1>4. CASE UNCHANGED forkingVars
  <2>1. UNCHANGED <<client, wants, hungup, accepted, open, received, place, conn, request, failed, dropped>>
    BY <1>4 DEF forkingVars
  <2>2. ProcessTypes' /\ Connected' /\ OneWorker' /\ Unwritten'
    BY <2>1 DEF ProcessInv, ProcessTypes, Forking!TypeOK, Connected, OneWorker, Unwritten
  <2>3. Served'
    BY <2>1 DEF ProcessInv, Served, ServedAt, AtWork, Forking!Answers
  <2>4. Offspring'
    BY <2>1, OffspringKept DEF ProcessInv, Offspring
  <2>. QED
    BY <2>2, <2>3, <2>4 DEF ProcessInv
<1>. QED
  BY <1>1, <1>3, <1>4 DEF Forking!Next

LEMMA ProcessAnswers == ProcessInv => Forking!AnsweredInFull
<1>. SUFFICES ASSUME ProcessInv, NEW c \in accepted \ (hungup \union dropped), client[c] = "sent", open[c] = {}
              PROVE  received[c] \in Forking!Answers(wants[c])
  BY DEF Forking!AnsweredInFull
<1>1. ServedAt(c)
  BY DEF ProcessInv, Served
<1>2. ASSUME NEW p \in Procs, place[p] \in Working PROVE conn[p] # c
  <2>1. p \in open[conn[p]]
    BY <1>2 DEF ProcessInv, Connected
  <2>. QED
    BY <2>1
<1>. QED
  BY <1>1, <1>2 DEF ServedAt, AtWork, Working

LEMMA ProcessServers == ProcessInv => Forking!ServersAccountedFor
<1>. SUFFICES ASSUME ProcessInv PROVE Forking!ServersAccountedFor
  OBVIOUS
<1>1. Main \in Serving /\ IsFiniteSet(failed) /\ \E f : Descent(f)
  BY DEF ProcessInv, Offspring
<1>2. PICK f : Descent(f)
  BY <1>1
<1>. DEFINE others == Serving \ {Main}
<1>3. f \in Injection(others, failed)
  BY <1>2 DEF Descent, Injection, IsInjective
<1>. HIDE DEF others
<1>4. IsFiniteSet(others) /\ Cardinality(others) <= Cardinality(failed)
  BY <1>1, <1>3, FS_Injection
<1>5. /\ Serving = others \union {Main} /\ Main \notin others
      /\ Cardinality(others) \in Nat /\ Cardinality(failed) \in Nat
  BY <1>1, <1>4, FS_CardinalityType DEF others
<1>6. Cardinality(Serving) = Cardinality(others) + 1
  BY <1>4, <1>5, FS_AddElement
<1>7. Cardinality(Serving) <= 1 + Cardinality(failed)
  BY <1>4, <1>5, <1>6
<1>8. Forking!Cardinality(Serving) = Cardinality(Serving) /\ Forking!Cardinality(failed) = Cardinality(failed)
  BY DEF Forking!Cardinality, Cardinality, Forking!IsFiniteSet, IsFiniteSet
<1>. QED
  BY <1>1, <1>7, <1>8 DEF Forking!ServersAccountedFor, Serving, ServingLabels
-----------------------------------------------------------------------------
(* The two servers *)

ServersInv == TypeInv /\ Alone /\ Within /\ Exact /\ ProcessInv

LEMMA ServersInit == AllInit => ServersInv
BY TypeInvInit, AloneInit, WithinInit, ExactInit, ProcessInit DEF AllInit, ServersInv

LEMMA ServersNext == ServersInv /\ [AllNext]_<<server, vars, forkingVars>> => ServersInv'
<1>. SUFFICES ASSUME ServersInv, [AllNext]_<<server, vars, forkingVars>> PROVE ServersInv'
  OBVIOUS
<1>1. [Next]_vars /\ [Forking!Next]_forkingVars
  BY DEF AllNext
<1>. QED
  BY <1>1, TypeInvNext, AloneNext, WithinNext, ExactNext, ProcessNext DEF ServersInv

LEMMA ServersAlways == AllSpec => []ServersInv
BY ServersInit, ServersNext, PTL DEF AllSpec

\* Every variable keeps its type.  In the threaded server also when threads close
\* each other's descriptors: no thread counts more than two pieces, and each
\* reads, writes and closes numbers of the table only.  In the forking server no
\* client is sent more than two pieces, whoever answers it.
THEOREM TypesKept == AllSpec => []AllTypeOK
<1>1. ServersInv => AllTypeOK
  BY DEF ServersInv, TypeInv, ProcessInv, ProcessTypes, AllTypeOK
<1>. QED
  BY <1>1, ServersAlways, PTL

\* As long as the server has had one thread at a time every client that has sent a
\* request, waited, and whose thread has ended has what process_rq (twebserv.c:154-162)
\* says, all of it and nothing else: the second close of a number finds it closed
\* already, not reused.  A client that sent nothing has the answer to whatever was on
\* the stack (twebserv.c:180), and nothing of an answer to another client.
THEOREM AloneAnswered == AllSpec => []AnsweredAlone
<1>1. ServersInv => AnsweredAlone
  <2>. SUFFICES ASSUME ServersInv, ~overlap PROVE AnsweredAlone
    BY DEF AnsweredAlone
  <2>1. ASSUME NEW c \in Conns, c \notin gone, pc[c] = "ended"
        PROVE  got[c] = Answer(rq[c]) /\ rq[c].of = IF c \in silent THEN None ELSE c
    BY <2>1 DEF ServersInv, Alone, AloneAt
  <2>2. AnsweredInFull
    BY <2>1 DEF AnsweredInFull
  <2>3. silent \subseteq Conns
    BY DEF ServersInv, TypeInv, TypeOK
  <2>. QED
    BY <2>1, <2>2, <2>3 DEF AnsweredAlone
<1>. QED
  BY <1>1, ServersAlways, PTL

\* And between two requests every descriptor but 0 is free again; unless a client hangs
\* up before its answer's end no thread ends the process, so that none uses a NULL stream.
THEOREM AloneReturns == AllSpec => []DescriptorsReturned
<1>1. ServersInv => DescriptorsReturned
  BY DEF ServersInv, Alone, DescriptorsReturned
<1>. QED
  BY <1>1, ServersAlways, PTL

\* One thread at a time, server_bytes_sent (twebserv.c:100, 134) is between two requests
\* exactly what the clients have received of listings and headers, if none has hung up.
\* However threads overlap, and whatever they close under each other, it does not exceed
\* what they have counted, each once: a store keeps the thread's own bytes, and drops at
\* most those of others.  (What they have counted may not have been sent then.)
THEOREM BytesRight == AllSpec => []BytesCounted
<1>1. ServersInv => BytesCounted
  BY WithinCounts DEF ServersInv
<1>. QED
  BY <1>1, ServersAlways, PTL

\* The forking server: when no process has the connection of a client that waits
\* any more, the client has exactly the answer of process_rq (webserv.c:148-156)
\* to its request, or its fork had failed.
THEOREM ChildAnswers == AllSpec => []AnsweredByChild
<1>1. ServersInv => AnsweredByChild
  BY ProcessAnswers DEF ServersInv, AnsweredByChild
<1>. QED
  BY <1>1, ServersAlways, PTL

\* The servers in the loop of main are the first one and at most one child for
\* each request that was answered with an error, or not at all.
THEOREM ServersCounted == AllSpec => []ServersAccountedFor
<1>1. ServersInv => ServersAccountedFor
  BY ProcessServers DEF ServersInv, ServersAccountedFor
<1>. QED
  BY <1>1, ServersAlways, PTL
=============================================================================
