---------------------------- MODULE ReadersProofs ----------------------------
(***************************************************************************)
(* The three systems in which one process reads what others write: what a  *)
(* reader gets is what was meant for it, for every size of pipe and        *)
(* buffer, any number of file servers and clients, and whatever is killed, *)
(* fails or is written meanwhile.  Each system has an invariant of its     *)
(* own; at the end of the module they are put together.                    *)
(***************************************************************************)
EXTENDS MCReaders, Integers, TLAPS
-----------------------------------------------------------------------------
(* Pipes *)

Numbers == 0 .. (MaxItems + MaxQuestions)
Items == 1 .. (MaxItems + MaxQuestions)
AllEnds(prog) == PipesOf(prog) \X {"read", "write"}

PipeTypes ==
  /\ program \in Programs
  /\ pc \in [Processes -> ParentLabels \union ChildLabels]
  /\ pc["parent"] \in ParentLabels /\ pc["child"] \in ChildLabels
  /\ ends \in [Processes -> SUBSET AllEnds(program)]
  /\ buf \in [{"up", "down"} -> Seq(Numbers)]
  /\ Len(buf["up"]) <= PipeSize /\ Len(buf["down"]) <= PipeSize
  /\ buf["down"] \in Seq(1 .. MaxQuestions)
  /\ program # "pipedemo2" => buf["up"] \in Seq(Items)
  /\ written \in Seq(1 .. MaxItems) /\ Len(written) <= MaxItems
  /\ got \in Seq(Items)
  /\ asked \in 0 .. MaxQuestions
  /\ answering \in (0 .. MaxQuestions) \X (0 .. MaxLines)
  /\ wide \in BOOLEAN /\ full \in BOOLEAN
  /\ killed \in SUBSET Processes

\* Where the two processes of each program can be.
PipePlaces ==
  /\ program \in {"pipe", "popen"} =>
       /\ pc["parent"] \in {"fork", "setup", "working", "read", "read_all", "exit", "crashed"}
       /\ pc["child"] \in {"none", "setup", "command", "command_write", "exit"}
  /\ program = "tinybc" =>
       /\ pc["parent"] \in {"fork", "setup", "prompt", "ask", "answer", "wait", "exit"}
       /\ pc["child"] \in {"none", "setup", "dc_read", "dc_write", "exit"}
  /\ program = "pipedemo2" =>
       /\ pc["parent"] \in {"fork", "setup", "demo_write", "demo_read", "exit"}
       /\ pc["child"] \in {"none", "setup", "demo_child", "exit"}
  /\ pc["parent"] = "fork" => pc["child"] = "none"
  /\ pc["child"] = "none" => pc["parent"] \in {"fork", "exit", "crashed"}
  /\ pc["parent"] = "ask" => asked > 0
  /\ pc["child"] = "command_write" => Len(written) < MaxItems
  /\ pc["child"] = "dc_write" => answering[1] > 0 /\ answering[2] > 0

\* Who holds which end: all of them until setup is done, none at the end, and
\* the command, as long as it lives, the one its output goes into.
PipeEnds ==
  /\ \A p \in Processes :
       /\ pc[p] \in {"none", "exit", "crashed"} => ends[p] = {}
       /\ pc[p] \in {"fork", "setup"} => ends[p] = AllEnds(program)
  /\ pc["child"] \in {"command", "command_write"} => <<"up", "write">> \in ends["child"]

\* pipe and popen: what the parent has read and what is in the pipe is what the
\* command has written; the end of the pipe is the end of the command.
FromCommand ==
  program \in {"pipe", "popen"} =>
    /\ \A i \in 1 .. Len(written) : written[i] = i
    /\ \A i \in 1 .. Len(got) : got[i] = i
    /\ Len(got) + Len(buf["up"]) = Len(written)
    /\ \A k \in 1 .. Len(buf["up"]) : buf["up"][k] = Len(got) + k
    /\ pc["parent"] = "read_all" => pc["child"] = "exit" /\ Len(buf["up"]) = 0

\* The question that was sent is in "down", with dc, in "up", or lost with dc.
OneQuestion ==
  \/ /\ Len(buf["down"]) = 1 /\ buf["down"][1] = asked /\ Len(buf["up"]) = 0
     /\ pc["child"] \in {"setup", "dc_read", "exit"}
  \/ /\ Len(buf["down"]) = 0 /\ Len(buf["up"]) = 0
     /\ pc["child"] = "dc_write" /\ answering[1] = asked /\ answering[2] = 1
  \/ /\ Len(buf["down"]) = 0 /\ Len(buf["up"]) = 1 /\ buf["up"][1] = asked
     /\ pc["child"] \in {"dc_read", "exit"}
  \/ /\ Len(buf["down"]) = 0 /\ Len(buf["up"]) = 0 /\ pc["child"] = "exit"

\* tinybc, as long as every answer was one line: question and answer alternate.
FromDc ==
  program = "tinybc" /\ ~wide =>
    /\ \A i \in 1 .. Len(got) : got[i] = i
    /\ pc["parent"] \in {"fork", "setup", "prompt", "ask"} =>
         /\ Len(buf["down"]) = 0 /\ Len(buf["up"]) = 0
         /\ pc["child"] # "dc_write"
    /\ pc["parent"] \in {"fork", "setup", "prompt"} => asked = Len(got)
    /\ pc["parent"] \in {"ask", "answer"} => asked = Len(got) + 1
    /\ pc["parent"] = "answer" => OneQuestion

FromDemo == program = "pipedemo2" => Len(got) = 0

PipeInv == PipeTypes /\ PipePlaces /\ PipeEnds /\ FromCommand /\ FromDc /\ FromDemo
-----------------------------------------------------------------------------
LEMMA PipeGoes ==
  ASSUME PipeTypes, NEW p \in Processes, NEW label, GoTo(p, label),
         p = "parent" => label \in ParentLabels, p = "child" => label \in ChildLabels
  PROVE  /\ pc' \in [Processes -> ParentLabels \union ChildLabels]
         /\ pc'[p] = label
         /\ \A q \in Processes : q # p => pc'[q] = pc[q]
         /\ pc'["parent"] \in ParentLabels /\ pc'["child"] \in ChildLabels
<1>1. pc \in [Processes -> ParentLabels \union ChildLabels] /\ pc' = [pc EXCEPT ![p] = label]
  BY DEF PipeTypes, GoTo
<1>2. label \in ParentLabels \union ChildLabels
  BY DEF Processes
<1>3. pc' \in [Processes -> ParentLabels \union ChildLabels] /\ pc'[p] = label
      /\ \A q \in Processes : q # p => pc'[q] = pc[q]
  BY <1>1, <1>2
<1>4. pc["parent"] \in ParentLabels /\ pc["child"] \in ChildLabels
  BY DEF PipeTypes
<1>. QED
  BY <1>3, <1>4 DEF Processes

LEMMA PipeInit == Init => PipeInv
<1>. SUFFICES ASSUME Init PROVE PipeInv
  OBVIOUS
<1>. USE PipesAssumption DEF PipesAssumption, Init
<1>1. Processes = {"parent", "child"} /\ pc["parent"] = "fork" /\ pc["child"] = "none"
  BY DEF Processes
<1>2. pc \in [Processes -> ParentLabels \union ChildLabels]
  BY DEF ParentLabels, ChildLabels
<1>3. ends["parent"] = AllEnds(program) /\ ends["child"] = {}
  BY <1>1 DEF AllEnds
<1>4. ends \in [Processes -> SUBSET AllEnds(program)]
  BY DEF AllEnds
<1>5. /\ buf \in [{"up", "down"} -> Seq(Numbers)]
      /\ buf["down"] \in Seq(1 .. MaxQuestions) /\ buf["up"] \in Seq(Items)
      /\ Len(buf["up"]) = 0 /\ Len(buf["down"]) = 0
  OBVIOUS
<1>6. written \in Seq(1 .. MaxItems) /\ Len(written) = 0 /\ got \in Seq(Items) /\ Len(got) = 0
  OBVIOUS
<1>7. answering \in (0 .. MaxQuestions) \X (0 .. MaxLines) /\ asked \in 0 .. MaxQuestions
  OBVIOUS
<1>8. PipeTypes
  <2>1. pc["parent"] \in ParentLabels /\ pc["child"] \in ChildLabels
    BY <1>1 DEF ParentLabels, ChildLabels
  <2>2. Len(buf["up"]) <= PipeSize /\ Len(buf["down"]) <= PipeSize /\ Len(written) <= MaxItems
    BY <1>5, <1>6
  <2>3. program \in Programs /\ wide \in BOOLEAN /\ full \in BOOLEAN /\ killed \in SUBSET Processes
    OBVIOUS
  <2>. HIDE DEF Init
  <2>. QED
    BY <1>2, <1>4, <1>5, <1>6, <1>7, <2>1, <2>2, <2>3 DEF PipeTypes
<1>9. PipePlaces /\ PipeEnds
  BY <1>1, <1>3 DEF PipePlaces, PipeEnds
<1>10. FromCommand /\ FromDc /\ FromDemo
  BY <1>1, <1>5, <1>6 DEF FromCommand, FromDc, FromDemo
<1>. QED
  BY <1>8, <1>9, <1>10 DEF PipeInv

LEMMA ForkKeeps == ASSUME PipeInv, Fork PROVE PipeInv'
<1>1. PipeTypes /\ PipePlaces /\ PipeEnds /\ FromCommand /\ FromDc /\ FromDemo
  BY DEF PipeInv
<1>2. /\ pc["parent"] = "fork" /\ pc["child"] = "none"
      /\ UNCHANGED <<program, buf, written, got, asked, answering, wide, full, killed>>
  BY <1>1 DEF Fork, dcVars, PipePlaces
<1>3. /\ pc' \in [Processes -> ParentLabels \union ChildLabels]
      /\ \/ pc'["parent"] = "setup" /\ pc'["child"] = "setup"
         \/ pc'["parent"] = "exit" /\ pc'["child"] = "none"
         \/ pc'["parent"] = "crashed" /\ pc'["child"] = "none" /\ program = "popen"
  BY <1>1, <1>2 DEF Fork, Exit, Crash, GoTo, PipeTypes, Processes, ParentLabels, ChildLabels
<1>4. /\ ends' \in [Processes -> SUBSET AllEnds(program)]
      /\ pc'["parent"] = "setup" => ends'["parent"] = AllEnds(program) /\ ends'["child"] = AllEnds(program)
      /\ pc'["parent"] # "setup" => ends'["parent"] = {} /\ ends'["child"] = {}
  <2>1. ends["parent"] = AllEnds(program) /\ ends["child"] = {}
    BY <1>1, <1>2 DEF PipeEnds, Processes
  <2>2. CASE ends' = [ends EXCEPT !["child"] = ends["parent"]] /\ pc' = [p \in Processes |-> "setup"]
    BY <1>1, <2>1, <2>2 DEF PipeTypes, Processes
  <2>3. CASE ends' = [ends EXCEPT !["parent"] = {}] /\ pc'["parent"] # "setup"
    BY <1>1, <2>1, <2>3 DEF PipeTypes, Processes
  <2>. QED
    BY <1>1, <2>2, <2>3 DEF Fork, Exit, Crash, GoTo, PipeTypes, Processes
<1>5. PipeTypes'
  BY <1>1, <1>2, <1>3, <1>4 DEF PipeTypes, ParentLabels, ChildLabels
<1>6. PipePlaces'
  BY <1>1, <1>2, <1>3 DEF PipePlaces
<1>7. PipeEnds'
  BY <1>2, <1>3, <1>4 DEF PipeEnds, Processes
<1>8. FromCommand' /\ FromDc' /\ FromDemo'
  BY <1>1, <1>2, <1>3 DEF FromCommand, FromDc, FromDemo
<1>. QED
  BY <1>5, <1>6, <1>7, <1>8 DEF PipeInv
-----------------------------------------------------------------------------
\* setup

\* What a step that only moves p and gives ends back must show.
LEMMA OnlyMoves ==
  ASSUME PipeInv, NEW p \in Processes, NEW label, NEW kept \in SUBSET ends[p],
         GoTo(p, label),
         p = "parent" => label \in ParentLabels, p = "child" => label \in ChildLabels,
         ends' = [ends EXCEPT ![p] = kept],
         UNCHANGED <<program, buf, written, got, asked, wide>>,
         answering' \in (0 .. MaxQuestions) \X (0 .. MaxLines),
         full' \in BOOLEAN, killed' \in SUBSET Processes
  PROVE  /\ PipeTypes'
         /\ pc'[p] = label /\ ends'[p] = kept
         /\ \A q \in Processes : q # p => pc'[q] = pc[q] /\ ends'[q] = ends[q]
<1>1. PipeTypes
  BY DEF PipeInv
<1>2. /\ pc' \in [Processes -> ParentLabels \union ChildLabels]
      /\ pc'[p] = label
      /\ \A q \in Processes : q # p => pc'[q] = pc[q]
      /\ pc'["parent"] \in ParentLabels /\ pc'["child"] \in ChildLabels
  BY <1>1, PipeGoes
<1>3. /\ ends' \in [Processes -> SUBSET AllEnds(program)] /\ ends'[p] = kept
      /\ \A q \in Processes : q # p => ends'[q] = ends[q]
  BY <1>1 DEF PipeTypes
<1>. QED
  BY <1>1, <1>2, <1>3 DEF PipeTypes

\* A process ends, by itself or because it is killed.
LEMMA ExitKeeps ==
  ASSUME PipeInv, NEW p \in Processes, Exit(p), pc[p] \notin {"none", "exit", "crashed"},
         UNCHANGED <<program, buf, written, got, asked, wide>>,
         answering' \in (0 .. MaxQuestions) \X (0 .. MaxLines),
         p = "parent" => answering' = answering,
         full' \in BOOLEAN, killed' \in SUBSET Processes
  PROVE  PipeInv'
<1>1. PipeTypes /\ PipePlaces /\ PipeEnds /\ FromCommand /\ FromDc /\ FromDemo
  BY DEF PipeInv
<1>2. GoTo(p, "exit") /\ ends' = [ends EXCEPT ![p] = {}]
  BY DEF Exit
<1>3. /\ PipeTypes'
      /\ pc'[p] = "exit" /\ ends'[p] = {}
      /\ \A q \in Processes : q # p => pc'[q] = pc[q] /\ ends'[q] = ends[q]
  BY <1>2, OnlyMoves DEF ParentLabels, ChildLabels
<1>4. PipePlaces'
  BY <1>1, <1>3 DEF PipePlaces, Processes, PipeTypes, Programs
<1>5. PipeEnds'
  BY <1>1, <1>3 DEF PipeEnds, Processes
<1>6. FromCommand' /\ FromDemo'
  BY <1>1, <1>3 DEF FromCommand, FromDemo, Processes
<1>7. FromDc'
  BY <1>1, <1>3 DEF FromDc, OneQuestion, Processes
<1>. QED
  BY <1>3, <1>4, <1>5, <1>6, <1>7 DEF PipeInv

LEMMA KeepKeeps ==
  ASSUME PipeInv, NEW p \in Processes, NEW kept \in SUBSET AllEnds(program), NEW label,
         Keep(p, kept, label),
         \/ program \in {"pipe", "popen"} /\ p = "parent" /\ label = "working"
         \/ program \in {"pipe", "popen"} /\ p = "child" /\ label = "command" /\ <<"up", "write">> \in kept
         \/ program = "tinybc" /\ p = "parent" /\ label = "prompt"
         \/ program = "tinybc" /\ p = "child" /\ label = "dc_read"
         \/ program = "pipedemo2" /\ p = "parent" /\ label = "demo_write"
         \/ program = "pipedemo2" /\ p = "child" /\ label = "demo_child"
  PROVE  PipeInv'
<1>1. PipeTypes /\ PipePlaces /\ PipeEnds /\ FromCommand /\ FromDc /\ FromDemo
  BY DEF PipeInv
<1>2. /\ pc[p] = "setup" /\ ends[p] = AllEnds(program)
      /\ killed \in SUBSET Processes /\ full \in BOOLEAN /\ answering \in (0 .. MaxQuestions) \X (0 .. MaxLines)
      /\ UNCHANGED <<program, buf, written, got, asked, answering, wide, full, killed>>
  BY <1>1 DEF Keep, dcVars, PipeEnds, PipeTypes
<1>3. CASE Exit(p)
  BY <1>2, <1>3, ExitKeeps
<1>4. CASE <<program, p>> = <<"popen", "parent">> /\ Crash(p)
  <2>1. program = "popen" /\ p = "parent" /\ GoTo(p, "crashed") /\ ends' = [ends EXCEPT ![p] = {}]
    BY <1>4 DEF Crash
  <2>2. /\ PipeTypes'
        /\ pc'[p] = "crashed" /\ ends'[p] = {}
        /\ \A q \in Processes : q # p => pc'[q] = pc[q] /\ ends'[q] = ends[q]
    BY <1>2, <2>1, OnlyMoves DEF ParentLabels, ChildLabels
  <2>3. PipePlaces' /\ PipeEnds'
    BY <1>1, <1>2, <2>1, <2>2 DEF PipePlaces, PipeEnds, Processes
  <2>4. FromCommand' /\ FromDc' /\ FromDemo'
    BY <1>1, <1>2, <2>1, <2>2 DEF FromCommand, FromDc, FromDemo, Processes
  <2>. QED
    BY <2>2, <2>3, <2>4 DEF PipeInv
<1>5. CASE ends' = [ends EXCEPT ![p] = kept] /\ GoTo(p, label)
  <2>1. /\ PipeTypes'
        /\ pc'[p] = label /\ ends'[p] = kept
        /\ \A q \in Processes : q # p => pc'[q] = pc[q] /\ ends'[q] = ends[q]
    BY <1>2, <1>5, OnlyMoves DEF ParentLabels, ChildLabels
  <2>2. PipePlaces'
    BY <1>1, <1>2, <2>1 DEF PipePlaces, Processes
  <2>3. PipeEnds'
    BY <1>1, <1>2, <2>1 DEF PipeEnds, Processes
  <2>4. FromCommand' /\ FromDemo'
    BY <1>1, <1>2, <2>1 DEF FromCommand, FromDemo, Processes
  <2>5. FromDc'
    BY <1>1, <1>2, <2>1 DEF FromDc, OneQuestion, Processes
  <2>. QED
    BY <2>1, <2>2, <2>3, <2>4, <2>5 DEF PipeInv
<1>. QED
  BY <1>3, <1>4, <1>5 DEF Keep

LEMMA SetupKeeps ==
  ASSUME PipeInv, ParentPopen \/ ChildPopen \/ ParentPipe \/ ChildPipe \/ BeBc \/ BeDc \/ DemoParent \/ DemoChild
  PROVE  PipeInv'
<1>1. "parent" \in Processes /\ "child" \in Processes
  BY DEF Processes
<1>2. {<<"up", "read">>} \in SUBSET AllEnds(program) /\ {<<"up", "write">>} \in SUBSET AllEnds(program)
  BY DEF AllEnds, PipesOf
<1>3. program = "tinybc" => /\ {<<"down", "write">>, <<"up", "read">>} \in SUBSET AllEnds(program)
                            /\ {<<"down", "read">>, <<"up", "write">>} \in SUBSET AllEnds(program)
  BY DEF AllEnds, PipesOf
<1>4. ends["parent"] \in SUBSET AllEnds(program) /\ ends["child"] \in SUBSET AllEnds(program)
  BY <1>1 DEF PipeInv, PipeTypes
<1>5. ASSUME ParentPopen \/ ParentPipe PROVE PipeInv'
  BY <1>1, <1>2, <1>5, KeepKeeps DEF ParentPopen, ParentPipe
<1>6. ASSUME ChildPopen \/ ChildPipe PROVE PipeInv'
  <2>1. <<"up", "write">> \in {<<"up", "write">>}
    OBVIOUS
  <2>. QED
    BY <1>1, <1>2, <1>6, <2>1, KeepKeeps DEF ChildPopen, ChildPipe
<1>7. ASSUME BeBc PROVE PipeInv'
  BY <1>1, <1>3, <1>7, KeepKeeps DEF BeBc
<1>8. ASSUME BeDc PROVE PipeInv'
  BY <1>1, <1>3, <1>8, KeepKeeps DEF BeDc
<1>9. ASSUME DemoParent PROVE PipeInv'
  BY <1>1, <1>4, <1>9, KeepKeeps DEF DemoParent
<1>10. ASSUME DemoChild PROVE PipeInv'
  BY <1>1, <1>4, <1>10, KeepKeeps DEF DemoChild
<1>. QED
  BY <1>5, <1>6, <1>7, <1>8, <1>9, <1>10
-----------------------------------------------------------------------------
\* pipe and popen

LEMMA CommandKeeps == ASSUME PipeInv, Command PROVE PipeInv'
<1>1. PipeTypes /\ PipePlaces /\ PipeEnds /\ FromCommand /\ FromDc /\ FromDemo
  BY DEF PipeInv
<1>2. /\ pc["child"] = "command" /\ "child" \in Processes
      /\ killed \in SUBSET Processes /\ full \in BOOLEAN /\ answering \in (0 .. MaxQuestions) \X (0 .. MaxLines)
      /\ UNCHANGED <<program, buf, written, got, asked, answering, wide, full, killed>>
  BY <1>1 DEF Command, dcVars, Processes, PipeTypes
<1>3. CASE Exit("child")
  BY <1>2, <1>3, ExitKeeps
<1>4. CASE Len(written) < MaxItems /\ GoTo("child", "command_write") /\ UNCHANGED ends
  <2>1. ends' = [ends EXCEPT !["child"] = ends["child"]]
    BY <1>1, <1>4 DEF PipeTypes
  <2>2. /\ PipeTypes'
        /\ pc'["child"] = "command_write" /\ pc'["parent"] = pc["parent"]
    BY <1>2, <1>4, <2>1, OnlyMoves DEF ParentLabels, ChildLabels, Processes
  <2>3. program \in {"pipe", "popen"}
    BY <1>1, <1>2 DEF PipePlaces, PipeTypes, Programs
  <2>4. PipePlaces' /\ PipeEnds'
    BY <1>1, <1>2, <1>4, <2>2, <2>3 DEF PipePlaces, PipeEnds, Processes
  <2>5. FromCommand' /\ FromDc' /\ FromDemo'
    BY <1>1, <1>2, <2>2, <2>3 DEF FromCommand, FromDc, FromDemo
  <2>. QED
    BY <2>2, <2>4, <2>5 DEF PipeInv
<1>. QED
  BY <1>3, <1>4 DEF Command

\* Somebody who may read makes room in a pipe for what is appended.
LEMMA Appended ==
  ASSUME PipeTypes, NEW pipe \in {"up", "down"}, NEW item \in Numbers,
         buf' = [buf EXCEPT ![pipe] = Append(@, item)]
  PROVE  /\ buf' \in [{"up", "down"} -> Seq(Numbers)]
         /\ Len(buf'[pipe]) = Len(buf[pipe]) + 1
         /\ buf'[pipe][Len(buf[pipe]) + 1] = item
         /\ \A k \in 1 .. Len(buf[pipe]) : buf'[pipe][k] = buf[pipe][k]
         /\ \A other \in {"up", "down"} : other # pipe => buf'[other] = buf[other]
         /\ \A S : buf[pipe] \in Seq(S) /\ item \in S => buf'[pipe] \in Seq(S)
<1>1. buf \in [{"up", "down"} -> Seq(Numbers)] /\ buf[pipe] \in Seq(Numbers)
  BY DEF PipeTypes
<1>2. buf'[pipe] = Append(buf[pipe], item)
  BY <1>1
<1>3. \A other \in {"up", "down"} : other # pipe => buf'[other] = buf[other]
  BY <1>1
<1>4. Append(buf[pipe], item) \in Seq(Numbers)
  BY <1>1
<1>5. buf' \in [{"up", "down"} -> Seq(Numbers)]
  BY <1>1, <1>4
<1>. QED
  BY <1>1, <1>2, <1>3, <1>5

LEMMA Taken ==
  ASSUME PipeTypes, NEW pipe \in {"up", "down"}, Readable(pipe), Take(pipe)
  PROVE  /\ Len(buf[pipe]) > 0 /\ Head(buf[pipe]) = buf[pipe][1]
         /\ buf' \in [{"up", "down"} -> Seq(Numbers)]
         /\ Len(buf'[pipe]) = Len(buf[pipe]) - 1
         /\ \A k \in 1 .. Len(buf'[pipe]) : buf'[pipe][k] = buf[pipe][k + 1]
         /\ \A other \in {"up", "down"} : other # pipe => buf'[other] = buf[other]
         /\ \A S : buf[pipe] \in Seq(S) => buf'[pipe] \in Seq(S) /\ buf[pipe][1] \in S
<1>1. buf \in [{"up", "down"} -> Seq(Numbers)] /\ buf[pipe] \in Seq(Numbers) /\ buf[pipe] # <<>>
  BY DEF PipeTypes, Readable
<1>2. buf'[pipe] = Tail(buf[pipe]) /\ Len(buf[pipe]) > 0
  BY <1>1 DEF Take
<1>3. \A other \in {"up", "down"} : other # pipe => buf'[other] = buf[other]
  BY <1>1 DEF Take
<1>4. Tail(buf[pipe]) \in Seq(Numbers)
  BY <1>1, <1>2
<1>5. buf' \in [{"up", "down"} -> Seq(Numbers)]
  BY <1>1, <1>4 DEF Take
<1>. QED
  BY <1>1, <1>2, <1>3, <1>5

LEMMA CommandWritesKeeps == ASSUME PipeInv, CommandWrites PROVE PipeInv'
<1>1. PipeTypes /\ PipePlaces /\ PipeEnds /\ FromCommand /\ FromDc /\ FromDemo
  BY DEF PipeInv
<1>. DEFINE item == Len(written) + 1
<1>2. /\ pc["child"] = "command_write" /\ "child" \in Processes
      /\ killed \in SUBSET Processes /\ full \in BOOLEAN /\ answering \in (0 .. MaxQuestions) \X (0 .. MaxLines)
      /\ UNCHANGED <<program, got, asked, answering, wide, full, killed>>
      /\ Write("child", "up", item, "command")
      /\ written' = IF Held("up", "read") THEN Append(written, item) ELSE written
  BY <1>1 DEF CommandWrites, dcVars, Processes, PipeTypes
<1>3. /\ program \in {"pipe", "popen"} /\ Len(written) < MaxItems /\ Len(written) \in Nat
      /\ MaxItems \in Nat /\ MaxQuestions \in Nat /\ PipeSize \in Nat
  BY <1>1, <1>2, PipesAssumption DEF PipePlaces, PipeTypes, Programs, PipesAssumption
<1>4. CASE ~Held("up", "read")
  BY <1>2, <1>4, ExitKeeps DEF Write
<1>5. CASE Held("up", "read")
  <2>1. /\ Len(buf["up"]) < PipeSize /\ GoTo("child", "command") /\ UNCHANGED ends
        /\ buf' = [buf EXCEPT !["up"] = Append(@, item)]
        /\ written' = Append(written, item)
    BY <1>2, <1>5 DEF Write
  <2>2. item \in Numbers /\ item \in Items /\ item \in 1 .. MaxItems
    BY <1>3 DEF Numbers, Items
  <2>3. /\ buf' \in [{"up", "down"} -> Seq(Numbers)]
        /\ Len(buf'["up"]) = Len(buf["up"]) + 1
        /\ buf'["up"][Len(buf["up"]) + 1] = item
        /\ \A k \in 1 .. Len(buf["up"]) : buf'["up"][k] = buf["up"][k]
        /\ buf'["down"] = buf["down"]
        /\ buf["up"] \in Seq(Items) => buf'["up"] \in Seq(Items)
    BY <1>1, <2>1, <2>2, Appended
  <2>4. /\ written' \in Seq(1 .. MaxItems) /\ Len(written') = Len(written) + 1
        /\ \A i \in 1 .. Len(written) : written'[i] = written[i]
        /\ written'[Len(written) + 1] = item
    BY <1>1, <2>1, <2>2 DEF PipeTypes
  <2>5. /\ pc' \in [Processes -> ParentLabels \union ChildLabels]
        /\ pc'["child"] = "command" /\ pc'["parent"] = pc["parent"]
        /\ pc'["parent"] \in ParentLabels /\ pc'["child"] \in ChildLabels
    BY <1>1, <2>1, PipeGoes DEF ChildLabels, Processes
  <2>6. Len(buf["up"]) \in Nat /\ Len(got) \in Nat /\ Len(got) + Len(buf["up"]) = Len(written)
    BY <1>1, <1>3 DEF PipeTypes, FromCommand
  <2>7. Len(buf'["up"]) <= PipeSize /\ Len(written') <= MaxItems
    BY <1>3, <2>1, <2>3, <2>4, <2>6
  <2>8. PipeTypes'
    BY <1>1, <1>2, <2>1, <2>3, <2>4, <2>5, <2>7 DEF PipeTypes
  <2>9. PipePlaces' /\ PipeEnds'
    BY <1>1, <1>2, <1>3, <2>1, <2>5 DEF PipePlaces, PipeEnds, Processes
  <2>10. \A k \in 1 .. Len(buf'["up"]) : buf'["up"][k] = Len(got) + k
    <3>1. \A k \in 1 .. Len(buf["up"]) : buf'["up"][k] = Len(got) + k
      BY <1>1, <1>3, <2>3 DEF FromCommand
    <3>2. buf'["up"][Len(buf["up"]) + 1] = Len(written) + 1 /\ Len(buf'["up"]) = Len(buf["up"]) + 1
      BY <2>3
    <3>. QED
      BY <2>6, <3>1, <3>2
  <2>11. \A i \in 1 .. Len(written') : written'[i] = i
    BY <1>1, <1>3, <2>4 DEF FromCommand
  <2>12. pc["parent"] # "read_all"
    BY <1>1, <1>2, <1>3 DEF FromCommand
  <2>13. Len(got') + Len(buf'["up"]) = Len(written')
    <3>1. Len(got') = Len(got) /\ Len(buf'["up"]) = Len(buf["up"]) + 1 /\ Len(written') = Len(written) + 1
      BY <1>2, <2>3, <2>4
    <3>. QED
      BY <2>6, <3>1
  <2>14. FromCommand'
    BY <1>1, <1>2, <1>3, <2>5, <2>10, <2>11, <2>12, <2>13 DEF FromCommand
  <2>. QED
    BY <1>2, <1>3, <2>8, <2>9, <2>14 DEF PipeInv, FromDc, FromDemo
<1>. QED
  BY <1>4, <1>5

LEMMA NextReadKeeps == ASSUME PipeInv, NextRead PROVE PipeInv'
<1>1. PipeTypes /\ PipePlaces /\ PipeEnds /\ FromCommand /\ FromDc /\ FromDemo
  BY DEF PipeInv
<1>2. /\ pc["parent"] = "working" /\ "parent" \in Processes
      /\ killed \in SUBSET Processes /\ full \in BOOLEAN /\ answering \in (0 .. MaxQuestions) \X (0 .. MaxLines)
      /\ UNCHANGED <<program, buf, written, got, asked, answering, wide, full, killed>>
  BY <1>1 DEF NextRead, dcVars, Processes, PipeTypes
<1>3. CASE Exit("parent")
  BY <1>2, <1>3, ExitKeeps
<1>4. CASE GoTo("parent", "read") /\ UNCHANGED ends
  <2>1. ends' = [ends EXCEPT !["parent"] = ends["parent"]]
    BY <1>1, <1>4 DEF PipeTypes
  <2>2. /\ PipeTypes'
        /\ pc'["parent"] = "read" /\ pc'["child"] = pc["child"]
    BY <1>2, <1>4, <2>1, OnlyMoves DEF ParentLabels, ChildLabels, Processes
  <2>3. program \in {"pipe", "popen"}
    BY <1>1, <1>2 DEF PipePlaces, PipeTypes, Programs
  <2>4. PipePlaces' /\ PipeEnds'
    BY <1>1, <1>2, <1>4, <2>2, <2>3 DEF PipePlaces, PipeEnds, Processes
  <2>5. FromCommand' /\ FromDc' /\ FromDemo'
    BY <1>1, <1>2, <2>2, <2>3 DEF FromCommand, FromDc, FromDemo
  <2>. QED
    BY <2>2, <2>4, <2>5 DEF PipeInv
<1>. QED
  BY <1>3, <1>4 DEF NextRead

\* At the end of the pipe nobody holds the end the command writes to: it is gone.
LEMMA ParentReadsKeeps == ASSUME PipeInv, ParentReads PROVE PipeInv'
<1>1. PipeTypes /\ PipePlaces /\ PipeEnds /\ FromCommand /\ FromDc /\ FromDemo
  BY DEF PipeInv
<1>2. /\ pc["parent"] = "read" /\ "parent" \in Processes
      /\ UNCHANGED <<program, ends, written, asked, answering, wide, full, killed>>
  BY <1>1 DEF ParentReads, dcVars, Processes
<1>3. program \in {"pipe", "popen"} /\ pc["child"] # "none"
  BY <1>1, <1>2 DEF PipePlaces, PipeTypes, Programs
<1>4. Len(buf["up"]) \in Nat /\ Len(got) \in Nat /\ Len(got) + Len(buf["up"]) = Len(written)
  BY <1>1, <1>3 DEF PipeTypes, FromCommand
<1>5. CASE Readable("up") /\ got' = Append(got, Head(buf["up"])) /\ Take("up") /\ GoTo("parent", "working")
  <2>1. /\ Len(buf["up"]) > 0 /\ Head(buf["up"]) = buf["up"][1]
        /\ buf' \in [{"up", "down"} -> Seq(Numbers)]
        /\ Len(buf'["up"]) = Len(buf["up"]) - 1
        /\ \A k \in 1 .. Len(buf'["up"]) : buf'["up"][k] = buf["up"][k + 1]
        /\ buf'["down"] = buf["down"]
        /\ buf["up"] \in Seq(Items) => buf'["up"] \in Seq(Items) /\ buf["up"][1] \in Items
    BY <1>1, <1>5, Taken
  <2>2. buf["up"] \in Seq(Items)
    BY <1>1, <1>3 DEF PipeTypes
  <2>3. /\ got' \in Seq(Items) /\ Len(got') = Len(got) + 1
        /\ \A i \in 1 .. Len(got) : got'[i] = got[i]
        /\ got'[Len(got) + 1] = buf["up"][1]
    BY <1>1, <1>5, <2>1, <2>2 DEF PipeTypes
  <2>4. /\ pc' \in [Processes -> ParentLabels \union ChildLabels]
        /\ pc'["parent"] = "working" /\ pc'["child"] = pc["child"]
        /\ pc'["parent"] \in ParentLabels /\ pc'["child"] \in ChildLabels
    BY <1>1, <1>5, PipeGoes DEF ParentLabels, Processes
  <2>5. Len(buf'["up"]) <= PipeSize
    BY <1>1, <1>4, <2>1, PipesAssumption DEF PipeTypes, PipesAssumption
  <2>6. PipeTypes'
    BY <1>1, <1>2, <2>1, <2>2, <2>3, <2>4, <2>5 DEF PipeTypes
  <2>7. PipePlaces' /\ PipeEnds'
    BY <1>1, <1>2, <1>3, <2>4 DEF PipePlaces, PipeEnds, Processes
  <2>8. /\ buf["up"][1] = Len(got) + 1
        /\ \A k \in 1 .. Len(buf'["up"]) : buf'["up"][k] = Len(got) + (k + 1)
    <3>1. \A k \in 1 .. Len(buf["up"]) : buf["up"][k] = Len(got) + k
      BY <1>1, <1>3 DEF FromCommand
    <3>2. /\ Len(buf["up"]) > 0 /\ Len(buf'["up"]) = Len(buf["up"]) - 1
          /\ \A k \in 1 .. Len(buf'["up"]) : buf'["up"][k] = buf["up"][k + 1]
      BY <2>1
    <3>. QED
      BY <1>4, <3>1, <3>2
  <2>9. \A i \in 1 .. Len(got') : got'[i] = i
    BY <1>1, <1>3, <1>4, <2>3, <2>8 DEF FromCommand
  <2>10. \A k \in 1 .. Len(buf'["up"]) : buf'["up"][k] = Len(got') + k
    BY <1>4, <2>1, <2>3, <2>8
  <2>11. Len(got') + Len(buf'["up"]) = Len(written')
    <3>1. Len(got') = Len(got) + 1 /\ Len(buf'["up"]) = Len(buf["up"]) - 1 /\ Len(written') = Len(written)
      BY <1>2, <2>1, <2>3
    <3>2. PICK g \in Nat : g = Len(got)
      BY <1>4
    <3>3. PICK b \in Nat : b = Len(buf["up"])
      BY <1>4
    <3>4. Len(got') = g + 1 /\ Len(buf'["up"]) = b - 1 /\ Len(written') = g + b
      BY <1>4, <3>1, <3>2, <3>3
    <3>. QED
      BY <3>4
  <2>12. FromCommand'
    BY <1>1, <1>2, <1>3, <2>4, <2>9, <2>10, <2>11 DEF FromCommand
  <2>. QED
    BY <1>2, <1>3, <2>6, <2>7, <2>12 DEF PipeInv, FromDc, FromDemo
<1>6. CASE EndOfFile("up") /\ GoTo("parent", "read_all") /\ UNCHANGED <<buf, got>>
  <2>1. /\ pc' \in [Processes -> ParentLabels \union ChildLabels]
        /\ pc'["parent"] = "read_all" /\ pc'["child"] = pc["child"]
        /\ pc'["parent"] \in ParentLabels /\ pc'["child"] \in ChildLabels
    BY <1>1, <1>6, PipeGoes DEF ParentLabels, Processes
  <2>2. PipeTypes'
    BY <1>1, <1>2, <1>6, <2>1 DEF PipeTypes
  <2>3. <<"up", "write">> \notin ends["child"] /\ buf["up"] = <<>>
    BY <1>6 DEF EndOfFile, Held, Processes
  <2>4. <<"up", "write">> \in AllEnds(program)
    BY <1>3 DEF AllEnds, PipesOf
  <2>5. pc["child"] = "exit" /\ Len(buf["up"]) = 0
    BY <1>1, <1>3, <2>3, <2>4 DEF PipeEnds, PipePlaces, Processes
  <2>6. PipePlaces' /\ PipeEnds'
    BY <1>1, <1>2, <1>3, <2>1 DEF PipePlaces, PipeEnds, Processes
  <2>7. FromCommand'
    BY <1>1, <1>2, <1>6, <2>1, <2>5 DEF FromCommand
  <2>. QED
    BY <1>2, <1>3, <2>2, <2>6, <2>7 DEF PipeInv, FromDc, FromDemo
<1>. QED
  BY <1>5, <1>6 DEF ParentReads

LEMMA ParentEndsKeeps == ASSUME PipeInv, ParentEnds PROVE PipeInv'
<1>1. /\ pc["parent"] = "read_all" /\ "parent" \in Processes /\ Exit("parent")
      /\ killed \in SUBSET Processes /\ full \in BOOLEAN /\ answering \in (0 .. MaxQuestions) \X (0 .. MaxLines)
      /\ UNCHANGED <<program, buf, written, got, asked, answering, wide, full, killed>>
  BY DEF ParentEnds, dcVars, Processes, PipeInv, PipeTypes
<1>. QED
  BY <1>1, ExitKeeps
-----------------------------------------------------------------------------
\* tinybc

LEMMA PromptKeeps == ASSUME PipeInv, Prompt PROVE PipeInv'
<1>1. PipeTypes /\ PipePlaces /\ PipeEnds /\ FromCommand /\ FromDc /\ FromDemo
  BY DEF PipeInv
<1>2. /\ pc["parent"] = "prompt" /\ "parent" \in Processes
      /\ UNCHANGED <<program, buf, written, got, answering, wide, full, killed>>
  BY <1>1 DEF Prompt, Processes, PipeTypes
<1>3. program = "tinybc" /\ pc["child"] # "none"
  BY <1>1, <1>2 DEF PipePlaces, PipeTypes, Programs
<1>4. PICK label \in {"ask", "wait"} :
        /\ GoTo("parent", label)
        /\ label = "ask" => asked < MaxQuestions /\ asked' = asked + 1 /\ UNCHANGED ends
        /\ label = "wait" => ends' = [ends EXCEPT !["parent"] = {}] /\ UNCHANGED asked
  BY DEF Prompt
<1>5. /\ pc' \in [Processes -> ParentLabels \union ChildLabels]
      /\ pc'["parent"] = label /\ pc'["child"] = pc["child"]
      /\ pc'["parent"] \in ParentLabels /\ pc'["child"] \in ChildLabels
  BY <1>1, <1>4, PipeGoes DEF ParentLabels, Processes
<1>6. ends' \in [Processes -> SUBSET AllEnds(program)] /\ ends'["child"] = ends["child"]
  BY <1>1, <1>4 DEF PipeTypes, Processes
<1>7. asked' \in 0 .. MaxQuestions
  <2>1. asked \in 0 .. MaxQuestions /\ MaxQuestions \in Nat
    BY <1>1, PipesAssumption DEF PipeTypes, PipesAssumption
  <2>. QED
    BY <1>4, <2>1
<1>8. PipeTypes'
  BY <1>1, <1>2, <1>5, <1>6, <1>7 DEF PipeTypes
<1>9. PipePlaces'
  BY <1>1, <1>2, <1>3, <1>4, <1>5 DEF PipePlaces, PipeTypes
<1>10. PipeEnds'
  BY <1>1, <1>2, <1>5, <1>6 DEF PipeEnds, Processes
<1>11. FromDc'
  BY <1>1, <1>2, <1>3, <1>4, <1>5 DEF FromDc
<1>. QED
  BY <1>2, <1>3, <1>8, <1>9, <1>10, <1>11 DEF PipeInv, FromCommand, FromDemo

LEMMA AskKeeps == ASSUME PipeInv, Ask PROVE PipeInv'
<1>1. PipeTypes /\ PipePlaces /\ PipeEnds /\ FromCommand /\ FromDc /\ FromDemo
  BY DEF PipeInv
<1>2. /\ pc["parent"] = "ask" /\ "parent" \in Processes
      /\ killed \in SUBSET Processes /\ full \in BOOLEAN /\ answering \in (0 .. MaxQuestions) \X (0 .. MaxLines)
      /\ UNCHANGED <<program, written, got, asked, answering, wide, full, killed>>
      /\ Write("parent", "down", asked, "answer")
  BY <1>1 DEF Ask, dcVars, Processes, PipeTypes
<1>3. /\ program = "tinybc" /\ pc["child"] # "none" /\ asked > 0 /\ asked \in 1 .. MaxQuestions
      /\ MaxItems \in Nat /\ MaxQuestions \in Nat /\ PipeSize \in Nat
  BY <1>1, <1>2, PipesAssumption DEF PipePlaces, PipeTypes, Programs, PipesAssumption
<1>4. CASE Exit("parent") /\ UNCHANGED buf
  BY <1>2, <1>4, ExitKeeps
<1>5. CASE /\ Len(buf["down"]) < PipeSize
           /\ buf' = [buf EXCEPT !["down"] = Append(@, asked)]
           /\ GoTo("parent", "answer") /\ UNCHANGED ends
  <2>1. asked \in Numbers
    BY <1>3 DEF Numbers
  <2>2. /\ buf' \in [{"up", "down"} -> Seq(Numbers)]
        /\ Len(buf'["down"]) = Len(buf["down"]) + 1
        /\ buf'["down"][Len(buf["down"]) + 1] = asked
        /\ buf'["up"] = buf["up"]
        /\ buf["down"] \in Seq(1 .. MaxQuestions) => buf'["down"] \in Seq(1 .. MaxQuestions)
    BY <1>1, <1>3, <1>5, <2>1, Appended
  <2>3. /\ pc' \in [Processes -> ParentLabels \union ChildLabels]
        /\ pc'["parent"] = "answer" /\ pc'["child"] = pc["child"]
        /\ pc'["parent"] \in ParentLabels /\ pc'["child"] \in ChildLabels
    BY <1>1, <1>5, PipeGoes DEF ParentLabels, Processes
  <2>4. Len(buf'["down"]) <= PipeSize
    <3>1. Len(buf["down"]) \in Nat
      BY <1>1 DEF PipeTypes
    <3>. QED
      BY <1>3, <1>5, <2>2, <3>1
  <2>5. PipeTypes'
    BY <1>1, <1>2, <1>5, <2>2, <2>3, <2>4 DEF PipeTypes
  <2>6. PipePlaces' /\ PipeEnds'
    BY <1>1, <1>2, <1>3, <1>5, <2>3 DEF PipePlaces, PipeEnds, Processes
  <2>7. ASSUME ~wide
        PROVE  /\ Len(buf'["down"]) = 1 /\ buf'["down"][1] = asked' /\ Len(buf'["up"]) = 0
               /\ pc'["child"] \in {"setup", "dc_read", "exit"} /\ asked' = Len(got') + 1
    <3>1. /\ Len(buf["down"]) = 0 /\ Len(buf["up"]) = 0 /\ asked = Len(got) + 1
          /\ pc["child"] \in {"setup", "dc_read", "exit"}
      BY <1>1, <1>2, <1>3, <2>7 DEF FromDc, PipePlaces
    <3>. QED
      BY <1>2, <2>2, <2>3, <3>1
  <2>8. FromDc'
    BY <1>1, <1>2, <1>3, <2>3, <2>7 DEF FromDc, OneQuestion
  <2>. QED
    BY <1>2, <1>3, <2>5, <2>6, <2>8 DEF PipeInv, FromCommand, FromDemo
<1>. QED
  BY <1>2, <1>4, <1>5 DEF Write

\* The first line of an answer is all that is read before the next question.
LEMMA PrintAnswerKeeps == ASSUME PipeInv, PrintAnswer PROVE PipeInv'
<1>1. PipeTypes /\ PipePlaces /\ PipeEnds /\ FromCommand /\ FromDc /\ FromDemo
  BY DEF PipeInv
<1>2. /\ pc["parent"] = "answer" /\ "parent" \in Processes
      /\ UNCHANGED <<program, written, asked, answering, wide, full, killed>>
  BY <1>1 DEF PrintAnswer, dcVars, Processes
<1>3. program = "tinybc" /\ pc["child"] # "none"
  BY <1>1, <1>2 DEF PipePlaces, PipeTypes, Programs
<1>4. CASE /\ Readable("up") /\ Take("up")
           /\ got' = Append(got, Head(buf["up"]))
           /\ GoTo("parent", "prompt") /\ UNCHANGED ends
  <2>1. /\ Len(buf["up"]) > 0 /\ Head(buf["up"]) = buf["up"][1]
        /\ buf' \in [{"up", "down"} -> Seq(Numbers)]
        /\ Len(buf'["up"]) = Len(buf["up"]) - 1
        /\ buf'["down"] = buf["down"]
        /\ buf["up"] \in Seq(Items) => buf'["up"] \in Seq(Items) /\ buf["up"][1] \in Items
    BY <1>1, <1>4, Taken
  <2>2. buf["up"] \in Seq(Items) /\ Len(buf["up"]) \in Nat /\ Len(buf["up"]) <= PipeSize /\ Len(got) \in Nat
    BY <1>1, <1>3 DEF PipeTypes
  <2>3. /\ got' \in Seq(Items) /\ Len(got') = Len(got) + 1
        /\ \A i \in 1 .. Len(got) : got'[i] = got[i]
        /\ got'[Len(got) + 1] = buf["up"][1]
    BY <1>1, <1>4, <2>1, <2>2 DEF PipeTypes
  <2>4. /\ pc' \in [Processes -> ParentLabels \union ChildLabels]
        /\ pc'["parent"] = "prompt" /\ pc'["child"] = pc["child"]
        /\ pc'["parent"] \in ParentLabels /\ pc'["child"] \in ChildLabels
    BY <1>1, <1>4, PipeGoes DEF ParentLabels, Processes
  <2>5. Len(buf'["up"]) <= PipeSize
    <3>1. Len(buf'["up"]) = Len(buf["up"]) - 1
      BY <2>1
    <3>. QED
      BY <2>2, <3>1, PipesAssumption DEF PipesAssumption
  <2>6. PipeTypes'
    BY <1>1, <1>2, <1>4, <2>1, <2>2, <2>3, <2>4, <2>5 DEF PipeTypes
  <2>7. PipePlaces' /\ PipeEnds'
    BY <1>1, <1>2, <1>3, <1>4, <2>4 DEF PipePlaces, PipeEnds, Processes
  <2>8. ASSUME ~wide
        PROVE  /\ Len(buf["up"]) = 1 /\ buf["up"][1] = asked /\ Len(buf["down"]) = 0
               /\ pc["child"] # "dc_write" /\ asked = Len(got) + 1
    BY <1>1, <1>2, <1>3, <2>1, <2>8 DEF FromDc, OneQuestion
  <2>9. ASSUME ~wide
        PROVE  /\ Len(buf'["up"]) = 0 /\ Len(buf'["down"]) = 0 /\ asked' = Len(got')
               /\ \A i \in 1 .. Len(got') : got'[i] = i
    <3>1. Len(buf'["up"]) = 0 /\ Len(buf'["down"]) = 0
      BY <2>1, <2>8, <2>9
    <3>2. Len(got') = Len(got) + 1 /\ got'[Len(got) + 1] = Len(got) + 1
      BY <2>3, <2>8, <2>9
    <3>3. \A i \in 1 .. Len(got) : got'[i] = i
      BY <1>1, <1>3, <2>3, <2>9 DEF FromDc
    <3>. QED
      BY <1>2, <2>2, <2>8, <2>9, <3>1, <3>2, <3>3
  <2>10. FromDc'
    BY <1>2, <2>4, <2>8, <2>9 DEF FromDc
  <2>. QED
    BY <1>2, <1>3, <2>6, <2>7, <2>10 DEF PipeInv, FromCommand, FromDemo
<1>5. CASE GoTo("parent", "wait") /\ ends' = [ends EXCEPT !["parent"] = {}] /\ UNCHANGED <<buf, got>>
  <2>1. /\ killed \in SUBSET Processes /\ full \in BOOLEAN /\ answering \in (0 .. MaxQuestions) \X (0 .. MaxLines)
        /\ {} \in SUBSET ends["parent"]
    BY <1>1 DEF PipeTypes
  <2>2. /\ PipeTypes'
        /\ pc'["parent"] = "wait" /\ pc'["child"] = pc["child"] /\ ends'["child"] = ends["child"]
    BY <1>2, <1>5, <2>1, OnlyMoves DEF ParentLabels, ChildLabels, Processes
  <2>3. PipePlaces'
    BY <1>1, <1>2, <1>3, <2>2 DEF PipePlaces
  <2>4. PipeEnds'
    BY <1>1, <1>2, <2>2 DEF PipeEnds, Processes
  <2>5. FromDc'
    BY <1>1, <1>2, <1>5, <2>2 DEF FromDc
  <2>. QED
    BY <1>2, <1>3, <2>2, <2>3, <2>4, <2>5 DEF PipeInv, FromCommand, FromDemo
<1>. QED
  BY <1>4, <1>5 DEF PrintAnswer

LEMMA WaitForDcKeeps == ASSUME PipeInv, WaitForDc PROVE PipeInv'
<1>1. /\ pc["parent"] = "wait" /\ "parent" \in Processes /\ Exit("parent")
      /\ killed \in SUBSET Processes /\ full \in BOOLEAN /\ answering \in (0 .. MaxQuestions) \X (0 .. MaxLines)
      /\ UNCHANGED <<program, buf, written, got, asked, answering, wide, full, killed>>
  BY DEF WaitForDc, dcVars, Processes, PipeInv, PipeTypes
<1>. QED
  BY <1>1, ExitKeeps

LEMMA DcReadsKeeps == ASSUME PipeInv, DcReads PROVE PipeInv'
<1>1. PipeTypes /\ PipePlaces /\ PipeEnds /\ FromCommand /\ FromDc /\ FromDemo
  BY DEF PipeInv
<1>2. /\ pc["child"] = "dc_read" /\ "child" \in Processes
      /\ killed \in SUBSET Processes /\ full \in BOOLEAN /\ answering \in (0 .. MaxQuestions) \X (0 .. MaxLines)
      /\ UNCHANGED <<program, written, got, asked, full, killed>>
  BY <1>1 DEF DcReads, Processes, PipeTypes
<1>3. program = "tinybc" /\ MaxItems \in Nat /\ MaxQuestions \in Nat /\ PipeSize \in Nat
  BY <1>1, <1>2, PipesAssumption DEF PipePlaces, PipeTypes, Programs, PipesAssumption
<1>4. CASE Exit("child") /\ UNCHANGED <<buf, answering, wide>>
  BY <1>2, <1>4, ExitKeeps
<1>5. ASSUME NEW m \in 1 .. MaxLines, Readable("down"), Take("down"),
             answering' = <<Head(buf["down"]), m>>, wide' = (wide \/ m > 1),
             GoTo("child", "dc_write"), UNCHANGED ends
      PROVE  PipeInv'
  <2>1. /\ Len(buf["down"]) > 0 /\ Head(buf["down"]) = buf["down"][1]
        /\ buf' \in [{"up", "down"} -> Seq(Numbers)]
        /\ Len(buf'["down"]) = Len(buf["down"]) - 1
        /\ buf'["up"] = buf["up"]
        /\ buf["down"] \in Seq(1 .. MaxQuestions) => buf'["down"] \in Seq(1 .. MaxQuestions) /\ buf["down"][1] \in 1 .. MaxQuestions
    BY <1>1, <1>5, Taken
  <2>2. buf["down"] \in Seq(1 .. MaxQuestions) /\ Len(buf["down"]) \in Nat /\ Len(buf["down"]) <= PipeSize
    BY <1>1 DEF PipeTypes
  <2>3. /\ answering' \in (0 .. MaxQuestions) \X (0 .. MaxLines) /\ wide' \in BOOLEAN
        /\ answering'[1] > 0 /\ answering'[2] > 0
        /\ answering'[1] = buf["down"][1] /\ answering'[2] = m
    <3>1. buf["down"][1] \in 1 .. MaxQuestions /\ answering' = <<buf["down"][1], m>> /\ MaxLines \in Nat
      BY <1>5, <2>1, <2>2, PipesAssumption DEF PipesAssumption
    <3>2. wide' \in BOOLEAN
      BY <1>5
    <3>. QED
      BY <1>3, <3>1, <3>2
  <2>4. /\ pc' \in [Processes -> ParentLabels \union ChildLabels]
        /\ pc'["child"] = "dc_write" /\ pc'["parent"] = pc["parent"]
        /\ pc'["parent"] \in ParentLabels /\ pc'["child"] \in ChildLabels
    BY <1>1, <1>5, PipeGoes DEF ChildLabels, Processes
  <2>5. Len(buf'["down"]) <= PipeSize
    <3>1. Len(buf'["down"]) = Len(buf["down"]) - 1
      BY <2>1
    <3>. QED
      BY <1>3, <2>2, <3>1
  <2>6. PipeTypes'
    BY <1>1, <1>2, <1>5, <2>1, <2>2, <2>3, <2>4, <2>5 DEF PipeTypes
  <2>7. PipePlaces' /\ PipeEnds'
    BY <1>1, <1>2, <1>3, <1>5, <2>3, <2>4 DEF PipePlaces, PipeEnds, Processes
  <2>8. FromDc'
    <3>. SUFFICES ASSUME ~wide' PROVE FromDc'
      BY DEF FromDc
    <3>1. ~wide /\ m = 1
      <4>1. wide' = (wide \/ m > 1) /\ m \in Nat \ {0}
        BY <1>5, PipesAssumption DEF PipesAssumption
      <4>2. ~wide /\ ~(m > 1)
        BY <4>1, Zenon
      <4>. QED
        BY <4>1, <4>2
    <3>2. pc["parent"] \notin {"fork", "setup", "prompt", "ask"}
      <4>1. Len(buf["down"]) # 0
        BY <2>1, <2>2
      <4>. QED
        BY <1>1, <1>3, <3>1, <4>1 DEF FromDc
    <3>3. pc["parent"] = "answer" => Len(buf["down"]) = 1 /\ buf["down"][1] = asked /\ Len(buf["up"]) = 0
      BY <1>1, <1>2, <1>3, <2>1, <3>1 DEF FromDc, OneQuestion
    <3>4. pc'["parent"] = "answer" => OneQuestion'
      <4>1. pc["parent"] = "answer" => Len(buf'["down"]) = 0 /\ Len(buf'["up"]) = 0
        BY <2>1, <3>3
      <4>. QED
        BY <1>2, <2>3, <2>4, <3>1, <3>3, <4>1 DEF OneQuestion
    <3>. QED
      BY <1>1, <1>2, <1>3, <2>4, <3>1, <3>2, <3>4 DEF FromDc
  <2>. QED
    BY <1>2, <1>3, <2>6, <2>7, <2>8 DEF PipeInv, FromCommand, FromDemo
<1>. QED
  BY <1>4, <1>5 DEF DcReads

LEMMA DcWritesKeeps == ASSUME PipeInv, DcWrites PROVE PipeInv'
<1>1. PipeTypes /\ PipePlaces /\ PipeEnds /\ FromCommand /\ FromDc /\ FromDemo
  BY DEF PipeInv
<1>. DEFINE next == IF answering[2] = 1 THEN "dc_read" ELSE "dc_write"
<1>2. /\ pc["child"] = "dc_write" /\ "child" \in Processes
      /\ killed \in SUBSET Processes /\ full \in BOOLEAN
      /\ UNCHANGED <<program, written, got, asked, wide, full, killed>>
      /\ Write("child", "up", answering[1], next)
      /\ answering' = IF answering[2] = 1 THEN <<0, 0>> ELSE <<answering[1], answering[2] - 1>>
  BY <1>1 DEF DcWrites, Processes, PipeTypes
<1>3. program = "tinybc" /\ MaxItems \in Nat /\ MaxQuestions \in Nat /\ PipeSize \in Nat /\ MaxLines \in Nat
  BY <1>1, <1>2, PipesAssumption DEF PipePlaces, PipeTypes, Programs, PipesAssumption
<1>4. answering[1] \in 1 .. MaxQuestions /\ answering[2] \in 1 .. MaxLines
  BY <1>1, <1>2, <1>3 DEF PipeTypes, PipePlaces
<1>5. /\ answering' \in (0 .. MaxQuestions) \X (0 .. MaxLines)
      /\ answering[2] # 1 => answering'[1] > 0 /\ answering'[2] > 0
  BY <1>2, <1>3, <1>4
<1>6. CASE Exit("child") /\ UNCHANGED buf
  BY <1>2, <1>5, <1>6, ExitKeeps
<1>7. CASE /\ Len(buf["up"]) < PipeSize
           /\ buf' = [buf EXCEPT !["up"] = Append(@, answering[1])]
           /\ GoTo("child", next) /\ UNCHANGED ends
  <2>1. answering[1] \in Numbers /\ answering[1] \in Items
    BY <1>3, <1>4 DEF Numbers, Items
  <2>2. /\ buf' \in [{"up", "down"} -> Seq(Numbers)]
        /\ Len(buf'["up"]) = Len(buf["up"]) + 1
        /\ buf'["up"][Len(buf["up"]) + 1] = answering[1]
        /\ buf'["down"] = buf["down"]
        /\ buf["up"] \in Seq(Items) => buf'["up"] \in Seq(Items)
    BY <1>1, <1>7, <2>1, Appended
  <2>3. /\ pc' \in [Processes -> ParentLabels \union ChildLabels]
        /\ pc'["child"] = next /\ pc'["parent"] = pc["parent"]
        /\ pc'["parent"] \in ParentLabels /\ pc'["child"] \in ChildLabels
    BY <1>1, <1>7, PipeGoes DEF ChildLabels, Processes
  <2>4. Len(buf'["up"]) <= PipeSize
    <3>1. Len(buf["up"]) \in Nat /\ Len(buf["up"]) < PipeSize /\ Len(buf'["up"]) = Len(buf["up"]) + 1
      BY <1>1, <1>7, <2>2 DEF PipeTypes
    <3>. QED
      BY <1>3, <3>1
  <2>5. PipeTypes'
    BY <1>1, <1>2, <1>5, <1>7, <2>2, <2>3, <2>4 DEF PipeTypes
  <2>6. PipePlaces' /\ PipeEnds'
    BY <1>1, <1>2, <1>3, <1>5, <1>7, <2>3 DEF PipePlaces, PipeEnds, Processes
  <2>7. FromDc'
    <3>. SUFFICES ASSUME ~wide PROVE FromDc'
      BY <1>2 DEF FromDc
    <3>1. pc["parent"] \notin {"fork", "setup", "prompt", "ask"}
      BY <1>1, <1>2, <1>3 DEF FromDc
    <3>2. ASSUME pc["parent"] = "answer" PROVE OneQuestion'
      <4>1. /\ Len(buf["down"]) = 0 /\ Len(buf["up"]) = 0
            /\ answering[1] = asked /\ answering[2] = 1
        BY <1>1, <1>2, <1>3, <3>2 DEF FromDc, OneQuestion
      <4>2. Len(buf'["down"]) = 0 /\ Len(buf'["up"]) = 1 /\ buf'["up"][1] = asked
        BY <2>2, <4>1
      <4>. QED
        BY <1>2, <2>3, <4>1, <4>2 DEF OneQuestion
    <3>. QED
      BY <1>1, <1>2, <1>3, <2>3, <3>1, <3>2 DEF FromDc
  <2>. QED
    BY <1>2, <1>3, <2>5, <2>6, <2>7 DEF PipeInv, FromCommand, FromDemo
<1>. QED
  BY <1>2, <1>6, <1>7 DEF Write
-----------------------------------------------------------------------------
\* pipedemo2: neither process takes anything for an answer.

LEMMA DemoWrites ==
  ASSUME PipeInv, program = "pipedemo2", NEW p \in Processes, NEW label,
         pc[p] = (IF p = "parent" THEN "demo_write" ELSE "demo_child"),
         label = (IF p = "parent" THEN "demo_read" ELSE "demo_child"),
         Write(p, "up", 0, label), full' \in BOOLEAN,
         UNCHANGED <<program, written, got, asked, answering, wide, killed>>
  PROVE  PipeInv'
<1>1. PipeTypes /\ PipePlaces /\ PipeEnds /\ FromCommand /\ FromDc /\ FromDemo
  BY DEF PipeInv
<1>2. CASE Exit(p) /\ UNCHANGED buf
  <2>1. answering' \in (0 .. MaxQuestions) \X (0 .. MaxLines) /\ killed' \in SUBSET Processes
    BY <1>1 DEF PipeTypes
  <2>. QED
    BY <1>2, <2>1, ExitKeeps
<1>3. CASE /\ Len(buf["up"]) < PipeSize
           /\ buf' = [buf EXCEPT !["up"] = Append(@, 0)]
           /\ GoTo(p, label) /\ UNCHANGED ends
  <2>1. 0 \in Numbers /\ PipeSize \in Nat
    BY PipesAssumption DEF PipesAssumption, Numbers
  <2>2. /\ buf' \in [{"up", "down"} -> Seq(Numbers)]
        /\ Len(buf'["up"]) = Len(buf["up"]) + 1
        /\ buf'["down"] = buf["down"]
    BY <1>1, <1>3, <2>1, Appended
  <2>3. /\ pc' \in [Processes -> ParentLabels \union ChildLabels]
        /\ pc'[p] = label /\ \A q \in Processes : q # p => pc'[q] = pc[q]
        /\ pc'["parent"] \in ParentLabels /\ pc'["child"] \in ChildLabels
    BY <1>1, <1>3, PipeGoes DEF ParentLabels, ChildLabels, Processes
  <2>4. Len(buf'["up"]) <= PipeSize
    <3>1. Len(buf["up"]) \in Nat /\ Len(buf["up"]) < PipeSize /\ Len(buf'["up"]) = Len(buf["up"]) + 1
      BY <1>1, <1>3, <2>2 DEF PipeTypes
    <3>. QED
      BY <2>1, <3>1
  <2>5. PipeTypes'
    BY <1>1, <1>3, <2>2, <2>3, <2>4 DEF PipeTypes
  <2>6. PipePlaces' /\ PipeEnds'
    BY <1>1, <1>3, <2>3 DEF PipePlaces, PipeEnds, Processes
  <2>. QED
    BY <1>1, <2>5, <2>6 DEF PipeInv, FromCommand, FromDc, FromDemo
<1>. QED
  BY <1>2, <1>3 DEF Write

LEMMA DemoStepsKeep == ASSUME PipeInv, DemoChildWrites \/ DemoWrite \/ DemoRead PROVE PipeInv'
<1>1. PipeTypes /\ PipePlaces /\ PipeEnds /\ FromCommand /\ FromDc /\ FromDemo
  BY DEF PipeInv
<1>2. "parent" \in Processes /\ "child" \in Processes
  BY DEF Processes
<1>3. CASE DemoChildWrites
  <2>1. program = "pipedemo2"
    BY <1>1, <1>3 DEF DemoChildWrites, PipePlaces, PipeTypes, Programs
  <2>2. full' \in BOOLEAN
    BY <1>1, <1>3 DEF DemoChildWrites, PipeTypes
  <2>. QED
    BY <1>2, <1>3, <2>1, <2>2, DemoWrites DEF DemoChildWrites, dcVars
<1>4. CASE DemoWrite
  <2>1. program = "pipedemo2" /\ full' \in BOOLEAN
    BY <1>1, <1>4 DEF DemoWrite, PipePlaces, PipeTypes, Programs
  <2>. QED
    BY <1>2, <1>4, <2>1, DemoWrites DEF DemoWrite, dcVars
<1>5. CASE DemoRead
  <2>1. /\ pc["parent"] = "demo_read" /\ GoTo("parent", "demo_write")
        /\ buf' = [buf EXCEPT !["up"] = <<>>]
        /\ UNCHANGED <<program, ends, written, got, asked, answering, wide, full, killed>>
    BY <1>5 DEF DemoRead, dcVars
  <2>2. program = "pipedemo2"
    BY <1>1, <2>1 DEF PipePlaces, PipeTypes, Programs
  <2>3. /\ buf' \in [{"up", "down"} -> Seq(Numbers)] /\ buf'["down"] = buf["down"]
        /\ Len(buf'["up"]) = 0
    BY <1>1, <2>1 DEF PipeTypes
  <2>4. /\ pc' \in [Processes -> ParentLabels \union ChildLabels]
        /\ pc'["parent"] = "demo_write" /\ pc'["child"] = pc["child"]
        /\ pc'["parent"] \in ParentLabels /\ pc'["child"] \in ChildLabels
    BY <1>1, <1>2, <2>1, PipeGoes DEF ParentLabels, Processes
  <2>5. Len(buf'["up"]) <= PipeSize
    BY <2>3, PipesAssumption DEF PipesAssumption
  <2>6. PipeTypes'
    BY <1>1, <2>1, <2>2, <2>3, <2>4, <2>5 DEF PipeTypes
  <2>7. PipePlaces' /\ PipeEnds'
    BY <1>1, <2>1, <2>2, <2>4 DEF PipePlaces, PipeEnds, Processes
  <2>. QED
    BY <1>1, <2>1, <2>2, <2>6, <2>7 DEF PipeInv, FromCommand, FromDc, FromDemo
<1>. QED
  BY <1>3, <1>4, <1>5
-----------------------------------------------------------------------------
LEMMA PipeKillKeeps == ASSUME PipeInv, NEW p \in Processes, Kill(p) PROVE PipeInv'
<1>1. /\ pc[p] \notin {"none", "exit", "crashed"} /\ Exit(p)
      /\ UNCHANGED <<program, buf, written, got, asked, answering, wide, full>>
  BY DEF Kill, dcVars
<1>2. /\ killed' \in SUBSET Processes /\ full' \in BOOLEAN
      /\ answering' \in (0 .. MaxQuestions) \X (0 .. MaxLines)
  BY <1>1 DEF Kill, PipeInv, PipeTypes
<1>. QED
  BY <1>1, <1>2, ExitKeeps

LEMMA PipeNext == ASSUME PipeInv, Next PROVE PipeInv'
<1>1. CASE ParentSteps
  BY <1>1, ForkKeeps, SetupKeeps, NextReadKeeps, ParentReadsKeeps, ParentEndsKeeps, AskKeeps,
     PrintAnswerKeeps, WaitForDcKeeps, DemoStepsKeep DEF ParentSteps
<1>2. CASE ChildSteps
  BY <1>2, SetupKeeps, CommandKeeps, CommandWritesKeeps, DcReadsKeeps, DcWritesKeeps DEF ChildSteps
<1>3. CASE Prompt \/ DemoChildWrites \/ \E p \in Processes : Kill(p)
  BY <1>3, PromptKeeps, DemoStepsKeep, PipeKillKeeps
<1>. QED
  BY <1>1, <1>2, <1>3 DEF Next

\* What the invariant is for.
LEMMA PipesRead == PipeInv => ReadsWhatWasMeant
<1>. SUFFICES ASSUME PipeInv
              PROVE  /\ ~wide => \A i \in DOMAIN got : got[i] = i
                     /\ pc["parent"] = "read_all" => pc["child"] = "exit" /\ got = written
  BY DEF ReadsWhatWasMeant
<1>1. PipeTypes /\ PipePlaces /\ FromCommand /\ FromDc /\ FromDemo
  BY DEF PipeInv
<1>2. /\ got \in Seq(Items) /\ written \in Seq(1 .. MaxItems) /\ program \in Programs
      /\ DOMAIN got = 1 .. Len(got)
  BY <1>1 DEF PipeTypes
<1>3. ASSUME ~wide, NEW i \in DOMAIN got PROVE got[i] = i
  BY <1>1, <1>2, <1>3 DEF FromCommand, FromDc, FromDemo, Programs
<1>4. ASSUME pc["parent"] = "read_all" PROVE pc["child"] = "exit" /\ got = written
  <2>1. program \in {"pipe", "popen"}
    BY <1>1, <1>2, <1>4 DEF PipePlaces, Programs
  <2>2. /\ pc["child"] = "exit" /\ Len(got) + 0 = Len(written)
        /\ \A i \in 1 .. Len(written) : written[i] = i
        /\ \A i \in 1 .. Len(got) : got[i] = i
    BY <1>1, <1>4, <2>1 DEF FromCommand
  <2>. QED
    BY <1>2, <2>2
<1>. QED
  BY <1>3, <1>4

LEMMA PipeTyped == PipeInv => TypeOK
<1>. SUFFICES ASSUME PipeInv PROVE TypeOK
  OBVIOUS
<1>1. PipeTypes /\ PipeEnds
  BY DEF PipeInv
<1>2. \A pipe \in {"up", "down"} : buf[pipe] \in Seq(Numbers) /\ Len(buf[pipe]) <= PipeSize
  BY <1>1 DEF PipeTypes
<1>3. \A p \in Processes : pc[p] \in {"none", "exit", "crashed"} => ends[p] = {}
  BY <1>1 DEF PipeEnds
<1>. QED
  BY <1>1, <1>2, <1>3 DEF PipeTypes, TypeOK, Numbers, Items, AllEnds
-----------------------------------------------------------------------------
(* The file clock *)

ServerAt == {"start", "time", "lock", "write", "writing", "unlock", "exit"}
ClientAt == {"start", "lock", "read", "unlock", "exit"}

\* The values of the file clock's variables, its sequences element by element.
ClockTypes ==
  /\ exists \in BOOLEAN
  /\ file \in Seq(FileClock!Halves) /\ Len(file) \in {0, 1, 2}
  /\ lock \in [FileClock!Processes -> {"none", "read", "write"}]
  /\ at \in [FileClock!Processes -> ServerAt \union ClientAt]
  /\ offset \in [FileClock!Processes -> 0 .. 2]
  /\ now \in [FileServers -> 0 .. FileRounds]
  /\ shown \in [FileClients -> Seq(FileClock!Halves)]
  /\ locked \in [FileClients -> Seq(FileClock!Halves)]
  /\ emptied \in SUBSET FileClients

\* Where a process is tells which lock it holds, and a writer is alone.
Locks ==
  /\ \A s \in FileServers :
       /\ at[s] \in ServerAt
       /\ lock[s] = IF at[s] \in {"write", "writing", "unlock"} THEN "write" ELSE "none"
  /\ \A c \in FileClients :
       /\ at[c] \in ClientAt
       /\ lock[c] = IF at[c] \in {"read", "unlock"} THEN "read" ELSE "none"
  /\ \A p, q \in FileClock!Processes : lock[p] = "write" /\ q # p => lock[q] = "none"

\* Only in the middle of a write does the file hold a part of a time; what
\* comes behind it is the second half of an older one.
Writes ==
  /\ \A s \in FileServers :
       /\ at[s] \in {"lock", "write", "writing"} => now[s] > 0
       /\ at[s] = "write" => offset[s] = 0
       /\ at[s] = "writing" => offset[s] = 1 /\ Len(file) > 0 /\ file[1] = FileClock!Stamp(s)
  /\ (\A s \in FileServers : at[s] # "writing") =>
       Len(file) = 0 \/ (Len(file) = 2 /\ file[1] = file[2])

\* What client c has locked is a whole time or nothing.
LockedWhole(c) == Len(locked[c]) = 0 \/ (Len(locked[c]) = 2 /\ locked[c][1] = locked[c][2])

\* What client c has printed is the start of what it has locked.
Prefix(c) ==
  /\ Len(shown[c]) <= Len(locked[c])
  /\ \A i \in 1 .. Len(shown[c]) : shown[c][i] = locked[c][i]

ReadsSoFar(c) ==
  /\ at[c] \in {"start", "lock"} => offset[c] = 0 /\ Len(shown[c]) = 0
  /\ at[c] \in {"read", "unlock"} => LockedWhole(c) /\ Prefix(c)
  /\ at[c] = "read" =>
       /\ offset[c] = Len(shown[c])
       /\ file = locked[c] \/ (c \in emptied /\ Len(file) = 0)
  /\ at[c] = "unlock" => Len(shown[c]) = Len(locked[c]) \/ c \in emptied

Reads == \A c \in FileClients : ReadsSoFar(c)

ClockInv == ClockTypes /\ Locks /\ Writes /\ Reads
-----------------------------------------------------------------------------
LEMMA ClockGoes ==
  ASSUME ClockTypes, NEW p \in FileClock!Processes, NEW label \in ServerAt \union ClientAt,
         FileClock!GoTo(p, label)
  PROVE  /\ at' \in [FileClock!Processes -> ServerAt \union ClientAt]
         /\ at'[p] = label
         /\ \A q \in FileClock!Processes : q # p => at'[q] = at[q]
BY DEF ClockTypes, FileClock!GoTo

LEMMA ClockLocks ==
  ASSUME ClockTypes, NEW p \in FileClock!Processes, NEW op \in {"none", "read", "write"},
         FileClock!LockOperation(p, op)
  PROVE  /\ lock' \in [FileClock!Processes -> {"none", "read", "write"}]
         /\ lock'[p] = op
         /\ \A q \in FileClock!Processes : q # p =>
              /\ lock'[q] = lock[q]
              /\ op = "read" => lock[q] # "write"
              /\ op = "write" => lock[q] = "none"
BY DEF ClockTypes, FileClock!LockOperation

\* A write at position 0 or 1 of a file of at most two halves.
LEMMA ClockPuts ==
  ASSUME ClockTypes, NEW half \in FileClock!Halves, NEW place \in {1, 2},
         place = 2 => Len(file) > 0
  PROVE  /\ FileClock!PutAt(place, half) \in Seq(FileClock!Halves)
         /\ Len(FileClock!PutAt(place, half)) = IF Len(file) < place THEN place ELSE Len(file)
         /\ FileClock!PutAt(place, half)[place] = half
         /\ place = 2 => FileClock!PutAt(place, half)[1] = file[1]
<1>. DEFINE n == IF Len(file) < place THEN place ELSE Len(file)
<1>1. n \in Nat /\ place \in 1 .. n /\ file \in [1 .. Len(file) -> FileClock!Halves]
  BY DEF ClockTypes
<1>2. FileClock!PutAt(place, half) =
        [k \in 1 .. n |-> IF k = place THEN half ELSE IF k <= Len(file) THEN file[k] ELSE FileClock!Zero]
  BY DEF FileClock!PutAt
<1>3. FileClock!Zero \in FileClock!Halves
  BY DEF FileClock!Halves
<1>4. \A k \in 1 .. n : k <= Len(file) => file[k] \in FileClock!Halves
  BY <1>1 DEF ClockTypes
<1>5. FileClock!PutAt(place, half) \in [1 .. n -> FileClock!Halves]
  BY <1>1, <1>2, <1>3, <1>4
<1>6. FileClock!PutAt(place, half) \in Seq(FileClock!Halves) /\ Len(FileClock!PutAt(place, half)) = n
  BY <1>1, <1>5
<1>7. place = 2 => 1 \in 1 .. n /\ 1 # place /\ 1 <= Len(file)
  BY DEF ClockTypes
<1>. QED
  BY <1>1, <1>2, <1>6, <1>7

LEMMA ClockInit == ASSUME FileClock!FileAssumption, FileClock!Init PROVE ClockInv
<1>1. FileClock!Zero \in FileClock!Halves
  BY DEF FileClock!Halves
<1>. USE DEF FileClock!Init, FileClock!FileAssumption
<1>2. file \in Seq(FileClock!Halves) /\ (Len(file) = 0 \/ (Len(file) = 2 /\ file[1] = file[2]))
  <2>1. CASE file = <<>>
    BY <2>1
  <2>2. CASE file = <<FileClock!Zero, FileClock!Zero>>
    BY <1>1, <2>2
  <2>. QED
    BY <2>1, <2>2
<1>3. ClockTypes
  <2>1. Len(file) \in {0, 1, 2}
    BY <1>2
  <2>2. shown \in [FileClients -> Seq(FileClock!Halves)] /\ locked \in [FileClients -> Seq(FileClock!Halves)]
    OBVIOUS
  <2>3. /\ lock \in [FileClock!Processes -> {"none", "read", "write"}]
        /\ at \in [FileClock!Processes -> ServerAt \union ClientAt]
        /\ offset \in [FileClock!Processes -> 0 .. 2]
    BY DEF ServerAt
  <2>4. exists \in BOOLEAN
    OBVIOUS
  <2>5. now \in [FileServers -> 0 .. FileRounds] /\ emptied \in SUBSET FileClients
    OBVIOUS
  <2>. QED
    BY <1>2, <2>1, <2>2, <2>3, <2>4, <2>5 DEF ClockTypes
<1>4. Locks
  BY DEF Locks, ServerAt, ClientAt, FileClock!Processes
<1>5. Writes
  BY <1>2 DEF Writes, FileClock!Processes
<1>6. Reads
  BY DEF Reads, ReadsSoFar, FileClock!Processes
<1>. QED
  BY <1>3, <1>4, <1>5, <1>6 DEF ClockInv
-----------------------------------------------------------------------------
\* One lemma per step.

LEMMA OpenServerKeeps ==
  ASSUME FileClock!FileAssumption, ClockInv, NEW s \in FileServers, FileClock!OpenServer(s)
  PROVE  ClockInv'
<1>. USE DEF FileClock!FileAssumption
<1>1. s \in FileClock!Processes /\ ClockTypes /\ Locks /\ Writes /\ Reads
  BY DEF ClockInv, FileClock!Processes
<1>2. /\ at[s] = "start"
      /\ \A other \in FileServers : at[other] # "writing"
      /\ exists' = TRUE /\ file' = <<>>
      /\ emptied' = emptied \union {c \in FileClients : lock[c] = "read"}
      /\ UNCHANGED <<lock, offset, now, shown, locked>>
      /\ FileClock!GoTo(s, "time")
  BY DEF FileClock!OpenServer, FileClock!serverVars, FileClock!clientVars
<1>3. /\ at' \in [FileClock!Processes -> ServerAt \union ClientAt]
      /\ at'[s] = "time"
      /\ \A q \in FileClock!Processes : q # s => at'[q] = at[q]
  BY <1>1, <1>2, ClockGoes DEF ServerAt
<1>4. Len(file') = 0
  BY <1>2
<1>5. ClockTypes'
  BY <1>1, <1>2, <1>3, <1>4 DEF ClockTypes
<1>6. Locks'
  BY <1>1, <1>2, <1>3 DEF Locks, ServerAt, FileClock!Processes
<1>7. Writes'
  BY <1>1, <1>2, <1>3, <1>4 DEF Writes, FileClock!Processes, FileClock!Stamp
<1>8. Reads'
  <2>. SUFFICES ASSUME NEW c \in FileClients PROVE ReadsSoFar(c)'
    BY DEF Reads
  <2>1. at'[c] = at[c]
    BY <1>3 DEF FileClock!Processes
  <2>2. at[c] = "read" => c \in emptied'
    BY <1>1, <1>2 DEF Locks
  <2>. QED
    BY <1>1, <1>2, <1>4, <2>1, <2>2 DEF Reads, ReadsSoFar, LockedWhole, Prefix
<1>. QED
  BY <1>5, <1>6, <1>7, <1>8 DEF ClockInv

LEMMA TimeKeeps ==
  ASSUME FileClock!FileAssumption, ClockInv, NEW s \in FileServers, FileClock!Time(s)
  PROVE  ClockInv'
<1>. USE DEF FileClock!FileAssumption
<1>1. s \in FileClock!Processes /\ ClockTypes /\ Locks /\ Writes /\ Reads
  BY DEF ClockInv, FileClock!Processes
<1>2. /\ at[s] = "time" /\ now[s] < FileRounds
      /\ now' = [now EXCEPT ![s] = @ + 1]
      /\ UNCHANGED <<exists, file, lock, offset, shown, locked, emptied>>
      /\ FileClock!GoTo(s, "lock")
  BY DEF FileClock!Time, FileClock!fileVars, FileClock!clientVars
<1>3. /\ at' \in [FileClock!Processes -> ServerAt \union ClientAt]
      /\ at'[s] = "lock"
      /\ \A q \in FileClock!Processes : q # s => at'[q] = at[q]
  BY <1>1, <1>2, ClockGoes DEF ServerAt
<1>4. /\ now' \in [FileServers -> 0 .. FileRounds]
      /\ now'[s] > 0
      /\ \A other \in FileServers : other # s => now'[other] = now[other]
  BY <1>1, <1>2 DEF ClockTypes
<1>5. ClockTypes'
  BY <1>1, <1>2, <1>3, <1>4 DEF ClockTypes
<1>6. Locks'
  BY <1>1, <1>2, <1>3 DEF Locks, ServerAt, FileClock!Processes
<1>7. Writes'
  BY <1>1, <1>2, <1>3, <1>4 DEF Writes, FileClock!Processes, FileClock!Stamp
<1>8. Reads'
  BY <1>1, <1>2, <1>3 DEF Reads, ReadsSoFar, LockedWhole, Prefix, FileClock!Processes
<1>. QED
  BY <1>5, <1>6, <1>7, <1>8 DEF ClockInv

LEMMA ServerLocksKeeps ==
  ASSUME FileClock!FileAssumption, ClockInv, NEW s \in FileServers, FileClock!ServerLocks(s)
  PROVE  ClockInv'
<1>. USE DEF FileClock!FileAssumption
<1>1. s \in FileClock!Processes /\ ClockTypes /\ Locks /\ Writes /\ Reads
  BY DEF ClockInv, FileClock!Processes
<1>2. /\ at[s] = "lock"
      /\ offset' = [offset EXCEPT ![s] = 0]
      /\ UNCHANGED <<exists, file, now, shown, locked, emptied>>
      /\ FileClock!GoTo(s, "write") /\ FileClock!LockOperation(s, "write")
  BY DEF FileClock!ServerLocks, FileClock!fileVars, FileClock!clientVars, FileClock!serverVars
<1>3. /\ at' \in [FileClock!Processes -> ServerAt \union ClientAt]
      /\ at'[s] = "write"
      /\ \A q \in FileClock!Processes : q # s => at'[q] = at[q]
  BY <1>1, <1>2, ClockGoes DEF ServerAt
<1>4. /\ lock' \in [FileClock!Processes -> {"none", "read", "write"}]
      /\ lock'[s] = "write"
      /\ \A q \in FileClock!Processes : q # s => lock'[q] = lock[q] /\ lock[q] = "none"
  BY <1>1, <1>2, ClockLocks
<1>5. /\ offset' \in [FileClock!Processes -> 0 .. 2] /\ offset'[s] = 0
      /\ \A q \in FileClock!Processes : q # s => offset'[q] = offset[q]
  BY <1>1, <1>2 DEF ClockTypes
<1>6. ClockTypes'
  BY <1>1, <1>2, <1>3, <1>4, <1>5 DEF ClockTypes
<1>7. Locks'
  BY <1>1, <1>2, <1>3, <1>4 DEF Locks, ServerAt, FileClock!Processes
<1>8. Writes'
  BY <1>1, <1>2, <1>3, <1>5 DEF Writes, FileClock!Processes, FileClock!Stamp
<1>9. Reads'
  BY <1>1, <1>2, <1>3, <1>5 DEF Reads, ReadsSoFar, LockedWhole, Prefix, FileClock!Processes
<1>. QED
  BY <1>6, <1>7, <1>8, <1>9 DEF ClockInv

\* The server that writes is the only process with a lock.
LEMMA WriteKeeps ==
  ASSUME FileClock!FileAssumption, ClockInv, NEW s \in FileServers, FileClock!Write(s)
  PROVE  ClockInv'
<1>. USE DEF FileClock!FileAssumption
<1>1. s \in FileClock!Processes /\ ClockTypes /\ Locks /\ Writes /\ Reads
  BY DEF ClockInv, FileClock!Processes
<1>2. PICK label \in {"writing", "unlock"} :
        /\ label = "writing" => at[s] = "write"
        /\ label = "unlock" => at[s] = "writing"
        /\ FileClock!GoTo(s, label)
  BY DEF FileClock!Write
<1>3. /\ file' = FileClock!PutAt(offset[s] + 1, FileClock!Stamp(s))
      /\ offset' = [offset EXCEPT ![s] = @ + 1]
      /\ UNCHANGED <<exists, lock, now, shown, locked, emptied>>
  BY DEF FileClock!Write, FileClock!clientVars, FileClock!serverVars
<1>4. /\ at' \in [FileClock!Processes -> ServerAt \union ClientAt]
      /\ at'[s] = label
      /\ \A q \in FileClock!Processes : q # s => at'[q] = at[q]
  BY <1>1, <1>2, ClockGoes DEF ServerAt
<1>5. lock[s] = "write" /\ \A q \in FileClock!Processes : q # s => lock[q] = "none"
  BY <1>1, <1>2 DEF Locks
<1>6. /\ \A other \in FileServers : other # s => at[other] \notin {"write", "writing", "unlock"}
      /\ \A c \in FileClients : at[c] \notin {"read", "unlock"}
  BY <1>5, <1>1 DEF Locks, FileClock!Processes
<1>7. /\ label = "writing" => offset[s] = 0
      /\ label = "unlock" => offset[s] = 1 /\ Len(file) > 0 /\ file[1] = FileClock!Stamp(s)
      /\ now[s] > 0
  BY <1>1, <1>2 DEF Writes
<1>8. FileClock!Stamp(s) \in FileClock!Halves
  BY <1>1, <1>7 DEF ClockTypes, FileClock!Stamp, FileClock!Halves
<1>9. /\ file' \in Seq(FileClock!Halves)
      /\ Len(file') = IF Len(file) < offset[s] + 1 THEN offset[s] + 1 ELSE Len(file)
      /\ file'[offset[s] + 1] = FileClock!Stamp(s)
      /\ offset[s] = 1 => file'[1] = file[1]
  <2>1. offset[s] + 1 \in {1, 2} /\ (offset[s] + 1 = 2 => Len(file) > 0)
    BY <1>7
  <2>. QED
    BY <1>1, <1>3, <1>7, <1>8, <2>1, ClockPuts
<1>10. FileClock!Stamp(s)' = FileClock!Stamp(s)
  BY <1>3 DEF FileClock!Stamp
<1>11. /\ offset' \in [FileClock!Processes -> 0 .. 2] /\ offset'[s] = offset[s] + 1
       /\ \A q \in FileClock!Processes : q # s => offset'[q] = offset[q]
  BY <1>1, <1>3, <1>7 DEF ClockTypes
<1>12. Len(file) \in {0, 1, 2} /\ Len(file') \in {0, 1, 2}
  BY <1>1, <1>7, <1>9 DEF ClockTypes
<1>13. ClockTypes'
  BY <1>1, <1>3, <1>4, <1>9, <1>11, <1>12 DEF ClockTypes
<1>14. Locks'
  BY <1>1, <1>2, <1>3, <1>4 DEF Locks, ServerAt, FileClock!Processes
<1>15. Writes'
  <2>1. ASSUME NEW r \in FileServers
        PROVE  /\ at'[r] \in {"lock", "write", "writing"} => now'[r] > 0
               /\ at'[r] = "write" => offset'[r] = 0
               /\ at'[r] = "writing" => offset'[r] = 1 /\ Len(file') > 0 /\ file'[1] = FileClock!Stamp(r)'
    <3>1. CASE r = s
      BY <1>3, <1>4, <1>7, <1>9, <1>10, <1>11, <1>12, <3>1
    <3>2. CASE r # s
      BY <1>1, <1>3, <1>4, <1>6, <1>11, <3>2 DEF Writes, FileClock!Processes
    <3>. QED
      BY <3>1, <3>2
  <2>2. label = "unlock" => Len(file') = 2 /\ file'[1] = file'[2]
    BY <1>7, <1>9, <1>12
  <2>3. label = "writing" => \E r \in FileServers : at'[r] = "writing"
    BY <1>4
  <2>. QED
    BY <2>1, <2>2, <2>3 DEF Writes
<1>16. Reads'
  BY <1>1, <1>3, <1>4, <1>6, <1>11 DEF Reads, ReadsSoFar, LockedWhole, Prefix, FileClock!Processes
<1>. QED
  BY <1>13, <1>14, <1>15, <1>16 DEF ClockInv

LEMMA ServerUnlocksKeeps ==
  ASSUME FileClock!FileAssumption, ClockInv, NEW s \in FileServers, FileClock!ServerUnlocks(s)
  PROVE  ClockInv'
<1>. USE DEF FileClock!FileAssumption
<1>1. s \in FileClock!Processes /\ ClockTypes /\ Locks /\ Writes /\ Reads
  BY DEF ClockInv, FileClock!Processes
<1>2. /\ at[s] = "unlock"
      /\ UNCHANGED <<exists, file, offset, now, shown, locked, emptied>>
      /\ FileClock!GoTo(s, "time") /\ FileClock!LockOperation(s, "none")
  BY DEF FileClock!ServerUnlocks, FileClock!fileVars, FileClock!clientVars, FileClock!serverVars
<1>3. /\ at' \in [FileClock!Processes -> ServerAt \union ClientAt]
      /\ at'[s] = "time"
      /\ \A q \in FileClock!Processes : q # s => at'[q] = at[q]
  BY <1>1, <1>2, ClockGoes DEF ServerAt
<1>4. /\ lock' \in [FileClock!Processes -> {"none", "read", "write"}]
      /\ lock'[s] = "none"
      /\ \A q \in FileClock!Processes : q # s => lock'[q] = lock[q]
  BY <1>1, <1>2, ClockLocks
<1>5. ClockTypes'
  BY <1>1, <1>2, <1>3, <1>4 DEF ClockTypes
<1>6. Locks'
  BY <1>1, <1>2, <1>3, <1>4 DEF Locks, ServerAt, FileClock!Processes
<1>7. Writes'
  BY <1>1, <1>2, <1>3 DEF Writes, FileClock!Processes, FileClock!Stamp
<1>8. Reads'
  BY <1>1, <1>2, <1>3 DEF Reads, ReadsSoFar, LockedWhole, Prefix, FileClock!Processes
<1>. QED
  BY <1>5, <1>6, <1>7, <1>8 DEF ClockInv

LEMMA OpenClientKeeps ==
  ASSUME FileClock!FileAssumption, ClockInv, NEW c \in FileClients, FileClock!OpenClient(c)
  PROVE  ClockInv'
<1>. USE DEF FileClock!FileAssumption
<1>1. c \in FileClock!Processes /\ ClockTypes /\ Locks /\ Writes /\ Reads
  BY DEF ClockInv, FileClock!Processes
<1>2. PICK label \in {"lock", "exit"} : at[c] = "start" /\ FileClock!GoTo(c, label)
  BY DEF FileClock!OpenClient
<1>3. UNCHANGED <<exists, file, lock, offset, now, shown, locked, emptied>>
  BY DEF FileClock!OpenClient, FileClock!fileVars, FileClock!clientVars, FileClock!serverVars
<1>4. /\ at' \in [FileClock!Processes -> ServerAt \union ClientAt]
      /\ at'[c] = label
      /\ \A q \in FileClock!Processes : q # c => at'[q] = at[q]
  BY <1>1, <1>2, ClockGoes DEF ClientAt
<1>5. ClockTypes'
  BY <1>1, <1>3, <1>4 DEF ClockTypes
<1>6. Locks'
  BY <1>1, <1>2, <1>3, <1>4 DEF Locks, ClientAt, FileClock!Processes
<1>7. Writes'
  BY <1>1, <1>3, <1>4 DEF Writes, FileClock!Processes, FileClock!Stamp
<1>8. Reads'
  BY <1>1, <1>2, <1>3, <1>4 DEF Reads, ReadsSoFar, LockedWhole, Prefix, FileClock!Processes
<1>. QED
  BY <1>5, <1>6, <1>7, <1>8 DEF ClockInv

\* While a client holds its lock no server is in the middle of a write.
LEMMA ClientLocksKeeps ==
  ASSUME FileClock!FileAssumption, ClockInv, NEW c \in FileClients, FileClock!ClientLocks(c)
  PROVE  ClockInv'
<1>. USE DEF FileClock!FileAssumption
<1>1. c \in FileClock!Processes /\ ClockTypes /\ Locks /\ Writes /\ Reads
  BY DEF ClockInv, FileClock!Processes
<1>2. /\ at[c] = "lock"
      /\ locked' = [locked EXCEPT ![c] = file]
      /\ UNCHANGED <<exists, file, offset, now, shown, emptied>>
      /\ FileClock!GoTo(c, "read") /\ FileClock!LockOperation(c, "read")
  BY DEF FileClock!ClientLocks, FileClock!fileVars, FileClock!serverVars
<1>3. /\ at' \in [FileClock!Processes -> ServerAt \union ClientAt]
      /\ at'[c] = "read"
      /\ \A q \in FileClock!Processes : q # c => at'[q] = at[q]
  BY <1>1, <1>2, ClockGoes DEF ClientAt
<1>4. /\ lock' \in [FileClock!Processes -> {"none", "read", "write"}]
      /\ lock'[c] = "read"
      /\ \A q \in FileClock!Processes : q # c => lock'[q] = lock[q] /\ lock[q] # "write"
  BY <1>1, <1>2, ClockLocks
<1>5. \A s \in FileServers : s # c /\ at[s] # "writing"
  BY <1>1, <1>4 DEF Locks, FileClock!Processes
<1>6. /\ locked' \in [FileClients -> Seq(FileClock!Halves)] /\ locked'[c] = file
      /\ \A d \in FileClients : d # c => locked'[d] = locked[d]
  BY <1>1, <1>2 DEF ClockTypes
<1>7. ClockTypes'
  BY <1>1, <1>2, <1>3, <1>4, <1>6 DEF ClockTypes
<1>8. Locks'
  BY <1>1, <1>2, <1>3, <1>4 DEF Locks, ClientAt, FileClock!Processes
<1>9. Writes'
  BY <1>1, <1>2, <1>3 DEF Writes, FileClock!Processes, FileClock!Stamp
<1>10. Reads'
  <2>. SUFFICES ASSUME NEW d \in FileClients PROVE ReadsSoFar(d)'
    BY DEF Reads
  <2>1. CASE d = c
    <3>1. LockedWhole(c)'
      BY <1>1, <1>5, <1>6 DEF Writes, LockedWhole
    <3>2. Prefix(c)' /\ offset[c] = 0 /\ Len(shown[c]) = 0
      BY <1>1, <1>2, <1>6 DEF ClockTypes, Reads, ReadsSoFar, Prefix
    <3>. QED
      BY <1>2, <1>3, <1>6, <2>1, <3>1, <3>2 DEF ReadsSoFar
  <2>2. CASE d # c
    BY <1>1, <1>2, <1>3, <1>6, <2>2 DEF Reads, ReadsSoFar, LockedWhole, Prefix, FileClock!Processes
  <2>. QED
    BY <2>1, <2>2
<1>. QED
  BY <1>7, <1>8, <1>9, <1>10 DEF ClockInv

\* The client reads on, from the file it has locked.
LEMMA ReadsMore ==
  ASSUME FileClock!FileAssumption, ClockInv, NEW c \in FileClients, FileClock!Read(c), offset[c] < Len(file)
  PROVE  ClockInv'
<1>. USE DEF FileClock!FileAssumption
<1>1. c \in FileClock!Processes /\ ClockTypes /\ Locks /\ Writes /\ Reads
  BY DEF ClockInv, FileClock!Processes
<1>2. /\ at[c] = "read"
      /\ shown' = [shown EXCEPT ![c] = Append(@, file[offset[c] + 1])]
      /\ offset' = [offset EXCEPT ![c] = @ + 1]
      /\ UNCHANGED <<at, exists, file, lock, now, locked, emptied>>
  BY DEF FileClock!Read, FileClock!fileVars, FileClock!serverVars
<1>3. /\ offset[c] \in 0 .. 1 /\ offset[c] = Len(shown[c]) /\ Len(file) \in {0, 1, 2}
      /\ file \in Seq(FileClock!Halves) /\ shown[c] \in Seq(FileClock!Halves)
      /\ LockedWhole(c) /\ Prefix(c) /\ file = locked[c]
  BY <1>1, <1>2 DEF ClockTypes, Reads, ReadsSoFar
<1>4. file[offset[c] + 1] \in FileClock!Halves
  BY <1>3
<1>5. /\ shown' \in [FileClients -> Seq(FileClock!Halves)]
      /\ shown'[c] = Append(shown[c], file[offset[c] + 1])
      /\ \A d \in FileClients : d # c => shown'[d] = shown[d]
  BY <1>1, <1>2, <1>3, <1>4 DEF ClockTypes
<1>6. /\ offset' \in [FileClock!Processes -> 0 .. 2] /\ offset'[c] = offset[c] + 1
      /\ \A q \in FileClock!Processes : q # c => offset'[q] = offset[q]
  BY <1>1, <1>2, <1>3 DEF ClockTypes
<1>7. ClockTypes'
  BY <1>1, <1>2, <1>5, <1>6 DEF ClockTypes
<1>8. Locks'
  BY <1>1, <1>2 DEF Locks
<1>9. Writes'
  BY <1>1, <1>2, <1>6 DEF Writes, FileClock!Processes, FileClock!Stamp
<1>10. Reads'
  <2>. SUFFICES ASSUME NEW d \in FileClients PROVE ReadsSoFar(d)'
    BY DEF Reads
  <2>1. CASE d = c
    <3>1. Prefix(c)' /\ Len(shown'[c]) = Len(shown[c]) + 1
      BY <1>2, <1>3, <1>4, <1>5 DEF Prefix
    <3>. QED
      BY <1>2, <1>3, <1>6, <2>1, <3>1 DEF ReadsSoFar, LockedWhole
  <2>2. CASE d # c
    BY <1>1, <1>2, <1>5, <1>6, <2>2 DEF Reads, ReadsSoFar, LockedWhole, Prefix, FileClock!Processes
  <2>. QED
    BY <2>1, <2>2
<1>. QED
  BY <1>7, <1>8, <1>9, <1>10 DEF ClockInv

\* read returns 0, at the end of what was locked or of a file that was emptied.
LEMMA ReadEnds ==
  ASSUME FileClock!FileAssumption, ClockInv, NEW c \in FileClients, FileClock!Read(c), ~(offset[c] < Len(file))
  PROVE  ClockInv'
<1>. USE DEF FileClock!FileAssumption
<1>1. c \in FileClock!Processes /\ ClockTypes /\ Locks /\ Writes /\ Reads
  BY DEF ClockInv, FileClock!Processes
<1>2. /\ at[c] = "read"
      /\ UNCHANGED <<exists, file, lock, offset, now, shown, locked, emptied>>
      /\ FileClock!GoTo(c, "unlock")
  BY DEF FileClock!Read, FileClock!fileVars, FileClock!serverVars
<1>3. /\ at' \in [FileClock!Processes -> ServerAt \union ClientAt]
      /\ at'[c] = "unlock"
      /\ \A q \in FileClock!Processes : q # c => at'[q] = at[q]
  BY <1>1, <1>2, ClockGoes DEF ClientAt
<1>4. Len(shown[c]) = Len(locked[c]) \/ c \in emptied
  BY <1>1, <1>2 DEF ClockTypes, Reads, ReadsSoFar, Prefix
<1>5. ClockTypes'
  BY <1>1, <1>2, <1>3 DEF ClockTypes
<1>6. Locks'
  BY <1>1, <1>2, <1>3 DEF Locks, ClientAt, FileClock!Processes
<1>7. Writes'
  BY <1>1, <1>2, <1>3 DEF Writes, FileClock!Processes, FileClock!Stamp
<1>8. Reads'
  BY <1>1, <1>2, <1>3, <1>4 DEF Reads, ReadsSoFar, LockedWhole, Prefix, FileClock!Processes
<1>. QED
  BY <1>5, <1>6, <1>7, <1>8 DEF ClockInv

LEMMA ClientUnlocksKeeps ==
  ASSUME FileClock!FileAssumption, ClockInv, NEW c \in FileClients, FileClock!ClientUnlocks(c)
  PROVE  ClockInv'
<1>. USE DEF FileClock!FileAssumption
<1>1. c \in FileClock!Processes /\ ClockTypes /\ Locks /\ Writes /\ Reads
  BY DEF ClockInv, FileClock!Processes
<1>2. /\ at[c] = "unlock"
      /\ UNCHANGED <<exists, file, offset, now, shown, locked, emptied>>
      /\ FileClock!GoTo(c, "exit") /\ FileClock!LockOperation(c, "none")
  BY DEF FileClock!ClientUnlocks, FileClock!fileVars, FileClock!clientVars, FileClock!serverVars
<1>3. /\ at' \in [FileClock!Processes -> ServerAt \union ClientAt]
      /\ at'[c] = "exit"
      /\ \A q \in FileClock!Processes : q # c => at'[q] = at[q]
  BY <1>1, <1>2, ClockGoes DEF ClientAt
<1>4. /\ lock' \in [FileClock!Processes -> {"none", "read", "write"}]
      /\ lock'[c] = "none"
      /\ \A q \in FileClock!Processes : q # c => lock'[q] = lock[q]
  BY <1>1, <1>2, ClockLocks
<1>5. ClockTypes'
  BY <1>1, <1>2, <1>3, <1>4 DEF ClockTypes
<1>6. Locks'
  BY <1>1, <1>2, <1>3, <1>4 DEF Locks, ClientAt, FileClock!Processes
<1>7. Writes'
  BY <1>1, <1>2, <1>3 DEF Writes, FileClock!Processes, FileClock!Stamp
<1>8. Reads'
  BY <1>1, <1>2, <1>3 DEF Reads, ReadsSoFar, LockedWhole, Prefix, FileClock!Processes
<1>. QED
  BY <1>5, <1>6, <1>7, <1>8 DEF ClockInv

\* Who is killed loses its lock, but never in the middle of a write.
LEMMA ClockKillKeeps ==
  ASSUME FileClock!FileAssumption, ClockInv, NEW p \in FileClock!Processes, FileClock!Kill(p)
  PROVE  ClockInv'
<1>. USE DEF FileClock!FileAssumption
<1>1. ClockTypes /\ Locks /\ Writes /\ Reads
  BY DEF ClockInv
<1>2. /\ at[p] \notin {"start", "writing", "exit"}
      /\ lock' = [lock EXCEPT ![p] = "none"]
      /\ UNCHANGED <<exists, file, offset, now, shown, locked, emptied>>
      /\ FileClock!GoTo(p, "exit")
  BY DEF FileClock!Kill, FileClock!fileVars, FileClock!clientVars, FileClock!serverVars
<1>3. /\ at' \in [FileClock!Processes -> ServerAt \union ClientAt]
      /\ at'[p] = "exit"
      /\ \A q \in FileClock!Processes : q # p => at'[q] = at[q]
  BY <1>1, <1>2, ClockGoes DEF ClientAt
<1>4. /\ lock' \in [FileClock!Processes -> {"none", "read", "write"}]
      /\ lock'[p] = "none"
      /\ \A q \in FileClock!Processes : q # p => lock'[q] = lock[q]
  BY <1>1, <1>2 DEF ClockTypes
<1>5. ClockTypes'
  BY <1>1, <1>2, <1>3, <1>4 DEF ClockTypes
<1>6. Locks'
  BY <1>1, <1>2, <1>3, <1>4 DEF Locks, ServerAt, ClientAt, FileClock!Processes
<1>7. Writes'
  <2>1. \A s \in FileServers : at'[s] = "writing" <=> at[s] = "writing"
    BY <1>2, <1>3 DEF FileClock!Processes
  <2>. QED
    BY <1>1, <1>2, <1>3, <2>1 DEF Writes, FileClock!Processes, FileClock!Stamp
<1>8. Reads'
  BY <1>1, <1>2, <1>3 DEF Reads, ReadsSoFar, LockedWhole, Prefix, FileClock!Processes
<1>. QED
  BY <1>5, <1>6, <1>7, <1>8 DEF ClockInv

LEMMA ClockNext == ASSUME FileClock!FileAssumption, ClockInv, FileClock!Next PROVE ClockInv'
<1>1. CASE \E s \in FileServers :
             \/ FileClock!OpenServer(s) \/ FileClock!Time(s) \/ FileClock!ServerLocks(s)
             \/ FileClock!Write(s) \/ FileClock!ServerUnlocks(s)
  BY <1>1, OpenServerKeeps, TimeKeeps, ServerLocksKeeps, WriteKeeps, ServerUnlocksKeeps
<1>2. CASE \E c \in FileClients :
             \/ FileClock!OpenClient(c) \/ FileClock!ClientLocks(c)
             \/ FileClock!Read(c) \/ FileClock!ClientUnlocks(c)
  BY <1>2, OpenClientKeeps, ClientLocksKeeps, ReadsMore, ReadEnds, ClientUnlocksKeeps
<1>3. CASE \E p \in FileClock!Processes : FileClock!Kill(p)
  BY <1>3, ClockKillKeeps
<1>. QED
  BY <1>1, <1>2, <1>3 DEF FileClock!Next

\* What the invariant is for.
LEMMA ClockReads == ClockInv => FileClock!ReadsWhatItLocked
<1>. SUFFICES ASSUME ClockInv, NEW c \in FileClients, at[c] = "unlock"
              PROVE  /\ locked[c] \in {<<>>} \union {<<half, half>> : half \in FileClock!Halves}
                     /\ \/ shown[c] = locked[c]
                        \/ c \in emptied /\ shown[c] = SubSeq(locked[c], 1, Len(shown[c]))
  BY DEF FileClock!ReadsWhatItLocked
<1>1. /\ locked[c] \in Seq(FileClock!Halves) /\ shown[c] \in Seq(FileClock!Halves)
      /\ LockedWhole(c) /\ Prefix(c)
      /\ Len(shown[c]) = Len(locked[c]) \/ c \in emptied
  BY DEF ClockInv, ClockTypes, Reads, ReadsSoFar
<1>2. locked[c] \in {<<>>} \union {<<half, half>> : half \in FileClock!Halves}
  <2>1. CASE Len(locked[c]) = 0
    BY <1>1, <2>1
  <2>2. CASE Len(locked[c]) = 2 /\ locked[c][1] = locked[c][2]
    BY <1>1, <2>2
  <2>. QED
    BY <1>1, <2>1, <2>2 DEF LockedWhole
<1>3. SubSeq(locked[c], 1, Len(shown[c])) = shown[c]
  BY <1>1 DEF Prefix
<1>4. Len(shown[c]) = Len(locked[c]) => shown[c] = locked[c]
  BY <1>1 DEF Prefix
<1>. QED
  BY <1>1, <1>2, <1>3, <1>4

LEMMA ClockTyped == ClockInv => FileClock!TypeOK
<1>. SUFFICES ASSUME ClockInv PROVE FileClock!TypeOK
  OBVIOUS
<1>1. file \in {<<>>} \union UNION {[1 .. k -> FileClock!Halves] : k \in 1 .. 2}
  <2>1. file \in [1 .. Len(file) -> FileClock!Halves] /\ Len(file) \in {0, 1, 2}
    BY DEF ClockInv, ClockTypes
  <2>2. CASE Len(file) = 0
    BY <2>2 DEF ClockInv, ClockTypes
  <2>3. CASE Len(file) \in 1 .. 2
    BY <2>1, <2>3
  <2>. QED
    BY <2>1, <2>2, <2>3
<1>. QED
  BY <1>1 DEF FileClock!TypeOK, ClockInv, ClockTypes, Locks, ServerAt, ClientAt
-----------------------------------------------------------------------------
(* The list of logins *)

LoginTypes ==
  /\ who \in {"who2", "who3"}
  /\ utmp \in Seq(Int) /\ Len(utmp) <= MaxRecords
  /\ changes \in 0 .. MaxChanges
  /\ \A i \in 1 .. Len(utmp) : utmp[i] \in 0 .. changes
  /\ where \in {"open", "next", "reload", "exit", "crashed"}
  /\ position \in 0 .. Len(utmp)
  /\ utmpbuf \in [1 .. NRECS -> 0 .. MaxChanges \union {-1}]
  /\ copied \in 0 .. NRECS
  /\ num_recs \in 0 .. NRECS \union {-1}
  /\ cur_rec \in 0 .. NRECS
  /\ seen \in Seq(Int) /\ opened \in Seq(Int)
  /\ failed \in BOOLEAN

\* v is record i as it was at some moment since the file was opened.
Fits(v, i) ==
  /\ i \in 1 .. Len(utmp)
  /\ v \in 0 .. utmp[i]
  /\ i <= Len(opened) => v >= opened[i]

\* Records are added and changed, never removed.
Grown ==
  /\ Len(opened) <= Len(utmp)
  /\ \A i \in 1 .. Len(opened) : opened[i] <= utmp[i]

\* Nothing is read before the file is open.
Unopened ==
  where = "open" => position = 0 /\ cur_rec = 0 /\ num_recs = 0 /\ Len(seen) = 0 /\ Len(opened) = 0

\* The records between what was shown and the position of the descriptor are in
\* the buffer: the next ones to show, or those the read in progress has copied.
Buffered ==
  ~failed =>
    /\ where # "crashed" /\ cur_rec <= num_recs
    /\ \A i \in 1 .. Len(seen) : Fits(seen[i], i)
    /\ who = "who2" /\ where = "next" => position = Len(seen)
    /\ who = "who3" /\ where = "next" =>
         /\ position = Len(seen) + (num_recs - cur_rec)
         /\ \A k \in (cur_rec + 1) .. num_recs : Fits(utmpbuf[k], Len(seen) + (k - cur_rec))
    /\ where = "reload" =>
         /\ who = "who3" /\ cur_rec = num_recs
         /\ position = Len(seen) + copied
         /\ \A k \in 1 .. copied : Fits(utmpbuf[k], Len(seen) + k)
    /\ where = "exit" => Len(opened) <= Len(seen)

LoginInv == LoginTypes /\ Grown /\ Unopened /\ Buffered
-----------------------------------------------------------------------------
LEMMA LoginInit == ASSUME Logins!LoginAssumption, Logins!Init PROVE LoginInv
<1>. USE DEF Logins!LoginAssumption
<1>1. PICK k \in 0 .. MaxRecords : utmp = [i \in 1 .. k |-> 0]
  BY DEF Logins!Init
<1>2. utmp \in Seq(Int) /\ Len(utmp) = k /\ \A i \in 1 .. Len(utmp) : utmp[i] = 0
  BY <1>1
<1>3. utmpbuf \in [1 .. NRECS -> 0 .. MaxChanges \union {-1}]
  BY DEF Logins!Init, Logins!Unwritten
<1>4. seen \in Seq(Int) /\ opened \in Seq(Int) /\ Len(seen) = 0 /\ Len(opened) = 0
  BY DEF Logins!Init
<1>5. LoginTypes
  <2>1. changes \in 0 .. MaxChanges /\ position \in 0 .. Len(utmp) /\ Len(utmp) <= MaxRecords
    BY <1>2 DEF Logins!Init
  <2>2. \A i \in 1 .. Len(utmp) : utmp[i] \in 0 .. changes
    BY <1>2 DEF Logins!Init
  <2>3. copied \in 0 .. NRECS /\ num_recs \in 0 .. NRECS \union {-1} /\ cur_rec \in 0 .. NRECS
    BY DEF Logins!Init
  <2>. QED
    BY <1>2, <1>3, <1>4, <2>1, <2>2, <2>3 DEF LoginTypes, Logins!Init
<1>6. Grown /\ Unopened /\ Buffered
  BY <1>2, <1>4 DEF Grown, Unopened, Buffered, Logins!Init
<1>. QED
  BY <1>5, <1>6 DEF LoginInv

\* A record that is written is newer than every copy of it.
LEMMA LoginWritesKeeps ==
  ASSUME Logins!LoginAssumption, LoginInv, Logins!LoginWrites PROVE LoginInv'
<1>. USE DEF Logins!LoginAssumption
<1>1. LoginTypes /\ Grown /\ Unopened /\ Buffered
  BY DEF LoginInv
<1>2. /\ changes < MaxChanges /\ changes' = changes + 1
      /\ UNCHANGED <<who, where, position, utmpbuf, copied, cur_rec, num_recs, seen, opened, failed>>
  BY DEF Logins!LoginWrites, Logins!bufferVars
<1>3. /\ utmp' \in Seq(Int) /\ Len(utmp) <= Len(utmp') /\ Len(utmp') <= MaxRecords
      /\ \A i \in 1 .. Len(utmp) : utmp[i] <= utmp'[i]
      /\ \A i \in 1 .. Len(utmp') : utmp'[i] \in 0 .. changes + 1
  <2>1. CASE \E i \in DOMAIN utmp : utmp' = [utmp EXCEPT ![i] = @ + 1]
    <3>1. PICK n \in 1 .. Len(utmp) : utmp' = [utmp EXCEPT ![n] = @ + 1]
      <4>1. DOMAIN utmp = 1 .. Len(utmp)
        BY <1>1 DEF LoginTypes
      <4>. QED
        BY <2>1, <4>1
    <3>2. utmp[n] \in 0 .. changes /\ changes \in Nat
      BY <1>1 DEF LoginTypes
    <3>3. utmp' \in Seq(Int) /\ Len(utmp') = Len(utmp)
      BY <1>1, <3>1, <3>2 DEF LoginTypes
    <3>4. \A i \in 1 .. Len(utmp) : utmp'[i] = IF i = n THEN utmp[i] + 1 ELSE utmp[i]
      BY <1>1, <3>1 DEF LoginTypes
    <3>5. \A i \in 1 .. Len(utmp) : utmp[i] \in 0 .. changes
      BY <1>1 DEF LoginTypes
    <3>6. Len(utmp) \in Nat /\ Len(utmp) <= MaxRecords
      BY <1>1 DEF LoginTypes
    <3>7. \A i \in 1 .. Len(utmp') : utmp'[i] \in 0 .. changes + 1
      BY <3>2, <3>3, <3>4, <3>5
    <3>8. \A i \in 1 .. Len(utmp) : utmp[i] <= utmp'[i]
      BY <3>2, <3>4, <3>5
    <3>. QED
      BY <3>3, <3>6, <3>7, <3>8
  <2>2. CASE Len(utmp) < MaxRecords /\ utmp' = Append(utmp, 0)
    BY <1>1, <2>2 DEF LoginTypes
  <2>. QED
    BY <2>1, <2>2 DEF Logins!LoginWrites
<1>4. ASSUME NEW v, NEW i, Fits(v, i) PROVE Fits(v, i)'
  <2>1. i \in 1 .. Len(utmp) /\ utmp[i] \in Int /\ Len(utmp) \in Nat /\ Len(utmp') \in Nat
    <3>1. utmp \in Seq(Int) /\ utmp' \in Seq(Int)
      BY <1>1, <1>3 DEF LoginTypes
    <3>2. i \in 1 .. Len(utmp)
      BY <1>4 DEF Fits
    <3>. QED
      BY <3>1, <3>2
  <2>2. utmp[i] <= utmp'[i] /\ i \in 1 .. Len(utmp') /\ utmp'[i] \in Int
    BY <1>3, <2>1
  <2>. QED
    BY <1>2, <1>4, <2>1, <2>2 DEF Fits
<1>5. LoginTypes'
  BY <1>1, <1>2, <1>3 DEF LoginTypes
<1>6. Grown'
  <2>1. /\ Len(opened) \in Nat /\ Len(utmp) \in Nat /\ Len(utmp') \in Nat /\ Len(opened) <= Len(utmp)
        /\ \A i \in 1 .. Len(opened) : opened[i] \in Int /\ utmp[i] \in Int /\ opened[i] <= utmp[i]
        /\ \A i \in 1 .. Len(utmp') : utmp'[i] \in Int
    <3>1. Len(opened) \in Nat /\ Len(utmp) \in Nat /\ Len(opened) <= Len(utmp)
      BY <1>1 DEF LoginTypes, Grown
    <3>2. \A i \in 1 .. Len(opened) : opened[i] \in Int
      BY <1>1 DEF LoginTypes
    <3>3. \A i \in 1 .. Len(utmp) : utmp[i] \in Int
      BY <1>1 DEF LoginTypes
    <3>4. \A i \in 1 .. Len(utmp') : utmp'[i] \in Int
      BY <1>3
    <3>. QED
      BY <1>1, <1>3, <3>1, <3>2, <3>3, <3>4 DEF Grown
  <2>. QED
    BY <1>2, <1>3, <2>1 DEF Grown
<1>7. Unopened'
  BY <1>1, <1>2 DEF Unopened
<1>8. Buffered'
  <2>1. /\ (\A i \in 1 .. Len(seen) : Fits(seen[i], i)) => \A i \in 1 .. Len(seen') : Fits(seen[i], i)'
        /\ (\A k \in (cur_rec + 1) .. num_recs : Fits(utmpbuf[k], Len(seen) + (k - cur_rec))) =>
             \A k \in (cur_rec' + 1) .. num_recs' : Fits(utmpbuf[k], Len(seen) + (k - cur_rec))'
        /\ (\A k \in 1 .. copied : Fits(utmpbuf[k], Len(seen) + k)) =>
             \A k \in 1 .. copied' : Fits(utmpbuf[k], Len(seen) + k)'
    BY <1>2, <1>4
  <2>. QED
    BY <1>1, <1>2, <2>1 DEF Buffered
<1>. QED
  BY <1>5, <1>6, <1>7, <1>8 DEF LoginInv

LEMMA UtmpOpenKeeps ==
  ASSUME Logins!LoginAssumption, LoginInv, Logins!UtmpOpen PROVE LoginInv'
<1>. USE DEF Logins!LoginAssumption
<1>1. LoginTypes /\ Grown /\ Unopened /\ Buffered
  BY DEF LoginInv
<1>2. /\ where = "open" /\ opened' = utmp /\ cur_rec' = 0 /\ num_recs' = 0
      /\ \/ where' = "next" /\ UNCHANGED failed
         \/ where' = "exit" /\ failed' = TRUE
      /\ UNCHANGED <<who, utmp, changes, position, utmpbuf, copied, seen>>
  BY DEF Logins!UtmpOpen, Logins!fileVars
<1>3. LoginTypes'
  <2>1. where' \in {"open", "next", "reload", "exit", "crashed"} /\ failed' \in BOOLEAN
    BY <1>1, <1>2 DEF LoginTypes
  <2>2. cur_rec' \in 0 .. NRECS /\ num_recs' \in 0 .. NRECS \union {-1}
    BY <1>2
  <2>3. opened' \in Seq(Int)
    BY <1>1, <1>2 DEF LoginTypes
  <2>. QED
    BY <1>1, <1>2, <2>1, <2>2, <2>3 DEF LoginTypes
<1>4. Grown' /\ Unopened'
  BY <1>1, <1>2 DEF LoginTypes, Grown, Unopened
<1>5. Buffered'
  BY <1>1, <1>2 DEF LoginTypes, Unopened, Buffered
<1>. QED
  BY <1>3, <1>4, <1>5 DEF LoginInv

LEMMA ReadRecordKeeps ==
  ASSUME Logins!LoginAssumption, LoginInv, Logins!ReadRecord PROVE LoginInv'
<1>. USE DEF Logins!LoginAssumption
<1>1. LoginTypes /\ Grown /\ Unopened /\ Buffered
  BY DEF LoginInv
<1>2. /\ who = "who2" /\ where = "next"
      /\ UNCHANGED <<who, utmp, changes, utmpbuf, copied, cur_rec, num_recs, opened, failed>>
  BY DEF Logins!ReadRecord, Logins!fileVars, Logins!bufferVars
<1>3. CASE position < Len(utmp)
  <2>1. seen' = Append(seen, utmp[position + 1]) /\ position' = position + 1 /\ where' = where
    BY <1>3 DEF Logins!ReadRecord
  <2>2. utmp[position + 1] \in Int
    BY <1>1, <1>3 DEF LoginTypes
  <2>3. /\ seen' \in Seq(Int) /\ Len(seen') = Len(seen) + 1
        /\ \A i \in 1 .. Len(seen) : seen'[i] = seen[i]
        /\ seen'[Len(seen) + 1] = utmp[position + 1]
    BY <1>1, <2>1, <2>2 DEF LoginTypes
  <2>4. LoginTypes'
    BY <1>1, <1>2, <1>3, <2>1, <2>3 DEF LoginTypes
  <2>5. Grown' /\ Unopened'
    BY <1>1, <1>2, <2>1 DEF Grown, Unopened
  <2>6. ~failed => Fits(utmp[position + 1], position + 1) /\ position = Len(seen)
    BY <1>1, <1>2, <1>3 DEF LoginTypes, Grown, Buffered, Fits
  <2>7. ASSUME ~failed, NEW i \in 1 .. Len(seen') PROVE Fits(seen[i], i)'
    <3>1. Fits(seen'[i], i)
      <4>1. CASE i \in 1 .. Len(seen)
        BY <1>1, <2>3, <2>7, <4>1 DEF Buffered
      <4>2. CASE i = Len(seen) + 1
        BY <2>3, <2>6, <2>7, <4>2
      <4>. QED
        BY <1>1, <2>3, <4>1, <4>2 DEF LoginTypes
    <3>. QED
      BY <1>2, <3>1 DEF Fits
  <2>8. Buffered'
    BY <1>1, <1>2, <2>1, <2>3, <2>6, <2>7 DEF LoginTypes, Buffered
  <2>. QED
    BY <2>4, <2>5, <2>8 DEF LoginInv
<1>4. CASE ~(position < Len(utmp))
  <2>1. where' = "exit" /\ UNCHANGED <<seen, position>>
    BY <1>4 DEF Logins!ReadRecord
  <2>2. LoginTypes' /\ Grown' /\ Unopened'
    BY <1>1, <1>2, <2>1 DEF LoginTypes, Grown, Unopened
  <2>3. ~failed => Len(opened) <= Len(seen)
    BY <1>1, <1>2, <1>4 DEF LoginTypes, Grown, Buffered
  <2>4. Buffered'
    BY <1>1, <1>2, <2>1, <2>3 DEF LoginTypes, Buffered, Fits
  <2>. QED
    BY <2>2, <2>4 DEF LoginInv
<1>. QED
  BY <1>3, <1>4

LEMMA ReadRecordFailsKeeps ==
  ASSUME Logins!LoginAssumption, LoginInv, Logins!ReadRecordFails PROVE LoginInv'
BY DEF LoginInv, LoginTypes, Grown, Unopened, Buffered,
       Logins!ReadRecordFails, Logins!fileVars, Logins!bufferVars

\* A record of the buffer is shown; behind the end of utmpbuf only after a read
\* that failed.
LEMMA UtmpNextKeeps ==
  ASSUME Logins!LoginAssumption, LoginInv, Logins!UtmpNext PROVE LoginInv'
<1>. USE DEF Logins!LoginAssumption
<1>1. LoginTypes /\ Grown /\ Unopened /\ Buffered
  BY DEF LoginInv
<1>2. /\ who = "who3" /\ where = "next" /\ cur_rec # num_recs
      /\ UNCHANGED <<who, utmp, changes, position, utmpbuf, copied, num_recs, opened, failed>>
  BY DEF Logins!UtmpNext, Logins!fileVars
<1>3. Grown'
  BY <1>1, <1>2 DEF Grown
<1>4. CASE cur_rec < NRECS
  <2>1. seen' = Append(seen, utmpbuf[cur_rec + 1]) /\ cur_rec' = cur_rec + 1 /\ where' = where
    BY <1>4 DEF Logins!UtmpNext
  <2>2. cur_rec + 1 \in 1 .. NRECS /\ utmpbuf[cur_rec + 1] \in Int
    BY <1>1, <1>4 DEF LoginTypes
  <2>3. /\ seen' \in Seq(Int) /\ Len(seen') = Len(seen) + 1 /\ Len(seen) \in Nat
        /\ \A i \in 1 .. Len(seen) : seen'[i] = seen[i]
        /\ seen'[Len(seen) + 1] = utmpbuf[cur_rec + 1]
    BY <1>1, <2>1, <2>2 DEF LoginTypes
  <2>4. LoginTypes'
    BY <1>1, <1>2, <2>1, <2>2, <2>3 DEF LoginTypes
  <2>5. Unopened'
    BY <1>2, <2>1 DEF Unopened
  <2>6. ASSUME ~failed
        PROVE  /\ cur_rec + 1 <= num_recs /\ num_recs \in 0 .. NRECS
               /\ Fits(utmpbuf[cur_rec + 1], Len(seen) + 1)
    <3>1. /\ cur_rec \in Nat /\ num_recs \in Int /\ cur_rec <= num_recs
          /\ \A k \in (cur_rec + 1) .. num_recs : Fits(utmpbuf[k], Len(seen) + (k - cur_rec))
      BY <1>1, <1>2, <2>6 DEF LoginTypes, Buffered
    <3>2. cur_rec + 1 <= num_recs /\ num_recs \in 0 .. NRECS
      BY <1>1, <1>2, <3>1 DEF LoginTypes
    <3>3. cur_rec + 1 \in (cur_rec + 1) .. num_recs /\ (cur_rec + 1) - cur_rec = 1
      BY <3>1, <3>2
    <3>. QED
      BY <3>1, <3>2, <3>3
  <2>7. ASSUME ~failed, NEW i \in 1 .. Len(seen') PROVE Fits(seen[i], i)'
    <3>1. Fits(seen'[i], i)
      <4>1. CASE i \in 1 .. Len(seen)
        BY <1>1, <2>3, <2>7, <4>1 DEF Buffered
      <4>2. CASE i = Len(seen) + 1
        BY <2>3, <2>6, <2>7, <4>2
      <4>. QED
        BY <2>3, <4>1, <4>2
    <3>. QED
      BY <1>2, <3>1 DEF Fits
  <2>8. ASSUME ~failed, NEW k \in (cur_rec' + 1) .. num_recs'
        PROVE  Fits(utmpbuf[k], Len(seen) + (k - cur_rec))'
    <3>1. cur_rec \in Nat /\ num_recs \in Int /\ k \in (cur_rec + 1) .. num_recs
      BY <1>1, <1>2, <2>1, <2>6, <2>8 DEF LoginTypes
    <3>2. Fits(utmpbuf[k], Len(seen) + (k - cur_rec))
      BY <1>1, <1>2, <2>8, <3>1 DEF Buffered
    <3>3. Len(seen') + (k - cur_rec') = Len(seen) + (k - cur_rec)
      BY <2>1, <2>3, <3>1
    <3>. QED
      BY <1>2, <3>2, <3>3 DEF Fits
  <2>9. ~failed => cur_rec' <= num_recs' /\ position' = Len(seen') + (num_recs' - cur_rec')
    <3>1. cur_rec \in Nat /\ (~failed => position = Len(seen) + (num_recs - cur_rec))
      BY <1>1, <1>2 DEF LoginTypes, Buffered
    <3>. QED
      BY <1>2, <2>1, <2>3, <2>6, <3>1
  <2>10. Buffered'
    BY <1>2, <2>1, <2>7, <2>8, <2>9 DEF Buffered
  <2>. QED
    BY <1>3, <2>4, <2>5, <2>10 DEF LoginInv
<1>5. CASE ~(cur_rec < NRECS)
  <2>1. where' = "crashed" /\ UNCHANGED <<seen, cur_rec>>
    BY <1>5 DEF Logins!UtmpNext
  <2>2. failed
    BY <1>1, <1>2, <1>5 DEF LoginTypes, Buffered
  <2>3. LoginTypes'
    BY <1>1, <1>2, <2>1 DEF LoginTypes
  <2>. QED
    BY <1>2, <1>3, <2>1, <2>2, <2>3 DEF LoginInv, Unopened, Buffered
<1>. QED
  BY <1>4, <1>5

LEMMA ReloadStartsKeeps ==
  ASSUME Logins!LoginAssumption, LoginInv, Logins!ReloadStarts PROVE LoginInv'
<1>. USE DEF Logins!LoginAssumption
<1>1. LoginTypes /\ Grown /\ Unopened /\ Buffered
  BY DEF LoginInv
<1>2. /\ who = "who3" /\ where = "next" /\ cur_rec = num_recs
      /\ copied' = 0 /\ where' = "reload"
      /\ UNCHANGED <<who, utmp, changes, position, utmpbuf, cur_rec, num_recs, seen, opened, failed>>
  BY DEF Logins!ReloadStarts, Logins!fileVars
<1>3. LoginTypes' /\ Grown' /\ Unopened'
  BY <1>1, <1>2 DEF LoginTypes, Grown, Unopened
<1>4. ~failed => \A i \in 1 .. Len(seen') : Fits(seen[i], i)'
  BY <1>1, <1>2 DEF Buffered, Fits
<1>5. ~failed => position' = Len(seen') + copied' /\ cur_rec' <= num_recs'
  BY <1>1, <1>2 DEF LoginTypes, Buffered
<1>6. Buffered'
  BY <1>2, <1>4, <1>5 DEF Buffered
<1>. QED
  BY <1>3, <1>6 DEF LoginInv

LEMMA ReloadCopiesKeeps ==
  ASSUME Logins!LoginAssumption, LoginInv, Logins!ReloadCopies PROVE LoginInv'
<1>. USE DEF Logins!LoginAssumption
<1>1. LoginTypes /\ Grown /\ Unopened /\ Buffered
  BY DEF LoginInv
<1>2. /\ where = "reload" /\ copied < NRECS /\ position < Len(utmp)
      /\ utmpbuf' = [utmpbuf EXCEPT ![copied + 1] = utmp[position + 1]]
      /\ copied' = copied + 1 /\ position' = position + 1
      /\ UNCHANGED <<who, utmp, changes, where, cur_rec, num_recs, seen, opened, failed>>
  BY DEF Logins!ReloadCopies, Logins!fileVars
<1>3. /\ copied \in Nat /\ copied + 1 \in 1 .. NRECS
      /\ position + 1 \in 1 .. Len(utmp) /\ utmp[position + 1] \in 0 .. MaxChanges
  <2>1. /\ copied \in Nat /\ copied + 1 \in 1 .. NRECS /\ position + 1 \in 1 .. Len(utmp)
        /\ changes \in 0 .. MaxChanges
    BY <1>1, <1>2 DEF LoginTypes
  <2>2. utmp[position + 1] \in 0 .. changes
    BY <1>1, <2>1 DEF LoginTypes
  <2>. QED
    BY <2>1, <2>2
<1>4. /\ utmpbuf' \in [1 .. NRECS -> 0 .. MaxChanges \union {-1}]
      /\ utmpbuf'[copied + 1] = utmp[position + 1]
      /\ \A k \in 1 .. copied : utmpbuf'[k] = utmpbuf[k]
  BY <1>1, <1>2, <1>3 DEF LoginTypes
<1>5. LoginTypes'
  BY <1>1, <1>2, <1>3, <1>4 DEF LoginTypes
<1>6. Grown' /\ Unopened'
  BY <1>1, <1>2 DEF Grown, Unopened
<1>7. ~failed => Fits(utmp[position + 1], position + 1) /\ position = Len(seen) + copied
  <2>1. /\ position + 1 \in 1 .. Len(utmp) /\ utmp[position + 1] \in 0 .. utmp[position + 1]
        /\ position + 1 <= Len(opened) => utmp[position + 1] >= opened[position + 1]
    <3>1. /\ position + 1 \in 1 .. Len(utmp) /\ Len(opened) \in Nat
          /\ utmp[position + 1] \in 0 .. MaxChanges
      BY <1>1, <1>3 DEF LoginTypes
    <3>2. position + 1 <= Len(opened) => position + 1 \in 1 .. Len(opened)
      BY <3>1
    <3>3. position + 1 <= Len(opened) => opened[position + 1] \in Int /\ opened[position + 1] <= utmp[position + 1]
      BY <1>1, <3>2 DEF LoginTypes, Grown
    <3>. QED
      BY <3>1, <3>3
  <2>2. ~failed => position = Len(seen) + copied
    BY <1>1, <1>2 DEF Buffered
  <2>. QED
    BY <2>1, <2>2 DEF Fits
<1>8. ~failed => \A i \in 1 .. Len(seen') : Fits(seen[i], i)'
  BY <1>1, <1>2 DEF Buffered, Fits
<1>9. ASSUME ~failed, NEW k \in 1 .. copied' PROVE Fits(utmpbuf[k], Len(seen) + k)'
  <2>1. Fits(utmpbuf'[k], Len(seen) + k)
    <3>1. CASE k \in 1 .. copied
      BY <1>1, <1>2, <1>4, <1>9, <3>1 DEF Buffered
    <3>2. CASE k = copied + 1
      <4>1. Len(seen) + k = position + 1
        BY <1>1, <1>3, <1>7, <1>9, <3>2 DEF LoginTypes
      <4>. QED
        BY <1>4, <1>7, <1>9, <3>2, <4>1
    <3>. QED
      BY <1>2, <1>3, <3>1, <3>2
  <2>. QED
    BY <1>2, <2>1 DEF Fits
<1>10. ~failed => position' = Len(seen') + copied' /\ cur_rec' <= num_recs' /\ who' = "who3" /\ cur_rec' = num_recs'
  BY <1>1, <1>2, <1>3, <1>7 DEF LoginTypes, Buffered
<1>11. Buffered'
  BY <1>2, <1>8, <1>9, <1>10 DEF Buffered
<1>. QED
  BY <1>5, <1>6, <1>11 DEF LoginInv

\* A read that finds nothing ends the program: everything has been shown.
LEMMA ReloadEndsKeeps ==
  ASSUME Logins!LoginAssumption, LoginInv, Logins!ReloadEnds PROVE LoginInv'
<1>. USE DEF Logins!LoginAssumption
<1>1. LoginTypes /\ Grown /\ Unopened /\ Buffered
  BY DEF LoginInv
<1>2. /\ where = "reload" /\ (copied = NRECS \/ position >= Len(utmp))
      /\ num_recs' = copied /\ cur_rec' = 0
      /\ where' = IF copied = 0 THEN "exit" ELSE "next"
      /\ UNCHANGED <<who, utmp, changes, position, utmpbuf, copied, seen, opened, failed>>
  BY DEF Logins!ReloadEnds, Logins!fileVars
<1>3. copied \in 0 .. NRECS /\ position \in 0 .. Len(utmp) /\ Len(utmp) \in Nat /\ Len(seen) \in Nat /\ Len(opened) \in Nat
  BY <1>1 DEF LoginTypes
<1>4. LoginTypes'
  <2>1. num_recs' \in 0 .. NRECS \union {-1} /\ cur_rec' \in 0 .. NRECS
    BY <1>2, <1>3
  <2>. QED
    BY <1>1, <1>2, <2>1 DEF LoginTypes
<1>5. Grown' /\ Unopened'
  BY <1>1, <1>2 DEF Grown, Unopened
<1>6. ~failed => \A i \in 1 .. Len(seen') : Fits(seen[i], i)'
  BY <1>1, <1>2 DEF Buffered, Fits
<1>7. ASSUME ~failed, NEW k \in (cur_rec' + 1) .. num_recs'
      PROVE  Fits(utmpbuf[k], Len(seen) + (k - cur_rec))'
  <2>1. k \in 1 .. copied /\ k - cur_rec' = k
    BY <1>2, <1>3, <1>7
  <2>2. Fits(utmpbuf[k], Len(seen) + k)
    BY <1>1, <1>2, <1>7, <2>1 DEF Buffered
  <2>. QED
    BY <1>2, <2>1, <2>2 DEF Fits
<1>8. ~failed => position = Len(seen) + copied
  BY <1>1, <1>2 DEF Buffered
<1>9. ~failed => /\ position' = Len(seen') + (num_recs' - cur_rec') /\ cur_rec' <= num_recs'
                 /\ copied = 0 => Len(opened) <= Len(seen)
  BY <1>1, <1>2, <1>3, <1>8 DEF Grown
<1>10. ~failed => who = "who3"
  BY <1>1, <1>2 DEF Buffered
<1>11. Buffered'
  BY <1>2, <1>6, <1>7, <1>9, <1>10 DEF Buffered
<1>. QED
  BY <1>4, <1>5, <1>11 DEF LoginInv

LEMMA ReloadFailsKeeps ==
  ASSUME Logins!LoginAssumption, LoginInv, Logins!ReloadFails PROVE LoginInv'
<1>. USE DEF Logins!LoginAssumption
<1>1. LoginTypes /\ Grown /\ Unopened
  BY DEF LoginInv
<1>2. /\ num_recs' = -1 /\ cur_rec' = 0 /\ where' = "next" /\ failed' = TRUE
      /\ UNCHANGED <<who, utmp, changes, position, utmpbuf, copied, seen, opened>>
  BY DEF Logins!ReloadFails, Logins!Huge, Logins!fileVars
<1>3. num_recs' \in 0 .. NRECS \union {-1} /\ cur_rec' \in 0 .. NRECS
  BY <1>2
<1>4. LoginTypes'
  BY <1>1, <1>2, <1>3 DEF LoginTypes
<1>. QED
  BY <1>1, <1>2, <1>4 DEF LoginInv, Grown, Unopened, Buffered

LEMMA LoginNext == ASSUME Logins!LoginAssumption, LoginInv, Logins!Next PROVE LoginInv'
BY LoginWritesKeeps, UtmpOpenKeeps, ReadRecordKeeps, ReadRecordFailsKeeps, UtmpNextKeeps,
   ReloadStartsKeeps, ReloadCopiesKeeps, ReloadEndsKeeps, ReloadFailsKeeps DEF Logins!Next

\* What the invariant is for.
LEMMA LoginsShown == LoginInv => Logins!ShowsEveryRecord
<1>. SUFFICES ASSUME LoginInv, ~failed
              PROVE  /\ \A i \in DOMAIN seen :
                          /\ i \in DOMAIN utmp /\ seen[i] \in 0 .. utmp[i]
                          /\ i \in DOMAIN opened => seen[i] >= opened[i]
                     /\ where = "exit" => Len(seen) >= Len(opened)
  BY DEF Logins!ShowsEveryRecord
<1>1. /\ DOMAIN seen = 1 .. Len(seen) /\ DOMAIN utmp = 1 .. Len(utmp) /\ DOMAIN opened = 1 .. Len(opened)
      /\ Len(seen) \in Nat /\ Len(opened) \in Nat
  BY DEF LoginInv, LoginTypes
<1>2. /\ \A i \in 1 .. Len(seen) : Fits(seen[i], i)
      /\ where = "exit" => Len(opened) <= Len(seen)
  BY DEF LoginInv, Buffered
<1>. QED
  BY <1>1, <1>2 DEF Fits

LEMMA LoginTyped == ASSUME Logins!LoginAssumption, LoginInv PROVE Logins!TypeOK
<1>1. LoginTypes /\ Buffered
  BY DEF LoginInv
<1>2. \A i \in DOMAIN utmp : utmp[i] \in 0 .. MaxChanges
  <2>1. DOMAIN utmp = 1 .. Len(utmp) /\ changes \in 0 .. MaxChanges
    BY <1>1 DEF LoginTypes
  <2>2. \A i \in 1 .. Len(utmp) : utmp[i] \in 0 .. changes
    BY <1>1 DEF LoginTypes
  <2>. QED
    BY <2>1, <2>2 DEF Logins!LoginAssumption
<1>. QED
  BY <1>1, <1>2 DEF LoginTypes, Buffered, Logins!TypeOK, Logins!Values, Logins!Unwritten, Logins!Huge
-----------------------------------------------------------------------------
(* The three systems together *)

ReadersInv == PipeInv /\ ClockInv /\ LoginInv

LEMMA PipesRest == PipeInv /\ UNCHANGED vars => PipeInv'
BY DEF PipeInv, PipeTypes, PipePlaces, PipeEnds, FromCommand, FromDc, FromDemo, OneQuestion, vars, dcVars

LEMMA ClockRests == ClockInv /\ UNCHANGED clockVars => ClockInv'
BY DEF ClockInv, ClockTypes, Locks, Writes, Reads, ReadsSoFar, LockedWhole, Prefix,
       FileClock!Stamp, clockVars

LEMMA LoginsRest == LoginInv /\ UNCHANGED loginVars => LoginInv'
BY DEF LoginInv, LoginTypes, Grown, Unopened, Buffered, Fits, loginVars

LEMMA ReadersInit == AllInit => ReadersInv
BY PipeInit, ClockInit, LoginInit, ReadersAssumption DEF AllInit, ReadersInv, ReadersAssumption

LEMMA ReadersStep ==
  ReadersInv /\ [AllNext]_<<system, vars, clockVars, loginVars>> => ReadersInv'
<1>. SUFFICES ASSUME ReadersInv, [AllNext]_<<system, vars, clockVars, loginVars>>
              PROVE  ReadersInv'
  OBVIOUS
<1>1. PipeInv /\ ClockInv /\ LoginInv
  BY DEF ReadersInv
<1>2. CASE Runs("pipes") /\ Next /\ UNCHANGED <<clockVars, loginVars>>
  BY <1>1, <1>2, PipeNext, ClockRests, LoginsRest DEF ReadersInv
<1>3. CASE Runs("file") /\ FileClock!Next /\ UNCHANGED <<vars, loginVars>>
  BY <1>1, <1>3, ReadersAssumption, PipesRest, ClockNext, LoginsRest DEF ReadersInv, ReadersAssumption
<1>4. CASE Runs("who") /\ Logins!Next /\ UNCHANGED <<vars, clockVars>>
  BY <1>1, <1>4, ReadersAssumption, PipesRest, ClockRests, LoginNext DEF ReadersInv, ReadersAssumption
<1>5. CASE UNCHANGED <<system, vars, clockVars, loginVars>>
  BY <1>1, <1>5, PipesRest, ClockRests, LoginsRest DEF ReadersInv
<1>. QED
  BY <1>2, <1>3, <1>4, <1>5 DEF AllNext

\* The answer tinybc prints is dc's answer to that expression while all answers
\* have one line, and the end of a pipe is the end of a command whose output was
\* read (tinybc.c, popen.c, pipe.c); a client of the file clock prints one whole
\* time, unless a server that is opened meanwhile empties the file
\* (file_timeclnt.c); who2 and who3 show every record once and in order.
THEOREM ReadersSee == AllSpec => []ReadersSeeWhatIsThere
<1>1. ReadersInv => ReadersSeeWhatIsThere
  BY PipesRead, ClockReads, LoginsShown DEF ReadersInv, ReadersSeeWhatIsThere
<1>. QED
  BY ReadersInit, ReadersStep, <1>1, PTL DEF AllSpec

\* No pipe, no buffer of records and no file grows beyond its size, cur_rec stays
\* behind num_recs unless a read fails, and a writer's lock is the only one.
THEOREM ReadersTyped == AllSpec => []AllTypeOK
<1>1. ReadersInv => AllTypeOK
  BY PipeTyped, ClockTyped, LoginTyped, ReadersAssumption DEF ReadersInv, AllTypeOK, ReadersAssumption
<1>. QED
  BY ReadersInit, ReadersStep, <1>1, PTL DEF AllSpec
=============================================================================
