------------------------------- MODULE Pipes -------------------------------
(***************************************************************************)
(* The programs that make pipes and fork: pipe.c and pipedemo2.c of        *)
(* chapter 15, popen.c and tinybc.c of chapter 16.  A reader sees the end  *)
(* of a pipe when NOBODY holds a write end any more, and a writer is       *)
(* killed (SIGPIPE) when nobody holds a read end: each process must close  *)
(* the ends that fork has copied to it and that it does not use.           *)
(*                                                                         *)
(* "up" leads from the child to the parent (thepipe, pfp, pipefd, fromdc), *)
(* "down" from the parent to the child (todc).  What is written at once,   *)
(* and is read at once, is one item.  dup2 and the close of the old        *)
(* number leave a process with the same end.                               *)
(***************************************************************************)
EXTENDS Naturals, Sequences

CONSTANTS
  PipeSize,      \* items a pipe holds
  MaxItems,      \* bound: items the command in the child writes
  MaxQuestions,  \* bound: expressions the user of tinybc types
  MaxLines       \* bound: lines of one answer of dc

ASSUME PipesAssumption ==
  /\ PipeSize \in Nat \ {0}
  /\ MaxItems \in Nat /\ MaxQuestions \in Nat
  /\ MaxLines \in Nat \ {0}

VARIABLES
  program,   \* which of the programs runs
  pc,
  ends,      \* ends[p]: the pipe ends process p holds
  buf,       \* what is in each pipe
  written,   \* the items the child has written into "up"
  got,       \* the items the parent has read from it
  asked,     \* tinybc: expressions sent to dc
  answering, \* dc: the expression it answers, and how many lines are to come
  wide,      \* history: dc has given an answer of several lines
  full,      \* history: in pipedemo2, the child has filled the pipe
  killed     \* history: the processes that were killed by others

dcVars == <<asked, answering, wide>>
vars == <<program, pc, ends, buf, written, got, dcVars, full, killed>>
-----------------------------------------------------------------------------
Programs == {"pipe", "popen", "tinybc", "pipedemo2"}
Processes == {"parent", "child"}
PipesOf(prog) == IF prog = "tinybc" THEN {"up", "down"} ELSE {"up"}
Ends == {"up", "down"} \X {"read", "write"}

GoTo(p, label) == pc' = [pc EXCEPT ![p] = label]

\* A process that ends gives all its ends back.
Exit(p) ==
  /\ GoTo(p, "exit")
  /\ ends' = [ends EXCEPT ![p] = {}]

Held(pipe, side) == \E p \in Processes : <<pipe, side>> \in ends[p]

\* fgets is called with NULL.
Crash(p) ==
  /\ GoTo(p, "crashed")
  /\ ends' = [ends EXCEPT ![p] = {}]

\* write: waits while the pipe is full; SIGPIPE when nobody can read.
Write(p, pipe, item, next) ==
  \/ /\ Held(pipe, "read")
     /\ Len(buf[pipe]) < PipeSize
     /\ buf' = [buf EXCEPT ![pipe] = Append(@, item)]
     /\ GoTo(p, next)
     /\ UNCHANGED ends
  \/ /\ ~Held(pipe, "read")
     /\ Exit(p)
     /\ UNCHANGED buf

\* read: waits while the pipe is empty and somebody can write.
Readable(pipe) == buf[pipe] # <<>>
Take(pipe) == buf' = [buf EXCEPT ![pipe] = Tail(@)]
EndOfFile(pipe) == buf[pipe] = <<>> /\ ~Held(pipe, "write")
-----------------------------------------------------------------------------
(* fork, and what the two processes do before their work *)

\* When fork fails pipe, tinybc and pipedemo2 end; popen closes both ends
\* and returns NULL, which main hands to fgets.
Fork ==
  /\ pc["parent"] = "fork"
  /\ \/ /\ ends' = [ends EXCEPT !["child"] = ends["parent"]]
        /\ pc' = [p \in Processes |-> "setup"]
     \/ /\ program # "popen" /\ Exit("parent")
     \/ program = "popen" /\ Crash("parent")
  /\ UNCHANGED <<program, buf, written, got, dcVars, full, killed>>

\* The process keeps some ends and goes on; execlp, execl, dup2 or fdopen may
\* fail, and then it ends, or has NULL where popen was to return a stream.
Keep(p, kept, next) ==
  /\ pc[p] = "setup"
  /\ \/ ends' = [ends EXCEPT ![p] = kept] /\ GoTo(p, next)
     \/ program # "pipedemo2" /\ <<program, p>> # <<"popen", "parent">> /\ Exit(p)
     \/ <<program, p>> = <<"popen", "parent">> /\ Crash(p)
  /\ UNCHANGED <<program, buf, written, got, dcVars, full, killed>>

\* popen with mode "r"
ParentPopen == program = "popen" /\ Keep("parent", {<<"up", "read">>}, "working")
ChildPopen == program = "popen" /\ Keep("child", {<<"up", "write">>}, "command")

\* pipe.c: the parent becomes the second command, the child the first.
ParentPipe == program = "pipe" /\ Keep("parent", {<<"up", "read">>}, "working")

\* Mutant: the child does not close thepipe[0].
ChildPipeBothEnds == program = "pipe" /\ Keep("child", ends["child"], "command")

ChildPipe == program = "pipe" /\ Keep("child", {<<"up", "write">>}, "command")

BeBc == program = "tinybc" /\ Keep("parent", {<<"down", "write">>, <<"up", "read">>}, "prompt")
BeDc == program = "tinybc" /\ Keep("child", {<<"down", "read">>, <<"up", "write">>}, "dc_read")

\* pipedemo2.c: nobody closes anything.
DemoParent == program = "pipedemo2" /\ Keep("parent", ends["parent"], "demo_write")
DemoChild == program = "pipedemo2" /\ Keep("child", ends["child"], "demo_child")
-----------------------------------------------------------------------------
(* A command that writes to its standard output, and who reads from it *)

\* It works, then writes or ends.
Command ==
  /\ pc["child"] = "command"
  /\ \/ Len(written) < MaxItems /\ GoTo("child", "command_write") /\ UNCHANGED ends
     \/ Exit("child")
  /\ UNCHANGED <<program, buf, written, got, dcVars, full, killed>>

CommandWrites ==
  /\ pc["child"] = "command_write"
  /\ LET item == Len(written) + 1 IN
       /\ Write("child", "up", item, "command")
       /\ written' = IF Held("up", "read") THEN Append(written, item) ELSE written
  /\ UNCHANGED <<program, got, dcVars, full, killed>>

\* main of popen.c reads to the end; the second command of pipe.c may end
\* before.
NextRead ==
  /\ pc["parent"] = "working"
  /\ \/ GoTo("parent", "read") /\ UNCHANGED ends
     \/ program = "pipe" /\ Exit("parent")
  /\ UNCHANGED <<program, buf, written, got, dcVars, full, killed>>

ParentReads ==
  /\ pc["parent"] = "read"
  /\ \/ /\ Readable("up")
        /\ got' = Append(got, Head(buf["up"]))
        /\ Take("up")
        /\ GoTo("parent", "working")
     \/ /\ EndOfFile("up")
        /\ GoTo("parent", "read_all")
        /\ UNCHANGED <<buf, got>>
  /\ UNCHANGED <<program, ends, written, dcVars, full, killed>>

\* pclose, which does not wait for a process it does not know; the end.
ParentEnds ==
  /\ pc["parent"] = "read_all"
  /\ Exit("parent")
  /\ UNCHANGED <<program, buf, written, got, dcVars, full, killed>>
-----------------------------------------------------------------------------
(* tinybc: a line is sent to dc, and one line of its answer is printed *)

\* A line that is no expression is answered at once and changes nothing.  At
\* the end of the input, both streams are closed.
Prompt ==
  /\ pc["parent"] = "prompt"
  /\ \/ /\ asked < MaxQuestions
        /\ asked' = asked + 1
        /\ GoTo("parent", "ask")
        /\ UNCHANGED ends
     \/ /\ GoTo("parent", "wait")
        /\ ends' = [ends EXCEPT !["parent"] = {}]
        /\ UNCHANGED asked
  /\ UNCHANGED <<program, buf, written, got, answering, wide, full, killed>>

\* fprintf and fflush
Ask ==
  /\ pc["parent"] = "ask"
  /\ Write("parent", "down", asked, "answer")
  /\ UNCHANGED <<program, written, got, dcVars, full, killed>>

\* fgets from dc, and the line is printed.
PrintAnswer ==
  /\ pc["parent"] = "answer"
  /\ \/ /\ Readable("up")
        /\ got' = Append(got, Head(buf["up"]))
        /\ Take("up")
        /\ GoTo("parent", "prompt")
        /\ UNCHANGED ends
     \/ /\ EndOfFile("up")
        /\ GoTo("parent", "wait")
        /\ ends' = [ends EXCEPT !["parent"] = {}]
        /\ UNCHANGED <<buf, got>>
  /\ UNCHANGED <<program, written, dcVars, full, killed>>

\* wait(NULL)
WaitForDc ==
  /\ pc["parent"] = "wait"
  /\ pc["child"] = "exit"
  /\ Exit("parent")
  /\ UNCHANGED <<program, buf, written, got, dcVars, full, killed>>

\* dc reads an expression; it breaks an answer into lines of 70 characters.
DcReads ==
  /\ pc["child"] = "dc_read"
  /\ \/ /\ Readable("down")
        /\ \E m \in 1 .. MaxLines :
             /\ answering' = <<Head(buf["down"]), m>>
             /\ wide' = (wide \/ m > 1)
        /\ Take("down")
        /\ GoTo("child", "dc_write")
        /\ UNCHANGED ends
     \/ /\ EndOfFile("down")
        /\ Exit("child")
        /\ UNCHANGED <<buf, answering, wide>>
  /\ UNCHANGED <<program, written, got, asked, full, killed>>

DcWrites ==
  /\ pc["child"] = "dc_write"
  /\ Write("child", "up", answering[1], IF answering[2] = 1 THEN "dc_read" ELSE "dc_write")
  /\ answering' = IF answering[2] = 1 THEN <<0, 0>> ELSE <<answering[1], answering[2] - 1>>
  /\ UNCHANGED <<program, written, got, asked, wide, full, killed>>
-----------------------------------------------------------------------------
(* pipedemo2: both write into one pipe, the parent reads all there is.  A *)
(* text is the item 0. *)

DemoChildWrites ==
  /\ pc["child"] = "demo_child"
  /\ Write("child", "up", 0, "demo_child")
  /\ full' = (full \/ Len(buf'["up"]) = PipeSize)
  /\ UNCHANGED <<program, written, got, dcVars, killed>>

DemoWrite ==
  /\ pc["parent"] = "demo_write"
  /\ Write("parent", "up", 0, "demo_read")
  /\ UNCHANGED <<program, written, got, dcVars, full, killed>>

DemoRead ==
  /\ pc["parent"] = "demo_read"
  /\ Readable("up")
  /\ buf' = [buf EXCEPT !["up"] = <<>>]
  /\ GoTo("parent", "demo_write")
  /\ UNCHANGED <<program, ends, written, got, dcVars, full, killed>>
-----------------------------------------------------------------------------
\* A process is killed, by a signal or by an error of its own.
Kill(p) ==
  /\ pc[p] \notin {"fork", "none", "exit", "crashed"}
  /\ Exit(p)
  /\ killed' = killed \union {p}
  /\ UNCHANGED <<program, buf, written, got, dcVars, full>>

Init ==
  /\ program \in Programs
  /\ pc = [p \in Processes |-> IF p = "parent" THEN "fork" ELSE "none"]
  /\ ends = [p \in Processes |-> IF p = "parent" THEN PipesOf(program) \X {"read", "write"} ELSE {}]
  /\ buf = [p \in {"up", "down"} |-> <<>>]
  /\ written = <<>>
  /\ got = <<>>
  /\ asked = 0
  /\ answering = <<0, 0>>
  /\ wide = FALSE
  /\ full = FALSE
  /\ killed = {}

ParentSteps ==
  \/ Fork \/ ParentPopen \/ ParentPipe \/ BeBc \/ DemoParent
  \/ NextRead \/ ParentReads \/ ParentEnds
  \/ Ask \/ PrintAnswer \/ WaitForDc
  \/ DemoWrite \/ DemoRead
ChildSteps ==
  \/ ChildPopen \/ ChildPipe \/ BeDc \/ DemoChild
  \/ Command \/ CommandWrites \/ DcReads \/ DcWrites

Next ==
  \/ ParentSteps \/ ChildSteps \/ Prompt \/ DemoChildWrites
  \/ \E p \in Processes : Kill(p)

Spec == Init /\ [][Next]_vars

\* A process that can go on does.  The user need not type, and the child of
\* pipedemo2 may sleep.
Fairness == WF_vars(ParentSteps) /\ WF_vars(ChildSteps)

FairSpec == Spec /\ Fairness
-----------------------------------------------------------------------------
(* Properties *)

ParentLabels ==
  {"fork", "setup", "working", "read", "read_all", "prompt", "ask", "answer", "wait",
   "demo_write", "demo_read", "exit", "crashed"}
ChildLabels ==
  {"none", "setup", "command", "command_write", "dc_read", "dc_write", "demo_child", "exit"}

\* The values the variables take; no pipe holds more than it can, and only a
\* process that runs holds an end.
TypeOK ==
  /\ program \in Programs
  /\ pc["parent"] \in ParentLabels /\ pc["child"] \in ChildLabels
  /\ ends \in [Processes -> SUBSET (PipesOf(program) \X {"read", "write"})]
  /\ \A p \in Processes : pc[p] \in {"none", "exit", "crashed"} => ends[p] = {}
  /\ \A pipe \in {"up", "down"} : buf[pipe] \in Seq(0 .. (MaxItems + MaxQuestions)) /\ Len(buf[pipe]) <= PipeSize
  /\ written \in Seq(1 .. MaxItems)
  /\ got \in Seq(1 .. (MaxItems + MaxQuestions))
  /\ asked \in 0 .. MaxQuestions
  /\ answering \in (0 .. MaxQuestions) \X (0 .. MaxLines)
  /\ wide \in BOOLEAN /\ full \in BOOLEAN
  /\ killed \in SUBSET Processes

\* What the parent reads is what it takes it for.  In tinybc the answer that is
\* printed behind an expression is dc's answer to THAT expression, as long as
\* each was one line: of a longer one tinybc prints the first line, and the
\* others behind later expressions.  In pipe and popen the end of the pipe
\* means that the command has ended and that all its output was read.
ReadsWhatWasMeant ==
  /\ ~wide => \A i \in DOMAIN got : got[i] = i
  /\ pc["parent"] = "read_all" => pc["child"] = "exit" /\ got = written

BothFull == \A pipe \in {"up", "down"} : Len(buf[pipe]) = PipeSize

\* Nobody waits for ever at a pipe.  When the reader is gone the writer is
\* stopped, when the writer is gone the reader sees the end, tinybc gets its
\* answers and dc ends when tinybc closes the pipe; only when dc has given more
\* lines than were read, until both pipes are full, each waits for the other.
\* pipedemo2, whose two
\* processes hold all ends, goes on until one is killed or the child fills the
\* pipe, which nobody but the other writer empties.
NobodyStuck ==
  /\ (program # "pipedemo2" /\ pc["parent"] \in {"exit", "crashed"}) ~> pc["child"] \in {"none", "exit"}
  /\ (program \in {"pipe", "popen"} /\ pc["child"] = "exit") ~> pc["parent"] \in {"exit", "crashed"}
  /\ pc["parent"] \in {"ask", "answer", "wait"} ~> (pc["parent"] \in {"prompt", "exit"} \/ BothFull)
  /\ pc["parent"] = "demo_write" ~> (pc["parent"] \in {"demo_read", "exit"} \/ full)
=============================================================================
