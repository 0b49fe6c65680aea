---------------------------- MODULE ChildProcess ----------------------------
(***************************************************************************)
(* The three functions of src/exec.cpp that run a program (POSIX side):    *)
(*   run            captures stdout and stderr through two pipes, read one *)
(*                  after the other;                                       *)
(*   runCaptureLog  sends both through one pipe to a log file;             *)
(*   runNoCapture   has no pipe.                                           *)
(* They differ in the pipe each stream is dup2'ed to and in the order the  *)
(* pipes are drained: that is the mode.  The child may start a     *)
(* process of its own (a recipe's build starts many) that inherits the     *)
(* write ends and may outlive it.                                          *)
(***************************************************************************)
EXTENDS Integers, Sequences, FiniteSets

CONSTANTS
  Modes,      \* one per function, [pipes, pipeOf, drain]:
              \*   pipes created before fork,
              \*   stream of the child |-> pipe, or Inherited,
              \*   the order in which the parent reads the pipes to their end
  Capacity,   \* what a pipe holds before a writer blocks
  Scripts,    \* sequences of streams a process may write to (bound)
  MaxStops,   \* how often the child is stopped and continued (bound)
  Inherited

Streams == {"out", "err"}
Writers == {"child", "grand"}

ASSUME ChildAssumption ==
  /\ \A m \in Modes :
       /\ m.pipeOf \in [Streams -> m.pipes \cup {Inherited}]
       /\ Inherited \notin m.pipes
       /\ m.drain \in Seq(m.pipes)
       /\ \A x \in m.pipes : \E i \in 1..Len(m.drain) : m.drain[i] = x
  /\ Capacity \in Nat \ {0}
  /\ \A s \in Scripts : s \in Seq(Streams)
  /\ MaxStops \in Nat

VARIABLES
  mode,       \* the function that was called: constant
  pc,         \* where the parent is
  next,       \* index in Drain of the pipe being read
  pipe,       \* what is in each pipe
  captured,   \* what has been read from each pipe
  written,    \* what has been written to each pipe (history)
  open,       \* processes that hold the write ends
  script,     \* what each process has still to write
  child,      \* state of the child
  code,       \* how the child ended
  result      \* what the function returns

Pipes  == mode.pipes
PipeOf == mode.pipeOf
Drain  == mode.drain
stops  == child[2]
vars  == <<mode, pc, next, pipe, captured, written, open, script, child, code, result>>

Unit == Writers \X Streams \X Nat

TypeOK ==
  /\ mode \in Modes
  /\ pc \in {"fork", "close", "drain", "wait", "done"}
  /\ next \in Nat \ {0}
  /\ pipe \in [Pipes -> Seq(Unit)]
  /\ captured \in [Pipes -> Seq(Unit)]
  /\ written \in [Pipes -> Seq(Unit)]
  /\ open \subseteq {"parent"} \cup Writers
  /\ script \in [Writers -> Seq(Streams)]
  /\ child \in {"none", "running", "stopped", "exited"} \X (0..MaxStops)
  /\ code \in {"none", "zero", "nonzero", "signal"}
  /\ result \in {"none", "true", "false"}

Init ==
  /\ mode \in Modes
  /\ pc = "fork" /\ next = 1
  /\ pipe = [x \in Pipes |-> <<>>]
  /\ captured = [x \in Pipes |-> <<>>]
  /\ written = [x \in Pipes |-> <<>>]
  /\ open = {}
  /\ script \in [Writers -> Scripts]
  /\ child = <<"none", 0>> /\ code = "none" /\ result = "none"

-----------------------------------------------------------------------------
(* pipe() and fork(): both processes hold the write ends.                  *)
Fork ==
  /\ pc = "fork" /\ pc' = "close"
  /\ open' = {"parent", "child"} /\ child' = <<"running", 0>>
  /\ UNCHANGED <<mode, next, pipe, captured, written, script, code, result>>

(* The executable is not found, or pipe or fork fails.                     *)
CannotFork ==
  /\ pc = "fork" /\ pc' = "done" /\ result' = "false"
  /\ UNCHANGED <<mode, next, pipe, captured, written, open, script, child, code>>

(* Mutated form of CloseWriteEnds: the parent keeps its write ends.        *)
KeepWriteEnds ==
  /\ pc = "close" /\ pc' = (IF Drain = <<>> THEN "wait" ELSE "drain")
  /\ UNCHANGED <<mode, next, pipe, captured, written, open, script, child, code, result>>

(* The parent closes its own write ends before it reads.                   *)
CloseWriteEnds ==
  /\ pc = "close" /\ pc' = (IF Drain = <<>> THEN "wait" ELSE "drain")
  /\ open' = open \ {"parent"}
  /\ UNCHANGED <<mode, next, pipe, captured, written, script, child, code, result>>

(* read() returns something.                                               *)
Read ==
  /\ pc = "drain" /\ pipe[Drain[next]] # <<>>
  /\ captured' = [captured EXCEPT ![Drain[next]] =
                    Append(@, Head(pipe[Drain[next]]))]
  /\ pipe' = [pipe EXCEPT ![Drain[next]] = Tail(@)]
  /\ UNCHANGED <<mode, pc, next, written, open, script, child, code, result>>

(* Mutated form of Eof: the end of the child is taken for the end of file. *)
EofAtExit ==
  /\ pc = "drain" /\ pipe[Drain[next]] = <<>> /\ child[1] = "exited"
  /\ next' = next + 1
  /\ pc' = IF next = Len(Drain) THEN "wait" ELSE "drain"
  /\ UNCHANGED <<mode, pipe, captured, written, open, script, child, code, result>>

(* read() returns 0: the pipe is empty and nobody holds its write end.     *)
Eof ==
  /\ pc = "drain" /\ pipe[Drain[next]] = <<>> /\ open = {}
  /\ next' = next + 1
  /\ pc' = IF next = Len(Drain) THEN "wait" ELSE "drain"
  /\ UNCHANGED <<mode, pipe, captured, written, open, script, child, code, result>>

(* Mutated form of Wait: the raw status is returned.                       *)
WaitStatus ==
  /\ pc = "wait" /\ child[1] = "exited" /\ pc' = "done"
  /\ result' = code
  /\ UNCHANGED <<mode, next, pipe, captured, written, open, script, child, code>>

(* waitpid(WUNTRACED) in a loop: a stopped child is waited for again.      *)
Wait ==
  /\ pc = "wait" /\ child[1] = "exited" /\ pc' = "done"
  /\ result' = IF code = "zero" THEN "true" ELSE "false"
  /\ UNCHANGED <<mode, next, pipe, captured, written, open, script, child, code>>

-----------------------------------------------------------------------------
(* What the kernel and the programs do.                                    *)
Running(w) == w \in open /\ (w = "child" => child[1] = "running")

(* A write blocks while the pipe is full.  An inherited stream goes to the *)
(* terminal.                                                               *)
Write(w) ==
  /\ Running(w) /\ script[w] # <<>>
  /\ script' = [script EXCEPT ![w] = Tail(@)]
  /\ LET x == PipeOf[Head(script[w])]
         u == <<w, Head(script[w]), Len(script[w])>>
     IN  \/ x = Inherited /\ UNCHANGED <<pipe, written>>
         \/ /\ x # Inherited /\ Len(pipe[x]) < Capacity
            /\ pipe' = [pipe EXCEPT ![x] = Append(@, u)]
            /\ written' = [written EXCEPT ![x] = Append(@, u)]
  /\ UNCHANGED <<mode, pc, next, captured, open, child, code, result>>

Spawn ==
  /\ Running("child") /\ "grand" \notin open
  /\ open' = open \cup {"grand"}
  /\ UNCHANGED <<mode, pc, next, pipe, captured, written, script, child, code, result>>

(* A program ends when it has written everything; its descriptors close.   *)
ExitChild ==
  /\ Running("child") /\ script["child"] = <<>>
  /\ open' = open \ {"child"} /\ child' = <<"exited", stops>>
  /\ code' \in {"zero", "nonzero"}
  /\ UNCHANGED <<mode, pc, next, pipe, captured, written, script, result>>

ExitGrand ==
  /\ Running("grand") /\ script["grand"] = <<>>
  /\ open' = open \ {"grand"}
  /\ UNCHANGED <<mode, pc, next, pipe, captured, written, script, child, code, result>>

(* Signals from outside.                                                   *)
Kill ==
  /\ "child" \in open
  /\ open' = open \ {"child"} /\ child' = <<"exited", stops>> /\ code' = "signal"
  /\ UNCHANGED <<mode, pc, next, pipe, captured, written, script, result>>

KillGrand ==
  /\ "grand" \in open
  /\ open' = open \ {"grand"}
  /\ UNCHANGED <<mode, pc, next, pipe, captured, written, script, child, code, result>>

Stop ==
  /\ Running("child") /\ stops < MaxStops
  /\ child' = <<"stopped", stops + 1>>
  /\ UNCHANGED <<mode, pc, next, pipe, captured, written, open, script, code, result>>

Continue ==
  /\ child[1] = "stopped" /\ child' = <<"running", stops>>
  /\ UNCHANGED <<mode, pc, next, pipe, captured, written, open, script, code, result>>

Parent   == Fork \/ CannotFork \/ CloseWriteEnds \/ Read \/ Eof \/ Wait
Programs == (\E w \in Writers : Write(w)) \/ ExitChild \/ ExitGrand \/ Continue
Next     == Parent \/ Programs \/ Spawn \/ Kill \/ KillGrand \/ Stop

(* The parent and every process it has started are scheduled, and a        *)
(* stopped child is continued; nobody is forced to spawn, kill or stop.    *)
Fairness ==
  /\ WF_vars(Parent) /\ WF_vars(ExitChild) /\ WF_vars(ExitGrand) /\ WF_vars(Continue)
  /\ \A w \in Writers : WF_vars(Write(w))

Spec     == Init /\ [][Next]_vars
FairSpec == Spec /\ Fairness

-----------------------------------------------------------------------------
(* When the function returns, the captured output is all that the child    *)
(* and its descendants ever wrote to the pipe, in the order of the writes  *)
(* (for runCaptureLog: both streams interleaved as written), nobody can    *)
(* write any more, and the result tells whether the child exited with 0    *)
(* (exec.cpp:244-252, 391-399).                                            *)
ReturnsEverything ==
  pc = "done" /\ child[1] # "none" =>
    /\ \A x \in Pipes : captured[x] = written[x]
    /\ Pipes # {} => open = {}
    /\ child[1] = "exited" /\ (result = "true" <=> code = "zero")

(* A pipe that is not read yet has room for all that is meant for it.      *)
MeantFor(w, x) == {k \in 1..Len(script[w]) : PipeOf[script[w][k]] = x}
Volume(x) == Cardinality(MeantFor("child", x)) + Cardinality(MeantFor("grand", x))
Fits == \A i \in 2..Len(Drain) : Volume(Drain[i]) <= Capacity

(* Until the function returns there is somebody who goes on without a      *)
(* signal from outside: the parent, who only waits for a pipe that is      *)
(* empty and still open, or for a child that is alive, or a process that   *)
(* writes, which only waits for a pipe that is full.                       *)
ParentGoesOn ==
  CASE pc = "drain" -> pipe[Drain[next]] # <<>> \/ open = {}
    [] pc = "wait"  -> child[1] = "exited"
    [] OTHER        -> TRUE
WriterGoesOn(w) ==
  Running(w) /\ (script[w] # <<>> =>
    LET x == PipeOf[Head(script[w])] IN x # Inherited => Len(pipe[x]) < Capacity)
SomebodyGoesOn ==
  ParentGoesOn \/ child[1] = "stopped" \/ \E w \in Writers : WriterGoesOn(w)

(* Parent and child never wait for each other: if what goes to the pipes   *)
(* that are drained later fits into them (always, but for run), the two    *)
(* loops over the pipes and waitpid are never all there is left to do      *)
(* (exec.cpp:244-252, 391-399).                                            *)
NeverStuck == Fits => [](pc # "done" => SomebodyGoesOn)

(* The function returns, however much is written, as long as the pipes     *)
(* that are drained later can hold what goes to them: for run the whole    *)
(* of stderr must fit into its pipe; runCaptureLog always returns.         *)
Returns == Fits => <>(pc = "done")
=============================================================================
