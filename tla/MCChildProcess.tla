--------------------------- MODULE MCChildProcess ---------------------------
(***************************************************************************)
(* Instances of ChildProcess for TLC: the pipes of run, of runCaptureLog   *)
(* and of runNoCapture.                                                    *)
(***************************************************************************)
EXTENDS ChildProcess

Run == [pipes |-> {"stdoutPipe", "stderrPipe"},
        pipeOf |-> [s \in Streams |-> IF s = "out" THEN "stdoutPipe" ELSE "stderrPipe"],
        drain |-> <<"stdoutPipe", "stderrPipe">>]
RunCaptureLog == [pipes |-> {"logPipe"}, pipeOf |-> [s \in Streams |-> "logPipe"],
                  drain |-> <<"logPipe">>]
RunNoCapture == [pipes |-> {}, pipeOf |-> [s \in Streams |-> Inherited], drain |-> <<>>]

AllModes == {Run, RunCaptureLog, RunNoCapture}

(* Up to three writes to any streams; with a pipe of two, a script may fit *)
(* into the pipe of its stream, fill it, or overflow it.                   *)
UpTo3 == UNION {[1..n -> Streams] : n \in 0..3}
=============================================================================
