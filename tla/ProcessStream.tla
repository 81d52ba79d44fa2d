----------------------------- MODULE ProcessStream -----------------------------
(***************************************************************************)
(* exec() and shell() of a task body: exec_streaming_process starts a      *)
(* child with both outputs piped, a loop selects between a line of stdout  *)
(* and a line of stderr, and a second tokio task waits for the child       *)
(* (actions/util.rs, actions/process.rs).                                  *)
(*                                                                         *)
(* The child is any program.  It writes lines to both streams, may close   *)
(* one early, and may leave a descendant behind (`daemon &') that has      *)
(* inherited the write ends.  It blocks while a pipe is full.  The end of  *)
(* a stream is seen when the pipe is empty and nobody has it open.         *)
(***************************************************************************)
EXTENDS Naturals, Sequences

CONSTANTS
  Capacity,     \* lines a pipe and the reader's buffer take in
  MaxLines      \* bound: lines the program writes to a stream

ASSUME ProcessAssumption == Capacity \in Nat \ {0} /\ MaxLines \in Nat

VARIABLES
  capture,      \* the streams the options ask for
  ignoreExit,   \* the option ignore_exit
  main,         \* where exec_streaming_process and its caller are
  captured,     \* number of lines in stdout_lines and stderr_lines
  child,        \* the child, or the stream it is about to write a line to
  code,         \* its exit status: exit code, or a signal
  writers,      \* the processes that have a stream's write end open
  written,      \* number of lines written to a stream
  pipe          \* the lines in it, by whether they are valid UTF-8

hpgVars   == <<capture, ignoreExit, main, captured>>
childVars == <<child, code>>
pipeVars  == <<writers, written, pipe>>
streamVars == <<hpgVars, childVars, pipeVars>>

Streams == {"stdout", "stderr"}

Returned == {"ok", "command failed"}            \* there is a ProcessOutput
Ended    == Returned \cup {"error"}

Exited(n)   == [code |-> n, signal |-> 0]       \* ExitStatus::code is Some(n)
Signalled(n) == [code |-> 256, signal |-> n]    \* ExitStatus::code is None
NoCode  == 256
Running == [code |-> 256, signal |-> 0]

ProcessInit ==
  /\ capture \in SUBSET Streams /\ ignoreExit \in BOOLEAN
  /\ main = "start" /\ captured = [s \in Streams |-> 0]
  /\ child = "none" /\ code = Running
  /\ writers = [s \in Streams |-> {}] /\ written = [s \in Streams |-> 0]
  /\ pipe = [s \in Streams |-> <<>>]

-----------------------------------------------------------------------------
(* hpg                                                                     *)

\* spawn, the readers and the task that waits; or spawn's error
Spawn ==
  /\ main = "start"
  /\ \/ /\ main' = "select" /\ child' = "idle"
        /\ writers' = [s \in Streams |-> {"child"}]
     \/ main' = "error" /\ UNCHANGED <<child, writers>>
  /\ UNCHANGED <<capture, ignoreExit, captured, code, written, pipe>>

\* Mutant of ReadLine: stdout is read to its end before stderr.
ReadLineInTurn(s) ==
  /\ main = "select" /\ pipe[s] # <<>>
  /\ s = "stderr" => writers["stdout"] = {} /\ pipe["stdout"] = <<>>
  /\ pipe' = [pipe EXCEPT ![s] = Tail(@)]
  /\ IF Head(pipe[s]) = "invalid"
     THEN main' = "error" /\ UNCHANGED captured
     ELSE /\ captured' = [captured EXCEPT ![s] = IF s \in capture THEN @ + 1 ELSE @]
          /\ UNCHANGED main
  /\ UNCHANGED <<capture, ignoreExit, childVars, writers, written>>

\* Mutant of ReadLine: the options are not looked at.
ReadLineCaptureAll(s) ==
  /\ main = "select" /\ pipe[s] # <<>>
  /\ pipe' = [pipe EXCEPT ![s] = Tail(@)]
  /\ captured' = [captured EXCEPT ![s] = @ + 1]
  /\ UNCHANGED <<capture, ignoreExit, main, childVars, writers, written>>

\* One round of the loop with a line of s.  A line that is no UTF-8 is an error
\* that leaves exec_streaming_process, and the child to itself.
ReadLine(s) ==
  /\ main = "select" /\ pipe[s] # <<>>
  /\ pipe' = [pipe EXCEPT ![s] = Tail(@)]
  /\ IF Head(pipe[s]) = "invalid"
     THEN main' = "error" /\ UNCHANGED captured
     ELSE /\ captured' = [captured EXCEPT ![s] = IF s \in capture THEN @ + 1 ELSE @]
          /\ UNCHANGED main
  /\ UNCHANGED <<capture, ignoreExit, childVars, writers, written>>

\* Mutant of ReadEnd: the child has exited, whatever is left in the pipe.
ReadEndAtExit(s) ==
  /\ main = "select" /\ child = "gone"
  /\ main' = "wait"
  /\ UNCHANGED <<capture, ignoreExit, captured, childVars, pipeVars>>

\* One round with the end of s, which breaks the loop whatever the other stream
\* still has to say.
ReadEnd(s) ==
  /\ main = "select" /\ pipe[s] = <<>> /\ writers[s] = {}
  /\ main' = "wait"
  /\ UNCHANGED <<capture, ignoreExit, captured, childVars, pipeVars>>

exit_status(e) == IF e.code = NoCode THEN 127 + e.signal ELSE e.code

\* What exec() and shell() make of the output
Judge(status) == IF ~ ignoreExit /\ status # 0 THEN "command failed" ELSE "ok"

\* The child has been waited for.
Join ==
  /\ main = "wait" /\ child = "gone"
  /\ main' = Judge(exit_status(code))
  /\ UNCHANGED <<capture, ignoreExit, captured, childVars, pipeVars>>

HpgStep == Spawn \/ (\E s \in Streams : ReadLine(s) \/ ReadEnd(s)) \/ Join

-----------------------------------------------------------------------------
(* The program                                                             *)

Alive == child \in {"idle"} \cup Streams

Write(s, line) ==
  /\ Len(pipe[s]) < Capacity
  /\ pipe' = [pipe EXCEPT ![s] = Append(@, line)]
  /\ written' = [written EXCEPT ![s] = @ + 1]

Exit(status) ==
  /\ child' = "gone" /\ code' = status
  /\ writers' = [s \in Streams |-> writers[s] \ {"child"}]

\* The child decides to write to s; it blocks there while the pipe is full.
ChildPrints(s) ==
  /\ child = "idle" /\ "child" \in writers[s] /\ written[s] < MaxLines
  /\ child' = s
  /\ UNCHANGED <<hpgVars, code, pipeVars>>

ChildWrites ==
  /\ child \in Streams /\ main \notin Ended
  /\ \E line \in {"text", "invalid"} : Write(child, line)
  /\ child' = "idle"
  /\ UNCHANGED <<hpgVars, code, writers>>

\* hpg has dropped the read ends: SIGPIPE
ChildIsCutOff ==
  /\ child \in Streams /\ main \in Ended
  /\ Exit(Signalled(13))
  /\ UNCHANGED <<hpgVars, written, pipe>>

ChildCloses(s) ==
  /\ child = "idle" /\ "child" \in writers[s]
  /\ writers' = [writers EXCEPT ![s] = @ \ {"child"}]
  /\ UNCHANGED <<hpgVars, childVars, written, pipe>>

ChildExits ==
  /\ child = "idle"
  /\ \E status \in {Exited(0), Exited(1), Signalled(9)} : Exit(status)
  /\ UNCHANGED <<hpgVars, written, pipe>>

\* A descendant inherits what the child has open.
ChildForks ==
  /\ child = "idle"
  /\ \A s \in Streams : "descendant" \notin writers[s]
  /\ writers' = [s \in Streams |-> IF "child" \in writers[s]
                                   THEN writers[s] \cup {"descendant"} ELSE writers[s]]
  /\ UNCHANGED <<hpgVars, childVars, written, pipe>>

DescendantWrites(s) ==
  /\ "descendant" \in writers[s] /\ main \notin Ended /\ written[s] < MaxLines
  /\ \E line \in {"text", "invalid"} : Write(s, line)
  /\ UNCHANGED <<hpgVars, childVars, writers>>

DescendantCloses(s) ==
  /\ "descendant" \in writers[s]
  /\ writers' = [writers EXCEPT ![s] = @ \ {"descendant"}]
  /\ UNCHANGED <<hpgVars, childVars, written, pipe>>

\* The child's system calls that come to an end of themselves
ChildStep ==
  \/ \E s \in Streams : ChildPrints(s) \/ ChildCloses(s)
  \/ ChildWrites \/ ChildIsCutOff \/ ChildExits

ProcessNext ==
  \/ HpgStep \/ ChildStep \/ ChildForks
  \/ \E s \in Streams : DescendantWrites(s) \/ DescendantCloses(s)

ProcessSpec == ProcessInit /\ [][ProcessNext]_streamVars

\* hpg and the child are scheduled; that the child prints a bounded number of
\* lines and does not sleep for ever is an assumption on the program.  Nothing is
\* assumed of the descendant.
FairProcessSpec ==
  ProcessSpec /\ WF_streamVars(HpgStep) /\ WF_streamVars(ChildStep)

-----------------------------------------------------------------------------
(* Properties                                                              *)

ProcessTypeOK ==
  /\ capture \subseteq Streams /\ ignoreExit \in BOOLEAN
  /\ main \in {"start", "select", "wait"} \cup Ended
  /\ captured \in [Streams -> 0..MaxLines + 1]
  /\ \A s \in Streams \ capture : captured[s] = 0
  /\ child \in {"none", "idle", "gone"} \cup Streams
  /\ code \in [code : {0, 1, NoCode}, signal : {0, 9, 13}]
  /\ writers \in [Streams -> SUBSET {"child", "descendant"}]
  /\ written \in [Streams -> 0..MaxLines + 1]
  /\ pipe \in [Streams -> Seq({"text", "invalid"})]
  /\ \A s \in Streams : Len(pipe[s]) <= Capacity

\* When the loop of exec_streaming_process is left for the wait, one of the streams
\* has been read to its very end: everything the child and its descendants wrote
\* to it is in the result, and nobody will write to it any more.
OneStreamComplete ==
  main \in {"wait"} \cup Returned =>
    \E s \in Streams :
      /\ writers[s] = {}
      /\ s \in capture => captured[s] = written[s]
      /\ s \notin capture => pipe[s] = <<>>

\* exec() and shell() end normally only if the child has exited, and with a status
\* other than 0 or by a signal only under ignore_exit.
StatusJudged ==
  /\ main \in Returned => child = "gone"
  /\ main = "ok" => ignoreExit \/ code = Exited(0)
  /\ main = "command failed" => code # Exited(0)

\* Both: what exec() hands to the script is complete on one stream, and the verdict
\* is that of the status.
ResultTrue == OneStreamComplete /\ StatusJudged

\* exec() returns if the child keeps both streams open until it exits and its
\* descendants, if any, let go of one of the streams some time after that: the
\* select loop lets neither stream starve the child that writes to the other.
KeepsStreams == Alive => \A s \in Streams : "child" \in writers[s]
ExecReturns ==
  []KeepsStreams /\ (child = "gone" ~> \E s \in Streams : writers[s] = {})
      => <>(main \in Ended)

=============================================================================
