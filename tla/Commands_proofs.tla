----------------------------- MODULE Commands_proofs -----------------------------
(***************************************************************************)
(* Theorems about what scripts run on the machine: first the processes of  *)
(* exec() and shell(), for pipes of any size and programs that print any   *)
(* number of lines; then the package managers whose databases are read     *)
(* through such processes, for any packages and any lists of requests.     *)
(***************************************************************************)
EXTENDS ProcessStream, Packages, TLAPS, SequenceTheorems, FiniteSetTheorems,
        WellFoundedInduction

USE ProcessAssumption

(***************************************************************************)
(* The inductive invariant of a process                                    *)
(***************************************************************************)

Statuses == {Running, Exited(0), Exited(1), Signalled(9), Signalled(13)}

BaseInv ==
  /\ capture \subseteq Streams /\ ignoreExit \in BOOLEAN
  /\ main \in {"start", "select", "wait"} \cup Ended
  /\ captured \in [Streams -> Nat] /\ written \in [Streams -> Nat]
  /\ writers \in [Streams -> SUBSET {"child", "descendant"}]
  /\ pipe \in [Streams -> Seq({"text", "invalid"})]
  /\ code \in Statuses

\* Before an error, every line that was written is in the result or in the pipe.
FlowInv ==
  main # "error" => \A s \in capture : captured[s] + Len(pipe[s]) = written[s]

\* Who writes, or is about to, has the stream open.
ChildInv ==
  /\ child \in Streams => "child" \in writers[child]
  /\ child = "gone" => code # Running

\* The stream whose end was seen is empty and closed, and stays so.
EndInv ==
  main \in {"wait"} \cup Returned => \E s \in Streams : writers[s] = {} /\ pipe[s] = <<>>

ProcessInv == BaseInv /\ FlowInv /\ ChildInv /\ EndInv /\ StatusJudged

LEMMA ProcessInitially == ProcessInit => ProcessInv
<1> SUFFICES ASSUME ProcessInit PROVE ProcessInv
  OBVIOUS
<1>1. BaseInv /\ FlowInv
  BY EmptySeq DEF ProcessInit, BaseInv, FlowInv, Statuses, Streams
<1>2. ChildInv /\ EndInv /\ StatusJudged
  BY DEF ProcessInit, ChildInv, EndInv, StatusJudged, Returned, Streams
<1>3. QED BY <1>1, <1>2 DEF ProcessInv

(***************************************************************************)
(* hpg                                                                     *)
(***************************************************************************)

LEMMA SpawnStep ==
  ASSUME ProcessInv, Spawn PROVE ProcessInv'
<1>1. main = "start" /\ main' \in {"select", "error"} /\ main' \notin {"wait"} \cup Returned
  BY DEF Spawn, Returned
<1>2. BaseInv'
  BY <1>1 DEF Spawn, ProcessInv, BaseInv, Ended
<1>3. FlowInv'
  BY <1>1 DEF Spawn, ProcessInv, FlowInv
<1>4. ChildInv'
  BY DEF Spawn, ProcessInv, ChildInv, Streams
<1>5. EndInv' /\ StatusJudged'
  BY <1>1 DEF EndInv, StatusJudged, Returned
<1>6. QED BY <1>2, <1>3, <1>4, <1>5 DEF ProcessInv

\* A line moves from the pipe to the result.
LEMMA ReadLineStep ==
  ASSUME ProcessInv, NEW s \in Streams, ReadLine(s) PROVE ProcessInv'
<1>1. /\ Tail(pipe[s]) \in Seq({"text", "invalid"}) /\ Len(Tail(pipe[s])) = Len(pipe[s]) - 1
      /\ Len(pipe[s]) \in Nat
  BY HeadTailProperties DEF ReadLine, ProcessInv, BaseInv
<1>2. /\ pipe' \in [Streams -> Seq({"text", "invalid"})]
      /\ pipe'[s] = Tail(pipe[s]) /\ \A r \in Streams : r # s => pipe'[r] = pipe[r]
  BY <1>1 DEF ReadLine, ProcessInv, BaseInv
<1>3. /\ captured' \in [Streams -> Nat]
      /\ \A r \in Streams : r # s => captured'[r] = captured[r]
      /\ s \in capture /\ main' # "error" => captured'[s] = captured[s] + 1
      /\ main' \in {"select", "error"}
  <2>1. CASE Head(pipe[s]) = "invalid"
    BY <2>1 DEF ReadLine, ProcessInv, BaseInv
  <2>2. CASE Head(pipe[s]) # "invalid"
    BY <2>2 DEF ReadLine, ProcessInv, BaseInv
  <2>3. QED BY <2>1, <2>2
<1>4. BaseInv'
  BY <1>2, <1>3 DEF ReadLine, ProcessInv, BaseInv, childVars, Ended
<1>5. FlowInv'
  <2>1. ASSUME NEW r \in capture, main' # "error"
        PROVE  captured'[r] + Len(pipe'[r]) = written[r]
    <3>1. captured[r] + Len(pipe[r]) = written[r] /\ captured[r] \in Nat /\ r \in Streams
      BY DEF ReadLine, ProcessInv, BaseInv, FlowInv
    <3>2. CASE r = s
      <4>1. captured'[r] = captured[r] + 1
        BY <1>3, <2>1, <3>2
      <4>2. Len(pipe'[r]) = Len(pipe[r]) - 1 /\ Len(pipe[r]) \in Nat
        BY <1>1, <1>2, <3>2
      <4>3. QED BY <3>1, <4>1, <4>2
    <3>3. CASE r # s
      BY <1>2, <1>3, <3>1, <3>3
    <3>4. QED BY <3>2, <3>3
  <2>2. QED BY <2>1 DEF ReadLine, FlowInv
<1>6. ChildInv' /\ EndInv' /\ StatusJudged'
  BY DEF ReadLine, ProcessInv, ChildInv, EndInv, StatusJudged, childVars, Returned
<1>7. QED BY <1>4, <1>5, <1>6 DEF ProcessInv

LEMMA ReadEndStep ==
  ASSUME ProcessInv, NEW s \in Streams, ReadEnd(s) PROVE ProcessInv'
<1>1. BaseInv' /\ FlowInv' /\ ChildInv' /\ StatusJudged'
  BY DEF ReadEnd, ProcessInv, BaseInv, FlowInv, ChildInv, StatusJudged, childVars, pipeVars,
         Returned
<1>2. EndInv'
  BY DEF ReadEnd, EndInv, pipeVars
<1>3. QED BY <1>1, <1>2 DEF ProcessInv

\* The status is 0 exactly for an exit with code 0: a signal makes it at least 127.
LEMMA ExitStatusFacts ==
  ASSUME BaseInv
  PROVE  exit_status(code) = 0 <=> code = Exited(0)
BY DEF BaseInv, Statuses, Running, Signalled, exit_status, Exited, NoCode

LEMMA JoinStep ==
  ASSUME ProcessInv, Join PROVE ProcessInv'
<1>1. main' \in Returned /\ main' # "error"
  BY DEF Join, Judge, Returned
<1>2. BaseInv' /\ FlowInv' /\ ChildInv' /\ EndInv'
  BY <1>1 DEF Join, ProcessInv, BaseInv, FlowInv, ChildInv, EndInv, childVars, pipeVars, Ended
<1>3. StatusJudged'
  BY ExitStatusFacts DEF Join, Judge, ProcessInv, StatusJudged, childVars
<1>4. QED BY <1>2, <1>3 DEF ProcessInv

(***************************************************************************)
(* The program                                                             *)
(***************************************************************************)

\* Whoever writes to a stream has it open, so that it is not the one that has ended.
LEMMA WriteStep ==
  ASSUME ProcessInv, NEW s \in Streams, NEW line \in {"text", "invalid"}, Write(s, line),
         writers[s] # {}, main \notin Ended,
         UNCHANGED <<hpgVars, code, writers>>,
         child' = child \/ child' = "idle", child' # "gone" \/ child = "gone"
  PROVE  ProcessInv'
<1>1. /\ Append(pipe[s], line) \in Seq({"text", "invalid"})
      /\ Len(Append(pipe[s], line)) = Len(pipe[s]) + 1 /\ Len(pipe[s]) \in Nat
  BY AppendProperties DEF ProcessInv, BaseInv
<1>2. BaseInv'
  BY <1>1 DEF Write, ProcessInv, BaseInv, hpgVars
<1>3. FlowInv'
  BY <1>1 DEF Write, ProcessInv, BaseInv, FlowInv, hpgVars
<1>4. ChildInv' /\ StatusJudged'
  BY DEF ProcessInv, ChildInv, StatusJudged, hpgVars, Ended, Streams
<1>5. EndInv'
  <2>1. ASSUME NEW r \in Streams, writers[r] = {}
        PROVE  pipe'[r] = pipe[r]
    BY <2>1 DEF Write, ProcessInv, BaseInv
  <2>2. QED BY <2>1 DEF ProcessInv, EndInv, hpgVars
<1>6. QED BY <1>2, <1>3, <1>4, <1>5 DEF ProcessInv

\* Streams are closed, and nothing is written: nobody opens one that is closed.
LEMMA CloseStep ==
  ASSUME ProcessInv, UNCHANGED <<hpgVars, written, pipe>>,
         writers' \in [Streams -> SUBSET {"child", "descendant"}],
         \A s \in Streams : writers[s] = {} => writers'[s] = {},
         child' \in Streams => "child" \in writers'[child'],
         child = "gone" => child' = "gone" /\ code' = code,
         child' = "gone" => code' # Running,
         code' \in Statuses
  PROVE  ProcessInv'
<1>1. BaseInv' /\ FlowInv' /\ ChildInv' /\ EndInv'
  BY DEF ProcessInv, BaseInv, FlowInv, ChildInv, EndInv, hpgVars
<1>2. StatusJudged'
  BY DEF ProcessInv, StatusJudged, hpgVars, Returned
<1>3. QED BY <1>1, <1>2 DEF ProcessInv

LEMMA ExitStep ==
  ASSUME ProcessInv, NEW status \in {Exited(0), Exited(1), Signalled(9), Signalled(13)},
         Exit(status), child # "gone", UNCHANGED <<hpgVars, written, pipe>>
  PROVE  ProcessInv'
<1>1. /\ status \in Statuses /\ status # Running
      /\ child' = "gone" /\ code' = status /\ child' \notin Streams
      /\ writers' = [s \in Streams |-> writers[s] \ {"child"}]
  BY DEF Exit, Statuses, Exited, Signalled, Running, Streams
<1>2. /\ writers' \in [Streams -> SUBSET {"child", "descendant"}]
      /\ \A s \in Streams : writers[s] = {} => writers'[s] = {}
  BY <1>1 DEF ProcessInv, BaseInv
<1>3. QED BY <1>1, <1>2, CloseStep

LEMMA ProgramStep ==
  ASSUME ProcessInv,
         ChildStep \/ ChildForks \/ \E s \in Streams : DescendantWrites(s) \/ DescendantCloses(s)
  PROVE  ProcessInv'
<1>1. ASSUME NEW s \in Streams, ChildPrints(s) PROVE ProcessInv'
  BY <1>1, CloseStep DEF ChildPrints, ProcessInv, BaseInv, ChildInv, pipeVars, Streams
<1>2. CASE ChildWrites
  <2>1. PICK line \in {"text", "invalid"} : Write(child, line)
    BY <1>2 DEF ChildWrites
  <2>2. QED BY <1>2, <2>1, WriteStep DEF ChildWrites, ProcessInv, ChildInv
<1>3. CASE ChildIsCutOff
  BY <1>3, ExitStep DEF ChildIsCutOff, Streams
<1>4. ASSUME NEW s \in Streams, ChildCloses(s) PROVE ProcessInv'
  BY <1>4, CloseStep DEF ChildCloses, ProcessInv, BaseInv, ChildInv, childVars, Streams
<1>5. CASE ChildExits
  BY <1>5, ExitStep DEF ChildExits
<1>6. CASE ChildForks
  BY <1>6, CloseStep DEF ChildForks, ProcessInv, BaseInv, ChildInv, childVars, Streams
<1>7. ASSUME NEW s \in Streams, DescendantWrites(s) PROVE ProcessInv'
  <2>1. PICK line \in {"text", "invalid"} : Write(s, line)
    BY <1>7 DEF DescendantWrites
  <2>2. QED BY <1>7, <2>1, WriteStep DEF DescendantWrites, childVars
<1>8. ASSUME NEW s \in Streams, DescendantCloses(s) PROVE ProcessInv'
  <2>1. /\ writers' \in [Streams -> SUBSET {"child", "descendant"}]
        /\ \A r \in Streams : writers[r] = {} => writers'[r] = {}
        /\ \A r \in Streams : "child" \in writers[r] => "child" \in writers'[r]
    BY <1>8 DEF DescendantCloses, ProcessInv, BaseInv
  <2>2. QED BY <1>8, <2>1, CloseStep DEF DescendantCloses, ProcessInv, BaseInv, ChildInv, childVars
<1>9. QED
  BY <1>1, <1>2, <1>3, <1>4, <1>5, <1>6, <1>7, <1>8 DEF ChildStep

LEMMA ProcessStep == ProcessInv /\ [ProcessNext]_streamVars => ProcessInv'
<1> SUFFICES ASSUME ProcessInv, [ProcessNext]_streamVars PROVE ProcessInv'
  OBVIOUS
<1>1. CASE UNCHANGED streamVars
  BY <1>1 DEF streamVars, hpgVars, childVars, pipeVars, ProcessInv, BaseInv, FlowInv, ChildInv,
              EndInv, StatusJudged
<1>2. QED
  BY <1>1, SpawnStep, ReadLineStep, ReadEndStep, JoinStep, ProgramStep DEF ProcessNext, HpgStep

(***************************************************************************)
(* The theorems                                                            *)
(***************************************************************************)

\* The invariant holds in every state, whatever the program does.
THEOREM ProcessInvariant == ProcessSpec => []ProcessInv
BY ProcessInitially, ProcessStep, PTL DEF ProcessSpec

\* When exec() or shell() returns, one of the streams is complete in the result, and
\* whether the command counts as failed is what its exit status says.
THEOREM ProcessResultTrue == ProcessSpec => []ResultTrue
<1>1. ProcessInv => OneStreamComplete
  <2> SUFFICES ASSUME ProcessInv, main \in {"wait"} \cup Returned PROVE OneStreamComplete
    BY DEF OneStreamComplete
  <2>1. PICK s \in Streams : writers[s] = {} /\ pipe[s] = <<>>
    BY DEF ProcessInv, EndInv
  <2>2. s \in capture => captured[s] = written[s]
    <3>1. Len(pipe[s]) = 0 /\ captured[s] \in Nat
      BY <2>1, EmptySeq DEF ProcessInv, BaseInv
    <3>2. s \in capture => captured[s] + Len(pipe[s]) = written[s]
      BY DEF ProcessInv, FlowInv, Returned
    <3>3. QED BY <3>1, <3>2
  <2>3. QED BY <2>1, <2>2 DEF OneStreamComplete
<1>2. ProcessInv => StatusJudged
  BY DEF ProcessInv
<1>3. QED BY <1>1, <1>2, ProcessInvariant, PTL DEF ResultTrue

(***************************************************************************)
(* How much is written                                                     *)
(***************************************************************************)

\* The child may be about to write a line when a descendant writes the last one the
\* bound allows; nothing is captured that was not written, and only what was asked for.
CountInv ==
  /\ child \in {"none", "idle", "gone"} \cup Streams
  /\ \A s \in Streams :
       /\ captured[s] + Len(pipe[s]) <= written[s] /\ Len(pipe[s]) <= Capacity
       /\ written[s] <= IF child = s THEN MaxLines ELSE MaxLines + 1
       /\ s \notin capture => captured[s] = 0

\* Steps that write and read nothing
LEMMA CountKept ==
  ASSUME ProcessInv, CountInv, UNCHANGED <<capture, captured, written, pipe>>,
         \/ child' = child \/ child' \in {"idle", "gone"}
         \/ child' \in Streams /\ written[child'] < MaxLines
  PROVE  CountInv'
<1>1. written \in [Streams -> Nat]
  BY DEF ProcessInv, BaseInv
<1>2. ASSUME NEW s \in Streams
      PROVE  written[s] <= IF child' = s THEN MaxLines ELSE MaxLines + 1
  <2>1. written[s] \in Nat /\ written[s] <= IF child = s THEN MaxLines ELSE MaxLines + 1
    BY <1>1, <1>2 DEF CountInv
  <2>2. s # "idle" /\ s # "gone"
    BY <1>2 DEF Streams
  <2>3. QED BY <2>1, <2>2
<1>3. child' \in {"none", "idle", "gone"} \cup Streams
  BY DEF CountInv
<1>4. QED BY <1>2, <1>3 DEF CountInv

LEMMA CountRead ==
  ASSUME ProcessInv, CountInv, NEW s \in Streams, ReadLine(s)
  PROVE  CountInv'
<1>1. /\ Tail(pipe[s]) \in Seq({"text", "invalid"}) /\ Len(Tail(pipe[s])) = Len(pipe[s]) - 1
      /\ Len(pipe[s]) \in Nat
  BY HeadTailProperties DEF ReadLine, ProcessInv, BaseInv
<1>2. /\ pipe \in [Streams -> Seq({"text", "invalid"})] /\ captured \in [Streams -> Nat]
      /\ written \in [Streams -> Nat] /\ pipe' = [pipe EXCEPT ![s] = Tail(@)]
      /\ \/ captured' = captured
         \/ captured' = [captured EXCEPT ![s] = IF s \in capture THEN @ + 1 ELSE @]
      /\ UNCHANGED <<capture, child, written>>
  BY DEF ReadLine, ProcessInv, BaseInv, childVars
<1>3. ASSUME NEW r \in Streams
      PROVE  /\ captured'[r] + Len(pipe'[r]) <= written[r] /\ Len(pipe'[r]) <= Capacity
             /\ r \notin capture => captured'[r] = 0
  <2>1. /\ captured[r] + Len(pipe[r]) <= written[r] /\ Len(pipe[r]) <= Capacity
        /\ r \notin capture => captured[r] = 0
        /\ captured[r] \in Nat /\ written[r] \in Nat /\ Len(pipe[r]) \in Nat
    BY <1>2 DEF CountInv
  <2>2. CASE r # s
    BY <1>2, <2>1, <2>2
  <2>3. CASE r = s
    <3>1. Len(pipe'[r]) = Len(pipe[r]) - 1
      BY <1>1, <1>2, <2>3
    <3>2. captured'[r] = captured[r] \/ (r \in capture /\ captured'[r] = captured[r] + 1)
      <4>1. CASE captured' = captured
        BY <4>1
      <4>2. CASE captured' = [captured EXCEPT ![s] = IF s \in capture THEN @ + 1 ELSE @]
        <5>1. captured'[s] = IF s \in capture THEN captured[s] + 1 ELSE captured[s]
          BY <1>2, <4>2
        <5>2. QED BY <2>3, <5>1
      <4>3. QED BY <1>2, <4>1, <4>2
    <3>3. QED BY <2>1, <3>1, <3>2
  <2>4. QED BY <2>2, <2>3
<1>4. QED BY <1>2, <1>3 DEF CountInv

LEMMA CountWrite ==
  ASSUME ProcessInv, CountInv, NEW s \in Streams, NEW line \in {"text", "invalid"}, Write(s, line),
         UNCHANGED <<capture, captured>>,
         \/ child = s /\ child' = "idle"
         \/ child' = child /\ written[s] < MaxLines
  PROVE  CountInv'
<1>1. /\ Append(pipe[s], line) \in Seq({"text", "invalid"})
      /\ Len(Append(pipe[s], line)) = Len(pipe[s]) + 1 /\ Len(pipe[s]) \in Nat
  BY AppendProperties DEF ProcessInv, BaseInv
<1>2. /\ pipe \in [Streams -> Seq({"text", "invalid"})] /\ captured \in [Streams -> Nat]
      /\ written \in [Streams -> Nat] /\ pipe' = [pipe EXCEPT ![s] = Append(@, line)]
      /\ written' = [written EXCEPT ![s] = @ + 1] /\ Len(pipe[s]) < Capacity
  BY DEF Write, ProcessInv, BaseInv
<1>3. ASSUME NEW r \in Streams
      PROVE  /\ captured[r] + Len(pipe'[r]) <= written'[r] /\ Len(pipe'[r]) <= Capacity
             /\ written'[r] <= IF child' = r THEN MaxLines ELSE MaxLines + 1
  <2>1. /\ captured[r] + Len(pipe[r]) <= written[r] /\ Len(pipe[r]) <= Capacity
        /\ written[r] <= IF child = r THEN MaxLines ELSE MaxLines + 1
        /\ captured[r] \in Nat /\ written[r] \in Nat /\ Len(pipe[r]) \in Nat
    BY <1>2 DEF CountInv
  <2>2. CASE r # s
    <3>1. pipe'[r] = pipe[r] /\ written'[r] = written[r]
      BY <1>2, <2>2
    <3>2. child' = r => child = r
      BY DEF Streams
    <3>3. QED BY <2>1, <2>2, <3>1, <3>2
  <2>3. CASE r = s
    <3>1. Len(pipe'[r]) = Len(pipe[r]) + 1 /\ written'[r] = written[r] + 1 /\ Len(pipe[r]) < Capacity
      BY <1>1, <1>2, <2>3
    <3>2. "idle" \notin Streams
      BY DEF Streams
    <3>3. QED BY <2>1, <2>3, <3>1, <3>2
  <2>4. QED BY <2>2, <2>3
<1>4. QED BY <1>3 DEF CountInv, Streams

LEMMA CountStep == ProcessInv /\ CountInv /\ [ProcessNext]_streamVars => CountInv'
<1> SUFFICES ASSUME ProcessInv, CountInv, [ProcessNext]_streamVars PROVE CountInv'
  OBVIOUS
<1> USE DEF hpgVars, childVars, pipeVars
<1>1. CASE UNCHANGED streamVars
  BY <1>1, CountKept DEF streamVars
<1>2. CASE Spawn \/ Join
  BY <1>2, CountKept DEF Spawn, Join
<1>3. ASSUME NEW s \in Streams, ReadLine(s) \/ ReadEnd(s) PROVE CountInv'
  BY <1>3, CountKept, CountRead DEF ReadEnd
<1>4. ASSUME NEW s \in Streams, ChildPrints(s) \/ ChildCloses(s) PROVE CountInv'
  BY <1>4, CountKept DEF ChildPrints, ChildCloses
<1>5. CASE ChildWrites
  <2>1. PICK line \in {"text", "invalid"} : Write(child, line)
    BY <1>5 DEF ChildWrites
  <2>2. QED BY <1>5, <2>1, CountWrite DEF ChildWrites
<1>6. CASE ChildIsCutOff \/ ChildExits
  BY <1>6, CountKept DEF ChildIsCutOff, ChildExits, Exit
<1>7. CASE ChildForks
  BY <1>7, CountKept DEF ChildForks
<1>8. ASSUME NEW s \in Streams, DescendantWrites(s) PROVE CountInv'
  <2>1. PICK line \in {"text", "invalid"} : Write(s, line)
    BY <1>8 DEF DescendantWrites
  <2>2. QED BY <1>8, <2>1, CountWrite DEF DescendantWrites
<1>9. ASSUME NEW s \in Streams, DescendantCloses(s) PROVE CountInv'
  BY <1>9, CountKept DEF DescendantCloses
<1>10. QED
  BY <1>1, <1>2, <1>3, <1>4, <1>5, <1>6, <1>7, <1>8, <1>9 DEF ProcessNext, HpgStep, ChildStep

\* The variables keep their types: no pipe overflows, and nothing is captured of a stream
\* the options do not ask for.
THEOREM ProcessTypeCorrect == ProcessSpec => []ProcessTypeOK
<1>1. ProcessInit => CountInv
  BY EmptySeq DEF ProcessInit, CountInv, Streams
<1>2. ProcessInv /\ CountInv => ProcessTypeOK
  <2> SUFFICES ASSUME ProcessInv, CountInv PROVE ProcessTypeOK
    OBVIOUS
  <2>1. code \in [code : {0, 1, NoCode}, signal : {0, 9, 13}]
    BY DEF ProcessInv, BaseInv, Statuses, Running, Exited, Signalled, NoCode
  <2>2. ASSUME NEW s \in Streams
        PROVE  /\ captured[s] \in 0 .. MaxLines + 1 /\ written[s] \in 0 .. MaxLines + 1
               /\ Len(pipe[s]) <= Capacity /\ (s \notin capture => captured[s] = 0)
    <3>1. captured[s] \in Nat /\ written[s] \in Nat /\ Len(pipe[s]) \in Nat
      BY DEF ProcessInv, BaseInv
    <3>2. /\ captured[s] + Len(pipe[s]) <= written[s] /\ Len(pipe[s]) <= Capacity
          /\ written[s] <= MaxLines + 1 /\ (s \notin capture => captured[s] = 0)
      BY <3>1 DEF CountInv
    <3>3. QED BY <3>1, <3>2
  <2>3. captured \in [Streams -> 0 .. MaxLines + 1] /\ written \in [Streams -> 0 .. MaxLines + 1]
    BY <2>2 DEF ProcessInv, BaseInv
  <2>4. QED BY <2>1, <2>2, <2>3 DEF ProcessTypeOK, ProcessInv, BaseInv, CountInv
<1>3. QED BY <1>1, <1>2, ProcessInvariant, CountStep, PTL DEF ProcessSpec

(***************************************************************************)
(* Who waits for whom                                                      *)
(*                                                                         *)
(* What exec() rests on when it returns: hpg and the child never wait for  *)
(* each other but in one way, and neither goes on for ever.                *)
(***************************************************************************)

\* The conditions under which hpg and the child have a step to do
HpgGoesOn ==
  \/ main = "start"
  \/ main = "select" /\ \E s \in Streams : pipe[s] # <<>> \/ writers[s] = {}
  \/ main = "wait" /\ child = "gone"

ChildGoesOn ==
  \/ child = "idle"
  \/ child \in Streams /\ (main \in Ended \/ Len(pipe[child]) < Capacity)

\* The two ways in which exec() can hang although hpg and the child are scheduled.  The
\* child has closed one stream, hpg has left the loop at its end, and the child
\* waits to write to the other one, which is full and which nobody reads any more; or
\* the child has exited, and a descendant keeps both streams open without a word.
ChildWaitsForHpg ==
  /\ main = "wait" /\ child \in Streams /\ Len(pipe[child]) = Capacity
  /\ \E s \in Streams \ {child} : writers[s] = {} /\ pipe[s] = <<>>
HpgWaitsForDescendant ==
  /\ main = "select" /\ child = "gone"
  /\ \A s \in Streams : writers[s] = {"descendant"} /\ pipe[s] = <<>>

OnlyHangs ==
  main \notin Ended /\ ~ HpgGoesOn /\ ~ ChildGoesOn => ChildWaitsForHpg \/ HpgWaitsForDescendant

\* A child that keeps its streams is not waited for in vain.
NoMutualWait ==
  KeepsStreams /\ main \notin Ended =>
    HpgGoesOn \/ ChildGoesOn \/ HpgWaitsForDescendant

\* There is a child once hpg reads, and it is named in the streams' writers only while it lives.
LifeInv ==
  /\ child = "none" => main \in {"start", "error"}
  /\ child = "gone" => \A s \in Streams : "child" \notin writers[s]

LEMMA LifeStep == ProcessInv /\ LifeInv /\ [ProcessNext]_streamVars => LifeInv'
<1> SUFFICES ASSUME ProcessInv, LifeInv, [ProcessNext]_streamVars PROVE LifeInv'
  OBVIOUS
<1> USE DEF LifeInv, hpgVars, childVars, pipeVars
<1>0. /\ writers \in [Streams -> SUBSET {"child", "descendant"}]
      /\ "none" \notin Streams /\ "gone" \notin Streams
  BY DEF ProcessInv, BaseInv, Streams
<1>1. CASE UNCHANGED streamVars
  BY <1>1 DEF streamVars
<1>2. CASE HpgStep
  BY <1>2 DEF HpgStep, Spawn, ReadLine, ReadEnd, Join, Returned, Ended
<1>3. ASSUME NEW s \in Streams, ChildPrints(s) \/ ChildCloses(s) PROVE LifeInv'
  BY <1>0, <1>3 DEF ChildPrints, ChildCloses
<1>4. CASE ChildWrites
  BY <1>0, <1>4 DEF ChildWrites
<1>5. CASE ChildIsCutOff \/ ChildExits
  <2>1. child' = "gone" /\ writers' = [s \in Streams |-> writers[s] \ {"child"}]
    BY <1>5 DEF ChildIsCutOff, ChildExits, Exit
  <2>2. QED BY <2>1
<1>6. CASE ChildForks
  BY <1>6 DEF ChildForks
<1>7. ASSUME NEW s \in Streams, DescendantWrites(s) \/ DescendantCloses(s) PROVE LifeInv'
  BY <1>0, <1>7 DEF DescendantWrites, DescendantCloses
<1>8. QED BY <1>1, <1>2, <1>3, <1>4, <1>5, <1>6, <1>7 DEF ProcessNext, ChildStep

\* exec() hangs in no other way than these two, the first of which needs a child that
\* closes one of its streams long before it ends.
THEOREM ProcessOnlyHangs == ProcessSpec => [](OnlyHangs /\ NoMutualWait)
<1>1. ProcessInit => CountInv /\ LifeInv
  BY EmptySeq DEF ProcessInit, CountInv, LifeInv, Streams
<1>2. ProcessInv /\ CountInv /\ LifeInv => OnlyHangs
  <2> SUFFICES ASSUME ProcessInv, CountInv, LifeInv, main \notin Ended,
                      ~ HpgGoesOn, ~ ChildGoesOn
               PROVE  ChildWaitsForHpg \/ HpgWaitsForDescendant
    BY DEF OnlyHangs
  <2>1. main \in {"select", "wait"} /\ child \in {"gone"} \cup Streams
    BY DEF ProcessInv, BaseInv, CountInv, LifeInv, HpgGoesOn, ChildGoesOn, Ended
  <2>2. \A s \in Streams : Len(pipe[s]) \in Nat /\ Len(pipe[s]) <= Capacity
    BY DEF ProcessInv, BaseInv, CountInv
  <2>3. CASE main = "select"
    <3>1. \A s \in Streams : pipe[s] = <<>> /\ writers[s] # {}
      BY <2>3 DEF HpgGoesOn
    <3>2. child = "gone"
      <4>1. \A s \in Streams : Len(pipe[s]) < Capacity
        BY <3>1, EmptySeq
      <4>2. QED BY <2>1, <4>1 DEF ChildGoesOn
    <3>3. \A s \in Streams : writers[s] \subseteq {"child", "descendant"} /\ "child" \notin writers[s]
      BY <3>2 DEF ProcessInv, BaseInv, LifeInv
    <3>4. \A s \in Streams : writers[s] = {"descendant"}
      BY <3>1, <3>3
    <3>5. QED BY <2>3, <3>1, <3>2, <3>4 DEF HpgWaitsForDescendant
  <2>4. CASE main = "wait"
    <3>1. child \in Streams
      BY <2>1, <2>4 DEF HpgGoesOn
    <3>2. Len(pipe[child]) = Capacity
      BY <2>2, <3>1 DEF ChildGoesOn
    <3>3. PICK s \in Streams : writers[s] = {} /\ pipe[s] = <<>>
      BY <2>4 DEF ProcessInv, EndInv
    <3>4. s # child
      BY <3>1, <3>3 DEF ProcessInv, ChildInv
    <3>5. QED BY <2>4, <3>1, <3>2, <3>3, <3>4 DEF ChildWaitsForHpg
  <2>5. QED BY <2>1, <2>3, <2>4
<1>3. OnlyHangs => NoMutualWait
  BY DEF OnlyHangs, NoMutualWait, ChildWaitsForHpg, KeepsStreams, Alive
<1>4. QED BY <1>1, <1>2, <1>3, ProcessInvariant, CountStep, LifeStep, PTL DEF ProcessSpec

\* How much hpg and the child have to do: their stages, the lines that may still be written
\* (decided on, written and read), those to be read, and the streams the child may close.
MainLeft  == CASE main = "start" -> 8 [] main = "select" -> 2 [] main = "wait" -> 1 [] OTHER -> 0
ChildLeft == CASE child = "idle" -> 2 [] child \in Streams -> 1 [] OTHER -> 0
StreamLeft(s) ==
  3 * (MaxLines + 1 - written[s]) + Len(pipe[s]) + IF "child" \in writers[s] THEN 1 ELSE 0
ProcessWork == MainLeft + ChildLeft + StreamLeft("stdout") + StreamLeft("stderr")

LEMMA WorkTypes ==
  ASSUME ProcessInv, CountInv
  PROVE  /\ MainLeft \in {0, 1, 2, 8} /\ ChildLeft \in {0, 1, 2}
         /\ \A s \in Streams : written[s] \in 0 .. MaxLines + 1 /\ Len(pipe[s]) \in Nat
                                /\ StreamLeft(s) \in Nat
<1>1. MainLeft \in {0, 1, 2, 8} /\ ChildLeft \in {0, 1, 2}
  BY DEF MainLeft, ChildLeft
<1>2. ASSUME NEW s \in Streams
      PROVE  written[s] \in 0 .. MaxLines + 1 /\ Len(pipe[s]) \in Nat /\ StreamLeft(s) \in Nat
  <2>1. written[s] \in Nat /\ Len(pipe[s]) \in Nat
    BY DEF ProcessInv, BaseInv
  <2>2. written[s] <= MaxLines + 1
    BY <2>1 DEF CountInv
  <2>3. QED BY <2>1, <2>2 DEF StreamLeft
<1>3. QED BY <1>1, <1>2

\* Only one stream has changed.
LEMMA WorkOf ==
  ASSUME ProcessInv, CountInv, NEW s \in Streams, NEW d \in Nat,
         StreamLeft(s)' = StreamLeft(s) - d,
         \A r \in Streams \ {s} : StreamLeft(r)' = StreamLeft(r),
         MainLeft' \in Int, ChildLeft' \in Int
  PROVE  /\ ProcessWork \in Nat /\ ProcessWork' \in Int
         /\ ProcessWork' - ProcessWork = MainLeft' - MainLeft + ChildLeft' - ChildLeft - d
<1>1. StreamLeft("stdout") \in Nat /\ StreamLeft("stderr") \in Nat
      /\ MainLeft \in Nat /\ ChildLeft \in Nat
  BY WorkTypes DEF Streams
<1>2. CASE s = "stdout"
  <2>1. StreamLeft("stdout")' = StreamLeft("stdout") - d /\ StreamLeft("stderr")' = StreamLeft("stderr")
    BY <1>2 DEF Streams
  <2>2. QED BY <1>1, <2>1 DEF ProcessWork
<1>3. CASE s = "stderr"
  <2>1. StreamLeft("stderr")' = StreamLeft("stderr") - d /\ StreamLeft("stdout")' = StreamLeft("stdout")
    BY <1>3 DEF Streams
  <2>2. QED BY <1>1, <2>1 DEF ProcessWork
<1>4. QED BY <1>2, <1>3 DEF Streams

\* A stream of which nothing has changed, and the next stages
LEMMA WorkKept ==
  ASSUME NEW s \in Streams, UNCHANGED <<written[s], pipe[s]>>,
         "child" \in writers[s] <=> "child" \in writers'[s]
  PROVE  StreamLeft(s)' = StreamLeft(s)
BY DEF StreamLeft

LEMMA StageTypes == MainLeft' \in {0, 1, 2, 8} /\ ChildLeft' \in {0, 1, 2}
BY DEF MainLeft, ChildLeft

\* A step that leaves less to do
Descends == ProcessWork \in Nat /\ ProcessWork' \in Int /\ ProcessWork' < ProcessWork

LEMMA ReadWork ==
  ASSUME ProcessInv, CountInv, NEW s \in Streams, ReadLine(s)
  PROVE  Descends
<1>1. /\ Len(Tail(pipe[s])) = Len(pipe[s]) - 1 /\ Len(pipe[s]) \in Nat
      /\ pipe' = [pipe EXCEPT ![s] = Tail(@)] /\ pipe \in [Streams -> Seq({"text", "invalid"})]
      /\ main = "select" /\ main' \in {"select", "error"}
      /\ UNCHANGED <<child, writers, written>>
  BY HeadTailProperties DEF ReadLine, ProcessInv, BaseInv, childVars
<1>2. \A r \in Streams \ {s} : StreamLeft(r)' = StreamLeft(r)
  BY <1>1, WorkKept
<1>3. StreamLeft(s)' = StreamLeft(s) - 1
  <2>1. /\ Len(pipe'[s]) = Len(pipe[s]) - 1 /\ written[s] \in Nat
        /\ written'[s] = written[s] /\ writers'[s] = writers[s]
    BY <1>1, WorkTypes
  <2>2. Len(pipe[s]) \in Nat /\ MaxLines \in Nat
    BY <1>1, ProcessAssumption
  <2> DEFINE open == IF "child" \in writers[s] THEN 1 ELSE 0
  <2>3. /\ StreamLeft(s) = 3 * (MaxLines + 1 - written[s]) + Len(pipe[s]) + open
        /\ StreamLeft(s)' = 3 * (MaxLines + 1 - written'[s]) + Len(pipe'[s]) + open
    BY <2>1 DEF StreamLeft
  <2>4. PICK w, l, o \in Nat : w = written[s] /\ l = Len(pipe[s]) /\ o = open
    BY <2>1, <2>2
  <2> HIDE DEF open
  <2>5. /\ StreamLeft(s) = 3 * (MaxLines + 1 - w) + l + o
        /\ StreamLeft(s)' = 3 * (MaxLines + 1 - w) + (l - 1) + o
    BY <2>1, <2>3, <2>4
  <2>6. QED BY <2>2, <2>5
<1>4. MainLeft' <= MainLeft /\ ChildLeft' = ChildLeft
  BY <1>1 DEF MainLeft, ChildLeft
<1>5. /\ ProcessWork \in Nat /\ ProcessWork' \in Int
      /\ ProcessWork' - ProcessWork = MainLeft' - MainLeft + ChildLeft' - ChildLeft - 1
  BY <1>2, <1>3, WorkOf, StageTypes
<1>6. QED BY <1>4, <1>5, WorkTypes, StageTypes DEF Descends

LEMMA WriteWork ==
  ASSUME ProcessInv, CountInv, NEW s \in Streams, NEW line \in {"text", "invalid"}, Write(s, line),
         UNCHANGED <<main, writers>>, ChildLeft' - ChildLeft <= 1
  PROVE  Descends
<1>1. /\ Len(Append(pipe[s], line)) = Len(pipe[s]) + 1 /\ Len(pipe[s]) \in Nat
      /\ pipe' = [pipe EXCEPT ![s] = Append(@, line)] /\ written' = [written EXCEPT ![s] = @ + 1]
      /\ DOMAIN pipe = Streams /\ DOMAIN written = Streams
  BY AppendProperties DEF Write, ProcessInv, BaseInv
<1>2. \A r \in Streams \ {s} : StreamLeft(r)' = StreamLeft(r)
  BY <1>1, WorkKept
<1>3. StreamLeft(s)' = StreamLeft(s) - 2
  <2>1. /\ Len(pipe'[s]) = Len(pipe[s]) + 1 /\ written[s] \in Nat
        /\ written'[s] = written[s] + 1 /\ writers'[s] = writers[s]
    BY <1>1, WorkTypes
  <2>2. Len(pipe[s]) \in Nat /\ MaxLines \in Nat
    BY <1>1, ProcessAssumption
  <2> DEFINE open == IF "child" \in writers[s] THEN 1 ELSE 0
  <2>3. /\ StreamLeft(s) = 3 * (MaxLines + 1 - written[s]) + Len(pipe[s]) + open
        /\ StreamLeft(s)' = 3 * (MaxLines + 1 - written'[s]) + Len(pipe'[s]) + open
    BY <2>1 DEF StreamLeft
  <2>4. PICK w, l, o \in Nat : w = written[s] /\ l = Len(pipe[s]) /\ o = open
    BY <2>1, <2>2
  <2> HIDE DEF open
  <2>5. /\ StreamLeft(s) = 3 * (MaxLines + 1 - w) + l + o
        /\ StreamLeft(s)' = 3 * (MaxLines + 1 - (w + 1)) + (l + 1) + o
    BY <2>1, <2>3, <2>4
  <2>6. QED BY <2>2, <2>5
<1>4. MainLeft' = MainLeft
  BY DEF MainLeft
<1>5. /\ ProcessWork \in Nat /\ ProcessWork' \in Int
      /\ ProcessWork' - ProcessWork = MainLeft' - MainLeft + ChildLeft' - ChildLeft - 2
  BY <1>2, <1>3, WorkOf, StageTypes
<1>6. QED BY <1>4, <1>5, WorkTypes, StageTypes DEF Descends

\* Steps that neither read nor write, and do not give the child a stream
LEMMA StageWork ==
  ASSUME ProcessInv, CountInv, UNCHANGED <<written, pipe>>,
         \A s \in Streams : "child" \in writers'[s] => "child" \in writers[s]
  PROVE  /\ ProcessWork \in Nat /\ ProcessWork' \in Int
         /\ ProcessWork' - ProcessWork <= MainLeft' - MainLeft + ChildLeft' - ChildLeft
         /\ (\E s \in Streams : "child" \in writers[s] /\ "child" \notin writers'[s]) =>
              ProcessWork' - ProcessWork < MainLeft' - MainLeft + ChildLeft' - ChildLeft
<1>1. \A s \in Streams :
        /\ StreamLeft(s) \in Nat /\ StreamLeft(s)' \in Nat /\ StreamLeft(s)' <= StreamLeft(s)
        /\ "child" \in writers[s] /\ "child" \notin writers'[s] => StreamLeft(s)' < StreamLeft(s)
  BY WorkTypes, ProcessAssumption DEF StreamLeft
<1>2. "stdout" \in Streams /\ "stderr" \in Streams /\ \A s \in Streams : s = "stdout" \/ s = "stderr"
  BY DEF Streams
<1>3. PICK a, b \in Nat : a = StreamLeft("stdout") /\ b = StreamLeft("stderr")
  BY <1>1, <1>2
<1>4. PICK c, d \in Nat : c = StreamLeft("stdout")' /\ d = StreamLeft("stderr")'
  BY <1>1, <1>2
<1>5. /\ c <= a /\ d <= b
      /\ (\E s \in Streams : "child" \in writers[s] /\ "child" \notin writers'[s]) => c < a \/ d < b
  BY <1>1, <1>2, <1>3, <1>4
<1>6. PICK m, n, k, l \in Nat : m = MainLeft /\ n = MainLeft' /\ k = ChildLeft /\ l = ChildLeft'
  BY WorkTypes, StageTypes
<1>7. ProcessWork = m + k + a + b /\ ProcessWork' = n + l + c + d
  BY <1>3, <1>4, <1>6 DEF ProcessWork
<1>8. /\ (n + l + c + d) - (m + k + a + b) <= n - m + l - k
      /\ c < a \/ d < b => (n + l + c + d) - (m + k + a + b) < n - m + l - k
  BY <1>5
<1>9. /\ ProcessWork \in Nat /\ ProcessWork' \in Int
      /\ ProcessWork' - ProcessWork = (n + l + c + d) - (m + k + a + b)
      /\ MainLeft' - MainLeft + ChildLeft' - ChildLeft = n - m + l - k
  BY <1>6, <1>7
<1>10. QED BY <1>5, <1>8, <1>9

\* Every step of hpg and of the child, and every line of a descendant, leaves them less to do,
\* and no other step gives them more: the child and its descendants cannot keep the select loop busy
\* for ever, and exec() ends or hangs after a bounded number of rounds.
ProcessDescent ==
  /\ ProcessWork' <= ProcessWork
  /\ HpgStep \/ ChildStep \/ (\E s \in Streams : DescendantWrites(s)) => ProcessWork' < ProcessWork

LEMMA DescentStep == ProcessInv /\ CountInv /\ [ProcessNext]_streamVars => [ProcessDescent]_streamVars
<1> SUFFICES ASSUME ProcessInv, CountInv, ProcessNext PROVE ProcessDescent
  OBVIOUS
<1> USE DEF hpgVars, childVars, pipeVars
<1>0. /\ writers \in [Streams -> SUBSET {"child", "descendant"}]
      /\ "idle" \notin Streams /\ "gone" \notin Streams /\ "none" \notin Streams
  BY DEF ProcessInv, BaseInv, Streams
<1>a. Descends => ProcessDescent
  BY DEF Descends, ProcessDescent
<1>1. CASE Spawn
  <2>1. /\ main = "start" /\ MainLeft = 8 /\ MainLeft' <= 2 /\ ChildLeft' <= 2 /\ ChildLeft \in Nat
        /\ UNCHANGED <<written, pipe>>
    BY <1>1, StageTypes, WorkTypes DEF Spawn, MainLeft
  <2>2. ASSUME NEW s \in Streams
        PROVE  StreamLeft(s)' \in Int /\ StreamLeft(s)' <= StreamLeft(s) + 1
    <3>1. written'[s] = written[s] /\ pipe'[s] = pipe[s] /\ written[s] \in Nat /\ Len(pipe[s]) \in Nat
      BY <2>1, WorkTypes
    <3>2. QED BY <3>1, ProcessAssumption DEF StreamLeft
  <2>3. Descends
    <3>1. "stdout" \in Streams /\ "stderr" \in Streams
      BY DEF Streams
    <3>2. /\ StreamLeft("stdout")' \in Int /\ StreamLeft("stdout")' <= StreamLeft("stdout") + 1
          /\ StreamLeft("stderr")' \in Int /\ StreamLeft("stderr")' <= StreamLeft("stderr") + 1
      BY <2>2, <3>1
    <3>3. StreamLeft("stdout") \in Nat /\ StreamLeft("stderr") \in Nat
      BY <3>1, WorkTypes
    <3>4. QED BY <2>1, <3>2, <3>3, StageTypes DEF Descends, ProcessWork
  <2>4. QED BY <1>a, <2>3
<1>2. ASSUME NEW s \in Streams, ReadLine(s) PROVE ProcessDescent
  BY <1>a, <1>2, ReadWork
<1>3. ASSUME NEW s \in Streams, ReadEnd(s) \/ Join PROVE ProcessDescent
  <2>1. UNCHANGED <<child, writers, written, pipe>> /\ MainLeft' < MainLeft /\ ChildLeft' = ChildLeft
    <3>1. UNCHANGED <<child, writers, written, pipe>>
      BY <1>3 DEF ReadEnd, Join
    <3>2. MainLeft' < MainLeft
      <4>1. CASE ReadEnd(s)
        BY <4>1 DEF ReadEnd, MainLeft
      <4>2. CASE Join
        <5>1. main = "wait" /\ main' \notin {"start", "select", "wait"}
          BY <4>2 DEF Join, Judge
        <5>2. MainLeft = 1 /\ MainLeft' = 0
          BY <5>1 DEF MainLeft
        <5>3. QED BY <5>2
      <4>3. QED
        <5>1. ReadEnd(s) \/ Join
          BY <1>3
        <5>2. QED BY <4>1, <4>2, <5>1
    <3>3. QED BY <3>1, <3>2 DEF ChildLeft
  <2>2. QED BY <1>a, <2>1, StageWork, WorkTypes, StageTypes DEF Descends
<1>4. ASSUME NEW s \in Streams, ChildPrints(s) PROVE ProcessDescent
  <2>1. UNCHANGED <<main, writers, written, pipe>> /\ MainLeft' = MainLeft
        /\ ChildLeft = 2 /\ ChildLeft' = 1
    BY <1>0, <1>4 DEF ChildPrints, MainLeft, ChildLeft
  <2>2. QED BY <1>a, <2>1, StageWork, WorkTypes, StageTypes DEF Descends
<1>5. CASE ChildWrites
  <2>1. PICK line \in {"text", "invalid"} : Write(child, line)
    BY <1>5 DEF ChildWrites
  <2>2. child \in Streams /\ UNCHANGED <<main, writers>> /\ ChildLeft = 1 /\ ChildLeft' = 2
    BY <1>0, <1>5 DEF ChildWrites, ChildLeft
  <2>3. ChildLeft' - ChildLeft <= 1
    BY <2>2
  <2>4. QED BY <1>a, <2>1, <2>2, <2>3, WriteWork
<1>6. CASE ChildIsCutOff \/ ChildExits
  <2>1. /\ UNCHANGED <<main, written, pipe>> /\ MainLeft' = MainLeft
        /\ ChildLeft' = 0 /\ ChildLeft \in {1, 2}
        /\ \A s \in Streams : "child" \in writers'[s] => "child" \in writers[s]
    BY <1>0, <1>6 DEF ChildIsCutOff, ChildExits, Exit, MainLeft, ChildLeft
  <2>2. QED BY <1>a, <2>1, StageWork, WorkTypes, StageTypes DEF Descends
<1>7. ASSUME NEW s \in Streams, ChildCloses(s) PROVE ProcessDescent
  <2>1. /\ UNCHANGED <<main, child, written, pipe>> /\ MainLeft' = MainLeft /\ ChildLeft' = ChildLeft
        /\ "child" \in writers[s] /\ "child" \notin writers'[s]
        /\ \A r \in Streams : "child" \in writers'[r] => "child" \in writers[r]
    BY <1>0, <1>7 DEF ChildCloses, MainLeft, ChildLeft
  <2>2. QED BY <1>a, <2>1, StageWork, WorkTypes, StageTypes DEF Descends
<1>8. ASSUME ~ HpgStep, ~ ChildStep, \A s \in Streams : ~ DescendantWrites(s)
      PROVE  ProcessDescent
  <2>1. ChildForks \/ \E s \in Streams : DescendantCloses(s)
    BY <1>8 DEF ProcessNext
  <2>2. /\ UNCHANGED <<main, child, written, pipe>> /\ MainLeft' = MainLeft /\ ChildLeft' = ChildLeft
        /\ \A r \in Streams : "child" \in writers'[r] => "child" \in writers[r]
    BY <1>0, <2>1 DEF ChildForks, DescendantCloses, MainLeft, ChildLeft
  <2>3. ProcessWork' <= ProcessWork
    BY <2>2, StageWork, WorkTypes, StageTypes
  <2>4. QED BY <1>8, <2>3 DEF ProcessDescent
<1>9. ASSUME NEW s \in Streams, DescendantWrites(s) PROVE ProcessDescent
  <2>1. PICK line \in {"text", "invalid"} : Write(s, line)
    BY <1>9 DEF DescendantWrites
  <2>2. UNCHANGED <<main, child, writers>> /\ ChildLeft' - ChildLeft <= 1
    BY <1>9, WorkTypes DEF DescendantWrites, ChildLeft
  <2>3. QED BY <1>a, <2>1, <2>2, WriteWork
<1>10. QED
  BY <1>1, <1>2, <1>3, <1>4, <1>5, <1>6, <1>7, <1>8, <1>9 DEF HpgStep, ChildStep, Streams

\* What is left to do is a number, and only becomes less: a bound for the rounds of the select
\* loop and for the steps of the child.
THEOREM ProcessDescends == ProcessSpec => [](ProcessWork \in Nat) /\ [][ProcessDescent]_streamVars
<1>1. ProcessInit => CountInv
  BY EmptySeq DEF ProcessInit, CountInv, Streams
<1>2. ProcessInv /\ CountInv => ProcessWork \in Nat
  BY WorkTypes DEF ProcessWork, Streams
<1>3. QED BY <1>1, <1>2, ProcessInvariant, CountStep, DescentStep, PTL DEF ProcessSpec

(***************************************************************************)
(* The inductive invariant of the package functions                        *)
(***************************************************************************)

Unready == {"check", "status", "remove"}
Answering == {"checked", "known", "verified"}

\* The truth about the packages asked for
Truth == {<<n, Status(db[n])>> : n \in Named(wanted)}

PkgTyped ==
  /\ manager \in {"apt", "arch"}
  /\ db \in [Names -> States(manager)] /\ before \in [Names -> States(manager)]
  /\ foreign \subseteq Names
  /\ index \in {"stale", "fresh"} /\ updated \in BOOLEAN
  /\ op \in {"none", "update", "status", "install", "ensure", "remove"}
  /\ pc \in {"idle", "verify"} \cup Unready \cup Answering
  /\ args \in Seq(Requests) /\ wanted \subseteq DOMAIN args
  /\ asked \subseteq Names /\ \A line \in answer : line.name \in asked
  /\ result.status \in {"none", "ok", "error"} /\ result.updated \in BOOLEAN
  /\ collateral \in BOOLEAN /\ calls \in 0..MaxCalls

\* Which function is where
PlaceInv ==
  /\ pc \in {"check", "checked"} => op = "ensure"
  /\ pc \in {"status", "known"} => op \in {"install", "ensure"}
  /\ pc = "remove" => op = "remove"
  /\ pc \in {"verify", "verified"} => op \in {"status", "install", "ensure", "remove"}
  /\ pc \in {"status", "remove", "verify"} => wanted # {}

AnswerInv ==
  pc \in Answering =>
    /\ asked = Named(wanted)
    /\ OneLineEach(asked) => {<<line.name, line.status>> : line \in answer} = Truth

\* Until the package manager is called, the database is as it was.
BeforeInv == pc \in Unready \cup {"checked", "known"} => db = before

\* install() and remove() are about all of their arguments, ensure() about what was missing.
WantedInv ==
  /\ pc \in {"check", "checked"} => wanted = DOMAIN args
  /\ pc # "idle" /\ op \in {"install", "remove"} => wanted = DOMAIN args
  /\ pc \in {"status", "known", "verify", "verified"} /\ op = "ensure" =>
       /\ wanted # {}
       /\ OneLineEach(Named(DOMAIN args)) =>
            wanted = {i \in DOMAIN args : before[args[i].name] \notin Versions}

\* After call_install: what was there is still there, and in the version asked for first.
InstalledInv ==
  pc \in {"verify", "verified"} /\ ~ collateral /\ OneLineEach(Named(DOMAIN args)) =>
    /\ op = "ensure" => \A i \in DOMAIN args \ wanted : db[args[i].name] \in Versions
    /\ op = "install" => \A i \in DOMAIN args :
         FirstFor(i) /\ db[args[i].name] \in Versions => args[i].version \in {Any, db[args[i].name]}

PkgInv ==
  /\ PkgTyped /\ PlaceInv /\ AnswerInv /\ BeforeInv /\ WantedInv /\ InstalledInv
  /\ CallsEffective /\ EnsureIdempotent

(***************************************************************************)
(* Queries                                                                 *)
(***************************************************************************)

LEMMA StatusFacts ==
  ASSUME NEW m \in {"apt", "arch"}, NEW s \in States(m)
  PROVE  /\ Status(s) \in Versions \cup {"notinstalled", "requested"}
         /\ s \in Versions => Status(s) = s
         /\ s \notin Versions => Status(s) \in {"notinstalled", "requested"}
         /\ Status(s) \in Versions <=> s \in Versions
         /\ Status(s) \in {"notinstalled", "requested"} <=> s \notin Versions
BY DEF States, Status, Versions

\* No query about names of one architecture prints more lines than it was asked about,
\* so an answer with as many is all that it printed.
LEMMA FullAnswer ==
  ASSUME PkgTyped, OneLineEach(Named(wanted)), NEW other,
         NEW lines \in SUBSET (Stdout(other) \cup Stderr), Cardinality(lines) = Cardinality(wanted)
  PROVE  lines = Stdout(other) \cup Stderr
<1> DEFINE All == Stdout(other) \cup Stderr
           found(i) == [name |-> args[i].name, arch |-> "own", status |-> Status(db[args[i].name]), at |-> 0]
           missing(i) == [name |-> args[i].name, arch |-> "none", status |-> "notinstalled",
                          at |-> IF manager = "apt" THEN i ELSE 0]
           print == [i \in wanted |-> IF db[args[i].name] # "absent" THEN found(i) ELSE missing(i)]
<1>1. IsFiniteSet(wanted)
  <2>1. args \in Seq(Requests) /\ wanted \subseteq DOMAIN args
    BY DEF PkgTyped
  <2>2. Len(args) \in Nat /\ wanted \subseteq 1 .. Len(args)
    BY <2>1, LenProperties
  <2>3. IsFiniteSet(1 .. Len(args))
    BY <2>2, FS_Interval
  <2>4. QED BY <2>2, <2>3, FS_Subset
<1>2. Stdout(other) = {found(i) : i \in {j \in wanted : db[args[j].name] # "absent"}}
  BY DEF Stdout, Named, OneLineEach
<1>3. Stderr = {missing(i) : i \in {j \in wanted : db[args[j].name] = "absent"}}
  BY DEF Stderr, Named, OneLineEach
<1> HIDE DEF found, missing
<1>4. \A i \in wanted : print[i] \in All
  BY <1>2, <1>3
<1>5. \A line \in All : \E i \in wanted : print[i] = line
  BY <1>2, <1>3
<1> HIDE DEF All
<1>6. print \in Surjection(wanted, All)
  <2>1. print \in [wanted -> All]
    BY <1>4
  <2> HIDE DEF print
  <2>2. QED BY <1>5, <2>1 DEF Surjection
<1> HIDE DEF print
<1>7. IsFiniteSet(All) /\ Cardinality(All) <= Cardinality(wanted)
  BY <1>1, <1>6, FS_Surjection
<1>8. Cardinality(lines) <= Cardinality(All) /\ (Cardinality(All) = Cardinality(lines) => All = lines)
  BY <1>7, FS_Subset DEF All
<1>9. Cardinality(All) \in Nat /\ Cardinality(wanted) \in Nat
  BY <1>1, <1>7, FS_CardinalityType
<1> DEFINE ca == Cardinality(All)
           cw == Cardinality(wanted)
           cl == Cardinality(lines)
<1>10. ca \in Nat /\ cw \in Nat /\ cl = cw /\ ca <= cw /\ cl <= ca
  BY <1>7, <1>8, <1>9
<1> HIDE DEF ca, cw, cl
<1>11. ca = cl
  BY <1>10
<1>12. QED BY <1>8, <1>11 DEF ca, cl, All

\* ... and all that is printed is true.
LEMMA PrintedTruth ==
  ASSUME PkgTyped, OneLineEach(Named(wanted)), NEW other
  PROVE  {<<line.name, line.status>> : line \in Stdout(other) \cup Stderr} = Truth
<1> DEFINE Pairs == {<<line.name, line.status>> : line \in Stdout(other) \cup Stderr}
<1>1. \A n \in Named(wanted) : db[n] = "absent" => Status(db[n]) = "notinstalled"
  BY DEF Status, Versions
<1>2. ASSUME NEW line \in Stdout(other) \cup Stderr
      PROVE  line.name \in Named(wanted) /\ line.status = Status(db[line.name])
  <2>1. CASE line \in Stdout(other)
    BY <2>1 DEF Stdout, OneLineEach
  <2>2. CASE line \in Stderr
    <3>1. PICK i \in wanted : db[args[i].name] = "absent" /\ line.name = args[i].name /\ line.status = "notinstalled"
      BY <2>2 DEF Stderr
    <3>2. QED BY <1>1, <3>1 DEF Named
  <2>3. QED BY <2>1, <2>2
<1>3. ASSUME NEW n \in Named(wanted)
      PROVE  \E line \in Stdout(other) \cup Stderr : line.name = n /\ line.status = Status(db[n])
  <2>1. CASE db[n] # "absent"
    <3>1. [name |-> n, arch |-> "own", status |-> Status(db[n]), at |-> 0] \in Stdout(other)
      BY <2>1 DEF Stdout, OneLineEach
    <3>2. QED BY <3>1
  <2>2. CASE db[n] = "absent"
    <3>1. PICK i \in wanted : n = args[i].name
      BY DEF Named
    <3>2. [name |-> n, arch |-> "none", status |-> "notinstalled", at |-> IF manager = "apt" THEN i ELSE 0] \in Stderr
      BY <2>2, <3>1 DEF Stderr, OneLineEach, Named
    <3>3. QED BY <1>1, <2>2, <3>2
  <2>3. QED BY <2>1, <2>2
<1>4. Pairs \subseteq Truth
  BY <1>2 DEF Truth
<1>5. Truth \subseteq Pairs
  BY <1>3 DEF Truth
<1>6. QED BY <1>4, <1>5

\* Whatever is read is about packages that were asked for.
LEMMA ReadNames ==
  ASSUME NEW lines \in Readings
  PROVE  \A line \in lines : line.name \in Named(wanted)
<1>1. PICK other : lines \in SUBSET (Stdout(other) \cup Stderr)
  BY DEF Readings
<1>2. \A line \in Stdout(other) : line.name \in Named(wanted)
  BY DEF Stdout
<1>3. \A line \in Stderr : line.name \in Named(wanted)
  BY DEF Stderr, Named
<1>4. QED BY <1>1, <1>2, <1>3

\* What an accepted answer says
LEMMA AnswerFacts ==
  ASSUME PkgTyped, AnswerInv, pc \in Answering, OneLineEach(Named(wanted))
  PROVE  /\ \A line \in answer : line.name \in Named(wanted) /\ line.status = Status(db[line.name])
         /\ \A n \in Named(wanted) : \E line \in answer : line.name = n /\ line.status = Status(db[n])
<1> DEFINE Pairs == {<<line.name, line.status>> : line \in answer}
<1>1. Pairs = Truth
  BY DEF AnswerInv, Answering
<1>2. ASSUME NEW line \in answer
      PROVE  line.name \in Named(wanted) /\ line.status = Status(db[line.name])
  <2>1. <<line.name, line.status>> \in Truth
    BY <1>1
  <2>2. PICK n \in Named(wanted) : <<line.name, line.status>> = <<n, Status(db[n])>>
    BY <2>1 DEF Truth
  <2>3. QED BY <2>2
<1>3. ASSUME NEW n \in Named(wanted)
      PROVE  \E line \in answer : line.name = n /\ line.status = Status(db[n])
  <2>1. <<n, Status(db[n])>> \in Pairs
    BY <1>1 DEF Truth
  <2>2. PICK line \in answer : <<n, Status(db[n])>> = <<line.name, line.status>>
    BY <2>1
  <2>3. QED BY <2>2
<1>4. QED BY <1>2, <1>3

LEMMA AnsweredFacts ==
  ASSUME PkgTyped, AnswerInv, pc \in Answering, OneLineEach(Named(wanted)), NEW S
  PROVE  \A n : n \in Answered(S) <=> n \in Named(wanted) /\ Status(db[n]) \in S
<1>1. /\ \A line \in answer : line.name \in Named(wanted) /\ line.status = Status(db[line.name])
      /\ \A n \in Named(wanted) : \E line \in answer : line.name = n /\ line.status = Status(db[n])
  BY AnswerFacts
<1>2. QED BY <1>1 DEF Answered

\* Names of one architecture or not, the answer is about what was asked for.
LEMMA AnsweredNames ==
  ASSUME PkgTyped, AnswerInv, pc \in Answering
  PROVE  /\ \A line \in answer : line.name \in Named(wanted)
         /\ \A S : Answered(S) \subseteq Named(wanted)
BY DEF PkgTyped, AnswerInv, Answered

(***************************************************************************)
(* Requests                                                                *)
(***************************************************************************)

LEMMA NamesTyped ==
  ASSUME PkgTyped
  PROVE  /\ \A i \in DOMAIN args : args[i] \in Requests /\ args[i].name \in Names
         /\ Named(wanted) \subseteq Named(DOMAIN args) /\ Named(DOMAIN args) \subseteq Names
         /\ OneLineEach(Named(DOMAIN args)) => OneLineEach(Named(wanted))
<1>1. args \in Seq(Requests) /\ wanted \subseteq DOMAIN args
  BY DEF PkgTyped
<1>2. \A i \in DOMAIN args : args[i] \in Requests
  BY <1>1, ElementOfSeq, LenProperties
<1>3. \A i \in DOMAIN args : args[i].name \in Names
  BY <1>2 DEF Requests
<1>4. Named(wanted) \subseteq Named(DOMAIN args) /\ Named(DOMAIN args) \subseteq Names
  BY <1>1, <1>3 DEF Named
<1>5. QED BY <1>2, <1>3, <1>4 DEF OneLineEach

\* The request for a name is the first one with it.
LEMMA RequestFacts ==
  ASSUME PkgTyped, NEW n \in Named(wanted)
  PROVE  \E i \in wanted : args[i].name = n /\ IsFirst(i) /\ RequestFor(n) = args[i]
<1> DEFINE S == {i \in wanted : args[i].name = n}
           Less == OpToRel(<, Nat)
<1>1. S # {} /\ S \subseteq wanted
  BY DEF Named
<1>2. S \in SUBSET Nat
  <2>1. DOMAIN args \subseteq Nat /\ wanted \subseteq DOMAIN args
    BY LenProperties DEF PkgTyped
  <2>2. QED BY <2>1
<1>3. \A i, j \in Nat : <<i, j>> \in Less <=> i < j
  BY DEF OpToRel
<1>4. IsWellFoundedOn(Less, Nat)
  BY NatLessThanWellFounded
<1> HIDE DEF Less, S
<1>5. PICK i \in S : \A j \in S : ~ (<<j, i>> \in Less)
  BY <1>1, <1>2, <1>4, WFMin
<1>6. ASSUME NEW j \in S PROVE i <= j
  <2>1. i \in Nat /\ j \in Nat /\ ~ (j < i)
    BY <1>2, <1>3, <1>5
  <2>2. QED BY <2>1
<1>7. i \in wanted /\ args[i].name = n /\ IsFirst(i)
  <2>1. i \in wanted /\ args[i].name = n
    BY <1>5 DEF S
  <2>2. \A j \in wanted : args[j].name = args[i].name => j \in S
    BY <2>1 DEF S
  <2>3. QED BY <1>6, <2>1, <2>2 DEF IsFirst
<1> DEFINE P(j) == args[j].name = n /\ IsFirst(j)
           c == CHOOSE j \in wanted : P(j)
<1>8. c \in wanted /\ P(c)
  BY <1>7
<1>9. RequestFor(n) = args[c]
  BY DEF RequestFor
<1>10. QED BY <1>8, <1>9

LEMMA RequestTyped ==
  ASSUME PkgTyped, NEW n \in Named(wanted)
  PROVE  RequestFor(n) \in Requests /\ RequestFor(n).name = n
<1>1. PICK i \in wanted : args[i].name = n /\ RequestFor(n) = args[i]
  BY RequestFacts
<1>2. i \in DOMAIN args
  BY DEF PkgTyped
<1>3. QED BY <1>1, <1>2, NamesTyped

\* Of the requests of the script, if all of them are looked at
LEMMA FirstRequest ==
  ASSUME PkgTyped, wanted = DOMAIN args, NEW i \in DOMAIN args, FirstFor(i)
  PROVE  RequestFor(args[i].name) = args[i]
<1>1. args[i].name \in Named(wanted)
  BY DEF Named
<1>2. PICK j \in wanted : args[j].name = args[i].name /\ IsFirst(j) /\ RequestFor(args[i].name) = args[j]
  BY <1>1, RequestFacts
<1>3. DOMAIN args = 1 .. Len(args) /\ Len(args) \in Nat
  BY LenProperties DEF PkgTyped
<1>4. j <= i
  BY <1>2 DEF IsFirst
<1>5. ~ (j < i)
  <2> SUFFICES ASSUME j < i PROVE FALSE
    OBVIOUS
  <2>1. j \in 1 .. i - 1
    BY <1>3
  <2>2. QED BY <1>2, <2>1 DEF FirstFor
<1>6. i = j
  BY <1>3, <1>4, <1>5
<1>7. QED BY <1>2, <1>6

\* The packages that are to be installed
ToInstallNames == {req.name : req \in ToInstall}

LEMMA ToInstallFacts ==
  ASSUME PkgTyped, AnswerInv, pc \in Answering
  PROVE  /\ ToInstallNames \subseteq Named(wanted) /\ ToInstallNames \subseteq Names
         /\ ToInstall = {} <=> ToInstallNames = {}
         /\ \A req \in ToInstall : req \in Requests /\ RequestFor(req.name) = req
         /\ OneLineEach(Named(wanted)) => \A n \in Named(wanted) :
              n \in ToInstallNames <=> \/ db[n] \notin Versions
                                       \/ RequestFor(n).version \notin {Any, db[n]}
<1> DEFINE due(line) == line.status \notin Versions \/ RequestFor(line.name).version \notin {Any, line.status}
<1>1. \A line \in answer : line.name \in Named(wanted)
  BY AnsweredNames
<1>2. ToInstall = {RequestFor(line.name) : line \in {l \in answer : due(l)}}
  BY DEF ToInstall
<1>3. \A n \in Named(wanted) : RequestFor(n) \in Requests /\ RequestFor(n).name = n
  BY RequestTyped
<1>4. \A n \in Named(wanted) : /\ n \in Names
                               /\ Status(db[n]) \in Versions <=> db[n] \in Versions
                               /\ db[n] \in Versions => Status(db[n]) = db[n]
  <2> SUFFICES ASSUME NEW n \in Named(wanted)
               PROVE  /\ n \in Names
                      /\ Status(db[n]) \in Versions <=> db[n] \in Versions
                      /\ db[n] \in Versions => Status(db[n]) = db[n]
    OBVIOUS
  <2>1. n \in Names
    BY NamesTyped
  <2>2. db[n] \in States(manager) /\ manager \in {"apt", "arch"}
    BY <2>1 DEF PkgTyped
  <2>3. QED BY <2>1, <2>2, StatusFacts
<1>5. ASSUME OneLineEach(Named(wanted))
      PROVE  /\ \A n \in Named(wanted) : \E line \in answer : line.name = n
             /\ \A line \in answer : due(line) <=> \/ db[line.name] \notin Versions
                                                  \/ RequestFor(line.name).version \notin {Any, db[line.name]}
  <2>1. /\ \A line \in answer : line.name \in Named(wanted) /\ line.status = Status(db[line.name])
        /\ \A n \in Named(wanted) : \E line \in answer : line.name = n /\ line.status = Status(db[n])
    BY <1>5, AnswerFacts
  <2>2. QED BY <1>4, <2>1
<1> HIDE DEF due
<1>6. \A req \in ToInstall : \E line \in answer : due(line) /\ req = RequestFor(line.name)
  BY <1>2
<1>7. \A line \in answer : due(line) => RequestFor(line.name) \in ToInstall
  BY <1>2
<1>8. \A req \in ToInstall : req \in Requests /\ RequestFor(req.name) = req /\ req.name \in Named(wanted)
  BY <1>1, <1>3, <1>6
<1>9. ToInstallNames \subseteq Named(wanted) /\ ToInstallNames \subseteq Names
  BY <1>4, <1>8 DEF ToInstallNames
<1>10. ToInstall = {} <=> ToInstallNames = {}
  BY DEF ToInstallNames
<1>11. ASSUME OneLineEach(Named(wanted)), NEW n \in Named(wanted)
       PROVE  n \in ToInstallNames <=> db[n] \notin Versions \/ RequestFor(n).version \notin {Any, db[n]}
  <2>1. ASSUME n \in ToInstallNames
        PROVE  db[n] \notin Versions \/ RequestFor(n).version \notin {Any, db[n]}
    <3>1. PICK req \in ToInstall : n = req.name
      BY <2>1 DEF ToInstallNames
    <3>2. PICK line \in answer : due(line) /\ req = RequestFor(line.name)
      BY <1>6
    <3>3. line.name = n
      BY <1>1, <1>3, <3>1, <3>2
    <3>4. QED BY <1>5, <1>11, <3>2, <3>3
  <2>2. ASSUME db[n] \notin Versions \/ RequestFor(n).version \notin {Any, db[n]}
        PROVE  n \in ToInstallNames
    <3>1. PICK line \in answer : line.name = n
      BY <1>5, <1>11
    <3>2. RequestFor(n) \in ToInstall
      BY <1>5, <1>7, <1>11, <2>2, <3>1
    <3>3. QED BY <1>3, <3>2 DEF ToInstallNames
  <2>3. QED BY <2>1, <2>2
<1>12. QED BY <1>8, <1>9, <1>10, <1>11

(***************************************************************************)
(* The steps                                                               *)
(***************************************************************************)

LEMMA PkgInitially == PkgInit => PkgInv
<1> SUFFICES ASSUME PkgInit PROVE PkgInv
  OBVIOUS
<1>1. pc = "idle" /\ op = "none"
  BY DEF PkgInit
<1>2. PkgTyped
  <2>1. args \in Seq(Requests) /\ wanted \subseteq DOMAIN args
    BY EmptySeq DEF PkgInit
  <2>2. calls \in 0 .. MaxCalls
    BY PackagesAssumption DEF PkgInit
  <2>3. /\ manager \in {"apt", "arch"}
        /\ db \in [Names -> States(manager)] /\ before \in [Names -> States(manager)]
        /\ foreign \subseteq Names /\ index \in {"stale", "fresh"} /\ updated \in BOOLEAN
        /\ asked \subseteq Names /\ \A line \in answer : line.name \in asked
        /\ collateral \in BOOLEAN
    BY DEF PkgInit
  <2>4. result.status = "none" /\ result.updated = FALSE
    BY DEF PkgInit, NoResult
  <2>5. QED BY <1>1, <2>1, <2>2, <2>3, <2>4 DEF PkgTyped
<1>3. PlaceInv /\ AnswerInv /\ BeforeInv /\ WantedInv /\ InstalledInv
  BY <1>1 DEF PlaceInv, AnswerInv, BeforeInv, WantedInv, InstalledInv, Unready, Answering
<1>4. CallsEffective /\ EnsureIdempotent
  BY <1>1 DEF CallsEffective, EnsureIdempotent, Succeeded
<1>5. QED BY <1>2, <1>3, <1>4 DEF PkgInv

\* Inside of a call there is nothing to be shown of what calls return.
LEMMA BusyInv ==
  ASSUME PkgTyped', PlaceInv', AnswerInv', BeforeInv', WantedInv', InstalledInv', pc' # "idle"
  PROVE  PkgInv'
BY DEF PkgInv, CallsEffective, EnsureIdempotent, Succeeded

\* After it there is nothing else.
LEMMA ReturnInv ==
  ASSUME PkgTyped', CallsEffective', EnsureIdempotent', pc' = "idle"
  PROVE  PkgInv'
BY DEF PkgInv, PlaceInv, AnswerInv, BeforeInv, WantedInv, InstalledInv, Unready, Answering

\* Of calls with names of a second architecture nothing is said.
LEMMA ExceptedInv ==
  ASSUME PkgTyped', pc' = "idle", ~ OneLineEach(Named(DOMAIN args)), UNCHANGED <<args, foreign>>
  PROVE  PkgInv'
<1>1. ~ OneLineEach(Named(DOMAIN args))'
  BY DEF OneLineEach, Named
<1>2. CallsEffective' /\ EnsureIdempotent'
  BY <1>1 DEF CallsEffective, EnsureIdempotent, Succeeded
<1>3. QED BY <1>2, ReturnInv

LEMMA FailInv ==
  ASSUME PkgTyped', pc' = "idle", result' = Failed
  PROVE  PkgInv'
<1>1. CallsEffective' /\ EnsureIdempotent'
  BY DEF CallsEffective, EnsureIdempotent, Succeeded, Failed
<1>2. QED BY <1>1, ReturnInv

LEMMA ResultTypes ==
  /\ Failed.status = "error" /\ Failed.updated = FALSE
  /\ \A u \in BOOLEAN : Ok(u).status = "ok" /\ Ok(u).updated = u
BY DEF Failed, Ok

LEMMA UpdateKeeps ==
  ASSUME PkgInv, UpdateSkipped \/ UpdateRepos PROVE PkgInv'
<1>1. /\ pc' = "idle" /\ op' = "update" /\ args' = <<>> /\ wanted' = {} /\ asked' = {} /\ answer' = {}
      /\ before' = db /\ collateral' = FALSE /\ calls' = calls + 1 /\ calls < MaxCalls
      /\ manager' = manager /\ db' = db /\ foreign' = foreign
      /\ index' \in {index, "fresh"} /\ updated' \in BOOLEAN
      /\ result' \in {Failed, Ok(TRUE), Ok(FALSE)}
  BY DEF UpdateSkipped, UpdateRepos, Begin, Return, PkgInv, PkgTyped
<1>2. PkgTyped'
  <2>1. calls' \in 0 .. MaxCalls
    BY <1>1, PackagesAssumption DEF PkgInv, PkgTyped
  <2>2. args' \in Seq(Requests)
    BY <1>1, EmptySeq
  <2>3. result'.status \in {"none", "ok", "error"} /\ result'.updated \in BOOLEAN
    BY <1>1, ResultTypes
  <2>4. QED BY <1>1, <2>1, <2>2, <2>3 DEF PkgInv, PkgTyped
<1>3. CallsEffective' /\ EnsureIdempotent'
  BY <1>1 DEF CallsEffective, EnsureIdempotent, Succeeded
<1>4. QED BY <1>1, <1>2, <1>3, ReturnInv

LEMMA ListTypes ==
  ASSUME NEW reqs \in Lists
  PROVE  reqs \in Seq(Requests) /\ DOMAIN reqs # {}
<1>1. PICK k \in 1 .. MaxReqs : reqs \in [1 .. k -> Requests]
  BY DEF Lists
<1>2. k \in Nat /\ 1 \in 1 .. k
  BY <1>1, PackagesAssumption
<1>3. reqs = [i \in 1 .. k |-> reqs[i]] /\ \A i \in 1 .. k : reqs[i] \in Requests
  BY <1>1
<1>4. [i \in 1 .. k |-> reqs[i]] \in Seq(Requests)
  BY <1>2, <1>3, IsASeq
<1>5. reqs \in Seq(Requests)
  BY <1>3, <1>4, Zenon
<1>6. DOMAIN reqs = 1 .. k
  BY <1>1
<1>7. QED BY <1>2, <1>5, <1>6

LEMMA CallKeeps ==
  ASSUME PkgInv, NEW f \in {"status", "install", "ensure", "remove"}, NEW reqs \in Seq(Requests),
         DOMAIN reqs # {}, Begin(f), args' = reqs, wanted' = DOMAIN reqs,
         \/ f = "status" /\ pc' = "verify"
         \/ f = "install" /\ pc' = "status"
         \/ f = "ensure" /\ pc' = "check"
         \/ f = "remove" /\ pc' = "remove",
         UNCHANGED <<manager, db, foreign, index, updated, result>>
  PROVE  PkgInv'
<1>1. /\ op' = f /\ asked' = {} /\ answer' = {} /\ before' = db /\ collateral' = FALSE
      /\ calls' = calls + 1 /\ calls < MaxCalls
  BY DEF Begin
<1>2. \/ f = "status" /\ pc' = "verify"
      \/ f = "install" /\ pc' = "status"
      \/ f = "ensure" /\ pc' = "check"
      \/ f = "remove" /\ pc' = "remove"
  OBVIOUS
<1>3. PkgTyped'
  <2>1. calls' \in 0 .. MaxCalls
    BY <1>1, PackagesAssumption DEF PkgInv, PkgTyped
  <2>2. pc' \in {"idle", "verify"} \cup Unready \cup Answering
    BY <1>2 DEF Unready
  <2>3. QED BY <1>1, <2>1, <2>2 DEF PkgInv, PkgTyped
<1>4. PlaceInv' /\ WantedInv'
  BY <1>1, <1>2 DEF PlaceInv, WantedInv
<1>5. AnswerInv' /\ BeforeInv' /\ InstalledInv'
  BY <1>1, <1>2 DEF AnswerInv, BeforeInv, InstalledInv, Answering
<1>6. QED BY <1>2, <1>3, <1>4, <1>5, BusyInv

LEMMA StartKeeps ==
  ASSUME PkgInv,
         \/ \E n \in Names : CallStatus(n)
         \/ \E reqs \in Lists : CallInstall(reqs) \/ CallEnsure(reqs) \/ CallRemove(reqs)
  PROVE  PkgInv'
<1>1. ASSUME NEW n \in Names, CallStatus(n) PROVE PkgInv'
  <2> DEFINE req == [name |-> n, version |-> Any]
             reqs == <<req>>
  <2>1. req \in Requests
    BY DEF Requests
  <2> HIDE DEF req
  <2>2. reqs \in Seq(Requests) /\ DOMAIN reqs = {1}
    BY <2>1
  <2>3. /\ Begin("status") /\ pc' = "verify" /\ args' = reqs /\ wanted' = {1}
        /\ UNCHANGED <<manager, db, foreign, index, updated, result>>
    BY <1>1 DEF CallStatus, req
  <2> HIDE DEF reqs
  <2>4. DOMAIN reqs # {} /\ wanted' = DOMAIN reqs
    BY <2>2, <2>3
  <2>5. QED BY <2>2, <2>3, <2>4, CallKeeps
<1>2. ASSUME NEW reqs \in Lists, CallInstall(reqs) PROVE PkgInv'
  BY <1>2, ListTypes, CallKeeps DEF CallInstall
<1>3. ASSUME NEW reqs \in Lists, CallEnsure(reqs) PROVE PkgInv'
  BY <1>3, ListTypes, CallKeeps DEF CallEnsure
<1>4. ASSUME NEW reqs \in Lists, CallRemove(reqs) PROVE PkgInv'
  BY <1>4, ListTypes, CallKeeps DEF CallRemove
<1>5. QED BY <1>1, <1>2, <1>3, <1>4

LEMMA QueryKeeps ==
  ASSUME PkgInv, Query PROVE PkgInv'
<1>1. /\ PkgTyped /\ PlaceInv /\ BeforeInv /\ WantedInv /\ InstalledInv
      /\ pc \in {"check", "status", "verify"}
      /\ UNCHANGED <<manager, db, foreign, index, updated, op, args, wanted, before, collateral, calls>>
  BY DEF PkgInv, Query
<1>2. PICK lines \in Readings :
        /\ asked' = Named(wanted)
        /\ IF Cardinality(lines) = Cardinality(wanted)
           THEN answer' = lines /\ pc' = After /\ UNCHANGED result
           ELSE answer' = {} /\ Return(Failed)
  BY DEF Query, Ask
<1>3. Named(wanted) \subseteq Names
  BY <1>1, NamesTyped
<1>4. CASE Cardinality(lines) = Cardinality(wanted)
  <2>1. answer' = lines /\ pc' = After /\ result' = result
    BY <1>2, <1>4
  <2>2. \/ pc = "check" /\ pc' = "checked"
        \/ pc = "status" /\ pc' = "known"
        \/ pc = "verify" /\ pc' = "verified"
    <3>1. CASE pc = "check"
      BY <2>1, <3>1 DEF After
    <3>2. CASE pc = "status"
      BY <2>1, <3>2 DEF After
    <3>3. CASE pc = "verify"
      BY <2>1, <3>3 DEF After
    <3>4. QED BY <1>1, <3>1, <3>2, <3>3
  <2>3. ASSUME OneLineEach(Named(wanted)) PROVE {<<line.name, line.status>> : line \in lines} = Truth
    <3>1. PICK other : lines \in SUBSET (Stdout(other) \cup Stderr)
      BY DEF Readings
    <3>2. lines = Stdout(other) \cup Stderr
      BY <1>1, <1>4, <2>3, <3>1, FullAnswer
    <3>3. QED BY <1>1, <2>3, <3>2, PrintedTruth
  <2>4. Truth' = Truth /\ Named(wanted)' = Named(wanted)
    BY <1>1 DEF Truth, Named
  <2>5. AnswerInv'
    <3>1. OneLineEach(asked)' => OneLineEach(Named(wanted))
      BY <1>1, <1>2 DEF OneLineEach
    <3>2. QED BY <1>2, <2>1, <2>3, <2>4, <3>1 DEF AnswerInv
  <2>6. PkgTyped'
    <3>1. \A line \in answer' : line.name \in asked'
      BY <1>2, <2>1, ReadNames
    <3>2. pc' \in Answering
      BY <2>2 DEF Answering
    <3>3. QED BY <1>1, <1>2, <1>3, <2>1, <3>1, <3>2 DEF PkgTyped
  <2>7. PlaceInv' /\ BeforeInv' /\ WantedInv'
    BY <1>1, <2>2 DEF PlaceInv, BeforeInv, WantedInv, Unready, OneLineEach, Named
  <2>8. InstalledInv'
    BY <1>1, <2>2 DEF InstalledInv, FirstFor, OneLineEach, Named
  <2>9. QED BY <2>2, <2>5, <2>6, <2>7, <2>8, BusyInv
<1>5. CASE Cardinality(lines) # Cardinality(wanted)
  <2>1. answer' = {} /\ pc' = "idle" /\ result' = Failed
    BY <1>2, <1>5 DEF Return
  <2>2. PkgTyped'
    BY <1>1, <1>2, <1>3, <2>1, ResultTypes DEF PkgTyped
  <2>3. QED BY <2>1, <2>2, FailInv
<1>6. QED BY <1>4, <1>5

LEMMA ErrorKeeps ==
  ASSUME PkgInv, QueryFails \/ RemoveFails PROVE PkgInv'
<1>1. /\ pc' = "idle" /\ result' = Failed
      /\ UNCHANGED <<manager, db, foreign, index, updated, op, args, wanted, asked, answer, before, collateral, calls>>
  BY DEF QueryFails, RemoveFails, Return
<1>2. PkgTyped'
  BY <1>1, ResultTypes DEF PkgInv, PkgTyped
<1>3. QED BY <1>1, <1>2, FailInv

LEMMA InstallFailsKeeps ==
  ASSUME PkgInv, InstallFails PROVE PkgInv'
<1>0. PkgTyped
  BY DEF PkgInv
<1>1. /\ pc' = "idle" /\ result' = Failed /\ index' \in {index, "fresh"}
      /\ UNCHANGED <<manager, foreign, updated, op, args, wanted, asked, answer, before, collateral, calls>>
  BY DEF InstallFails, Return
<1>2. PICK n \in {req.name : req \in ToInstall}, s \in States(manager) :
        db' = [db EXCEPT ![n] = IF s \in Versions \cup {"half"} THEN s ELSE @]
  BY DEF InstallFails
<1>3. db' \in [Names -> States(manager)]
  <2>1. db \in [Names -> States(manager)]
    BY <1>0 DEF PkgTyped
  <2>2. QED BY <1>2, <2>1
<1>4. PkgTyped'
  BY <1>0, <1>1, <1>3, ResultTypes DEF PkgTyped
<1>5. QED BY <1>1, <1>4, FailInv

LEMMA RemoveKeeps ==
  ASSUME PkgInv, RemoveSucceeds PROVE PkgInv'
<1>0. PkgTyped /\ PlaceInv /\ WantedInv
  BY DEF PkgInv
<1>1. /\ pc = "remove" /\ pc' = "verify"
      /\ UNCHANGED <<manager, foreign, index, updated, op, args, asked, answer, wanted, result,
                     before, collateral, calls>>
  BY DEF RemoveSucceeds
<1>2. PICK kept \in SUBSET Named(wanted) :
       db' = [n \in Names |->
            IF n \in Named(wanted) \ kept /\ db[n] # "absent"
            THEN (IF manager = "apt" THEN "config" ELSE "absent") ELSE db[n]]
  BY DEF RemoveSucceeds
<1>3. db' \in [Names -> States(manager)]
  <2>1. db \in [Names -> States(manager)] /\ manager \in {"apt", "arch"}
    BY <1>0 DEF PkgTyped
  <2>2. (IF manager = "apt" THEN "config" ELSE "absent") \in States(manager)
    BY DEF States
  <2>3. QED BY <1>2, <2>1, <2>2
<1>4. op = "remove"
  BY <1>0, <1>1 DEF PlaceInv
<1>5. PkgTyped'
  BY <1>0, <1>1, <1>3 DEF PkgTyped
<1>6. PlaceInv' /\ AnswerInv' /\ BeforeInv' /\ WantedInv' /\ InstalledInv'
  BY <1>0, <1>1, <1>4 DEF PlaceInv, AnswerInv, BeforeInv, WantedInv, InstalledInv, Unready, Answering
<1>7. QED BY <1>1, <1>5, <1>6, BusyInv

\* What the first query of ensure() finds missing is what is missing.
LEMMA MissingFacts ==
  ASSUME PkgInv, pc = "checked"
  PROVE  /\ op = "ensure" /\ db = before /\ wanted = DOMAIN args /\ Missing \subseteq Named(DOMAIN args)
         /\ OneLineEach(Named(DOMAIN args)) =>
              \A n : n \in Missing <=> n \in Named(DOMAIN args) /\ before[n] \notin Versions
<1>1. PkgTyped /\ AnswerInv /\ pc \in Answering
  BY DEF PkgInv, Answering
<1>2. op = "ensure" /\ db = before /\ wanted = DOMAIN args
  BY DEF PkgInv, PlaceInv, BeforeInv, WantedInv
<1>3. Missing \subseteq Named(DOMAIN args)
  BY <1>1, <1>2, AnsweredNames DEF Missing
<1>4. ASSUME OneLineEach(Named(DOMAIN args))
      PROVE  \A n : n \in Missing <=> n \in Named(wanted) /\ Status(db[n]) \in {"notinstalled", "requested"}
  BY <1>1, <1>2, <1>4, AnsweredFacts DEF Missing
<1>5. \A n \in Named(wanted) : Status(db[n]) \in {"notinstalled", "requested"} <=> db[n] \notin Versions
  <2> SUFFICES ASSUME NEW n \in Named(wanted)
               PROVE  Status(db[n]) \in {"notinstalled", "requested"} <=> db[n] \notin Versions
    OBVIOUS
  <2>1. n \in Names
    BY <1>1, NamesTyped
  <2>2. db[n] \in States(manager) /\ manager \in {"apt", "arch"}
    BY <1>1, <2>1 DEF PkgTyped
  <2>3. QED BY <2>2, StatusFacts
<1>6. QED BY <1>2, <1>3, <1>4, <1>5

\* Of an installed package the status is the version.
LEMMA InstalledStatus ==
  ASSUME PkgTyped, NEW n \in Names
  PROVE  /\ db[n] \in Versions => Status(db[n]) # "notinstalled"
         /\ Status(db[n]) \in Versions <=> db[n] \in Versions
<1>1. db[n] \in States(manager) /\ manager \in {"apt", "arch"}
  BY DEF PkgTyped
<1>2. \A v \in Versions : v # "notinstalled"
  BY DEF Versions
<1>3. QED BY <1>1, <1>2, StatusFacts

LEMMA EnsureNothingKeeps ==
  ASSUME PkgInv, EnsureNothing PROVE PkgInv'
<1>1. /\ PkgTyped /\ pc = "checked" /\ Missing = {} /\ pc' = "idle" /\ result' = Ok(FALSE)
      /\ UNCHANGED <<manager, db, foreign, index, updated, op, args, wanted, asked, answer, before, collateral, calls>>
  BY DEF EnsureNothing, Return, PkgInv
<1>2. PkgTyped'
  BY <1>1, ResultTypes DEF PkgTyped
<1> SUFFICES ASSUME OneLineEach(Named(DOMAIN args)) PROVE PkgInv'
  BY <1>1, <1>2, ExceptedInv
<1>3. op = "ensure" /\ db = before /\ \A n \in Named(DOMAIN args) : before[n] \in Versions
  BY <1>1, MissingFacts
<1>4. CallsEffective'
  <2>1. ASSUME NEW n \in Named(DOMAIN args) PROVE Status(db[n]) # "notinstalled"
    <3>1. n \in Names
      BY <1>1, NamesTyped
    <3>2. QED BY <1>1, <1>3, <3>1, InstalledStatus
  <2>2. QED BY <1>1, <1>3, <2>1 DEF CallsEffective, Succeeded, Named
<1>5. EnsureIdempotent'
  BY <1>1, <1>3, ResultTypes DEF EnsureIdempotent, Named
<1>6. QED BY <1>1, <1>2, <1>4, <1>5, ReturnInv

LEMMA EnsureMissingKeeps ==
  ASSUME PkgInv, EnsureMissing PROVE PkgInv'
<1>1. /\ PkgTyped /\ pc = "checked" /\ Missing # {}
      /\ wanted' = {i \in DOMAIN args : args[i].name \in Missing}
      /\ UNCHANGED <<manager, db, foreign, updated, op, args, asked, answer, before, collateral, calls>>
      /\ index' \in {index, "fresh"}
      /\ \/ pc' = "status" /\ result' = result
         \/ pc' = "idle" /\ result' = Failed
  BY DEF EnsureMissing, PkgInv, Return
<1>2. /\ op = "ensure" /\ db = before /\ Missing \subseteq Named(DOMAIN args)
      /\ OneLineEach(Named(DOMAIN args)) =>
           \A n : n \in Missing <=> n \in Named(DOMAIN args) /\ before[n] \notin Versions
  BY <1>1, MissingFacts
<1>3. OneLineEach(Named(DOMAIN args)) => wanted' = {i \in DOMAIN args : before[args[i].name] \notin Versions}
  BY <1>1, <1>2 DEF Named
<1>4. wanted' # {}
  <2>1. PICK n : n \in Missing
    BY <1>1
  <2>2. PICK i \in DOMAIN args : n = args[i].name
    BY <1>2, <2>1 DEF Named
  <2>3. QED BY <1>1, <2>1, <2>2
<1>5. PkgTyped'
  <2>1. wanted' \subseteq DOMAIN args
    BY <1>1
  <2>2. pc' \in {"idle", "verify"} \cup Unready \cup Answering
    BY <1>1 DEF Unready
  <2>3. result'.status \in {"none", "ok", "error"} /\ result'.updated \in BOOLEAN
    BY <1>1, ResultTypes DEF PkgTyped
  <2>4. QED BY <1>1, <2>1, <2>2, <2>3 DEF PkgTyped
<1>6. CASE pc' = "status"
  <2>1. PlaceInv' /\ AnswerInv' /\ BeforeInv' /\ InstalledInv'
    BY <1>1, <1>2, <1>4, <1>6 DEF PlaceInv, AnswerInv, BeforeInv, InstalledInv, Answering
  <2>2. WantedInv'
    BY <1>1, <1>2, <1>3, <1>4, <1>6 DEF WantedInv, OneLineEach, Named
  <2>3. QED BY <1>5, <1>6, <2>1, <2>2, BusyInv
<1>7. CASE pc' = "idle" /\ result' = Failed
  BY <1>5, <1>7, FailInv
<1>8. QED BY <1>1, <1>6, <1>7

\* What install_packages knows when it has the status of its packages
LEMMA KnownFacts ==
  ASSUME PkgInv, pc = "known"
  PROVE  /\ PkgTyped /\ AnswerInv /\ pc \in Answering /\ db = before /\ op \in {"install", "ensure"}
         /\ op = "install" => wanted = DOMAIN args
         /\ op = "ensure" =>
              /\ wanted # {}
              /\ OneLineEach(Named(DOMAIN args)) =>
                   wanted = {i \in DOMAIN args : db[args[i].name] \notin Versions}
BY DEF PkgInv, PlaceInv, BeforeInv, WantedInv, Answering

LEMMA InstallNothingKeeps ==
  ASSUME PkgInv, InstallNothing PROVE PkgInv'
<1>1. /\ PkgTyped /\ pc = "known" /\ ToInstall = {} /\ pc' = "idle" /\ result' = Ok(op = "ensure")
      /\ UNCHANGED <<manager, db, foreign, index, updated, op, args, wanted, asked, answer, before, collateral, calls>>
  BY DEF InstallNothing, Return, PkgInv
<1>2. PkgTyped'
  <2>1. result'.status \in {"none", "ok", "error"} /\ result'.updated \in BOOLEAN
    BY <1>1, ResultTypes
  <2>2. QED BY <1>1, <2>1 DEF PkgTyped
<1> SUFFICES ASSUME OneLineEach(Named(DOMAIN args)) PROVE PkgInv'
  BY <1>1, <1>2, ExceptedInv
<1>3. \A n \in Named(wanted) : db[n] \in Versions /\ RequestFor(n).version \in {Any, db[n]}
  BY <1>1, KnownFacts, ToInstallFacts, NamesTyped
<1>4. op = "install" /\ wanted = DOMAIN args
  <2>1. ASSUME op = "ensure" PROVE FALSE
    <3>1. PICK i \in wanted : db[args[i].name] \notin Versions
      BY <1>1, <2>1, KnownFacts
    <3>2. QED BY <1>3, <3>1 DEF Named
  <2>2. QED BY <1>1, <2>1, KnownFacts
<1>5. CallsEffective'
  <2>1. ASSUME NEW i \in DOMAIN args
        PROVE  /\ Status(db[args[i].name]) # "notinstalled"
               /\ FirstFor(i) => args[i].version \in {Any, db[args[i].name]}
    <3>1. args[i].name \in Named(wanted) /\ args[i].name \in Names
      BY <1>1, <1>4, NamesTyped DEF Named
    <3>2. Status(db[args[i].name]) # "notinstalled"
      BY <1>1, <1>3, <3>1, InstalledStatus
    <3>3. ASSUME FirstFor(i) PROVE args[i].version \in {Any, db[args[i].name]}
      <4>1. RequestFor(args[i].name) = args[i]
        BY <1>1, <1>4, <3>3, FirstRequest
      <4>2. QED BY <1>3, <3>1, <4>1
    <3>4. QED BY <3>2, <3>3
  <2>2. QED BY <1>1, <1>4, <2>1 DEF CallsEffective, Succeeded, FirstFor
<1>6. EnsureIdempotent'
  BY <1>1, <1>4 DEF EnsureIdempotent, Succeeded
<1>7. QED BY <1>1, <1>2, <1>5, <1>6, ReturnInv

\* call_install leaves each of its packages in the version asked for, unless others
\* provide it, and any other package that has changed is recorded in collateral.
LEMMA InstallChanges ==
  ASSUME PkgInv, InstallSucceeds
  PROVE  /\ db' \in [Names -> States(manager)] /\ collateral' \in BOOLEAN /\ index' \in {index, "fresh"}
         /\ ~ collateral' => \A n \in Names \ ToInstallNames : db'[n] = db[n]
         /\ \A n \in ToInstallNames :
              \/ db'[n] = db[n] /\ db[n] \notin Versions
              \/ db'[n] \in Versions /\ RequestFor(n).version \in {Any, db'[n]}
<1> DEFINE i == IF manager = "arch" THEN "fresh" ELSE index
           names == ToInstallNames
<1>0. PkgTyped /\ pc = "known"
  BY DEF PkgInv, InstallSucceeds
<1>1. PICK same \in SUBSET {n \in names : db[n] \notin Versions},
           victims \in SUBSET {n \in Names \ names : db[n] \in Versions} :
        /\ manager = "arch" => victims = {}
        /\ db' = [n \in Names |->
             CASE n \in victims -> "config"
               [] n \in names \ same -> Resolved(RequestFor(n), i)
               [] manager = "arch" /\ db[n] \in Versions /\ n \notin names -> "v2"
               [] OTHER -> db[n]]
        /\ collateral' = (\E n \in Names \ names : db'[n] # db[n])
  BY DEF InstallSucceeds, ToInstallNames
<1>2. /\ index' = i /\ db \in [Names -> States(manager)] /\ manager \in {"apt", "arch"}
      /\ index \in {"stale", "fresh"}
  BY <1>0 DEF InstallSucceeds, PkgTyped
<1>3. /\ names \subseteq Named(wanted) /\ names \subseteq Names
  BY <1>0, KnownFacts, ToInstallFacts
<1>4. ASSUME NEW n \in names PROVE Resolved(RequestFor(n), i) \in Versions /\
                                   RequestFor(n).version \in {Any, Resolved(RequestFor(n), i)}
  <2>1. RequestFor(n) \in Requests
    BY <1>0, <1>3, RequestTyped
  <2>2. RequestFor(n).version \in Versions \cup {Any}
    BY <2>1 DEF Requests
  <2>3. Latest(i) \in Versions
    BY DEF Latest, Versions
  <2>4. QED BY <2>2, <2>3 DEF Resolved
<1> HIDE DEF names, i
<1>5. ASSUME NEW n \in Names, n \in victims PROVE db'[n] = "config" /\ manager = "apt"
  <2>1. n \notin names /\ manager = "apt"
    BY <1>1, <1>2, <1>5
  <2>2. QED BY <1>1, <1>5, <2>1
<1>6. ASSUME NEW n \in names, n \notin same PROVE db'[n] = Resolved(RequestFor(n), i)
  <2>1. n \in Names /\ n \notin victims
    BY <1>1, <1>3, <1>6
  <2>2. QED BY <1>1, <1>6, <2>1
<1>7. ASSUME NEW n \in same PROVE db'[n] = db[n] /\ db[n] \notin Versions
  <2>1. n \in Names /\ n \notin victims /\ n \in names /\ db[n] \notin Versions
    BY <1>1, <1>3, <1>7
  <2>2. QED BY <1>1, <1>7, <2>1
<1>8. ASSUME NEW n \in Names, n \notin victims, n \notin names PROVE db'[n] \in {"v2", db[n]}
  <2>1. CASE manager = "arch" /\ db[n] \in Versions
    BY <1>1, <1>8, <2>1
  <2>2. CASE ~ (manager = "arch" /\ db[n] \in Versions)
    BY <1>1, <1>8, <2>2
  <2>3. QED BY <2>1, <2>2
<1>9. db' \in [Names -> States(manager)]
  <2>1. ASSUME NEW n \in Names PROVE db'[n] \in States(manager)
    <3>1. Versions \subseteq States(manager) /\ "v2" \in Versions
      BY DEF States, Versions
    <3>2. manager = "apt" => "config" \in States(manager)
      BY DEF States
    <3>3. db[n] \in States(manager)
      BY <1>2
    <3>4. CASE n \in victims
      BY <1>5, <3>2, <3>4
    <3>5. CASE n \in names /\ n \notin same
      BY <1>4, <1>6, <3>1, <3>5
    <3>6. CASE n \in same
      BY <1>7, <3>3, <3>6
    <3>7. CASE n \notin victims /\ n \notin names
      BY <1>8, <3>1, <3>3, <3>7
    <3>8. QED BY <3>4, <3>5, <3>6, <3>7
  <2>2. \E e : db' = [n \in Names |-> e[n]]
    <3>1. db' = [n \in Names |-> db'[n]]
      BY <1>1
    <3>2. QED BY <3>1
  <2>3. QED BY <2>1, <2>2
<1>10. collateral' \in BOOLEAN /\ (~ collateral' => \A n \in Names \ names : db'[n] = db[n])
  BY <1>1
<1>11. index' \in {index, "fresh"}
  BY <1>2 DEF i
<1>12. ASSUME NEW n \in names
       PROVE  \/ db'[n] = db[n] /\ db[n] \notin Versions
              \/ db'[n] \in Versions /\ RequestFor(n).version \in {Any, db'[n]}
  <2>1. CASE n \in same
    BY <1>7, <2>1
  <2>2. CASE n \notin same
    BY <1>4, <1>6, <2>2
  <2>3. QED BY <2>1, <2>2
<1>13. QED BY <1>9, <1>10, <1>11, <1>12 DEF names

LEMMA InstallKeeps ==
  ASSUME PkgInv, InstallSucceeds PROVE PkgInv'
<1>1. /\ PkgTyped /\ pc = "known" /\ ToInstall # {} /\ pc' = "verify"
      /\ UNCHANGED <<manager, foreign, updated, op, args, asked, answer, wanted, result, before, calls>>
  BY DEF InstallSucceeds, PkgInv
<1>2. /\ db' \in [Names -> States(manager)] /\ collateral' \in BOOLEAN /\ index' \in {index, "fresh"}
      /\ ~ collateral' => \A n \in Names \ ToInstallNames : db'[n] = db[n]
      /\ \A n \in ToInstallNames :
           \/ db'[n] = db[n] /\ db[n] \notin Versions
           \/ db'[n] \in Versions /\ RequestFor(n).version \in {Any, db'[n]}
  BY InstallChanges
<1>3. /\ ToInstallNames \subseteq Named(wanted) /\ ToInstallNames # {}
      /\ OneLineEach(Named(DOMAIN args)) => \A n \in Named(wanted) :
           n \in ToInstallNames <=> \/ db[n] \notin Versions
                                    \/ RequestFor(n).version \notin {Any, db[n]}
  BY <1>1, KnownFacts, ToInstallFacts, NamesTyped
<1>4. wanted # {}
  BY <1>3 DEF Named
<1>5. /\ db = before /\ op \in {"install", "ensure"}
      /\ op = "install" => wanted = DOMAIN args
      /\ op = "ensure" /\ OneLineEach(Named(DOMAIN args)) =>
           wanted = {i \in DOMAIN args : db[args[i].name] \notin Versions}
  BY <1>1, KnownFacts
<1>6. PkgTyped'
  BY <1>1, <1>2 DEF PkgTyped
<1>7. PlaceInv' /\ AnswerInv' /\ BeforeInv'
  BY <1>1, <1>4, <1>5 DEF PlaceInv, AnswerInv, BeforeInv, Unready, Answering
<1>8. WantedInv'
  BY <1>1, <1>4, <1>5 DEF WantedInv, OneLineEach, Named
<1>9. InstalledInv'
  <2>0. OneLineEach(Named(DOMAIN args))' => OneLineEach(Named(DOMAIN args))
    BY <1>1 DEF OneLineEach, Named
  <2>1. ASSUME op = "ensure", ~ collateral', OneLineEach(Named(DOMAIN args)), NEW i \in DOMAIN args \ wanted
        PROVE  db'[args[i].name] \in Versions
    <3>1. db[args[i].name] \in Versions /\ args[i].name \in Names
      BY <1>1, <1>5, <2>1, NamesTyped
    <3>2. CASE args[i].name \in ToInstallNames
      BY <1>2, <3>1, <3>2
    <3>3. CASE args[i].name \notin ToInstallNames
      BY <1>2, <2>1, <3>1, <3>3
    <3>4. QED BY <3>2, <3>3
  <2>2. ASSUME op = "install", ~ collateral', OneLineEach(Named(DOMAIN args)), NEW i \in DOMAIN args, FirstFor(i),
               db'[args[i].name] \in Versions
        PROVE  args[i].version \in {Any, db'[args[i].name]}
    <3>1. args[i].name \in Named(wanted) /\ args[i].name \in Names /\ wanted = DOMAIN args
      BY <1>1, <1>5, <2>2, NamesTyped DEF Named
    <3>2. RequestFor(args[i].name) = args[i]
      BY <1>1, <2>2, <3>1, FirstRequest
    <3>3. CASE args[i].name \in ToInstallNames
      BY <1>2, <2>2, <3>2, <3>3
    <3>4. CASE args[i].name \notin ToInstallNames
      BY <1>2, <1>3, <2>2, <3>1, <3>2, <3>4
    <3>5. QED BY <3>3, <3>4
  <2>3. QED BY <1>1, <2>0, <2>1, <2>2 DEF InstalledInv, FirstFor
<1>10. QED BY <1>1, <1>6, <1>7, <1>8, <1>9, BusyInv

LEMMA VerifiedKeeps ==
  ASSUME PkgInv, Verified PROVE PkgInv'
<1>1. /\ PkgTyped /\ AnswerInv /\ WantedInv /\ InstalledInv /\ pc = "verified" /\ pc \in Answering
      /\ op \in {"status", "install", "ensure", "remove"}
      /\ pc' = "idle"
      /\ UNCHANGED <<manager, db, foreign, index, updated, op, args, asked, answer, wanted, before,
                     collateral, calls>>
  BY DEF PkgInv, Verified, Return, PlaceInv, Answering
<1>2. /\ op \in {"install", "ensure"} =>
           \/ result' = Failed
           \/ Answered({"notinstalled"}) = {} /\ result' = Ok(op = "ensure")
      /\ op = "remove" =>
           \/ result' = Failed
           \/ Answered(Versions) = {} /\ result' = Ok(FALSE)
      /\ op = "status" => result' = Ok(FALSE)
  BY <1>1 DEF Verified, Return
<1>3. PkgTyped'
  <2>1. result' \in {Failed, Ok(TRUE), Ok(FALSE)}
    BY <1>1, <1>2
  <2>2. result'.status \in {"none", "ok", "error"} /\ result'.updated \in BOOLEAN
    BY <2>1, ResultTypes
  <2>3. QED BY <1>1, <2>2 DEF PkgTyped
<1> SUFFICES ASSUME OneLineEach(Named(DOMAIN args)) PROVE PkgInv'
  BY <1>1, <1>3, ExceptedInv
<1>4. \A S : \A n : n \in Answered(S) <=> n \in Named(wanted) /\ Status(db[n]) \in S
  BY <1>1, AnsweredFacts, NamesTyped
<1>5. CASE result' = Failed
  BY <1>1, <1>3, <1>5, FailInv
<1>6. CASE op = "status"
  <2>1. CallsEffective' /\ EnsureIdempotent'
    BY <1>1, <1>6 DEF CallsEffective, EnsureIdempotent, Succeeded
  <2>2. QED BY <1>1, <1>3, <2>1, ReturnInv
<1>7. CASE op = "remove" /\ Answered(Versions) = {}
  <2>1. ASSUME NEW n \in Named(DOMAIN args) PROVE db[n] \notin Versions
    <3>1. wanted = DOMAIN args
      BY <1>1, <1>7 DEF WantedInv
    <3>2. Status(db[n]) \notin Versions /\ n \in Names
      BY <1>1, <1>4, <1>7, <3>1, NamesTyped
    <3>3. QED BY <1>1, <3>2, InstalledStatus
  <2>2. CallsEffective'
    BY <1>1, <1>7, <2>1 DEF CallsEffective, Succeeded, Named
  <2>3. EnsureIdempotent'
    BY <1>1, <1>7 DEF EnsureIdempotent, Succeeded
  <2>4. QED BY <1>1, <1>3, <2>2, <2>3, ReturnInv
<1>8. CASE op = "install" /\ Answered({"notinstalled"}) = {}
  <2>1. wanted = DOMAIN args
    BY <1>1, <1>8 DEF WantedInv
  <2>2. ASSUME NEW i \in DOMAIN args PROVE Status(db[args[i].name]) # "notinstalled"
    <3>1. args[i].name \in Named(wanted)
      BY <2>1 DEF Named
    <3>2. QED BY <1>4, <1>8, <3>1
  <2>3. ~ collateral => \A i \in DOMAIN args :
          FirstFor(i) /\ db[args[i].name] \in Versions => args[i].version \in {Any, db[args[i].name]}
    BY <1>1, <1>8 DEF InstalledInv
  <2>4. CallsEffective'
    BY <1>1, <1>8, <2>2, <2>3 DEF CallsEffective, Succeeded, FirstFor
  <2>5. EnsureIdempotent'
    BY <1>1, <1>8 DEF EnsureIdempotent, Succeeded
  <2>6. QED BY <1>1, <1>3, <2>4, <2>5, ReturnInv
<1>9. CASE op = "ensure" /\ Answered({"notinstalled"}) = {} /\ result' = Ok(TRUE)
  <2>1. wanted # {} /\ wanted = {i \in DOMAIN args : before[args[i].name] \notin Versions}
    BY <1>1, <1>9 DEF WantedInv
  <2>2. ASSUME ~ collateral, NEW i \in DOMAIN args PROVE Status(db[args[i].name]) # "notinstalled"
    <3>1. CASE i \in wanted
      <4>1. args[i].name \in Named(wanted)
        BY <3>1 DEF Named
      <4>2. QED BY <1>4, <1>9, <4>1
    <3>2. CASE i \notin wanted
      <4>1. db[args[i].name] \in Versions /\ args[i].name \in Names
        BY <1>1, <1>9, <2>2, <3>2, NamesTyped DEF InstalledInv
      <4>2. QED BY <1>1, <4>1, InstalledStatus
    <3>3. QED BY <3>1, <3>2
  <2>3. CallsEffective'
    BY <1>1, <1>9, <2>2 DEF CallsEffective, Succeeded, Named
  <2>4. \E n \in Named(DOMAIN args) : before[n] \notin Versions
    BY <2>1 DEF Named
  <2>5. EnsureIdempotent'
    BY <1>1, <1>9, <2>4, ResultTypes DEF EnsureIdempotent, Named
  <2>6. QED BY <1>1, <1>3, <2>3, <2>5, ReturnInv
<1>10. QED BY <1>1, <1>2, <1>5, <1>6, <1>7, <1>8, <1>9

LEMMA PkgStep ==
  ASSUME PkgInv, [PkgNext]_pkgVars PROVE PkgInv'
<1>1. CASE UpdateSkipped \/ UpdateRepos
  BY <1>1, UpdateKeeps
<1>2. CASE \/ \E n \in Names : CallStatus(n)
           \/ \E reqs \in Lists : CallInstall(reqs) \/ CallEnsure(reqs)
           \/ \E reqs \in Lists : (\A i \in DOMAIN reqs : reqs[i].version = Any) /\ CallRemove(reqs)
  BY <1>2, StartKeeps
<1>3. CASE Query
  BY <1>3, QueryKeeps
<1>4. CASE QueryFails \/ RemoveFails
  BY <1>4, ErrorKeeps
<1>5. CASE EnsureNothing
  BY <1>5, EnsureNothingKeeps
<1>6. CASE EnsureMissing
  BY <1>6, EnsureMissingKeeps
<1>7. CASE InstallNothing
  BY <1>7, InstallNothingKeeps
<1>8. CASE InstallSucceeds
  BY <1>8, InstallKeeps
<1>9. CASE InstallFails
  BY <1>9, InstallFailsKeeps
<1>10. CASE RemoveSucceeds
  BY <1>10, RemoveKeeps
<1>11. CASE Verified
  BY <1>11, VerifiedKeeps
<1>12. CASE UNCHANGED pkgVars
  <2>1. UNCHANGED <<manager, db, foreign, index, updated, op, pc, args, asked, answer, wanted, result,
                    before, collateral, calls>>
    BY <1>12 DEF pkgVars, callVars
  <2>2. PkgTyped' /\ PlaceInv' /\ AnswerInv' /\ BeforeInv' /\ WantedInv'
    BY <2>1 DEF PkgInv, PkgTyped, PlaceInv, AnswerInv, BeforeInv, WantedInv, Truth, OneLineEach, Named
  <2>3. InstalledInv' /\ CallsEffective' /\ EnsureIdempotent'
    BY <2>1 DEF PkgInv, InstalledInv, CallsEffective, EnsureIdempotent, Succeeded, FirstFor,
                   OneLineEach, Named
  <2>4. QED BY <2>2, <2>3 DEF PkgInv
<1>13. QED BY <1>1, <1>2, <1>3, <1>4, <1>5, <1>6, <1>7, <1>8, <1>9, <1>10, <1>11, <1>12 DEF PkgNext

(***************************************************************************)
(* The theorems                                                            *)
(***************************************************************************)

\* The invariant the properties follow from: where the call is, what the script was told
\* about which packages, and what the database still has in common with it.
THEOREM PkgInvariant == PkgSpec => []PkgInv
<1>1. PkgInv /\ [PkgNext]_pkgVars => PkgInv'
  BY PkgStep
<1>2. QED BY PkgInitially, <1>1, PTL DEF PkgSpec

\* Types of the variables; a query always asks about some package, and an answer is about
\* the packages it asked for.
THEOREM PkgTypeCorrect == PkgSpec => []PkgTypeOK
<1>1. PkgInv => PkgTypeOK
  BY DEF PkgInv, PkgTyped, PlaceInv, PkgTypeOK, Unready, Answering
<1>2. QED BY PkgInvariant, <1>1, PTL

\* An answer that package_status accepts is true of every package it asked for, whatever
\* lines of it were lost and whatever names were repeated, as long as none of the names
\* is on record for a second architecture; a package on hold is not installed to it.
THEOREM PkgStatusAccurate == PkgSpec => []StatusAccurate
<1>1. PkgInv => StatusAccurate
  BY DEF PkgInv, AnswerInv, StatusAccurate, Truth, Answering
<1>2. QED BY PkgInvariant, <1>1, PTL

\* install, ensure and remove have done what their names say when they return no error,
\* with names of one architecture each.
THEOREM PkgCallsEffective == PkgSpec => []CallsEffective
<1>1. PkgInv => CallsEffective
  BY DEF PkgInv
<1>2. QED BY PkgInvariant, <1>1, PTL

\* ensure reports a change if a package was missing or on hold, none if all were there in
\* the versions requested, and makes none when it reports none.
THEOREM PkgEnsureIdempotent == PkgSpec => []EnsureIdempotent
<1>1. PkgInv => EnsureIdempotent
  BY DEF PkgInv
<1>2. QED BY PkgInvariant, <1>1, PTL

=============================================================================
