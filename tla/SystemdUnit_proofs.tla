---------------------------- MODULE SystemdUnit_proofs ----------------------------
(***************************************************************************)
(* Theorems about the methods of a systemd unit, for any number of calls,  *)
(* of jobs and of other clients, and signals in any order.                 *)
(***************************************************************************)
EXTENDS SystemdUnit, TLAPS, SequenceTheorems

USE SystemdAssumption

(***************************************************************************)
(* The inductive invariant                                                 *)
(***************************************************************************)

Jobs == [unit : {"own", "other"}, kind : Controls, result : Removals \cup {"queued"}]

\* systemd's jobs, and the signals of those that are over.
JobsInv ==
  /\ jobs \in Seq(Jobs)
  /\ signals \in Seq(DOMAIN jobs)
  /\ \A i \in 1..Len(signals) : jobs[signals[i]].result # "queued"

\* From the answer of the manager on, a method knows the number of a job that is what
\* it asked for.
OwnJob ==
  /\ job \in 1..Len(jobs)
  /\ jobs[job].unit = "own" /\ jobs[job].kind = Requested(method)

MethodInv ==
  /\ method \in ControlMethods \cup FileMethods \cup {[name |-> "none", must |-> FALSE]}
  /\ pc # "idle" => method \in ControlMethods
  /\ pc \in {"queued", "listening"} => OwnJob
  /\ Succeeded => /\ OwnJob
                  /\ jobs[job].result = IF method.must THEN "done" ELSE outcome
                  /\ jobs[job].result # "queued"

\* What is left of ServiceTypeOK
CallInv ==
  /\ conn \in {"none", "open", "closed"}
  /\ pc \in {"idle", "calling", "queued", "listening"}
  /\ pc # "listening" => signals = <<>>
  /\ job \in 0..Len(jobs)
  /\ outcome \in {"none", "ok", "error"} \cup JobResults
  /\ unitFile \in {"enabled", "disabled", "masked"} /\ calls \in 0..MaxCalls

ServiceInv == JobsInv /\ CallInv /\ MethodInv

LEMMA ServiceInitially == SystemdInit => ServiceInv
<1> SUFFICES ASSUME SystemdInit PROVE ServiceInv
  OBVIOUS
<1>1. JobsInv
  <2>1. jobs = <<>> /\ signals = <<>>
    BY DEF SystemdInit
  <2>2. <<>> \in Seq(Jobs) /\ <<>> \in Seq(DOMAIN jobs) /\ Len(<<>>) = 0
    OBVIOUS
  <2>3. QED BY <2>1, <2>2 DEF JobsInv
<1>2. CallInv
  BY DEF SystemdInit, CallInv
<1>3. MethodInv
  BY DEF SystemdInit, MethodInv, Succeeded, JobResults
<1>4. QED BY <1>1, <1>2, <1>3 DEF ServiceInv

LEMMA SeqSubset ==
  ASSUME NEW A, NEW B, A \subseteq B, NEW s \in Seq(A)
  PROVE  s \in Seq(B)
OBVIOUS

(***************************************************************************)
(* systemd                                                                 *)
(***************************************************************************)

\* What becomes of jobs that are there: no job changes its unit or its kind, a job
\* that is over stays as it is, and no number is given away twice.
Progress ==
  /\ jobs' \in Seq(Jobs)
  /\ Len(jobs) <= Len(jobs')
  /\ \A i \in 1..Len(jobs) :
       /\ jobs'[i].unit = jobs[i].unit /\ jobs'[i].kind = jobs[i].kind
       /\ jobs[i].result # "queued" => jobs'[i] = jobs[i]

\* Whoever asks, the job it gets is of the unit and kind it has asked for.
LEMMA AskFacts ==
  ASSUME JobsInv, NEW unit \in {"own", "other"}, NEW kind \in Controls, NEW id, Ask(unit, kind, id)
  PROVE  /\ Progress /\ JobsInv'
         /\ id \in 1..Len(jobs') /\ jobs'[id].unit = unit /\ jobs'[id].kind = kind
<1> DEFINE others == {i \in Queued : jobs[i].unit = unit}
           same   == {i \in others : jobs[i].kind = kind}
<1>1. CASE id \in same /\ UNCHANGED <<jobs, signals>>
  BY <1>1 DEF JobsInv, Progress, Queued
<1>2. CASE /\ id = Len(jobs) + 1
           /\ jobs' = Append([i \in DOMAIN jobs |-> IF i \in others
                                                    THEN [jobs[i] EXCEPT !.result = "canceled"]
                                                    ELSE jobs[i]],
                             [unit |-> unit, kind |-> kind, result |-> "queued"])
           /\ signals' = IF Listening /\ others # {}
                         THEN Append(signals, CHOOSE i \in others : TRUE) ELSE signals
  <2> DEFINE kept == [i \in DOMAIN jobs |-> IF i \in others
                                            THEN [jobs[i] EXCEPT !.result = "canceled"]
                                            ELSE jobs[i]]
             new == [unit |-> unit, kind |-> kind, result |-> "queued"]
  <2>1. jobs \in Seq(Jobs) /\ DOMAIN jobs = 1..Len(jobs) /\ \A i \in 1..Len(jobs) : jobs[i] \in Jobs
    BY DEF JobsInv
  <2>2. /\ kept \in Seq(Jobs) /\ Len(kept) = Len(jobs)
        /\ \A i \in 1..Len(jobs) :
             kept[i] = IF i \in others THEN [jobs[i] EXCEPT !.result = "canceled"] ELSE jobs[i]
    BY <2>1 DEF Jobs
  <2>3. new \in Jobs
    BY DEF Jobs
  <2>4. /\ jobs' \in Seq(Jobs) /\ Len(jobs') = Len(jobs) + 1 /\ jobs'[id] = new
        /\ \A i \in 1..Len(jobs) : jobs'[i] = kept[i]
    <3> HIDE DEF kept, new
    <3>1. jobs' = Append(kept, new) /\ id = Len(jobs) + 1
      BY <1>2 DEF kept, new
    <3>2. QED BY <3>1, <2>1, <2>2, <2>3
  <2>5. \A i \in others : i \in 1..Len(jobs) /\ jobs[i].result = "queued" /\ jobs'[i].result = "canceled"
    BY <2>1, <2>2, <2>4 DEF Queued, Jobs
  <2>6. Progress
    <3>1. ASSUME NEW i \in 1..Len(jobs)
          PROVE  /\ jobs'[i].unit = jobs[i].unit /\ jobs'[i].kind = jobs[i].kind
                 /\ jobs[i].result # "queued" => jobs'[i] = jobs[i]
      BY <2>1, <2>2, <2>4 DEF Queued, Jobs
    <3>2. Len(jobs) <= Len(jobs')
      BY <2>1, <2>4
    <3>3. QED BY <2>4, <3>1, <3>2 DEF Progress
  <2>7. /\ signals' \in Seq(DOMAIN jobs')
        /\ \A i \in 1..Len(signals') : jobs'[signals'[i]].result # "queued"
    <3>1. /\ signals \in Seq(1..Len(jobs')) /\ DOMAIN jobs' = 1..Len(jobs')
          /\ \A i \in 1..Len(signals) : jobs'[signals[i]].result # "queued"
      <4>1. /\ signals \in Seq(1..Len(jobs)) /\ 1..Len(jobs) \subseteq 1..Len(jobs')
            /\ \A i \in 1..Len(signals) : signals[i] \in 1..Len(jobs)
        BY <2>1, <2>4 DEF JobsInv
      <4>2. DOMAIN jobs' = 1..Len(jobs')
        BY <2>4
      <4>3. \A i \in 1..Len(signals) : jobs'[signals[i]] = jobs[signals[i]]
        BY <4>1, <2>6 DEF JobsInv, Progress
      <4>4. signals \in Seq(1..Len(jobs'))
        BY <4>1, SeqSubset
      <4>5. QED BY <4>2, <4>3, <4>4 DEF JobsInv
    <3>2. CASE signals' = signals
      BY <3>1, <3>2
    <3>3. CASE others # {} /\ signals' = Append(signals, CHOOSE i \in others : TRUE)
      <4>1. PICK c : c \in others /\ signals' = Append(signals, c)
        BY <3>3
      <4>2. c \in 1..Len(jobs') /\ jobs'[c].result # "queued"
        BY <4>1, <2>1, <2>4, <2>5
      <4>3. QED BY <4>1, <4>2, <3>1
    <3>4. QED BY <1>2, <3>2, <3>3
  <2>8. id \in 1..Len(jobs')
    BY <1>2, <2>1, <2>4
  <2>9. QED BY <2>4, <2>6, <2>7, <2>8 DEF JobsInv
<1>3. QED BY <1>1, <1>2 DEF Ask

LEMMA OtherClientStep ==
  ASSUME ServiceInv, OtherClient
  PROVE  Progress /\ JobsInv' /\ CallInv'
<1>1. PICK unit \in {"own", "other"}, kind \in {"start", "stop"}, id \in 1..MaxJobs :
        Ask(unit, kind, id) /\ id \notin DOMAIN jobs
  BY DEF OtherClient
<1>2. Progress /\ JobsInv'
  BY <1>1, AskFacts DEF ServiceInv
<1>3. pc # "listening" => signals' = signals
  BY <1>1 DEF Ask, Listening
<1>4. QED BY <1>2, <1>3 DEF OtherClient, hpgVars, ServiceInv, CallInv, Progress, JobsInv

LEMMA FinishStep ==
  ASSUME ServiceInv, Finish
  PROVE  Progress /\ JobsInv' /\ CallInv'
<1>1. PICK i \in Queued, res \in Removals :
        /\ jobs' = [jobs EXCEPT ![i].result = res]
        /\ signals' = IF Listening THEN Append(signals, i) ELSE signals
  BY DEF Finish
<1>2. i \in 1..Len(jobs) /\ jobs[i].result = "queued" /\ res # "queued"
  BY DEF Queued, ServiceInv, JobsInv
<1>3. /\ jobs' \in Seq(Jobs) /\ Len(jobs') = Len(jobs)
      /\ jobs'[i].result = res /\ jobs'[i].unit = jobs[i].unit /\ jobs'[i].kind = jobs[i].kind
      /\ \A k \in 1..Len(jobs) : k # i => jobs'[k] = jobs[k]
  <2>1. jobs \in Seq(Jobs) /\ jobs[i] \in Jobs
    BY <1>2 DEF ServiceInv, JobsInv
  <2>2. DEFINE new == [jobs[i] EXCEPT !.result = res]
  <2>3. new \in Jobs /\ new.result = res /\ new.unit = jobs[i].unit /\ new.kind = jobs[i].kind
    BY <2>1 DEF Jobs
  <2>4. jobs' = [jobs EXCEPT ![i] = new]
    BY <1>1
  <2> HIDE DEF new
  <2>5. QED BY <1>2, <2>1, <2>3, <2>4
<1>4. Progress
  <2>1. ASSUME NEW k \in 1..Len(jobs)
        PROVE  /\ jobs'[k].unit = jobs[k].unit /\ jobs'[k].kind = jobs[k].kind
               /\ jobs[k].result # "queued" => jobs'[k] = jobs[k]
    <3>1. CASE k = i
      BY <1>2, <1>3, <3>1
    <3>2. CASE k # i
      BY <1>3, <3>2
    <3>3. QED BY <3>1, <3>2
  <2>2. Len(jobs) \in Nat
    BY DEF ServiceInv, JobsInv
  <2>3. QED BY <1>3, <2>1, <2>2 DEF Progress
<1>5. JobsInv'
  <2>1. /\ signals' \in Seq(1..Len(jobs))
        /\ \A k \in 1..Len(signals') : signals'[k] = i \/ (k \in 1..Len(signals) /\ signals'[k] = signals[k])
    <3>1. signals \in Seq(1..Len(jobs)) /\ i \in 1..Len(jobs)
      BY <1>2 DEF ServiceInv, JobsInv
    <3>2. CASE signals' = signals
      BY <3>1, <3>2
    <3>3. CASE signals' = Append(signals, i)
      <4>1. \A k \in 1 .. Len(signals) + 1 : k \in 1..Len(signals) \/ k = Len(signals) + 1
        BY <3>1
      <4>2. QED BY <3>1, <3>3, <4>1, AppendProperties
    <3>4. QED BY <1>1, <3>2, <3>3
  <2>2. \A k \in 1..Len(signals') : jobs'[signals'[k]].result # "queued"
    <3>1. \A k \in 1..Len(signals) : signals[k] \in 1..Len(jobs) /\ jobs[signals[k]].result # "queued"
      BY DEF ServiceInv, JobsInv
    <3>2. ASSUME NEW s \in 1..Len(jobs), jobs[s].result # "queued" \/ s = i
          PROVE  jobs'[s].result # "queued"
      BY <1>2, <1>3, <3>2
    <3>3. QED BY <1>2, <2>1, <3>1, <3>2
  <2>3. QED BY <1>3, <2>1, <2>2 DEF JobsInv
<1>6. pc # "listening" => signals' = signals
  BY <1>1 DEF Listening
<1>7. QED BY <1>3, <1>4, <1>5, <1>6 DEF Finish, hpgVars, ServiceInv, CallInv

\* While systemd works, no method loses its job, and none changes its answer.
LEMMA SystemdStep ==
  ASSUME ServiceInv, Progress, JobsInv', CallInv', UNCHANGED hpgVars
  PROVE  ServiceInv'
<1>1. OwnJob => /\ OwnJob'
                /\ jobs[job].result # "queued" => jobs'[job] = jobs[job]
  BY DEF OwnJob, Progress, Requested, hpgVars, ServiceInv, JobsInv
<1>2. MethodInv'
  BY <1>1 DEF ServiceInv, MethodInv, Succeeded, hpgVars
<1>3. QED BY <1>2 DEF ServiceInv

(***************************************************************************)
(* The methods                                                             *)
(***************************************************************************)

\* The manager's answer is a job of the kind the method asks for.
LEMMA RequestJobStep ==
  ASSUME ServiceInv, RequestJob
  PROVE  ServiceInv'
<1>1. PICK id \in 1..MaxJobs : Ask("own", Requested(method), id) /\ job' = id
  BY DEF RequestJob
<1>2. method \in ControlMethods /\ Requested(method) \in Controls
  BY DEF RequestJob, ServiceInv, MethodInv, ControlMethods, Requested
<1>3. JobsInv' /\ job' \in 1..Len(jobs') /\ jobs'[job'].unit = "own" /\ jobs'[job'].kind = Requested(method)
  BY <1>1, <1>2, AskFacts DEF ServiceInv
<1>4. signals' = signals
  BY <1>1 DEF Ask, Listening, RequestJob
<1>5. CallInv'
  BY <1>3, <1>4 DEF RequestJob, ServiceInv, CallInv, JobsInv
<1>6. MethodInv'
  BY <1>2, <1>3 DEF RequestJob, ServiceInv, MethodInv, OwnJob, Requested, Succeeded
<1>7. QED BY <1>3, <1>5, <1>6 DEF ServiceInv

\* The signal of the own job comes after its end, and what it says stays true.
LEMMA SignalStep ==
  ASSUME ServiceInv, Signal
  PROVE  ServiceInv'
<1>1. Head(signals) = signals[1] /\ jobs[Head(signals)].result # "queued"
  BY DEF Signal, ServiceInv, JobsInv
<1>2. JobsInv'
  <2>1. signals \in Seq(DOMAIN jobs) /\ signals # <<>> /\ (signals' = <<>> \/ signals' = Tail(signals))
    BY DEF Signal, ServiceInv, JobsInv
  <2>2. /\ signals' \in Seq(DOMAIN jobs)
        /\ \A i \in 1..Len(signals') : i + 1 \in 1..Len(signals) /\ signals'[i] = signals[i + 1]
    <3>1. CASE signals' = <<>>
      BY <3>1, EmptySeq
    <3>2. CASE signals' = Tail(signals)
      <4> DEFINE S == DOMAIN jobs
      <4> HIDE DEF S
      <4>1. signals \in Seq(S) /\ Len(signals) \in Nat
        BY <2>1 DEF S
      <4>2. /\ Tail(signals) \in Seq(S) /\ Len(Tail(signals)) = Len(signals) - 1
            /\ \A i \in 1..Len(Tail(signals)) : Tail(signals)[i] = signals[i + 1]
        BY <2>1, <4>1, HeadTailProperties
      <4>3. QED BY <3>2, <4>1, <4>2 DEF S
    <3>3. QED BY <2>1, <3>1, <3>2
  <2>3. QED BY <2>1, <2>2 DEF Signal, systemdVars, ServiceInv, JobsInv
<1>3. CASE Head(signals) = job
  <2>1. Return(Judge(jobs[job].result)) /\ signals' = <<>>
    BY <1>3 DEF Signal
  <2>2. jobs[job].result \in Removals /\ OwnJob /\ method \in ControlMethods
    <3>1. OwnJob /\ method \in ControlMethods
      BY DEF Signal, ServiceInv, MethodInv
    <3>2. jobs[job] \in Jobs
      BY <3>1 DEF ServiceInv, JobsInv, OwnJob
    <3>3. QED BY <1>1, <1>3, <3>1, <3>2 DEF Jobs
  <2>3. CallInv'
    BY <2>1, <2>2 DEF Signal, Return, Judge, systemdVars, ServiceInv, CallInv
  <2>4. Succeeded' => jobs[job].result = IF method.must THEN "done" ELSE outcome'
    BY <2>1, <2>2 DEF Signal, Return, Judge, JobResults, Succeeded, ControlMethods
  <2>5. MethodInv'
    BY <1>1, <1>3, <2>1, <2>2, <2>4 DEF Signal, Return, systemdVars, ServiceInv, MethodInv, OwnJob, Requested
  <2>6. QED BY <1>2, <2>3, <2>5 DEF ServiceInv
<1>4. CASE Head(signals) # job
  BY <1>2, <1>4 DEF Signal, systemdVars, ServiceInv, CallInv, MethodInv, OwnJob, Requested, Succeeded
<1>5. QED BY <1>3, <1>4

LEMMA MethodStep ==
  ASSUME ServiceInv,
         \/ Open \/ (\E m \in FileMethods : CallFile(m)) \/ (\E m \in ControlMethods : CallControl(m))
         \/ RequestRefused \/ Listen \/ StreamEnds \/ BusCloses
  PROVE  ServiceInv'
<1> USE DEF ServiceInv, JobsInv, CallInv, MethodInv, OwnJob, Succeeded, Requested, Return, systemdVars
<1>1. CASE Open
  BY <1>1 DEF Open, JobResults
<1>2. ASSUME NEW m \in FileMethods, CallFile(m) PROVE ServiceInv'
  <2>1. m \notin ControlMethods
    BY DEF FileMethods, ControlMethods
  <2>2. QED BY <1>2, <2>1 DEF CallFile
<1>3. ASSUME NEW m \in ControlMethods, CallControl(m) PROVE ServiceInv'
  BY <1>3 DEF CallControl
<1>4. CASE RequestRefused
  BY <1>4 DEF RequestRefused, JobResults
<1>5. CASE Listen
  BY <1>5 DEF Listen, JobResults
<1>6. CASE StreamEnds
  BY <1>6 DEF StreamEnds
<1>7. CASE BusCloses
  BY <1>7 DEF BusCloses
<1>8. QED BY <1>1, <1>2, <1>3, <1>4, <1>5, <1>6, <1>7

LEMMA ServiceStep == ServiceInv /\ [SystemdNext]_unitVars => ServiceInv'
<1> SUFFICES ASSUME ServiceInv, [SystemdNext]_unitVars PROVE ServiceInv'
  OBVIOUS
<1>1. CASE OtherClient
  BY <1>1, OtherClientStep, SystemdStep DEF OtherClient
<1>2. CASE Finish
  BY <1>2, FinishStep, SystemdStep DEF Finish
<1>3. CASE UNCHANGED unitVars
  BY <1>3 DEF unitVars, hpgVars, systemdVars, ServiceInv, JobsInv, CallInv, MethodInv, OwnJob,
              Requested, Succeeded
<1>4. QED
  BY <1>1, <1>2, <1>3, RequestJobStep, SignalStep, MethodStep DEF SystemdNext, HpgStep

(***************************************************************************)
(* The theorems                                                            *)
(***************************************************************************)

\* The invariant holds in every state, whatever systemd and other clients do.
THEOREM ServiceInvariant == SystemdSpec => []ServiceInv
BY ServiceInitially, ServiceStep, PTL DEF SystemdSpec

\* The state is well typed; no signal is of a job that is still queued.
THEOREM ServiceTypeCorrect == SystemdSpec => []ServiceTypeOK
<1>1. ServiceInv => ServiceTypeOK
  BY DEF ServiceInv, JobsInv, CallInv, MethodInv, OwnJob, Jobs, ServiceTypeOK
<1>2. QED BY <1>1, ServiceInvariant, PTL

\* A method answers for its own job, for any number of other clients and jobs.
THEOREM ServiceResultOfOwnJob == SystemdSpec => []ResultOfOwnJob
<1>1. ServiceInv => ResultOfOwnJob
  BY DEF ServiceInv, MethodInv, OwnJob, Requested, ResultOfOwnJob
<1>2. QED BY <1>1, ServiceInvariant, PTL

(***************************************************************************)
(* What the wait for a job waits for                                       *)
(***************************************************************************)

\* systemd has at most one job queued for a unit: the others are merged with it, or it is replaced.
OneQueued == \A i, j \in Queued : jobs[i].unit = jobs[j].unit => i = j

\* While a method listens on an open bus its job has not ended, or the signal of its end is in the
\* stream.
Heard ==
  Listening => jobs[job].result = "queued" \/ \E k \in 1..Len(signals) : signals[k] = job

\* A method is called on an object that Open has made.
Connected == pc # "idle" => conn # "none"

\* The method has a step to do, or systemd has a job to end.
WaitsForItsJob ==
  pc # "idle" =>
    \/ pc \in {"calling", "queued"}
    \/ pc = "listening" /\ (signals # <<>> \/ conn = "closed")
    \/ job \in Queued

\* A job that is replaced is the only one of its unit that was queued, so that its own signal is what
\* follows.
LEMMA AskQueued ==
  ASSUME JobsInv, OneQueued, NEW unit \in {"own", "other"}, NEW kind \in Controls, NEW id,
         Ask(unit, kind, id)
  PROVE  /\ OneQueued'
         /\ \A i \in Queued : i \in Queued' \/ ~ Listening
                             \/ \E k \in 1..Len(signals') : signals'[k] = i
         /\ \A k \in 1..Len(signals) : k \in 1..Len(signals') /\ signals'[k] = signals[k]
<1> DEFINE others == {i \in Queued : jobs[i].unit = unit}
           same   == {i \in others : jobs[i].kind = kind}
<1>1. CASE id \in same /\ UNCHANGED <<jobs, signals>>
  BY <1>1 DEF OneQueued, Queued
<1>2. CASE /\ id = Len(jobs) + 1
           /\ jobs' = Append([i \in DOMAIN jobs |-> IF i \in others
                                                    THEN [jobs[i] EXCEPT !.result = "canceled"]
                                                    ELSE jobs[i]],
                             [unit |-> unit, kind |-> kind, result |-> "queued"])
           /\ signals' = IF Listening /\ others # {}
                         THEN Append(signals, CHOOSE i \in others : TRUE) ELSE signals
  <2> DEFINE kept == [i \in DOMAIN jobs |-> IF i \in others
                                            THEN [jobs[i] EXCEPT !.result = "canceled"]
                                            ELSE jobs[i]]
             new == [unit |-> unit, kind |-> kind, result |-> "queued"]
  <2>1. jobs \in Seq(Jobs) /\ DOMAIN jobs = 1..Len(jobs) /\ \A i \in 1..Len(jobs) : jobs[i] \in Jobs
    BY DEF JobsInv
  <2>2. /\ kept \in Seq(Jobs) /\ Len(kept) = Len(jobs)
        /\ \A i \in 1..Len(jobs) :
             kept[i] = IF i \in others THEN [jobs[i] EXCEPT !.result = "canceled"] ELSE jobs[i]
    BY <2>1 DEF Jobs
  <2>3. new \in Jobs
    BY DEF Jobs
  <2>4. /\ jobs' \in Seq(Jobs) /\ Len(jobs') = Len(jobs) + 1 /\ jobs'[id] = new
        /\ \A i \in 1..Len(jobs) : jobs'[i] = kept[i]
    <3> HIDE DEF kept, new
    <3>1. jobs' = Append(kept, new) /\ id = Len(jobs) + 1
      BY <1>2 DEF kept, new
    <3>2. QED BY <3>1, <2>1, <2>2, <2>3
  <2>5. /\ DOMAIN jobs' = 1 .. Len(jobs) + 1 /\ id = Len(jobs) + 1
        /\ jobs'[id].unit = unit
        /\ \A i \in 1..Len(jobs) :
             /\ jobs'[i].unit = jobs[i].unit
             /\ jobs'[i].result = IF i \in others THEN "canceled" ELSE jobs[i].result
    BY <1>2, <2>1, <2>2, <2>4 DEF Jobs
  <2>6. /\ id \in Queued'
        /\ \A i \in Queued' : i = id \/ (i \in Queued /\ i \notin others)
        /\ \A i \in Queued : i \in Queued' \/ i \in others
    <3>1. Queued' = {i \in 1 .. Len(jobs) + 1 : jobs'[i].result = "queued"}
      BY <2>5 DEF Queued
    <3>2. \A i \in 1 .. Len(jobs) + 1 : i = id \/ i \in 1..Len(jobs)
      BY <2>1, <2>5
    <3>3. jobs'[id].result = "queued" /\ id \in 1 .. Len(jobs) + 1
      BY <2>1, <2>4, <2>5
    <3>4. Queued = {i \in 1..Len(jobs) : jobs[i].result = "queued"}
      BY <2>1 DEF Queued
    <3> HIDE DEF others
    <3>5. \A i \in 1..Len(jobs) : i \in 1 .. Len(jobs) + 1
      BY <2>1
    <3>6. QED BY <2>5, <3>1, <3>2, <3>3, <3>4, <3>5
  <2>7. OneQueued'
    <3> SUFFICES ASSUME NEW i \in Queued', NEW j \in Queued', jobs'[i].unit = jobs'[j].unit
                 PROVE  i = j
      BY DEF OneQueued
    <3>1. ASSUME NEW k \in Queued', k # id
          PROVE  k \in Queued /\ jobs'[k].unit = jobs[k].unit /\ jobs[k].unit # unit
      <4>1. k \in Queued /\ k \notin others
        BY <2>6, <3>1
      <4>2. k \in 1..Len(jobs)
        BY <2>1, <4>1 DEF Queued
      <4>3. QED BY <2>5, <4>1, <4>2
    <3>2. CASE i = id \/ j = id
      BY <2>5, <3>1, <3>2
    <3>3. CASE i # id /\ j # id
      BY <3>1, <3>3 DEF OneQueued
    <3>4. QED BY <3>2, <3>3
  <2>8. /\ signals \in Seq(DOMAIN jobs) /\ Len(signals) \in Nat
    BY DEF JobsInv
  <2>9. ASSUME NEW i \in others, Listening
        PROVE  \E k \in 1..Len(signals') : signals'[k] = i
    <3>1. (CHOOSE k \in others : TRUE) = i
      BY DEF OneQueued
    <3>2. signals' = Append(signals, i) /\ i \in DOMAIN jobs
      BY <1>2, <2>9, <3>1 DEF Queued
    <3>3. Len(signals') = Len(signals) + 1 /\ signals'[Len(signals) + 1] = i
      BY <2>8, <3>2
    <3>4. Len(signals) + 1 \in 1..Len(signals')
      BY <2>8, <3>3
    <3>5. QED BY <3>3, <3>4
  <2>10. \A k \in 1..Len(signals) : k \in 1..Len(signals') /\ signals'[k] = signals[k]
    <3>1. CASE signals' = signals
      BY <3>1
    <3>2. CASE others # {} /\ signals' = Append(signals, CHOOSE i \in others : TRUE)
      <4>1. PICK c : c \in others /\ signals' = Append(signals, c)
        BY <3>2
      <4>2. c \in DOMAIN jobs
        BY <4>1 DEF Queued
      <4>3. QED BY <2>8, <4>1, <4>2
    <3>3. QED BY <1>2, <3>1, <3>2
  <2>11. QED BY <2>6, <2>7, <2>9, <2>10
<1>3. QED BY <1>1, <1>2 DEF Ask

LEMMA OneQueuedStep == ServiceInv /\ OneQueued /\ [SystemdNext]_unitVars => OneQueued'
<1> SUFFICES ASSUME ServiceInv, OneQueued, [SystemdNext]_unitVars PROVE OneQueued'
  OBVIOUS
<1>1. CASE OtherClient
  BY <1>1, AskQueued, SystemdAssumption DEF OtherClient, ServiceInv
<1>2. CASE RequestJob
  <2>1. Requested(method) \in Controls
    BY <1>2 DEF RequestJob, ServiceInv, MethodInv, ControlMethods, Requested
  <2>2. QED BY <1>2, <2>1, AskQueued DEF RequestJob, ServiceInv
<1>3. CASE Finish
  <2>1. PICK i \in Queued, res \in Removals : jobs' = [jobs EXCEPT ![i].result = res]
    BY <1>3 DEF Finish
  <2>2. \A k \in DOMAIN jobs : jobs'[k].unit = jobs[k].unit
    <3>1. \A k \in 1..Len(jobs) : jobs'[k].unit = jobs[k].unit
      BY <1>3, FinishStep DEF Progress
    <3>2. DOMAIN jobs = 1..Len(jobs)
      BY DEF ServiceInv, JobsInv
    <3>3. QED BY <3>1, <3>2
  <2>3. Queued' \subseteq Queued
    <3>1. DOMAIN jobs' = DOMAIN jobs
      BY <2>1
    <3>2. \A k \in 1..Len(jobs) : jobs[k].result # "queued" => jobs'[k] = jobs[k]
      BY <1>3, FinishStep DEF Progress
    <3>3. DOMAIN jobs = 1..Len(jobs)
      BY DEF ServiceInv, JobsInv
    <3>4. QED BY <3>1, <3>2, <3>3 DEF Queued
  <2>4. \A k \in Queued : k \in DOMAIN jobs
    BY DEF Queued
  <2>5. QED BY <2>2, <2>3, <2>4 DEF OneQueued
<1>4. CASE ~ OtherClient /\ ~ RequestJob /\ ~ Finish
  <2>1. jobs' = jobs
    BY <1>4 DEF SystemdNext, HpgStep, Open, CallFile, CallControl, RequestRefused, Listen, Signal,
                StreamEnds, BusCloses, unitVars, systemdVars
  <2>2. QED BY <2>1 DEF OneQueued, Queued
<1>5. QED BY <1>1, <1>2, <1>3, <1>4

\* Once the stream is made in time, the end of the job is heard.
LEMMA HeardStep ==
  ServiceInv /\ OneQueued /\ Connected /\ Heard /\ ~ Missed /\ [SystemdNext]_unitVars => Heard'
<1> SUFFICES ASSUME ServiceInv, OneQueued, Connected, Heard, ~ Missed, [SystemdNext]_unitVars, Listening'
             PROVE  jobs'[job'].result = "queued" \/ \E k \in 1..Len(signals') : signals'[k] = job'
  BY DEF Heard
<1>1. CASE OtherClient
  <2>1. PICK unit \in {"own", "other"}, kind \in {"start", "stop"}, id \in 1..MaxJobs :
          Ask(unit, kind, id)
    BY <1>1 DEF OtherClient
  <2>2. /\ \A i \in Queued : i \in Queued' \/ ~ Listening
                            \/ \E k \in 1..Len(signals') : signals'[k] = i
        /\ \A k \in 1..Len(signals) : k \in 1..Len(signals') /\ signals'[k] = signals[k]
    BY <2>1, AskQueued, SystemdAssumption DEF ServiceInv
  <2>3. Listening /\ job' = job /\ job \in DOMAIN jobs
    BY <1>1 DEF OtherClient, hpgVars, Listening, ServiceInv, MethodInv, OwnJob, JobsInv
  <2>4. CASE jobs[job].result = "queued"
    BY <2>2, <2>3, <2>4 DEF Queued
  <2>5. CASE \E k \in 1..Len(signals) : signals[k] = job
    BY <2>2, <2>3, <2>5
  <2>6. QED BY <2>3, <2>4, <2>5 DEF Heard
<1>2. CASE Finish
  <2>1. PICK i \in Queued, res \in Removals :
          jobs' = [jobs EXCEPT ![i].result = res] /\ signals' = Append(signals, i)
    BY <1>2 DEF Finish, Listening, hpgVars
  <2>2. Listening /\ job' = job /\ job \in DOMAIN jobs /\ signals \in Seq(DOMAIN jobs) /\ i \in DOMAIN jobs
    BY <1>2 DEF Finish, hpgVars, Listening, ServiceInv, MethodInv, OwnJob, JobsInv, Queued
  <2>3. /\ Len(signals) \in Nat /\ Len(signals') = Len(signals) + 1
        /\ signals'[Len(signals) + 1] = i
        /\ \A k \in 1..Len(signals) : signals'[k] = signals[k]
    BY <2>1, <2>2
  <2>4. CASE job = i
    <3>1. Len(signals) + 1 \in 1..Len(signals')
      BY <2>3
    <3>2. QED BY <2>2, <2>3, <2>4, <3>1
  <2>5. CASE job # i /\ jobs[job].result = "queued"
    BY <2>1, <2>2, <2>5
  <2>6. CASE \E k \in 1..Len(signals) : signals[k] = job
    BY <2>2, <2>3, <2>6
  <2>7. QED BY <2>2, <2>4, <2>5, <2>6 DEF Heard
<1>3. CASE Signal
  <2>1. Head(signals) # job
    BY <1>3 DEF Signal, Return, Listening
  <2>2. signals' = Tail(signals) /\ UNCHANGED <<jobs, job, pc, conn>> /\ signals # <<>> /\ Listening
    BY <1>3, <2>1 DEF Signal, systemdVars, Listening
  <2>3. /\ Len(signals) \in Nat /\ Len(Tail(signals)) = Len(signals) - 1 /\ Head(signals) = signals[1]
        /\ \A k \in 1..Len(Tail(signals)) : Tail(signals)[k] = signals[k + 1]
    <3> DEFINE S == DOMAIN jobs
    <3> HIDE DEF S
    <3>1. signals \in Seq(S)
      BY DEF S, ServiceInv, JobsInv
    <3>2. QED BY <2>2, <3>1, HeadTailProperties
  <2>4. CASE \E k \in 1..Len(signals) : signals[k] = job
    <3>1. PICK k \in 1..Len(signals) : signals[k] = job
      BY <2>4
    <3>2. k # 1
      BY <2>1, <2>3, <3>1
    <3>3. k - 1 \in 1..Len(Tail(signals)) /\ (k - 1) + 1 = k
      BY <2>3, <3>1, <3>2
    <3>4. Tail(signals)[k - 1] = job
      BY <2>3, <3>1, <3>3
    <3>5. QED BY <2>2, <3>3, <3>4
  <2>5. QED BY <2>2, <2>4 DEF Heard
<1>4. CASE Listen
  BY <1>4 DEF Listen, Missed, Listening, systemdVars
<1>5. CASE ~ OtherClient /\ ~ Finish /\ ~ Signal /\ ~ Listen
  <2>1. ~ (RequestJob \/ RequestRefused \/ StreamEnds \/ BusCloses)
    BY DEF RequestJob, RequestRefused, Return, StreamEnds, BusCloses, Listening
  <2>2. ~ Open
    BY DEF Open, Listening, Connected
  <2>3. ASSUME NEW m \in FileMethods PROVE ~ CallFile(m)
    BY DEF CallFile, Return, Listening
  <2>4. ASSUME NEW m \in ControlMethods PROVE ~ CallControl(m)
    BY DEF CallControl, Listening
  <2>5. UNCHANGED unitVars
    BY <1>5, <2>1, <2>2, <2>3, <2>4 DEF SystemdNext, HpgStep
  <2>6. UNCHANGED <<jobs, job, signals>> /\ Listening
    BY <2>5 DEF unitVars, hpgVars, systemdVars, Listening
  <2>7. QED BY <2>6 DEF Heard
<1>6. QED BY <1>1, <1>2, <1>3, <1>4, <1>5

LEMMA ConnectedStep == Connected /\ [SystemdNext]_unitVars => Connected'
<1> SUFFICES ASSUME Connected, [SystemdNext]_unitVars PROVE Connected'
  OBVIOUS
<1>1. CASE Open \/ OtherClient \/ Finish \/ BusCloses
  BY <1>1 DEF Open, OtherClient, Finish, BusCloses, hpgVars, Connected
<1>2. CASE HpgStep
  BY <1>2 DEF HpgStep, RequestJob, RequestRefused, Return, Listen, Signal, StreamEnds, Connected
<1>3. ASSUME NEW m \in FileMethods, CallFile(m) PROVE Connected'
  BY <1>3 DEF CallFile, Return, Connected
<1>4. ASSUME NEW m \in ControlMethods, CallControl(m) PROVE Connected'
  BY <1>4 DEF CallControl, Connected
<1>5. CASE UNCHANGED unitVars
  BY <1>5 DEF unitVars, hpgVars, Connected
<1>6. QED BY <1>1, <1>2, <1>3, <1>4, <1>5 DEF SystemdNext

\* If no job ends between the manager's answer and the subscription to the signals, a method never
\* waits for a signal that will not come: a job that has ended, or was replaced by other
\* clients, has its own signal in the stream.
THEOREM ServiceWaitsForItsJob == SystemdSpec /\ [](~ Missed) => []WaitsForItsJob
<1>1. SystemdInit => OneQueued /\ Connected /\ Heard
  <2> SUFFICES ASSUME SystemdInit PROVE OneQueued /\ Connected /\ Heard
    OBVIOUS
  <2>1. jobs = <<>> /\ DOMAIN <<>> = {} /\ pc = "idle"
    BY DEF SystemdInit
  <2>2. QED BY <2>1 DEF OneQueued, Connected, Heard, Queued, Listening
<1>2. ServiceInv /\ Connected /\ Heard => WaitsForItsJob
  <2> SUFFICES ASSUME ServiceInv, Connected, Heard,
                      pc = "listening", conn # "closed", signals = <<>>
               PROVE  job \in Queued
    BY DEF WaitsForItsJob, ServiceInv, CallInv
  <2>1. job \in DOMAIN jobs
    BY DEF ServiceInv, JobsInv, MethodInv, OwnJob
  <2>2. conn = "open" /\ Len(signals) = 0
    BY EmptySeq DEF Connected, ServiceInv, CallInv
  <2>3. jobs[job].result = "queued"
    BY <2>2 DEF Heard, Listening
  <2>4. QED BY <2>1, <2>3 DEF Queued
<1>3. QED BY <1>1, <1>2, ServiceInvariant, OneQueuedStep, ConnectedStep, HeardStep, PTL
      DEF SystemdSpec

\* Where the stream holds the signal of the method's own job.
ItsSignalAt(n) == pc = "listening" /\ n \in DOMAIN signals /\ signals[n] = job

\* A turn of the loop brings the method closer to its own signal, and no step of systemd or of
\* another client takes it further away.
ComesToItsSignal ==
  \A n \in Nat : ItsSignalAt(n) =>
    IF Signal THEN pc' = "idle" \/ ItsSignalAt(n - 1)' ELSE ItsSignalAt(n)'

\* A signal that is in the stream is reached in as many turns of the loop as its place says,
\* however many signals of other jobs other clients put there meanwhile.
THEOREM ServiceComesToItsSignal == SystemdSpec => [][ComesToItsSignal]_unitVars
<1>1. ServiceInv /\ [SystemdNext]_unitVars => [ComesToItsSignal]_unitVars
  <2> SUFFICES ASSUME ServiceInv, SystemdNext, NEW n \in Nat, ItsSignalAt(n)
               PROVE  IF Signal THEN pc' = "idle" \/ ItsSignalAt(n - 1)' ELSE ItsSignalAt(n)'
    BY DEF ComesToItsSignal
  <2>1. /\ signals \in Seq(DOMAIN jobs) /\ pc = "listening" /\ n \in 1..Len(signals) /\ signals[n] = job
        /\ Len(signals) \in Nat /\ signals # <<>>
    BY EmptySeq DEF ItsSignalAt, ServiceInv, JobsInv
  <2>2. CASE Signal
    <3>1. CASE Head(signals) = job
      BY <2>2, <3>1 DEF Signal, Return
    <3>2. CASE Head(signals) # job
      <4>1. signals' = Tail(signals) /\ UNCHANGED <<pc, job>>
        BY <2>2, <3>2 DEF Signal
      <4>2. n # 1 /\ Head(signals) = signals[1]
        BY <2>1, <3>2
      <4>3. n - 1 \in 1 .. Len(signals) - 1 /\ (n - 1) + 1 = n
        BY <2>1, <4>2
      <4>4. DOMAIN Tail(signals) = 1 .. Len(signals) - 1 /\ Tail(signals)[n - 1] = signals[n]
        BY <2>1, <4>3, HeadTailProperties
      <4>5. ItsSignalAt(n - 1)'
        BY <2>1, <4>1, <4>3, <4>4 DEF ItsSignalAt
      <4>6. QED BY <2>2, <4>5
    <3>3. QED BY <3>1, <3>2
  <2>3. CASE ~ Signal
    <3>1. UNCHANGED <<pc, job>> /\ (signals' = signals \/ \E i \in DOMAIN jobs : signals' = Append(signals, i))
      <4>1. ~ (RequestJob \/ RequestRefused \/ Listen \/ StreamEnds)
        BY <2>1 DEF RequestJob, RequestRefused, Listen, StreamEnds
      <4>2. ~ (\E m \in FileMethods : CallFile(m)) /\ ~ (\E m \in ControlMethods : CallControl(m))
        BY <2>1 DEF CallFile, CallControl
      <4>3. CASE Open \/ BusCloses
        BY <4>3 DEF Open, BusCloses
      <4>4. CASE Finish
        BY <4>4 DEF Finish, hpgVars, Queued
      <4>5. CASE OtherClient
        <5>1. PICK unit \in {"own", "other"}, kind \in {"start", "stop"}, id \in 1..MaxJobs :
                Ask(unit, kind, id)
          BY <4>5 DEF OtherClient
        <5>2. signals' = signals \/ \E i \in DOMAIN jobs : signals' = Append(signals, i)
          <6> DEFINE others == {i \in Queued : jobs[i].unit = unit}
          <6>1. signals' = signals \/ (others # {} /\ signals' = Append(signals, CHOOSE i \in others : TRUE))
            BY <5>1 DEF Ask
          <6>2. others \subseteq DOMAIN jobs
            BY DEF Queued
          <6>3. QED BY <6>1, <6>2
        <5>3. QED BY <4>5, <5>2 DEF OtherClient, hpgVars
      <4>6. QED BY <2>3, <4>1, <4>2, <4>3, <4>4, <4>5 DEF SystemdNext, HpgStep
    <3>2. n \in DOMAIN signals' /\ signals'[n] = signals[n]
      <4>1. ASSUME NEW i \in DOMAIN jobs, signals' = Append(signals, i)
            PROVE  n \in DOMAIN signals' /\ signals'[n] = signals[n]
        BY <2>1, <4>1, AppendProperties
      <4>2. QED BY <2>1, <3>1, <4>1
    <3>3. QED BY <2>1, <2>3, <3>1, <3>2 DEF ItsSignalAt
  <2>4. QED BY <2>2, <2>3
<1>2. QED BY <1>1, ServiceInvariant, PTL DEF SystemdSpec
=============================================================================
