------------------------------ MODULE SystemdUnit ------------------------------
(***************************************************************************)
(* A unit of systemd as a script sees it (modules/services).  A method     *)
(* asks the manager for a job, makes a stream of JobRemoved signals, and   *)
(* reads it until the signal of its own job comes.  systemd works on its   *)
(* jobs meanwhile, for hpg and for other clients, on this unit and on      *)
(* others: signals of any job reach the stream, in any order, and a job    *)
(* that is removed before the stream is there is never heard of.           *)
(***************************************************************************)
EXTENDS Naturals, Sequences

CONSTANTS
  Controls,     \* the methods that ask for a job: start, stop, restart, ...
  Removals,     \* the results of jobs that systemd reports
  MaxJobs,      \* bound: jobs systemd is asked for
  MaxCalls      \* bound: methods the script calls

ASSUME SystemdAssumption ==
  /\ Controls \subseteq {"start", "stop", "reload", "restart", "reload_or_restart"}
  /\ {"start", "stop"} \subseteq Controls
  /\ Removals \subseteq STRING /\ {"done", "canceled"} \subseteq Removals
  /\ "queued" \notin Removals
  /\ MaxJobs \in Nat /\ MaxCalls \in Nat

VARIABLES
  conn,         \* the connection to the bus
  method,       \* the method called last
  pc,           \* where it is
  job,          \* the job the manager has named, 0 if none
  signals,      \* what the stream of JobRemoved signals holds
  outcome,      \* what the method has returned
  jobs,         \* systemd: every job so far, by its number
  unitFile,     \* systemd: the state of the unit's file
  calls

hpgVars     == <<conn, method, pc, job, outcome, calls>>
systemdVars == <<jobs, unitFile>>
unitVars    == <<hpgVars, signals, systemdVars>>

\* JobResult::from_str, which knows no other one
JobResults == {"done", "canceled", "timeout", "failed", "dependency", "skipped"}

ControlMethods == [name : Controls, must : BOOLEAN]
FileMethods == [name : {"enable", "disable", "mask", "unmask", "daemon_reload"}, must : {FALSE}]

SystemdInit ==
  /\ conn = "none" /\ method = [name |-> "none", must |-> FALSE]
  /\ pc = "idle" /\ job = 0 /\ signals = <<>> /\ outcome = "none"
  /\ jobs = <<>> /\ unitFile \in {"disabled", "masked"} /\ calls = 0

Return(res) == pc' = "idle" /\ outcome' = res

-----------------------------------------------------------------------------
(* systemd                                                                 *)

Listening == pc = "listening" /\ conn = "open"

Queued == {i \in DOMAIN jobs : jobs[i].result = "queued"}

\* A job of this kind is asked for in mode "replace": it is merged with a queued one
\* of its kind, or takes the place of one that is in the way.  `id' is its number.
Ask(unit, kind, id) ==
  LET others == {i \in Queued : jobs[i].unit = unit}
      same   == {i \in others : jobs[i].kind = kind}
  IN  \/ id \in same /\ UNCHANGED <<jobs, signals>>
      \/ /\ same = {} /\ Len(jobs) < MaxJobs /\ id = Len(jobs) + 1
         /\ jobs' = Append([i \in DOMAIN jobs |-> IF i \in others
                                                  THEN [jobs[i] EXCEPT !.result = "canceled"]
                                                  ELSE jobs[i]],
                           [unit |-> unit, kind |-> kind, result |-> "queued"])
         /\ signals' = IF Listening /\ others # {}
                       THEN Append(signals, CHOOSE i \in others : TRUE) ELSE signals

OtherClient ==
  /\ \E unit \in {"own", "other"}, kind \in {"start", "stop"}, id \in 1..MaxJobs :
       Ask(unit, kind, id) /\ id \notin DOMAIN jobs
  /\ UNCHANGED <<hpgVars, unitFile>>

\* A job ends.  The signal goes to those who listen; nothing is kept for others.
Finish ==
  /\ \E i \in Queued, res \in Removals :
       /\ jobs' = [jobs EXCEPT ![i].result = res]
       /\ signals' = IF Listening THEN Append(signals, i) ELSE signals
  /\ UNCHANGED <<hpgVars, unitFile>>

BusCloses ==
  /\ conn = "open"
  /\ conn' = "closed"
  /\ UNCHANGED <<method, pc, job, outcome, calls, signals, systemdVars>>

-----------------------------------------------------------------------------
(* The script's calls                                                      *)

\* systemd.system(unit), systemd.session(unit): connect and Subscribe
Open ==
  /\ conn = "none"
  /\ \/ conn' = "open" /\ UNCHANGED outcome
     \/ outcome' = "error" /\ UNCHANGED conn
  /\ UNCHANGED <<method, pc, job, calls, signals, systemdVars>>

\* enable(), mask(), ... and daemon_reload(): one call of the manager, no job
CallFile(m) ==
  /\ pc = "idle" /\ conn # "none" /\ calls < MaxCalls
  /\ method' = m /\ job' = 0 /\ calls' = calls + 1
  /\ \/ /\ conn = "open"
        /\ m.name = "enable" => unitFile # "masked"
        /\ unitFile' = CASE m.name = "enable" -> "enabled"
                         [] m.name \in {"disable", "unmask"} -> "disabled"
                         [] m.name = "mask" -> "masked"
                         [] OTHER -> unitFile
        /\ Return("ok")
     \/ Return("error") /\ UNCHANGED unitFile
  /\ UNCHANGED <<conn, signals, jobs>>

\* start(), must_start(), ...
CallControl(m) ==
  /\ pc = "idle" /\ conn # "none" /\ calls < MaxCalls
  /\ method' = m /\ job' = 0 /\ calls' = calls + 1
  /\ pc' = "calling" /\ outcome' = "none"
  /\ UNCHANGED <<conn, signals, systemdVars>>

\* The job the method asks for.  must_stop() calls unit.start().
MustStop == [name |-> "stop", must |-> TRUE]
Requested(m) == IF m = MustStop THEN "start" ELSE m.name

\* StartUnit, StopUnit, ... with "replace"; a masked unit can only be stopped.
RequestJob ==
  /\ pc = "calling" /\ conn = "open"
  /\ unitFile = "masked" => Requested(method) = "stop"
  /\ \E id \in 1..MaxJobs : Ask("own", Requested(method), id) /\ job' = id
  /\ pc' = "queued"
  /\ UNCHANGED <<conn, method, outcome, calls, unitFile>>

\* The manager refuses, or is not reached.
RequestRefused ==
  /\ pc = "calling"
  /\ Return("error")
  /\ UNCHANGED <<conn, method, job, calls, signals, systemdVars>>

\* wait_for_job: receive_job_removed() makes a stream of the signals from now on.
Listen ==
  /\ pc = "queued"
  /\ IF conn = "open" THEN pc' = "listening" /\ signals' = <<>> /\ UNCHANGED outcome
     ELSE Return("error") /\ UNCHANGED signals
  /\ UNCHANGED <<conn, method, job, calls, systemdVars>>

\* What the method makes of the result: the must_ ones return nothing or raise.
Judge(res) ==
  CASE res \notin JobResults -> "error"
    [] method.must -> IF res = "done" THEN "ok" ELSE "error"
    [] OTHER -> res

\* Mutant of Signal: the signal of any job is taken.
SignalOfAnyJob ==
  /\ pc = "listening" /\ signals # <<>>
  /\ Return(Judge(jobs[Head(signals)].result)) /\ signals' = <<>>
  /\ UNCHANGED <<conn, method, job, calls, systemdVars>>

\* Mutant of Signal: the stream outlives the call.
SignalKeepsStream ==
  /\ pc = "listening" /\ signals # <<>>
  /\ signals' = Tail(signals)
  /\ IF Head(signals) = job THEN Return(Judge(jobs[job].result)) ELSE UNCHANGED <<pc, outcome>>
  /\ UNCHANGED <<conn, method, job, calls, systemdVars>>

\* Mutant of Signal: the wait is for the job to be done.
SignalDone ==
  /\ pc = "listening" /\ signals # <<>>
  /\ IF Head(signals) = job /\ jobs[job].result = "done"
     THEN Return(Judge("done")) /\ signals' = <<>>
     ELSE signals' = Tail(signals) /\ UNCHANGED <<pc, outcome>>
  /\ UNCHANGED <<conn, method, job, calls, systemdVars>>

\* The next signal of the stream: its own job's, and the stream is dropped, or not.
Signal ==
  /\ pc = "listening" /\ signals # <<>>
  /\ IF Head(signals) = job
     THEN Return(Judge(jobs[job].result)) /\ signals' = <<>>
     ELSE signals' = Tail(signals) /\ UNCHANGED <<pc, outcome>>
  /\ UNCHANGED <<conn, method, job, calls, systemdVars>>

\* The stream ends with the connection; the outer loop makes another one.
StreamEnds ==
  /\ pc = "listening" /\ signals = <<>> /\ conn = "closed"
  /\ pc' = "queued"
  /\ UNCHANGED <<conn, method, job, outcome, calls, signals, systemdVars>>

HpgStep == RequestJob \/ RequestRefused \/ Listen \/ Signal \/ StreamEnds

SystemdNext ==
  \/ Open
  \/ \E m \in FileMethods : CallFile(m)
  \/ \E m \in ControlMethods : CallControl(m)
  \/ HpgStep \/ OtherClient \/ Finish \/ BusCloses

SystemdSpec == SystemdInit /\ [][SystemdNext]_unitVars

\* hpg's thread runs.  There are finitely many jobs (MaxJobs), and systemd ends each
\* of them, since each has a time limit.
FairSystemdSpec == SystemdSpec /\ WF_unitVars(HpgStep) /\ WF_unitVars(Finish)

-----------------------------------------------------------------------------
(* Properties                                                              *)

ServiceTypeOK ==
  /\ conn \in {"none", "open", "closed"}
  /\ method \in ControlMethods \cup FileMethods \cup {[name |-> "none", must |-> FALSE]}
  /\ pc \in {"idle", "calling", "queued", "listening"}
  /\ job \in 0..Len(jobs)
  /\ pc \in {"queued", "listening"} => job # 0
  /\ signals \in Seq(DOMAIN jobs)
  /\ pc # "listening" => signals = <<>>
  /\ \A i \in DOMAIN signals : jobs[signals[i]].result # "queued"
  /\ outcome \in {"none", "ok", "error"} \cup JobResults
  /\ jobs \in Seq([unit : {"own", "other"}, kind : Controls, result : Removals \cup {"queued"}])
  /\ unitFile \in {"enabled", "disabled", "masked"} /\ calls \in 0..MaxCalls

\* Whatever jobs other clients have on this unit and on others, a method answers for
\* the job it asked for: the kind its name says (but for must_stop()), on its own
\* unit, and with the result systemd gave to that very job; a must_ method returns
\* only if that was "done".
Succeeded == pc = "idle" /\ method \in ControlMethods /\ outcome \in {"ok"} \cup JobResults
ResultOfOwnJob ==
  Succeeded =>
    /\ jobs[job].unit = "own"
    /\ method # MustStop => jobs[job].kind = method.name
    /\ jobs[job].result = IF method.must THEN "done" ELSE outcome

\* A method returns if its job is still queued when the stream of signals is made,
\* whatever becomes of the job and of the bus.  (Otherwise it waits for ever.)
Missed == pc = "queued" /\ conn = "open" /\ jobs[job].result # "queued"
WaitEnds == [](~ Missed) => (pc = "calling" ~> pc = "idle")

\* "Stop the unit, or fail execution." (hpgdefs.lua, SystemdUnit:must_stop)
MustStopStops ==
  Succeeded /\ method = MustStop => jobs[job].kind = "stop"
=============================================================================
