------------------------------ MODULE TrackerSink ------------------------------
(***************************************************************************)
(* The global event tracker of hpg (tracker/mod.rs) and the way each       *)
(* subcommand uses it (main.rs, remote/server.rs).                         *)
(*                                                                         *)
(* Two threads share an unbounded channel and a sink behind an RwLock.     *)
(* The main thread emits events; the pump thread receives one event at a   *)
(* time and only then takes the read lock and hands it to whatever sink is *)
(* installed.  The server swaps the sink: to_remote before the run and     *)
(* to_local after it, each preceded by wait_for_drain, which looks at the  *)
(* channel and not at the event the pump may be holding.                   *)
(*                                                                         *)
(* Events are numbered from 1 in the order they are emitted.               *)
(***************************************************************************)
EXTENDS Naturals, Sequences

CONSTANT MaxEvents      \* bound: events one run emits

ASSUME MaxEventsAssumption == MaxEvents \in Nat

VARIABLES
  command,      \* the subcommand: "Local", "Ssh" or "Server"
  main,         \* where the main thread is
  pump,         \* where the pump thread is
  emitted,      \* number of events emitted so far
  queue,        \* the unbounded channel between EventSource and EventSink
  held,         \* the event the pump received last
  output,       \* the sink installed in EventSink.output
  shown,        \* events handed to the local PrettyTracker
  wire,         \* events written to the client's stream
  finishSent,   \* the Finish message is on the client's stream
  client        \* "attached", or "gone" once sshd has closed the session

sinkVars == <<command, main, pump, emitted, queue, held, output, shown, wire,
              finishSent, client>>

Event == 1..MaxEvents
Exit  == 0              \* TrackerEvent::Exit

Process == {"done", "aborted", "panicked"}      \* ends of the process

SinkInit ==
  /\ command \in {"Local", "Ssh", "Server"}
  /\ main = IF command = "Server" THEN "drainRemote" ELSE "run"
  /\ pump = "recv" /\ emitted = 0 /\ queue = <<>> /\ held = Exit
  /\ output = "Local" /\ shown = <<>> /\ wire = <<>>
  /\ finishSent = FALSE /\ client = "attached"

-----------------------------------------------------------------------------
(* The main thread                                                         *)

\* A server that no client reaches, or that fails before the Exec message, ends
\* without to_remote: listen_socket returns Ok after the accept timeout and an
\* error otherwise.
NoSession ==
  /\ command = "Server" /\ main = "drainRemote"
  /\ main' \in {"finish", "aborted"}
  /\ UNCHANGED <<command, pump, emitted, queue, held, output, shown, wire,
                 finishSent, client>>

\* wait_for_drain leaves its loop once it sees an empty channel.
WaitForDrain ==
  /\ main \in {"drainRemote", "drainLocal"}
  /\ queue = <<>>
  /\ main' = IF main = "drainRemote" THEN "toRemote" ELSE "toLocal"
  /\ UNCHANGED <<command, pump, emitted, queue, held, output, shown, wire,
                 finishSent, client>>

\* The rest of to_remote: the remote writer replaces the local tracker.
ToRemote ==
  /\ main = "toRemote"
  /\ output' = "Remote" /\ main' = "run"
  /\ UNCHANGED <<command, pump, emitted, queue, held, shown, wire, finishSent,
                 client>>

\* Any method of EventSource that sends an event while the program runs.
Emit ==
  /\ main = "run" /\ emitted < MaxEvents
  /\ emitted' = emitted + 1
  /\ queue' = Append(queue, emitted + 1)
  /\ UNCHANGED <<command, main, pump, held, output, shown, wire, finishSent,
                 client>>

\* Mutant of EndRun: to_local without wait_for_drain.
EndRunNoDrain ==
  /\ main = "run"
  /\ main' = IF command = "Server" THEN "toLocal" ELSE "finish"
  /\ UNCHANGED <<command, pump, emitted, queue, held, output, shown, wire,
                 finishSent, client>>

\* The work is over: the server goes on to to_local, the other commands to
\* handle.finish().  run_hpg_local's result is only returned afterwards.
EndRun ==
  /\ main = "run"
  /\ main' = IF command = "Server" THEN "drainLocal" ELSE "finish"
  /\ UNCHANGED <<command, pump, emitted, queue, held, output, shown, wire,
                 finishSent, client>>

\* In the Ssh arm a `?` returns an error before handle.finish().
EndRunWithError ==
  /\ main = "run" /\ command = "Ssh"
  /\ main' = "aborted"
  /\ UNCHANGED <<command, pump, emitted, queue, held, output, shown, wire,
                 finishSent, client>>

\* Mutant of ToLocal: the stream is shared with the sink, not taken out of it.
ToLocalSharesStream ==
  /\ main = "toLocal"
  /\ main' = IF pump = "panicked" THEN "panicked" ELSE "sendFinish"
  /\ UNCHANGED <<command, pump, emitted, queue, held, output, shown, wire,
                 finishSent, client>>

\* The rest of to_local.  A pump that panicked inside RemoteWriter::event has
\* poisoned the writer's mutex, and taking the writer out of it panics too.
ToLocal ==
  /\ main = "toLocal"
  /\ output' = "Local"
  /\ main' = IF pump = "panicked" THEN "panicked" ELSE "sendFinish"
  /\ UNCHANGED <<command, pump, emitted, queue, held, shown, wire, finishSent,
                 client>>

\* server_exec_hpg tells the client that the run is over; when the stream is
\* broken the error propagates past handle.finish().
SendFinish ==
  /\ main = "sendFinish"
  /\ finishSent' = (client = "attached")
  /\ main' = IF client = "attached" THEN "finish" ELSE "aborted"
  /\ UNCHANGED <<command, pump, emitted, queue, held, output, shown, wire,
                 client>>

\* Mutant of FinishHandle: the thread is joined without telling it to exit.
FinishHandleSilently ==
  /\ main = "finish" /\ main' = "join"
  /\ UNCHANGED <<command, pump, emitted, queue, held, output, shown, wire,
                 finishSent, client>>

\* SinkHandle::finish sends Exit ...
FinishHandle ==
  /\ main = "finish"
  /\ queue' = Append(queue, Exit) /\ main' = "join"
  /\ UNCHANGED <<command, pump, emitted, held, output, shown, wire, finishSent,
                 client>>

\* Mutant of JoinPump: the handle is dropped, which detaches the thread.
DetachPump ==
  /\ main = "join" /\ main' = "done"
  /\ UNCHANGED <<command, pump, emitted, queue, held, output, shown, wire,
                 finishSent, client>>

\* ... and joins the pump thread, whatever the thread returned.
JoinPump ==
  /\ main = "join" /\ pump \in {"exited", "panicked"}
  /\ main' = "done"
  /\ UNCHANGED <<command, pump, emitted, queue, held, output, shown, wire,
                 finishSent, client>>

MainStep ==
  \/ NoSession \/ WaitForDrain \/ ToRemote \/ Emit \/ EndRun
  \/ EndRunWithError \/ ToLocal \/ SendFinish \/ FinishHandle \/ JoinPump

-----------------------------------------------------------------------------
(* The pump thread; it ends with the process.                              *)

\* Mutant of PumpReceive: Exit is passed on like any other event.
PumpReceiveAll ==
  /\ main \notin Process
  /\ pump = "recv" /\ queue # <<>>
  /\ queue' = Tail(queue) /\ held' = Head(queue) /\ pump' = "holding"
  /\ UNCHANGED <<command, main, emitted, output, shown, wire, finishSent,
                 client>>

\* recv, and the return on Exit.
PumpReceive ==
  /\ main \notin Process
  /\ pump = "recv" /\ queue # <<>>
  /\ queue' = Tail(queue)
  /\ held' = Head(queue)
  /\ pump' = IF Head(queue) = Exit THEN "exited" ELSE "holding"
  /\ UNCHANGED <<command, main, emitted, output, shown, wire, finishSent,
                 client>>

\* The read lock is held while the event is written, so that the delivery is
\* one step with respect to a swap of the sink.
PumpDeliver ==
  /\ main \notin Process
  /\ pump = "holding" /\ ~ (output = "Remote" /\ client = "gone")
  /\ pump' = "recv"
  /\ IF output = "Local"
     THEN shown' = Append(shown, held) /\ UNCHANGED wire
     ELSE wire' = Append(wire, held) /\ UNCHANGED shown
  /\ UNCHANGED <<command, main, emitted, queue, held, output, finishSent,
                 client>>

\* Mutant of PumpPanics: the panic is caught and the pump goes on.
PumpSurvives ==
  /\ main \notin Process
  /\ pump = "holding" /\ output = "Remote" /\ client = "gone"
  /\ pump' = "recv"
  /\ UNCHANGED <<command, main, emitted, queue, held, output, shown, wire,
                 finishSent, client>>

\* RemoteWriter::event prints the event before it sends it, and println!
\* panics once sshd has closed the server's standard output.
PumpPanics ==
  /\ main \notin Process
  /\ pump = "holding" /\ output = "Remote" /\ client = "gone"
  /\ pump' = "panicked"
  /\ UNCHANGED <<command, main, emitted, queue, held, output, shown, wire,
                 finishSent, client>>

PumpStep == PumpReceive \/ PumpDeliver \/ PumpPanics

-----------------------------------------------------------------------------
(* The client's ssh connection may end at any time.                        *)
ClientLeaves ==
  /\ command = "Server" /\ main \notin Process /\ client = "attached"
  /\ client' = "gone"
  /\ UNCHANGED <<command, main, pump, emitted, queue, held, output, shown,
                 wire, finishSent>>

SinkNext == MainStep \/ PumpStep \/ ClientLeaves

SinkSpec == SinkInit /\ [][SinkNext]_sinkVars

\* Both threads are scheduled by the operating system; the client need not
\* leave.
FairSinkSpec == SinkSpec /\ WF_sinkVars(MainStep) /\ WF_sinkVars(PumpStep)

-----------------------------------------------------------------------------
(* Properties                                                              *)

SinkTypeOK ==
  /\ command \in {"Local", "Ssh", "Server"}
  /\ main \in {"drainRemote", "toRemote", "run", "drainLocal", "toLocal",
               "sendFinish", "finish", "join"} \cup Process
  /\ pump \in {"recv", "holding", "exited", "panicked"}
  /\ emitted \in 0..MaxEvents /\ held \in Event \cup {Exit}
  /\ queue \in Seq(Event \cup {Exit})
  /\ output \in {"Local", "Remote"}
  /\ shown \in Seq(Event) /\ wire \in Seq(Event)
  /\ finishSent \in BOOLEAN /\ client \in {"attached", "gone"}

\* Over both sinks together no event is lost in the middle, delivered twice or
\* overtaken, swaps of the sink included: the remote sink gets the first events
\* of a run and the local one the ones that follow (message_pump, to_local).
EventsInOrder ==
  \A i \in 1 .. Len(wire) + Len(shown) : (wire \o shown)[i] = i

\* A server's event reaches the local terminal instead of the client only if it
\* is the very last one of the run: wait_for_drain saw the channel empty while
\* the pump still held it.
OnlyLastMisrouted ==
  command = "Server" => \A i \in DOMAIN shown : shown[i] = emitted

\* Once the command got through handle.finish(), everything it emitted has been
\* written somewhere: joining the pump flushes the channel.
FlushedOnFinish ==
  main = "done" => Len(wire) + Len(shown) = emitted

\* Nothing is written to the client's stream behind the Finish message; the
\* stream is taken out of the sink before Finish is sent (server_exec_hpg).
NothingAfterFinish ==
  [][finishSent => UNCHANGED wire]_sinkVars

\* Neither the busy wait of wait_for_drain nor the join of the pump blocks the
\* process for ever, as long as the client stays.
ProcessEnds ==
  [](client = "attached") => <>(main \in Process)

=============================================================================
