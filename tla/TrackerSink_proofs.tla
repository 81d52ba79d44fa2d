-------------------------- MODULE TrackerSink_proofs --------------------------
(***************************************************************************)
(* Proofs about the event tracker, for a run of any number of events.      *)
(***************************************************************************)
EXTENDS TrackerSink, TLAPS, SequenceTheorems

(***************************************************************************)
(* The inductive invariant                                                 *)
(***************************************************************************)

Delivered == Len(wire) + Len(shown)
Holding   == IF pump = "holding" THEN 1 ELSE 0
\* The events in the channel: finish() puts Exit behind them before it joins.
Waiting   == IF main = "join" THEN Len(queue) - 1 ELSE Len(queue)

\* Every event is delivered, held or waiting, in this order.
FlowInv ==
  /\ pump \in {"recv", "holding"} =>
       /\ emitted = Delivered + Holding + Waiting
       /\ \A i \in 1..Waiting : queue[i] = Delivered + Holding + i
       /\ main = "join" => queue # <<>> /\ queue[Len(queue)] = Exit
  /\ pump = "holding" => held = Delivered + 1
  /\ pump = "exited" => /\ queue = <<>> /\ emitted = Delivered
                        /\ main \in {"join", "done"}

\* What was delivered, sink by sink.
DeliveredInv ==
  /\ \A i \in DOMAIN wire : wire[i] = i
  /\ \A i \in DOMAIN shown : shown[i] = Len(wire) + i

\* Which sink is installed where: the remote one from to_remote to to_local of a
\* server, and no event is emitted or waits around a swap.
SwapInv ==
  /\ main \in {"drainRemote", "toRemote"} =>
       emitted = 0 /\ pump = "recv" /\ output = "Local" /\ wire = <<>>
  /\ main \in {"drainRemote", "toRemote", "drainLocal", "toLocal", "sendFinish"} =>
       command = "Server"
  /\ output = "Remote" => shown = <<>>
  /\ command # "Server" => output = "Local" /\ main # "sendFinish"
  /\ command = "Server" /\ main \in {"run", "drainLocal"} => output = "Remote"
  /\ command = "Server" /\ main \in {"toLocal", "sendFinish", "finish", "join"}
       /\ pump \in {"recv", "holding"} => Waiting = 0
  /\ main \in {"sendFinish", "finish", "join", "done"} =>
       output = "Local" /\ pump # "panicked"
  /\ pump = "panicked" => output = "Remote" \/ main = "panicked"
  /\ main = "done" => pump = "exited"
  /\ finishSent => output = "Local" /\ main \in {"finish", "join", "done"}
  /\ command = "Server" => \A i \in DOMAIN shown : shown[i] = emitted

SinkInv == SinkTypeOK /\ FlowInv /\ DeliveredInv /\ SwapInv

LEMMA InitSinkInv == SinkInit => SinkInv
<1> SUFFICES ASSUME SinkInit PROVE SinkInv
  OBVIOUS
<1>1. SinkTypeOK
  <2>1. <<>> \in Seq(Event \cup {Exit}) /\ <<>> \in Seq(Event)
    OBVIOUS
  <2>2. main \in {"drainRemote", "run"}
    BY DEF SinkInit
  <2>3. emitted \in 0..MaxEvents
    BY MaxEventsAssumption DEF SinkInit
  <2>4. QED BY <2>1, <2>2, <2>3 DEF SinkInit, SinkTypeOK
<1>2. Delivered = 0 /\ Holding = 0 /\ Waiting = 0 /\ emitted = 0
  BY DEF SinkInit, Delivered, Holding, Waiting
<1>3. FlowInv
  BY <1>2 DEF SinkInit, FlowInv
<1>4. DeliveredInv /\ SwapInv
  BY <1>2 DEF SinkInit, DeliveredInv, SwapInv
<1>5. QED BY <1>1, <1>3, <1>4 DEF SinkInv

\* The terms of FlowInv are numbers, and no step of the proof needs more of them
\* than how they change.
LEMMA FlowTypes ==
  ASSUME SinkTypeOK
  PROVE  /\ Len(wire) \in Nat /\ Len(shown) \in Nat /\ Len(queue) \in Nat
         /\ Delivered \in Nat /\ Holding \in {0, 1} /\ Waiting \in Int
BY DEF SinkTypeOK, Delivered, Holding, Waiting

(***************************************************************************)
(* The main thread                                                         *)
(***************************************************************************)

\* The steps that move the main thread and touch neither the channel nor a sink.
Moves == NoSession \/ WaitForDrain \/ EndRun \/ EndRunWithError \/ SendFinish \/ JoinPump

LEMMA MovesSinkInv ==
  ASSUME SinkInv, Moves
  PROVE  SinkInv'
<1> USE MaxEventsAssumption
    DEF SinkInv, SinkTypeOK, FlowInv, DeliveredInv, SwapInv, Delivered, Holding,
        Waiting, Event, Exit, Process
<1>1. CASE NoSession
  BY <1>1 DEF NoSession
<1>2. CASE WaitForDrain
  BY <1>2 DEF WaitForDrain
<1>3. CASE EndRun
  BY <1>3 DEF EndRun
<1>4. CASE EndRunWithError
  BY <1>4 DEF EndRunWithError
<1>5. CASE SendFinish
  BY <1>5 DEF SendFinish
<1>6. CASE JoinPump
  BY <1>6 DEF JoinPump
<1>7. QED BY <1>1, <1>2, <1>3, <1>4, <1>5, <1>6 DEF Moves

LEMMA SwapSinkInv ==
  ASSUME SinkInv, ToRemote \/ ToLocal
  PROVE  SinkInv'
<1> USE MaxEventsAssumption
    DEF SinkInv, SinkTypeOK, FlowInv, DeliveredInv, SwapInv, Delivered, Holding,
        Waiting, Event, Exit, Process
<1>1. CASE ToRemote
  BY <1>1 DEF ToRemote
<1>2. CASE ToLocal
  BY <1>2 DEF ToLocal
<1>3. QED BY <1>1, <1>2

LEMMA EmitSinkInv ==
  ASSUME SinkInv, Emit
  PROVE  SinkInv'
<1> USE MaxEventsAssumption DEF SinkInv, Event, Exit, Process
<1>1. /\ queue' \in Seq(Event \cup {Exit}) /\ Len(queue') = Len(queue) + 1
      /\ \A i \in 1..Len(queue) : queue'[i] = queue[i]
      /\ queue'[Len(queue) + 1] = emitted + 1
      /\ emitted' = emitted + 1 /\ emitted' \in 1..MaxEvents
  BY DEF Emit, SinkTypeOK
<1>2. SinkTypeOK'
  BY <1>1 DEF Emit, SinkTypeOK
<1>3. Waiting' = Waiting + 1 /\ Waiting = Len(queue) /\ UNCHANGED <<Delivered, Holding>>
  BY <1>1, FlowTypes DEF Emit, Delivered, Holding, Waiting
<1>4. FlowInv'
  BY <1>1, <1>3, FlowTypes DEF Emit, FlowInv
<1>5. DeliveredInv' /\ SwapInv'
  BY <1>1 DEF Emit, SinkTypeOK, DeliveredInv, SwapInv
<1>6. QED BY <1>2, <1>4, <1>5

LEMMA FinishHandleSinkInv ==
  ASSUME SinkInv, FinishHandle
  PROVE  SinkInv'
<1> USE MaxEventsAssumption DEF SinkInv, Event, Exit, Process
<1>1. /\ queue' \in Seq(Event \cup {Exit}) /\ Len(queue') = Len(queue) + 1
      /\ \A i \in 1..Len(queue) : queue'[i] = queue[i]
      /\ queue'[Len(queue) + 1] = Exit
  BY DEF FinishHandle, SinkTypeOK
<1>2. SinkTypeOK'
  BY <1>1 DEF FinishHandle, SinkTypeOK
<1>3. Waiting' = Waiting /\ Waiting = Len(queue) /\ UNCHANGED <<Delivered, Holding>>
  BY <1>1, FlowTypes DEF FinishHandle, Delivered, Holding, Waiting
<1>4. FlowInv'
  BY <1>1, <1>3, FlowTypes DEF FinishHandle, FlowInv
<1>5. DeliveredInv' /\ SwapInv'
  BY <1>1, <1>3 DEF FinishHandle, SinkTypeOK, DeliveredInv, SwapInv
<1>6. QED BY <1>2, <1>4, <1>5

(***************************************************************************)
(* The pump thread                                                         *)
(***************************************************************************)

LEMMA PumpReceiveSinkInv ==
  ASSUME SinkInv, PumpReceive
  PROVE  SinkInv'
<1> USE MaxEventsAssumption DEF SinkInv, Event, Exit, Process
<1>1. /\ queue' \in Seq(Event \cup {Exit}) /\ Len(queue') = Len(queue) - 1
      /\ \A i \in 1..Len(queue') : queue'[i] = queue[i + 1]
      /\ Head(queue) = queue[1] /\ queue[1] \in Event \cup {Exit}
      /\ Len(queue) \in Nat \ {0}
  BY DEF PumpReceive, SinkTypeOK
<1>2. SinkTypeOK'
  BY <1>1 DEF PumpReceive, SinkTypeOK
<1>3. Waiting' = Waiting - 1 /\ Delivered' = Delivered /\ Holding = 0
  BY <1>1, FlowTypes DEF PumpReceive, Delivered, Holding, Waiting
<1>4. CASE queue[1] = Exit
  <2>1. Waiting = 0 /\ main = "join" /\ Len(queue) = 1
    BY <1>1, <1>4, FlowTypes, <1>3 DEF PumpReceive, FlowInv, Waiting
  <2>2. pump' = "exited" /\ queue' = <<>> /\ main' = main /\ emitted' = emitted
    BY <1>1, <1>4, <2>1 DEF PumpReceive
  <2>3. FlowInv'
    BY <1>3, <2>1, <2>2, FlowTypes DEF PumpReceive, FlowInv
  <2>4. DeliveredInv' /\ SwapInv'
    BY <2>1, <2>2 DEF PumpReceive, DeliveredInv, SwapInv
  <2>5. QED BY <1>2, <2>3, <2>4
<1>5. CASE queue[1] # Exit
  <2>1. Waiting \in Nat \ {0}
    BY <1>1, <1>5, FlowTypes DEF PumpReceive, FlowInv, Waiting
  <2>2. pump' = "holding" /\ Holding' = 1 /\ held' = queue[1] /\ main' = main
          /\ emitted' = emitted
    BY <1>1, <1>5 DEF PumpReceive, Holding
  <2>3. \A i \in 1..Waiting' : queue'[i] = Delivered + 1 + i
    <3> SUFFICES ASSUME NEW i \in 1..Waiting' PROVE queue'[i] = Delivered + 1 + i
      OBVIOUS
    <3>1. i \in 1..Len(queue') /\ i + 1 \in 1..Waiting
      BY <1>1, <1>3, <2>1, FlowTypes DEF Waiting
    <3>2. QED BY <1>1, <1>3, <3>1, FlowTypes DEF PumpReceive, FlowInv
  <2>4. held' = Delivered + 1
    BY <1>3, <2>1, <2>2, FlowTypes DEF PumpReceive, FlowInv
  <2>5. main = "join" => queue' # <<>> /\ queue'[Len(queue')] = Exit
    <3> SUFFICES ASSUME main = "join" PROVE queue' # <<>> /\ queue'[Len(queue')] = Exit
      OBVIOUS
    <3>1. Len(queue') \in Nat \ {0} /\ Len(queue') \in 1..Len(queue')
      BY <1>1, <2>1 DEF Waiting
    <3>2. queue'[Len(queue')] = queue[Len(queue)]
      BY <1>1, <3>1
    <3>3. queue[Len(queue)] = Exit
      BY DEF PumpReceive, FlowInv
    <3>4. QED BY <3>1, <3>2, <3>3
  <2>6. pump = "recv" /\ emitted = Delivered + Waiting
    BY <1>3, FlowTypes DEF PumpReceive, FlowInv
  <2>7. FlowInv'
    BY <1>3, <2>1, <2>2, <2>3, <2>4, <2>5, <2>6, FlowTypes DEF FlowInv
  <2>8. main \notin {"drainRemote", "toRemote"}
    BY <2>1, <2>6, FlowTypes DEF SwapInv
  <2>9. DeliveredInv' /\ SwapInv'
    BY <1>3, <2>1, <2>2, <2>8 DEF PumpReceive, DeliveredInv, SwapInv
  <2>10. QED BY <1>2, <2>7, <2>9
<1>6. QED BY <1>4, <1>5

LEMMA PumpDeliverSinkInv ==
  ASSUME SinkInv, PumpDeliver
  PROVE  SinkInv'
<1> USE MaxEventsAssumption DEF SinkInv
<1>1. /\ pump = "holding" /\ held = Delivered + 1 /\ Holding = 1 /\ Waiting \in Nat
      /\ emitted = Delivered + 1 + Waiting
  BY FlowTypes DEF PumpDeliver, FlowInv, Holding, Waiting
<1>2. held \in Event
  BY <1>1, FlowTypes DEF SinkTypeOK, Event
<1>3. /\ UNCHANGED <<command, main, emitted, queue, held, output, finishSent, client>>
      /\ pump' = "recv" /\ Waiting' = Waiting /\ Holding' = 0
  BY DEF PumpDeliver, Waiting, Holding
<1>4. ASSUME Delivered' = Delivered + 1 PROVE FlowInv'
  <2>1. Delivered' + Holding' = Delivered + Holding
    BY <1>1, <1>3, <1>4, FlowTypes
  <2>2. QED BY <1>1, <1>3, <2>1, FlowTypes DEF FlowInv
<1>5. CASE output = "Local"
  <2>1. shown' = Append(shown, held) /\ wire' = wire
    BY <1>5 DEF PumpDeliver
  <2>2. /\ shown' \in Seq(Event) /\ Len(shown') = Len(shown) + 1
        /\ \A i \in 1..Len(shown) : shown'[i] = shown[i]
        /\ shown'[Len(shown) + 1] = held
    BY <1>2, <2>1 DEF SinkTypeOK
  <2>3. Delivered' = Delivered + 1 /\ held = Len(wire) + Len(shown) + 1
    BY <1>1, <2>1, <2>2, FlowTypes DEF Delivered
  <2>4. DOMAIN shown' = 1 .. Len(shown) + 1 /\ DOMAIN shown = 1 .. Len(shown)
    BY <2>2 DEF SinkTypeOK
  <2>5. SinkTypeOK'
    BY <1>3, <2>1, <2>2 DEF SinkTypeOK
  <2>6. DeliveredInv'
    <3> SUFFICES ASSUME NEW i \in 1 .. Len(shown) + 1 PROVE shown'[i] = Len(wire) + i
      BY <2>1, <2>4 DEF DeliveredInv
    <3>1. CASE i = Len(shown) + 1
      BY <2>2, <2>3, <3>1, FlowTypes
    <3>2. CASE i \in 1 .. Len(shown)
      BY <2>2, <2>4, <3>2 DEF DeliveredInv
    <3>3. QED BY <3>1, <3>2, FlowTypes
  <2>7. command = "Server" => held = emitted
    BY <1>1, <1>5, FlowTypes DEF SinkTypeOK, SwapInv, PumpDeliver, Process
  <2>8. command = "Server" => \A i \in DOMAIN shown' : shown'[i] = emitted'
    <3> SUFFICES ASSUME command = "Server", NEW i \in 1 .. Len(shown) + 1
                 PROVE  shown'[i] = emitted
      BY <1>3, <2>4
    <3>1. CASE i = Len(shown) + 1
      BY <2>2, <2>7, <3>1
    <3>2. CASE i \in 1 .. Len(shown)
      BY <2>2, <2>4, <3>2 DEF SwapInv
    <3>3. QED BY <3>1, <3>2, FlowTypes
  <2>9. SwapInv'
    BY <1>1, <1>3, <1>5, <2>1, <2>8 DEF SwapInv
  <2>10. QED BY <1>4, <2>3, <2>5, <2>6, <2>9
<1>6. CASE output = "Remote"
  <2>1. wire' = Append(wire, held) /\ shown' = shown /\ shown = <<>>
    BY <1>6 DEF PumpDeliver, SwapInv
  <2>2. /\ wire' \in Seq(Event) /\ Len(wire') = Len(wire) + 1
        /\ \A i \in 1..Len(wire) : wire'[i] = wire[i]
        /\ wire'[Len(wire) + 1] = held
    BY <1>2, <2>1 DEF SinkTypeOK
  <2>3. Delivered' = Delivered + 1 /\ held = Len(wire) + 1
    BY <1>1, <2>1, <2>2, FlowTypes DEF Delivered
  <2>4. DOMAIN wire' = 1 .. Len(wire) + 1 /\ DOMAIN wire = 1 .. Len(wire)
    BY <2>2 DEF SinkTypeOK
  <2>5. SinkTypeOK'
    BY <1>3, <2>1, <2>2 DEF SinkTypeOK
  <2>6. DeliveredInv'
    <3>1. \A i \in 1 .. Len(wire) + 1 : wire'[i] = i
      BY <2>2, <2>3, <2>4, FlowTypes DEF DeliveredInv
    <3>2. QED BY <2>1, <2>4, <3>1 DEF DeliveredInv
  <2>7. SwapInv'
    BY <1>1, <1>3, <1>6, <2>1 DEF SwapInv
  <2>8. QED BY <1>4, <2>3, <2>5, <2>6, <2>7
<1>7. QED BY <1>5, <1>6 DEF SinkTypeOK

LEMMA PumpPanicsSinkInv ==
  ASSUME SinkInv, PumpPanics
  PROVE  SinkInv'
<1> USE DEF SinkInv, PumpPanics
<1>1. SinkTypeOK'
  BY DEF SinkTypeOK
<1>2. FlowInv' /\ DeliveredInv'
  BY DEF FlowInv, DeliveredInv
<1>3. SwapInv'
  BY DEF SwapInv
<1>4. QED BY <1>1, <1>2, <1>3

LEMMA IdleSinkInv ==
  ASSUME SinkInv, ClientLeaves \/ UNCHANGED sinkVars
  PROVE  SinkInv'
<1> USE DEF SinkInv, ClientLeaves, sinkVars
<1>1. SinkTypeOK'
  BY DEF SinkTypeOK, Process
<1>2. UNCHANGED <<Delivered, Holding, Waiting>>
  BY DEF Delivered, Holding, Waiting
<1>3. FlowInv' /\ DeliveredInv'
  BY <1>2 DEF FlowInv, DeliveredInv
<1>4. SwapInv'
  BY <1>2 DEF SwapInv
<1>5. QED BY <1>1, <1>3, <1>4

\* The flow of the events through channel, pump and sinks, at every step of both
\* threads and for any number of events.
THEOREM SinkInvariant == SinkSpec => []SinkInv
<1>1. SinkInv /\ [SinkNext]_sinkVars => SinkInv'
  BY MovesSinkInv, SwapSinkInv, EmitSinkInv, FinishHandleSinkInv, PumpReceiveSinkInv,
     PumpDeliverSinkInv, PumpPanicsSinkInv, IdleSinkInv
  DEF SinkNext, MainStep, PumpStep, Moves
<1>2. QED BY InitSinkInv, <1>1, PTL DEF SinkSpec

(***************************************************************************)
(* The properties                                                          *)
(***************************************************************************)

\* Over both sinks together no event is lost in the middle, doubled or overtaken.
THEOREM SinkEventsInOrder == SinkSpec => []EventsInOrder
<1>1. SinkInv => EventsInOrder
  <2> SUFFICES ASSUME SinkInv, NEW i \in 1 .. Len(wire) + Len(shown)
               PROVE  (wire \o shown)[i] = i
    BY DEF EventsInOrder
  <2>1. wire \in Seq(Event) /\ shown \in Seq(Event) /\ i \in Nat
    BY DEF SinkInv, SinkTypeOK
  <2>2. CASE i <= Len(wire)
    BY <2>1, <2>2 DEF SinkInv, DeliveredInv
  <2>3. CASE i > Len(wire)
    <3>1. i - Len(wire) \in DOMAIN shown
      BY <2>1, <2>3
    <3>2. (wire \o shown)[i] = shown[i - Len(wire)]
      BY <2>1, <2>3
    <3>3. QED BY <2>1, <3>1, <3>2 DEF SinkInv, DeliveredInv
  <2>4. QED BY <2>1, <2>2, <2>3
<1>2. QED BY SinkInvariant, <1>1, PTL

\* Only the last event of a server's run can miss the client's stream.
THEOREM SinkOnlyLastMisrouted == SinkSpec => []OnlyLastMisrouted
<1>1. SinkInv => OnlyLastMisrouted
  BY DEF SinkInv, SwapInv, OnlyLastMisrouted
<1>2. QED BY SinkInvariant, <1>1, PTL

\* A command that got through handle.finish() has delivered every event.
THEOREM SinkFlushedOnFinish == SinkSpec => []FlushedOnFinish
<1>1. SinkInv => FlushedOnFinish
  BY DEF SinkInv, SwapInv, FlowInv, Delivered, FlushedOnFinish
<1>2. QED BY SinkInvariant, <1>1, PTL

\* Nothing is written to the client's stream once Finish is on it.
THEOREM SinkNothingAfterFinish == SinkSpec => NothingAfterFinish
<1>1. SinkInv /\ [SinkNext]_sinkVars => [finishSent => UNCHANGED wire]_sinkVars
  <2> SUFFICES ASSUME SinkInv, SinkNext, finishSent PROVE UNCHANGED wire
    BY DEF sinkVars
  <2>1. output = "Local"
    BY DEF SinkInv, SwapInv
  <2>2. QED BY <2>1 DEF SinkNext, MainStep, PumpStep, NoSession, WaitForDrain, ToRemote,
      Emit, EndRun, EndRunWithError, ToLocal, SendFinish, FinishHandle, JoinPump,
      PumpReceive, PumpDeliver, PumpPanics, ClientLeaves
<1>2. QED BY SinkInvariant, <1>1, PTL DEF SinkSpec, NothingAfterFinish

\* The variables keep their types: in particular, only events of the run are written
\* to a sink.
THEOREM SinkTypeCorrect == SinkSpec => []SinkTypeOK
<1>1. SinkInv => SinkTypeOK
  BY DEF SinkInv
<1>2. QED BY SinkInvariant, <1>1, PTL

(***************************************************************************)
(* The end of the process                                                  *)
(*                                                                         *)
(* ProcessEnds is a liveness property, but what it rests on is not: some   *)
(* thread can always go on, and no sequence of steps goes on for ever.     *)
(***************************************************************************)

\* The conditions under which each thread has a step to do
MainGoesOn ==
  \/ main \in {"toRemote", "run", "toLocal", "sendFinish", "finish"}
  \/ main \in {"drainRemote", "drainLocal"} /\ queue = <<>>
  \/ main = "join" /\ pump \in {"exited", "panicked"}

PumpGoesOn ==
  main \notin Process /\ (pump = "holding" \/ (pump = "recv" /\ queue # <<>>))

\* While the main thread waits for the channel to be drained or for the pump to end, the
\* pump has something to do, as long as the client stays.
NeverStuck ==
  client = "attached" /\ main \notin Process => MainGoesOn \/ PumpGoesOn

\* The pump panics for one reason only.
PanicInv == pump = "panicked" => client = "gone"

\* Neither wait_for_drain nor the join of the pump waits for a thread that waits
\* itself or has ended.
THEOREM SinkNeverStuck == SinkSpec => []NeverStuck
<1>1. SinkInit => PanicInv
  BY DEF SinkInit, PanicInv
<1>2. PanicInv /\ [SinkNext]_sinkVars => PanicInv'
  BY DEF PanicInv, sinkVars, SinkNext, MainStep, PumpStep, NoSession, WaitForDrain,
         ToRemote, Emit, EndRun, EndRunWithError, ToLocal, SendFinish, FinishHandle,
         JoinPump, PumpReceive, PumpDeliver, PumpPanics, ClientLeaves
<1>3. SinkInv /\ PanicInv => NeverStuck
  <2> SUFFICES ASSUME SinkInv, PanicInv, client = "attached", main \notin Process
               PROVE  MainGoesOn \/ PumpGoesOn
    BY DEF NeverStuck
  <2>1. pump \in {"recv", "holding", "exited"}
    BY DEF SinkInv, SinkTypeOK, PanicInv
  <2>2. CASE main \in {"drainRemote", "drainLocal"}
    BY <2>1, <2>2 DEF SinkInv, FlowInv, MainGoesOn, PumpGoesOn
  <2>3. CASE main = "join"
    BY <2>1, <2>3 DEF SinkInv, FlowInv, MainGoesOn, PumpGoesOn
  <2>4. QED BY <2>2, <2>3 DEF SinkInv, SinkTypeOK, MainGoesOn
<1>4. QED BY <1>1, <1>2, <1>3, SinkInvariant, PTL DEF SinkSpec

\* How much is left to do: the stages of the main thread, the events that may still be
\* emitted, those in the channel (each to be received and delivered) and the one held.
Stages == [m \in {"drainRemote", "toRemote", "run", "drainLocal", "toLocal",
                  "sendFinish", "finish", "join"} \cup Process |->
             CASE m = "drainRemote" -> 8 [] m = "toRemote" -> 7 [] m = "run" -> 6
               [] m = "drainLocal" -> 5 [] m = "toLocal" -> 4 [] m = "sendFinish" -> 3
               [] m = "finish" -> 2 [] m = "join" -> 1 [] OTHER -> 0]

Work == 3 * Stages[main] + 3 * (MaxEvents - emitted) + 2 * Len(queue) + Holding
          + (IF client = "attached" THEN 1 ELSE 0)

\* Every step of either thread, and the client's leaving, comes closer to the end: no
\* busy wait is hidden in a cycle of states, and a process with n events to emit ends or
\* stops within 3 * n + 25 steps.
THEOREM SinkDescends ==
  SinkSpec => [](Work \in 0 .. 3 * MaxEvents + 25) /\ [][Work' < Work]_sinkVars
<1> USE MaxEventsAssumption
<1>1. SinkInv => Work \in Nat
  <2> SUFFICES ASSUME SinkInv PROVE Work \in Nat
    OBVIOUS
  <2>1. Stages[main] \in Nat
    BY DEF SinkInv, SinkTypeOK, Stages
  <2>2. MaxEvents - emitted \in Nat /\ Len(queue) \in Nat /\ Holding \in {0, 1}
    BY FlowTypes DEF SinkInv, SinkTypeOK
  <2>3. QED BY <2>1, <2>2 DEF Work
<1>2. SinkInv /\ SinkNext => Work' < Work
  <2> SUFFICES ASSUME SinkInv, SinkNext PROVE Work' < Work
    OBVIOUS
  <2>1. /\ emitted \in Nat /\ Len(queue) \in Nat /\ Holding \in {0, 1}
        /\ queue \in Seq(Event \cup {Exit}) /\ Stages[main] \in Nat
    BY FlowTypes DEF SinkInv, SinkTypeOK, Stages
  <2>2. /\ Stages["drainRemote"] = 8 /\ Stages["toRemote"] = 7 /\ Stages["run"] = 6
        /\ Stages["drainLocal"] = 5 /\ Stages["toLocal"] = 4 /\ Stages["sendFinish"] = 3
        /\ Stages["finish"] = 2 /\ Stages["join"] = 1 /\ \A p \in Process : Stages[p] = 0
    BY DEF Stages, Process
  <2>3. CASE MainStep /\ ~ Emit /\ ~ FinishHandle
    <3>1. UNCHANGED <<pump, emitted, queue, client>>
      BY <2>3 DEF MainStep, NoSession, WaitForDrain, ToRemote, EndRun, EndRunWithError,
                  ToLocal, SendFinish, JoinPump
    <3>2. Stages[main'] < Stages[main] /\ Stages[main'] \in Nat
      BY <2>2, <2>3 DEF MainStep, NoSession, WaitForDrain, ToRemote, EndRun,
                        EndRunWithError, ToLocal, SendFinish, JoinPump, Process
    <3> HIDE DEF Stages
    <3>3. QED BY <2>1, <3>1, <3>2 DEF Work, Holding
  <2>4. CASE Emit
    <3>1. Len(queue') = Len(queue) + 1 /\ emitted' = emitted + 1 /\ UNCHANGED <<main, pump, client>>
      BY <2>1, <2>4 DEF Emit
    <3>2. QED BY <2>1, <3>1 DEF Work, Holding
  <2>5. CASE FinishHandle
    <3>1. Len(queue') = Len(queue) + 1 /\ UNCHANGED <<emitted, pump, client>>
      BY <2>1, <2>5 DEF FinishHandle
    <3>2. Stages[main] = 2 /\ Stages[main'] = 1
      BY <2>2, <2>5 DEF FinishHandle
    <3> HIDE DEF Stages
    <3>3. QED BY <2>1, <3>1, <3>2 DEF Work, Holding
  <2>6. CASE PumpReceive
    <3>1. Len(queue') = Len(queue) - 1 /\ UNCHANGED <<main, emitted, client>>
          /\ Holding = 0 /\ Holding' \in {0, 1}
      BY <2>1, <2>6 DEF PumpReceive, Holding
    <3>2. QED BY <2>1, <3>1 DEF Work
  <2>7. CASE PumpDeliver \/ PumpPanics
    <3>1. UNCHANGED <<main, emitted, queue, client>> /\ Holding = 1 /\ Holding' = 0
      BY <2>7 DEF PumpDeliver, PumpPanics, Holding
    <3>2. QED BY <2>1, <3>1 DEF Work
  <2>8. CASE ClientLeaves
    BY <2>1, <2>8 DEF ClientLeaves, Work, Holding
  <2>9. QED BY <2>3, <2>4, <2>5, <2>6, <2>7, <2>8 DEF SinkNext, PumpStep
<1>3. SinkInit => Work <= 3 * MaxEvents + 25
  <2> SUFFICES ASSUME SinkInit PROVE Work <= 3 * MaxEvents + 25
    OBVIOUS
  <2>1. emitted = 0 /\ Len(queue) = 0 /\ Holding = 0 /\ Stages[main] \in 0..8
    BY DEF SinkInit, Holding, Stages
  <2>2. QED BY <2>1 DEF Work
<1> DEFINE Bounded == Work <= 3 * MaxEvents + 25
<1>0. SinkInv' => (Work \in Nat)'
  BY <1>1, PTL
<1>4. SinkInv /\ SinkInv' /\ Bounded /\ [SinkNext]_sinkVars => Bounded'
  <2> SUFFICES ASSUME SinkInv, SinkInv', Bounded, [SinkNext]_sinkVars PROVE Bounded'
    OBVIOUS
  <2>1. Work \in Nat /\ Work' \in Nat
    BY <1>0, <1>1
  <2>2. Work' <= Work
    <3>1. CASE UNCHANGED sinkVars
      BY <2>1, <3>1 DEF sinkVars, Work, Holding
    <3>2. QED BY <1>2, <2>1, <3>1
  <2> HIDE DEF Work
  <2>3. QED BY <2>1, <2>2
<1>5. SinkInv /\ Bounded => Work \in 0 .. 3 * MaxEvents + 25
  <2> HIDE DEF Work
  <2>1. QED BY <1>1
<1> HIDE DEF Work
<1>6. QED BY <1>2, <1>3, <1>4, <1>5, SinkInvariant, PTL DEF SinkSpec
=============================================================================
