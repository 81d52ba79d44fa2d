-------------------------- MODULE RemoteSession_proofs --------------------------
(***************************************************************************)
(* Theorems about the sessions of `hpg ssh' with `hpg server', for any     *)
(* number of files, events and sessions, and whatever times out, is killed *)
(* or runs out of space.                                                   *)
(***************************************************************************)
EXTENDS RemoteSession, TLAPS, SequenceTheorems, FiniteSetTheorems, WellFoundedInduction

(***************************************************************************)
(* The inductive invariant                                                 *)
(***************************************************************************)

\* The client has not got to its patches yet, or is busy with them.
Early   == {"start", "connect", "list", "status"}
Syncing == Early \cup {"push", "await"}
\* It has not sent Exec.
Before  == Syncing \cup {"close", "exec"}

\* Where the server can still take a Patch, and where it can still run the project.
Patching == {"absent", "boot", "listening", "sync", "listed", "patch", "remove",
             "rename", "applied"}
Serving  == Patching \cup {"waitExec", "running"}
Applying == {"patch", "remove", "rename", "applied"}

Good(f) == disk[f] = "current" \/ f \in pending
Messages(seq) == {seq[i] : i \in DOMAIN seq}
Has(seq, type) == \E m \in Messages(seq) : m.type = type

\* A session starts with a server of its own, which is killed at most once; an
\* Applying server has a Patch in hand.
ServerInv ==
  /\ client = "start" => server = "absent"
  /\ kills <= sessions
  /\ server \notin Ended => kills < sessions
  /\ server \in Applying => \E f \in Files, kind \in {"Full", "Partial"} : job = Patch(f, kind)
  /\ server \in Serving \ Applying => job = NoJob

\* Where the patches of one file are.
Underway(f) == Count(c2s, Patch(f, "Full")) + Count(c2s, Patch(f, "Partial"))
InHand(f)   == IF job # NoJob /\ job.file = f THEN 1 ELSE 0
Acked(f)    == Count(s2c, FileMsg("PatchApplied", f))
Places(f)   == Underway(f) + InHand(f) + Acked(f)

\* PatchInOnePlace, from the start of the session on.
PatchInv ==
  /\ client \in Early => patches = {}
  /\ client = "await" => toPush = {}
  /\ client \in Syncing /\ server \in Patching =>
       \A f \in Files : Places(f) = IF f \in patches THEN 1 ELSE 0

\* Nothing is run, and no event sent, before Exec.
EventInv ==
  /\ client \in Before => /\ ~ Has(c2s, "Exec") /\ server # "running"
                          /\ ~ Has(s2c, "Event") /\ sent = 0 /\ seen = 0
  /\ client = "watch" => seen + Count(s2c, Msg("Event")) <= sent

\* The contents of a temporary are complete before the original goes.
TempInv ==
  ~ diskFull =>
    /\ server \in {"remove", "rename"} => temp[job.file] = "good"
    /\ server = "applied" => Good(job.file)

\* What each side knows of the tree while it is patched is true.
KnownInv ==
  client \in Syncing /\ server \in Serving /\ ~ diskFull =>
    /\ client \in Early =>
         \A m \in Messages(s2c) : m.type = "FileStatus" =>
           \A f \in Files : m.status[f] = "Same" => Good(f)
    /\ \A m \in Messages(s2c) : m.type = "PatchApplied" => Good(m.file)
    /\ client \in {"push", "await"} =>
         \A f \in Files \ patches : (f \in toPush => statuses[f] = "Same") => Good(f)

\* From the end of the synchronisation on the tree is the client's, and nobody
\* will patch it.
Synced ==
  \/ client \in {"close", "exec", "watch", "waitExit", "ok"}
  \/ Has(c2s, "Exec") \/ server = "running"

SyncedInv ==
  Synced /\ server \in Serving /\ ~ diskFull =>
    /\ \A f \in Files : Good(f)
    /\ server \in Patching => job = NoJob /\ ~ Has(c2s, "Patch")

SessionInv ==
  /\ SessionTypeOK /\ ServerInv /\ PatchInv /\ EventInv
  /\ TempInv /\ KnownInv /\ SyncedInv

(***************************************************************************)
(* Messages                                                                *)
(***************************************************************************)

LEMMA MessageTypes ==
  /\ Msg("FileList") \in ClientMessage /\ Msg("Close") \in ClientMessage
  /\ Msg("Exec") \in ClientMessage
  /\ \A f \in Files, kind \in {"Full", "Partial"} : Patch(f, kind) \in ClientMessage
  /\ Msg("Debug") \in ServerMessage /\ Msg("Event") \in ServerMessage
  /\ Msg("Finish") \in ServerMessage
  /\ \A f \in Files : FileMsg("PatchApplied", f) \in ServerMessage
  /\ \A st \in [Files -> Statuses] : Status(st) \in ServerMessage
BY DEF ClientMessage, ServerMessage, Msg, FileMsg, Patch, Status

\* What a message is follows from its type.
LEMMA MessageContents ==
  /\ \A m \in ClientMessage : m.type = "Patch" =>
       \E f \in Files, kind \in {"Full", "Partial"} : m = Patch(f, kind)
  /\ \A m \in ServerMessage : m.type = "PatchApplied" =>
       m.file \in Files /\ m = FileMsg("PatchApplied", m.file)
  /\ \A m \in ServerMessage : m.type = "FileStatus" => m.status \in [Files -> Statuses]
  /\ \A m \in ServerMessage : m.type = "Event" => m = Msg("Event")
<1>1. ASSUME NEW m \in ClientMessage, m.type = "Patch"
      PROVE  \E f \in Files, kind \in {"Full", "Partial"} : m = Patch(f, kind)
  <2>1. m \in [type : {"Patch"}, file : Files, kind : {"Full", "Partial"}]
    BY <1>1 DEF ClientMessage
  <2>2. m = Patch(m.file, m.kind) /\ m.file \in Files /\ m.kind \in {"Full", "Partial"}
    BY <2>1 DEF Patch
  <2>3. QED BY <2>2
<1>2. ASSUME NEW m \in ServerMessage
      PROVE  /\ m.type = "PatchApplied" => m.file \in Files /\ m = FileMsg("PatchApplied", m.file)
             /\ m.type = "FileStatus" => m.status \in [Files -> Statuses]
             /\ m.type = "Event" => m = Msg("Event")
  BY DEF ServerMessage, FileMsg, Msg
<1>3. QED BY <1>1, <1>2

\* bus.rx() takes the first message off the stream.
LEMMA ReceivedFacts ==
  ASSUME SessionTypeOK, NEW types, Received(types)
  PROVE  /\ s2c # <<>> /\ Head(s2c) \in ServerMessage /\ Head(s2c).type \in types
         /\ s2c' = Tail(s2c) /\ s2c' \in Seq(ServerMessage) /\ c2s' = c2s
         /\ buffered' \in 0 .. 2 * Len(s2c') /\ garbled' = FALSE /\ garbled = FALSE
<1>1. s2c \in Seq(ServerMessage) /\ buffered \in 0 .. 2 * Len(s2c) /\ garbled \in BOOLEAN
  BY DEF SessionTypeOK
<1>2. Len(s2c) \in Nat /\ 2 <= 2 * Len(s2c) /\ buffered \in Nat
  BY <1>1 DEF Received
<1>3. s2c # <<>>
  BY <1>2
<1>4. Head(s2c) \in ServerMessage /\ Tail(s2c) \in Seq(ServerMessage) /\ Len(Tail(s2c)) = Len(s2c) - 1
  BY <1>1, <1>3, HeadTailProperties
<1>5. s2c' = Tail(s2c) /\ buffered' = buffered - 2 /\ 2 <= buffered /\ c2s' = c2s
      /\ garbled' = garbled /\ ~ garbled /\ Head(s2c).type \in types
  BY DEF Received
<1>6. buffered' \in 0 .. 2 * Len(s2c')
  BY <1>1, <1>2, <1>4, <1>5
<1>7. QED BY <1>1, <1>3, <1>4, <1>5, <1>6

LEMMA TakeFacts ==
  ASSUME SessionTypeOK, NEW type, Take(type)
  PROVE  /\ c2s # <<>> /\ Head(c2s) \in ClientMessage /\ Head(c2s).type = type
         /\ c2s' = Tail(c2s) /\ c2s' \in Seq(ClientMessage)
BY HeadTailProperties DEF SessionTypeOK, Take

LEMMA SendFacts ==
  ASSUME SessionTypeOK, NEW m \in ClientMessage, Send(m)
  PROVE  c2s' = Append(c2s, m) /\ c2s' \in Seq(ClientMessage) /\ UNCHANGED <<s2c, buffered, garbled>>
BY AppendProperties DEF SessionTypeOK, Send

LEMMA ReplyFacts ==
  ASSUME SessionTypeOK, NEW m \in ServerMessage, Reply(m)
  PROVE  /\ s2c' = Append(s2c, m) /\ s2c' \in Seq(ServerMessage)
         /\ buffered' \in 0 .. 2 * Len(s2c') /\ UNCHANGED <<buffered, garbled>>
BY AppendProperties DEF SessionTypeOK, Reply

\* How often a message is under way
LEMMA CountAppend ==
  ASSUME NEW S, NEW seq \in Seq(S), NEW e \in S, NEW m
  PROVE  Count(Append(seq, e), m) = Count(seq, m) + IF e = m THEN 1 ELSE 0
<1> DEFINE A == {i \in DOMAIN seq : seq[i] = m}
           B == {i \in DOMAIN Append(seq, e) : Append(seq, e)[i] = m}
           n == Len(seq) + 1
<1>1. /\ DOMAIN seq = 1..Len(seq) /\ Len(seq) \in Nat /\ DOMAIN Append(seq, e) = 1..n
      /\ Append(seq, e)[n] = e /\ \A i \in 1..Len(seq) : Append(seq, e)[i] = seq[i]
  BY AppendProperties
<1>2. IsFiniteSet(A)
  <2>1. IsFiniteSet(1..Len(seq)) /\ A \subseteq 1..Len(seq)
    BY <1>1, FS_Interval
  <2>2. QED BY <2>1, FS_Subset
<1>3. CASE e = m
  <2>1. B = A \cup {n} /\ n \notin A
    BY <1>1, <1>3
  <2>2. QED BY <1>2, <1>3, <2>1, FS_AddElement DEF Count
<1>4. CASE e # m
  <2>1. B = A
    BY <1>1, <1>4
  <2>2. Cardinality(A) \in Nat
    BY <1>2, FS_CardinalityType
  <2>3. Count(seq, m) = Cardinality(A) /\ Count(Append(seq, e), m) = Cardinality(B)
    BY DEF Count
  <2> HIDE DEF A, B
  <2>4. QED BY <1>4, <2>1, <2>2, <2>3
<1>5. QED BY <1>3, <1>4

LEMMA CountNat ==
  ASSUME NEW S, NEW seq \in Seq(S), NEW m
  PROVE  /\ Count(seq, m) \in Nat
         /\ Count(seq, m) = 0 <=> m \notin Messages(seq)
<1> DEFINE A == {i \in DOMAIN seq : seq[i] = m}
<1>1. IsFiniteSet(A)
  BY FS_Interval, FS_Subset
<1>2. Cardinality(A) \in Nat /\ (Cardinality(A) = 0 <=> A = {})
  BY <1>1, FS_CardinalityType, FS_EmptySet
<1>3. A = {} <=> m \notin Messages(seq)
  BY DEF Messages
<1>4. QED BY <1>2, <1>3 DEF Count

LEMMA CountTail ==
  ASSUME NEW S, NEW seq \in Seq(S), seq # <<>>, NEW m
  PROVE  Count(seq, m) = Count(Tail(seq), m) + IF Head(seq) = m THEN 1 ELSE 0
<1> DEFINE A == {i \in DOMAIN seq : seq[i] = m}
           B == {i \in DOMAIN Tail(seq) : Tail(seq)[i] = m}
           C == {i \in A : i # 1}
           f == [i \in B |-> i + 1]
<1>1. /\ DOMAIN seq = 1..Len(seq) /\ Len(seq) \in Nat \ {0} /\ DOMAIN Tail(seq) = 1 .. Len(seq) - 1
      /\ Head(seq) = seq[1] /\ \A i \in 1 .. Len(seq) - 1 : Tail(seq)[i] = seq[i + 1]
  BY HeadTailProperties
<1>2. IsFiniteSet(A) /\ IsFiniteSet(B) /\ IsFiniteSet(C)
  <2>1. IsFiniteSet(1..Len(seq)) /\ IsFiniteSet(1 .. Len(seq) - 1)
    BY <1>1, FS_Interval
  <2>2. A \subseteq 1..Len(seq) /\ B \subseteq 1 .. Len(seq) - 1 /\ C \subseteq 1..Len(seq)
    BY <1>1
  <2>3. QED BY <2>1, <2>2, FS_Subset
<1>3. Cardinality(B) = Cardinality(C)
  <2>1. f \in [B -> C]
    BY <1>1
  <2>2. \A i, j \in B : f[i] = f[j] => i = j
    BY <1>1
  <2>3. \A j \in C : \E i \in B : f[i] = j
    <3> SUFFICES ASSUME NEW j \in C PROVE \E i \in B : f[i] = j
      OBVIOUS
    <3>1. j - 1 \in B /\ (j - 1) + 1 = j
      BY <1>1
    <3>2. QED BY <3>1
  <2>4. f \in Bijection(B, C)
    BY <2>1, <2>2, <2>3 DEF Bijection, Injection, Surjection, IsInjective
  <2>5. QED BY <1>2, <2>4, FS_Bijection DEF ExistsBijection
<1>4. CASE Head(seq) = m
  <2>1. A = C \cup {1} /\ 1 \notin C
    BY <1>1, <1>4
  <2>2. QED BY <1>2, <1>3, <1>4, <2>1, FS_AddElement DEF Count
<1>5. CASE Head(seq) # m
  <2>1. A = C
    BY <1>1, <1>5
  <2>2. Cardinality(B) \in Nat
    BY <1>2, FS_CardinalityType
  <2>3. Count(seq, m) = Cardinality(A) /\ Count(Tail(seq), m) = Cardinality(B)
    BY DEF Count
  <2> HIDE DEF A, B, C
  <2>4. QED BY <1>3, <1>5, <2>1, <2>2, <2>3
<1>6. QED BY <1>4, <1>5

\* What is under way
LEMMA MessagesFacts ==
  ASSUME NEW S, NEW seq \in Seq(S)
  PROVE  /\ Messages(seq) \in SUBSET S /\ Messages(<<>>) = {}
         /\ \A e \in S : Messages(Append(seq, e)) = Messages(seq) \cup {e}
         /\ seq # <<>> => Messages(seq) = Messages(Tail(seq)) \cup {Head(seq)}
<1>1. Messages(seq) \in SUBSET S /\ Messages(<<>>) = {}
  BY DEF Messages
<1>2. ASSUME NEW e \in S
      PROVE  Messages(Append(seq, e)) = Messages(seq) \cup {e}
  <2>1. /\ DOMAIN seq = 1..Len(seq) /\ Len(seq) \in Nat
        /\ DOMAIN Append(seq, e) = 1 .. Len(seq) + 1 /\ Append(seq, e)[Len(seq) + 1] = e
        /\ \A i \in 1..Len(seq) : Append(seq, e)[i] = seq[i]
    BY AppendProperties
  <2>2. \A i \in 1 .. Len(seq) + 1 : i \in 1..Len(seq) \/ i = Len(seq) + 1
    BY <2>1
  <2>3. \A i \in 1..Len(seq) : i \in 1 .. Len(seq) + 1
    BY <2>1
  <2>4. Len(seq) + 1 \in 1 .. Len(seq) + 1
    BY <2>1
  <2>5. QED BY <2>1, <2>2, <2>3, <2>4 DEF Messages
<1>3. ASSUME seq # <<>>
      PROVE  Messages(seq) = Messages(Tail(seq)) \cup {Head(seq)}
  <2> DEFINE n == Len(seq) - 1
  <2>1. /\ DOMAIN seq = 1 .. n + 1 /\ n \in Nat /\ DOMAIN Tail(seq) = 1..n
        /\ Head(seq) = seq[1] /\ \A i \in 1..n : Tail(seq)[i] = seq[i + 1]
    BY <1>3, HeadTailProperties
  <2> HIDE DEF n
  <2>2. \A i \in 1 .. n + 1 : i = 1 \/ (i - 1 \in 1..n /\ i = (i - 1) + 1)
    BY <2>1
  <2>3. \A i \in 1..n : i + 1 \in 1 .. n + 1
    BY <2>1
  <2>4. 1 \in 1 .. n + 1
    BY <2>1
  <2>5. Messages(seq) \subseteq Messages(Tail(seq)) \cup {Head(seq)}
    <3> SUFFICES ASSUME NEW i \in 1 .. n + 1 PROVE seq[i] \in Messages(Tail(seq)) \cup {Head(seq)}
      BY <2>1 DEF Messages
    <3>1. CASE i = 1
      BY <2>1, <3>1
    <3>2. CASE i # 1
      <4>1. i - 1 \in 1..n /\ Tail(seq)[i - 1] = seq[i]
        BY <2>1, <2>2, <3>2
      <4>2. QED BY <2>1, <4>1 DEF Messages
    <3>3. QED BY <3>1, <3>2
  <2>6. Messages(Tail(seq)) \cup {Head(seq)} \subseteq Messages(seq)
    BY <2>1, <2>3, <2>4 DEF Messages
  <2>7. QED BY <2>5, <2>6
<1>4. QED BY <1>1, <1>2, <1>3

LEMMA MessagesSubSeq ==
  ASSUME NEW S, NEW seq \in Seq(S), NEW n \in Nat \ {0}
  PROVE  /\ SubSeq(seq, n, Len(seq)) \in Seq(S)
         /\ Messages(SubSeq(seq, n, Len(seq))) \subseteq Messages(seq)
BY SubSeqProperties DEF Messages

\* The places a patch can be in are counted.
LEMMA PlacesTypes ==
  ASSUME SessionTypeOK
  PROVE  \A f : Underway(f) \in Nat /\ InHand(f) \in Nat /\ Acked(f) \in Nat
BY CountNat DEF SessionTypeOK, Underway, InHand, Acked

\* A message that is no Patch makes no difference to the patches on their way ...
LEMMA UnderwayKept ==
  ASSUME SessionTypeOK,
         \/ c2s' = c2s
         \/ \E m \in ClientMessage : m.type # "Patch" /\ c2s' = Append(c2s, m)
         \/ c2s # <<>> /\ Head(c2s).type # "Patch" /\ c2s' = Tail(c2s)
  PROVE  \A f : Underway(f)' = Underway(f)
<1>1. c2s \in Seq(ClientMessage)
  BY DEF SessionTypeOK
<1>2. ASSUME NEW m, m.type = "Patch"
      PROVE  Count(c2s', m) = Count(c2s, m)
  <2>1. CASE \E e \in ClientMessage : e.type # "Patch" /\ c2s' = Append(c2s, e)
    BY <1>1, <1>2, <2>1, CountAppend, CountNat
  <2>2. CASE c2s # <<>> /\ Head(c2s).type # "Patch" /\ c2s' = Tail(c2s)
    <3>1. Tail(c2s) \in Seq(ClientMessage)
      BY <1>1, <2>2, HeadTailProperties
    <3>2. Count(c2s, m) = Count(Tail(c2s), m) + 0 /\ Count(Tail(c2s), m) \in Nat
      BY <1>1, <1>2, <2>2, <3>1, CountTail, CountNat
    <3>3. QED BY <2>2, <3>2
  <2>3. QED BY <2>1, <2>2
<1>3. \A f : Patch(f, "Full").type = "Patch" /\ Patch(f, "Partial").type = "Patch"
  BY DEF Patch
<1>4. QED BY <1>2, <1>3 DEF Underway

\* ... nor an answer that acknowledges none to those that are acknowledged.
LEMMA AckedKept ==
  ASSUME SessionTypeOK,
         \/ s2c' = s2c
         \/ \E m \in ServerMessage : m.type # "PatchApplied" /\ s2c' = Append(s2c, m)
         \/ s2c # <<>> /\ Head(s2c).type # "PatchApplied" /\ s2c' = Tail(s2c)
  PROVE  \A f : Acked(f)' = Acked(f)
<1>1. s2c \in Seq(ServerMessage)
  BY DEF SessionTypeOK
<1>2. ASSUME NEW m, m.type = "PatchApplied"
      PROVE  Count(s2c', m) = Count(s2c, m)
  <2>1. CASE \E e \in ServerMessage : e.type # "PatchApplied" /\ s2c' = Append(s2c, e)
    BY <1>1, <1>2, <2>1, CountAppend, CountNat
  <2>2. CASE s2c # <<>> /\ Head(s2c).type # "PatchApplied" /\ s2c' = Tail(s2c)
    <3>1. Tail(s2c) \in Seq(ServerMessage)
      BY <1>1, <2>2, HeadTailProperties
    <3>2. Count(s2c, m) = Count(Tail(s2c), m) + 0 /\ Count(Tail(s2c), m) \in Nat
      BY <1>1, <1>2, <2>2, <3>1, CountTail, CountNat
    <3>3. QED BY <2>2, <3>2
  <2>3. QED BY <2>1, <2>2
<1>3. \A f : FileMsg("PatchApplied", f).type = "PatchApplied"
  BY DEF FileMsg
<1>4. QED BY <1>2, <1>3 DEF Acked

LEMMA PlacesKept ==
  ASSUME SessionTypeOK, job' = job,
         \/ c2s' = c2s
         \/ \E m \in ClientMessage : m.type # "Patch" /\ c2s' = Append(c2s, m)
         \/ c2s # <<>> /\ Head(c2s).type # "Patch" /\ c2s' = Tail(c2s),
         \/ s2c' = s2c
         \/ \E m \in ServerMessage : m.type # "PatchApplied" /\ s2c' = Append(s2c, m)
         \/ s2c # <<>> /\ Head(s2c).type # "PatchApplied" /\ s2c' = Tail(s2c)
  PROVE  \A f : Places(f)' = Places(f)
<1>1. \A f : Underway(f)' = Underway(f)
  BY UnderwayKept
<1>2. \A f : Acked(f)' = Acked(f)
  BY AckedKept
<1>3. QED BY <1>1, <1>2 DEF Places, InHand

(***************************************************************************)
(* The client: steps that leave the stream as it is                        *)
(***************************************************************************)

LEMMA StartRemoteStep ==
  ASSUME SessionInv, StartRemote PROVE SessionInv'
<1>1. /\ client = "start" /\ client' = "connect" /\ server = "absent" /\ server' = "boot"
      /\ UNCHANGED <<error, statuses, toPush, patches, seen, finishSeen, job, sent, c2s, s2c,
                     buffered, garbled, disk, temp, pending, diskFull, kills, sessions>>
  BY DEF StartRemote, SessionInv, ServerInv, channelVars, fileVars, envVars
<1>2. SessionTypeOK' /\ ServerInv'
  BY <1>1 DEF SessionInv, SessionTypeOK, ServerInv, Serving, Patching, Applying, Inert, Ended
<1>3. PatchInv' /\ EventInv' /\ TempInv'
  BY <1>1 DEF SessionInv, PatchInv, EventInv, TempInv, Places, Underway, InHand, Acked, Early, Syncing, Before, Patching
<1>4. KnownInv' /\ SyncedInv'
  BY <1>1 DEF SessionInv, KnownInv, SyncedInv, Synced, Early, Syncing, Patching, Serving, Good
<1>5. QED BY <1>2, <1>3, <1>4 DEF SessionInv

\* The client goes on, or gives up, and has read and sent nothing.
ClientMoves ==
  /\ UNCHANGED <<statuses, toPush, patches, seen, finishSeen, c2s, s2c, garbled, server, job, sent,
                 disk, temp, pending, diskFull, kills, sessions>>
  /\ buffered' \in 0 .. 2 * Len(s2c)
  /\ error' \in {"none", "timeout", "order", "garbled", "eof", "io"}
  /\ \/ client' \in {client, "failed"} /\ client' # "start"
     \/ client = "connect" /\ client' = "list"
     \/ client = "push" /\ toPush = {} /\ patches # {} /\ client' = "await"
     \/ client = "watch" /\ client' = "waitExit"
     \/ client = "waitExit" /\ client' = "ok"

LEMMA ClientMovesStep ==
  ASSUME SessionInv, ClientMoves PROVE SessionInv'
<1>1. SessionTypeOK'
  BY DEF ClientMoves, SessionInv, SessionTypeOK, Over
<1>2. ServerInv'
  BY DEF ClientMoves, SessionInv, ServerInv
<1>3. PatchInv' /\ EventInv' /\ TempInv'
  BY DEF ClientMoves, SessionInv, PatchInv, EventInv, TempInv, Places, Underway, InHand, Acked, Early, Syncing, Before, Good
<1>4. KnownInv' /\ SyncedInv'
  BY DEF ClientMoves, SessionInv, KnownInv, SyncedInv, Synced, Early, Syncing, Good
<1>5. QED BY <1>1, <1>2, <1>3, <1>4 DEF SessionInv

LEMMA ClientMovesCases ==
  ASSUME SessionTypeOK,
         \/ Connect \/ ConnectTimeout \/ ReadMore \/ GarbledFrame \/ RxTimeout \/ StreamEnds
         \/ ClientIoError \/ ExitSeen
  PROVE  ClientMoves
<1> USE DEF SessionTypeOK, ClientMoves, Fail, clientVars, serverVars, channelVars, fileVars, envVars
<1>1. CASE Connect \/ ExitSeen
  BY <1>1 DEF Connect, ExitSeen
<1>2. CASE ConnectTimeout \/ GarbledFrame \/ RxTimeout \/ ClientIoError
  BY <1>2 DEF ConnectTimeout, GarbledFrame, RxTimeout, ClientIoError
<1>3. CASE StreamEnds
  BY <1>3 DEF StreamEnds
<1>4. CASE ReadMore
  BY <1>4 DEF ReadMore, Reading
<1>5. QED BY <1>1, <1>2, <1>3, <1>4

\* sync_files has nothing to wait for: the tree is the client's.
LEMMA AllPushed ==
  ASSUME SessionInv, client \in {"push", "await"}, toPush = {},
         server \in Serving, ~ diskFull,
         NEW done \in SUBSET Files, patches \subseteq done,
         \A f \in done : FileMsg("PatchApplied", f) \in Messages(s2c)
  PROVE  \A f \in Files : Good(f)
<1> SUFFICES ASSUME NEW f \in Files PROVE Good(f)
  OBVIOUS
<1>1. CASE f \in done
  <2>1. FileMsg("PatchApplied", f).type = "PatchApplied" /\ FileMsg("PatchApplied", f).file = f
    BY DEF FileMsg
  <2>2. QED BY <1>1, <2>1 DEF SessionInv, KnownInv, Syncing
<1>2. CASE f \notin done
  BY <1>2 DEF SessionInv, KnownInv, Syncing
<1>3. QED BY <1>1, <1>2

\* Only acknowledgements are left of the patches.
LEMMA NoPatchLeft ==
  ASSUME SessionTypeOK, ServerInv, server \in Patching, \A f \in Files : Places(f) = Acked(f)
  PROVE  job = NoJob /\ server \notin Applying /\ ~ Has(c2s, "Patch")
<1>1. /\ \A m : Count(c2s, m) \in Nat /\ (Count(c2s, m) = 0 <=> m \notin Messages(c2s))
      /\ Messages(c2s) \in SUBSET ClientMessage
  BY CountNat, MessagesFacts DEF SessionTypeOK
<1>2. \A f \in Files : Underway(f) = 0 /\ InHand(f) = 0
  BY PlacesTypes DEF Places
<1>3. ASSUME NEW f \in Files, NEW kind \in {"Full", "Partial"}
      PROVE  job # Patch(f, kind) /\ Patch(f, kind) \notin Messages(c2s)
  <2>1. Patch(f, kind).type = "Patch" /\ Patch(f, kind).file = f /\ NoJob.type = "None"
    BY DEF Patch, NoJob, Msg
  <2>2. Patch(f, kind) # NoJob
    BY <2>1
  <2>3. ~ (job # NoJob /\ job.file = f)
    BY <1>2 DEF InHand
  <2>4. Count(c2s, Patch(f, kind)) = 0
    BY <1>1, <1>2 DEF Underway
  <2>5. QED BY <1>1, <2>1, <2>2, <2>3, <2>4
<1>4. server \notin Applying /\ job = NoJob
  BY <1>3 DEF ServerInv, Serving
<1>5. ~ Has(c2s, "Patch")
  BY <1>1, <1>3, MessageContents DEF Has
<1>6. QED BY <1>4, <1>5

\* A client that has not got to its patches has sent none.
LEMMA EarlyFacts ==
  ASSUME SessionInv, client \in Early, server \in Patching
  PROVE  /\ job = NoJob /\ server \notin Applying
         /\ ~ Has(c2s, "Patch") /\ ~ Has(s2c, "PatchApplied")
<1>1. \A f \in Files : Places(f) = 0
  BY DEF SessionInv, PatchInv, Syncing
<1>2. \A f \in Files : Acked(f) = 0 /\ Places(f) = Acked(f)
  BY <1>1, PlacesTypes DEF Places, SessionInv
<1>3. /\ \A m : Count(s2c, m) = 0 <=> m \notin Messages(s2c)
      /\ Messages(s2c) \in SUBSET ServerMessage
  BY CountNat, MessagesFacts DEF SessionInv, SessionTypeOK
<1>4. ~ Has(s2c, "PatchApplied")
  BY <1>2, <1>3, MessageContents DEF Has, Acked
<1>5. QED BY <1>2, <1>4, NoPatchLeft DEF SessionInv

\* Close can be sent: no patch is missing.
LEMMA ToClose ==
  ASSUME SessionInv, SessionTypeOK', client \in {"push", "await"}, toPush = {}, client' = "close",
         NEW done \in SUBSET Files, patches \subseteq done, patches' = {},
         \A f \in done : FileMsg("PatchApplied", f) \in Messages(s2c),
         server \in Patching =>
           \A f \in Files : Places(f) = Acked(f),
         Messages(s2c') \subseteq Messages(s2c),
         UNCHANGED <<c2s, seen, server, job, sent, disk, temp, pending, diskFull, kills, sessions>>
  PROVE  SessionInv'
<1>1. ServerInv' /\ PatchInv' /\ TempInv' /\ KnownInv'
  BY DEF SessionInv, ServerInv, PatchInv, TempInv, KnownInv, Early, Syncing, Good
<1>2. EventInv'
  BY DEF SessionInv, EventInv, Before, Syncing, Has
<1>3. server \in Serving /\ ~ diskFull => \A f \in Files : Good(f)
  BY AllPushed
<1>4. server \in Patching => job = NoJob /\ ~ Has(c2s, "Patch")
  BY NoPatchLeft DEF SessionInv
<1>5. SyncedInv'
  BY <1>3, <1>4 DEF SyncedInv, Good
<1>6. QED BY <1>1, <1>2, <1>5 DEF SessionInv

(***************************************************************************)
(* The client: messages                                                    *)
(***************************************************************************)

\* A message of another type than those of Patches and Events is read, or one that
\* ends the session is.
LEMMA ReadStep ==
  ASSUME SessionInv, NEW types, Received(types),
         \/ client' = "failed"
         \/ client' \in {client, "waitExit"} /\ client \in {"await", "watch"}
            /\ types \in {{"Debug"}, {"Finish"}} /\ (client' # client => client = "watch"),
         error' \in {error, "order"}, finishSeen' \in BOOLEAN,
         UNCHANGED <<statuses, toPush, patches, seen, server, job, sent, disk, temp, pending,
                     diskFull, kills, sessions>>
  PROVE  SessionInv'
<1>1. /\ s2c # <<>> /\ Head(s2c) \in ServerMessage /\ Head(s2c).type \in types
      /\ s2c' = Tail(s2c) /\ s2c' \in Seq(ServerMessage) /\ c2s' = c2s
      /\ buffered' \in 0 .. 2 * Len(s2c') /\ garbled' = FALSE
  BY ReceivedFacts DEF SessionInv
<1>2. s2c \in Seq(ServerMessage) /\ Messages(s2c) = Messages(s2c') \cup {Head(s2c)}
  BY <1>1, MessagesFacts DEF SessionInv, SessionTypeOK
<1>3. SessionTypeOK'
  BY <1>1 DEF SessionInv, SessionTypeOK, Over
<1>4. ServerInv' /\ TempInv'
  BY DEF SessionInv, ServerInv, TempInv, Good
<1>5. PatchInv'
  <2>1. CASE client' = "failed"
    BY <2>1 DEF PatchInv, Early, Syncing
  <2>2. CASE client' # "failed"
    <3>1. Head(s2c).type # "PatchApplied"
      BY <1>1, <2>2
    <3>2. \A f : Places(f)' = Places(f)
      BY <1>1, <3>1, PlacesKept DEF SessionInv
    <3>3. QED BY <2>2, <3>2 DEF SessionInv, PatchInv, Early, Syncing
  <2>3. QED BY <2>1, <2>2
<1>6. EventInv'
  <2>1. client' = "watch" => seen + Count(s2c', Msg("Event")) <= sent
    <3>1. Count(s2c, Msg("Event")) \in Nat /\ Count(s2c', Msg("Event")) \in Nat
      BY <1>1, <1>2, CountNat
    <3>2. Count(s2c, Msg("Event")) =
            Count(s2c', Msg("Event")) + IF Head(s2c) = Msg("Event") THEN 1 ELSE 0
      BY <1>1, <1>2, CountTail
    <3>3. seen \in Nat /\ sent \in Nat
      BY SessionAssumption DEF SessionInv, SessionTypeOK
    <3>4. QED BY <3>1, <3>2, <3>3 DEF SessionInv, EventInv
  <2>2. client' \in Before => client \in Before
    BY DEF Before, Syncing, Early
  <2>3. QED BY <1>1, <1>2, <2>1, <2>2 DEF SessionInv, EventInv, Has
<1>7. KnownInv' /\ SyncedInv'
  BY <1>1, <1>2 DEF SessionInv, KnownInv, SyncedInv, Synced, Early, Syncing, Good
<1>8. QED BY <1>3, <1>4, <1>5, <1>6, <1>7 DEF SessionInv

LEMMA SendFileListStep ==
  ASSUME SessionInv, SendFileList PROVE SessionInv'
<1>1. /\ client = "list" /\ client' = "status" /\ Send(Msg("FileList"))
      /\ Msg("FileList") \in ClientMessage /\ Msg("FileList").type = "FileList"
      /\ UNCHANGED <<error, statuses, toPush, patches, seen, finishSeen, server, job, sent, disk,
                     temp, pending, diskFull, kills, sessions>>
  BY MessageTypes DEF SendFileList, serverVars, fileVars, envVars, Msg
<1>2. /\ c2s' = Append(c2s, Msg("FileList")) /\ c2s' \in Seq(ClientMessage)
      /\ UNCHANGED <<s2c, buffered, garbled>>
  BY <1>1, SendFacts DEF SessionInv
<1>3. Messages(c2s') = Messages(c2s) \cup {Msg("FileList")}
  BY <1>1, <1>2, MessagesFacts DEF SessionInv, SessionTypeOK
<1>4. SessionTypeOK' /\ ServerInv' /\ TempInv'
  BY <1>1, <1>2 DEF SessionInv, SessionTypeOK, ServerInv, TempInv, Good
<1>5. \A f : Places(f)' = Places(f)
  BY <1>1, <1>2, PlacesKept DEF SessionInv
<1>6. PatchInv'
  BY <1>1, <1>5 DEF SessionInv, PatchInv, Early, Syncing
<1>7. EventInv' /\ KnownInv' /\ SyncedInv'
  BY <1>1, <1>2, <1>3 DEF SessionInv, EventInv, KnownInv, SyncedInv, Synced, Early, Syncing,
     Before, Good, Has
<1>8. QED BY <1>4, <1>6, <1>7 DEF SessionInv

\* The status of each file is what the server's disk still says.
LEMMA ReceiveStatusStep ==
  ASSUME SessionInv, ReceiveStatus PROVE SessionInv'
<1>1. /\ client = "status" /\ client' = "push" /\ Received({"FileStatus"})
      /\ statuses' = Head(s2c).status /\ toPush' = Files
      /\ UNCHANGED <<error, patches, seen, finishSeen, server, job, sent, disk, temp, pending,
                     diskFull, kills, sessions>>
  BY DEF ReceiveStatus, serverVars, fileVars, envVars
<1>2. /\ s2c # <<>> /\ Head(s2c) \in ServerMessage /\ Head(s2c).type = "FileStatus"
      /\ s2c' = Tail(s2c) /\ s2c' \in Seq(ServerMessage) /\ c2s' = c2s
      /\ buffered' \in 0 .. 2 * Len(s2c') /\ garbled' = FALSE
  <2> DEFINE types == {"FileStatus"}
  <2>1. SessionTypeOK /\ Received(types)
    BY <1>1 DEF SessionInv
  <2> HIDE DEF types
  <2>2. Head(s2c).type \in types
    BY <2>1, ReceivedFacts
  <2>3. QED BY <2>1, <2>2, ReceivedFacts DEF types
<1>3. Messages(s2c) = Messages(s2c') \cup {Head(s2c)} /\ patches = {}
  BY <1>1, <1>2, MessagesFacts DEF SessionInv, SessionTypeOK, PatchInv, Early
<1>4. statuses' \in [Files -> Statuses]
  BY <1>1, <1>2, MessageContents
<1>5. ServerInv' /\ TempInv'
  BY <1>1, <1>2 DEF SessionInv, ServerInv, TempInv, Good
<1> SessionTypeOK'
  BY <1>1, <1>2, <1>3, <1>4 DEF SessionInv, SessionTypeOK
<1>6. \A f : Places(f)' = Places(f)
  BY <1>1, <1>2, PlacesKept DEF SessionInv
<1>7. PatchInv'
  BY <1>1, <1>6 DEF SessionInv, PatchInv, Early, Syncing
<1>8. EventInv' /\ SyncedInv'
  BY <1>1, <1>2, <1>3 DEF SessionInv, EventInv, SyncedInv, Synced, Early, Syncing, Before, Good, Has
<1>9. KnownInv'
  BY <1>1, <1>2, <1>3 DEF SessionInv, KnownInv, Early, Syncing, Good
<1>10. QED BY <1>5, <1>7, <1>8, <1>9 DEF SessionInv

\* A file that has to be patched is added to the patches, and one Patch to the stream.
LEMMA PushStep ==
  ASSUME SessionInv, NEW f \in Files, Push(f) PROVE SessionInv'
<1>1. /\ client = "push" /\ client' = "push" /\ f \in toPush /\ toPush' = toPush \ {f}
      /\ UNCHANGED <<error, statuses, seen, finishSeen, server, job, sent, disk, temp, pending,
                     diskFull, kills, sessions>>
  BY DEF Push, serverVars, fileVars, envVars
<1>2. f \notin patches
  BY <1>1 DEF SessionInv, SessionTypeOK
<1>3. ServerInv' /\ TempInv'
  BY <1>1 DEF SessionInv, ServerInv, TempInv, Good
<1>4. CASE statuses[f] = "Same"
  <2>1. UNCHANGED <<patches, c2s, s2c, buffered, garbled>>
    BY <1>4 DEF Push, channelVars
  <2>2. SessionTypeOK'
    BY <1>1, <2>1 DEF SessionInv, SessionTypeOK
  <2>3. PatchInv' /\ EventInv' /\ KnownInv' /\ SyncedInv'
    BY <1>1, <1>4, <2>1 DEF SessionInv, PatchInv, EventInv, KnownInv, SyncedInv, Synced, Places,
       Underway, InHand, Acked,       Early, Syncing, Before, Good
  <2>4. QED BY <1>3, <2>2, <2>3 DEF SessionInv
<1>5. CASE statuses[f] # "Same"
  <2>1. PICK kind \in {"Full", "Partial"} : Send(Patch(f, kind)) /\ patches' = patches \cup {f}
    BY <1>5 DEF Push
  <2>2. Patch(f, kind) \in ClientMessage /\ Patch(f, kind).type = "Patch"
    BY MessageTypes DEF Patch
  <2>3. /\ c2s' = Append(c2s, Patch(f, kind)) /\ c2s' \in Seq(ClientMessage)
        /\ UNCHANGED <<s2c, buffered, garbled>>
    BY <2>1, <2>2, SendFacts DEF SessionInv
  <2>4. Messages(c2s') = Messages(c2s) \cup {Patch(f, kind)}
    BY <2>2, <2>3, MessagesFacts DEF SessionInv, SessionTypeOK
  <2>5. SessionTypeOK'
    BY <1>1, <2>1, <2>3 DEF SessionInv, SessionTypeOK
  <2>6. EventInv' /\ KnownInv' /\ SyncedInv'
    BY <1>1, <2>1, <2>2, <2>3, <2>4 DEF SessionInv, EventInv, KnownInv, SyncedInv, Synced, Early,
       Syncing, Before, Good, Has
  <2>7. PatchInv'
    <3>1. ASSUME NEW g \in Files
          PROVE  Places(g)' = Places(g) + IF g = f THEN 1 ELSE 0
      <4>1. \A m : Count(c2s, m) \in Nat
        BY CountNat DEF SessionInv, SessionTypeOK
      <4>2. \A m : Count(c2s', m) = Count(c2s, m) + IF Patch(f, kind) = m THEN 1 ELSE 0
        BY <2>2, <2>3, CountAppend DEF SessionInv, SessionTypeOK
      <4>3. \A k \in {"Full", "Partial"} : Patch(f, kind) = Patch(g, k) <=> g = f /\ k = kind
        BY DEF Patch
      <4>4. Underway(g)' = Underway(g) + IF g = f THEN 1 ELSE 0
        BY <4>1, <4>2, <4>3 DEF Underway
      <4>5. InHand(g)' = InHand(g) /\ Acked(g)' = Acked(g)
        BY <1>1, <2>3 DEF InHand, Acked
      <4>6. Underway(g) \in Nat /\ InHand(g) \in Nat /\ Acked(g) \in Nat
        BY PlacesTypes DEF SessionInv
      <4>7. QED BY <4>4, <4>5, <4>6 DEF Places
    <3>2. QED BY <1>1, <1>2, <2>1, <3>1 DEF SessionInv, PatchInv, Early, Syncing
  <2>8. QED BY <1>3, <2>5, <2>6, <2>7 DEF SessionInv
<1>6. QED BY <1>4, <1>5

LEMMA PushDoneStep ==
  ASSUME SessionInv, PushDone PROVE SessionInv'
<1>1. /\ client = "push" /\ toPush = {}
      /\ client' = IF patches = {} THEN "close" ELSE "await"
      /\ UNCHANGED <<error, statuses, toPush, patches, seen, finishSeen, buffered, garbled, c2s, s2c,
                     server, job, sent, disk, temp, pending, diskFull, kills, sessions>>
  BY DEF PushDone, channelVars, serverVars, fileVars, envVars
<1>2. CASE patches # {}
  <2>1. ClientMoves
    BY <1>1, <1>2 DEF ClientMoves, SessionInv, SessionTypeOK
  <2>2. QED BY <2>1, ClientMovesStep
<1>3. CASE patches = {}
  <2>1. SessionTypeOK'
    BY <1>1, <1>3 DEF SessionInv, SessionTypeOK
  <2>2. server \in Patching => \A f \in Files : Places(f) = Acked(f)
    <3>1. server \in Patching => \A f \in Files : Places(f) = 0
      BY <1>1, <1>3 DEF SessionInv, PatchInv, Syncing
    <3>2. QED BY <3>1, PlacesTypes DEF Places, SessionInv
  <2>3. QED BY <1>1, <1>3, <2>1, <2>2, ToClose
<1>4. QED BY <1>2, <1>3

LEMMA ReceiveAppliedStep ==
  ASSUME SessionInv, ReceiveApplied PROVE SessionInv'
<1> DEFINE types == {"PatchApplied"}
<1> PICK g : g = Head(s2c).file
  OBVIOUS
<1>1. /\ client = "await" /\ Received(types) /\ patches' = patches \ {g}
      /\ client' = IF patches' = {} THEN "close" ELSE "await"
      /\ UNCHANGED <<error, statuses, toPush, seen, finishSeen, server, job, sent, disk, temp,
                     pending, diskFull, kills, sessions>>
  BY DEF ReceiveApplied, serverVars, fileVars, envVars
<1> HIDE DEF types
<1>2. /\ s2c # <<>> /\ Head(s2c) \in ServerMessage /\ Head(s2c).type \in types
      /\ s2c' = Tail(s2c) /\ s2c' \in Seq(ServerMessage) /\ c2s' = c2s
      /\ buffered' \in 0 .. 2 * Len(s2c') /\ garbled' = FALSE
  BY <1>1, ReceivedFacts DEF SessionInv
<1>3. g \in Files /\ Head(s2c) = FileMsg("PatchApplied", g) /\ Head(s2c).type = "PatchApplied"
  BY <1>2, MessageContents DEF types
<1>4. s2c \in Seq(ServerMessage) /\ Messages(s2c) = Messages(s2c') \cup {Head(s2c)}
  BY <1>2, MessagesFacts DEF SessionInv, SessionTypeOK
<1>5. SessionTypeOK'
  BY <1>1, <1>2 DEF SessionInv, SessionTypeOK
<1>6. /\ \A f : f # g => Places(f)' = Places(f)
      /\ server \in Patching => g \in patches /\ Places(g) = Acked(g) /\ Places(g)' = 0
  <2>1. /\ \A m : Count(s2c', m) \in Nat
        /\ \A m : Count(s2c, m) = Count(s2c', m) + IF Head(s2c) = m THEN 1 ELSE 0
    BY <1>2, <1>4, CountTail, CountNat
  <2>2. \A f : Head(s2c) = FileMsg("PatchApplied", f) <=> f = g
    BY <1>3 DEF FileMsg
  <2>3. Acked(g) = Acked(g)' + 1 /\ Acked(g)' \in Nat /\ \A f : f # g => Acked(f)' = Acked(f)
    BY <2>1, <2>2 DEF Acked
  <2>4. \A f : Underway(f)' = Underway(f) /\ InHand(f)' = InHand(f)
    BY <1>1, <1>2 DEF Underway, InHand
  <2>5. server \in Patching => Places(g) = IF g \in patches THEN 1 ELSE 0
    BY <1>1, <1>3 DEF SessionInv, PatchInv, Syncing
  <2>6. Underway(g) \in Nat /\ InHand(g) \in Nat
    BY PlacesTypes DEF SessionInv
  <2>7. server \in Patching => g \in patches /\ Places(g) = Acked(g) /\ Places(g)' = 0
    BY <2>3, <2>4, <2>5, <2>6 DEF Places
  <2>8. QED BY <2>3, <2>4, <2>7 DEF Places
<1>7. CASE patches' # {}
  <2>1. ServerInv' /\ TempInv'
    BY <1>1, <1>7 DEF SessionInv, ServerInv, TempInv, Good
  <2>2. PatchInv'
    <3>1. client' = "await" /\ client = "await" /\ toPush' = {}
      BY <1>1, <1>7 DEF SessionInv, PatchInv
    <3>2. ASSUME server \in Patching, NEW f \in Files
          PROVE  Places(f)' = IF f \in patches' THEN 1 ELSE 0
      <4>1. Places(f) = IF f \in patches THEN 1 ELSE 0
        BY <3>1, <3>2 DEF SessionInv, PatchInv, Syncing
      <4>2. QED BY <1>1, <1>6, <3>2, <4>1
    <3>3. QED BY <1>1, <3>1, <3>2 DEF PatchInv, Early
  <2>3. EventInv' /\ SyncedInv'
    BY <1>1, <1>2, <1>4, <1>7 DEF SessionInv, EventInv, SyncedInv, Synced, Early, Syncing, Before,
       Good, Has
  <2>4. KnownInv'
    BY <1>1, <1>3, <1>4, <1>7 DEF SessionInv, KnownInv, Early, Syncing, Good, FileMsg
  <2>5. QED BY <1>5, <2>1, <2>2, <2>3, <2>4 DEF SessionInv
<1>8. CASE patches' = {}
  <2>1. toPush = {} /\ patches \subseteq {g} /\ FileMsg("PatchApplied", g) \in Messages(s2c)
    BY <1>1, <1>3, <1>4, <1>8 DEF SessionInv, PatchInv
  <2>2. server \in Patching => \A f \in Files : Places(f) = Acked(f)
    <3>1. server \in Patching => \A f \in Files : f # g => Places(f) = 0
      BY <1>1, <2>1 DEF SessionInv, PatchInv, Syncing
    <3>2. server \in Patching => \A f \in Files : f # g => Places(f) = Acked(f)
      BY <3>1, PlacesTypes DEF Places, SessionInv
    <3>3. QED BY <1>6, <3>2
  <2>3. {g} \in SUBSET Files /\ Messages(s2c') \subseteq Messages(s2c)
    BY <1>3, <1>4
  <2>4. QED BY <1>1, <1>2, <1>5, <1>8, <2>1, <2>2, <2>3, ToClose
<1>9. QED BY <1>7, <1>8

\* The frames that sync_files' reader has buffered are lost to the next one.
LEMMA CloseSyncStep ==
  ASSUME SessionInv, CloseSync PROVE SessionInv'
<1>1. /\ client = "close" /\ client' = "exec" /\ c2s' = Append(c2s, Msg("Close"))
      /\ s2c' = SubSeq(s2c, buffered \div 2 + 1, Len(s2c))
      /\ garbled' \in BOOLEAN /\ buffered' = 0
      /\ UNCHANGED <<error, statuses, toPush, patches, seen, finishSeen, server, job, sent, disk,
                     temp, pending, diskFull, kills, sessions>>
  BY DEF CloseSync, serverVars, fileVars, envVars
<1>2. s2c' \in Seq(ServerMessage) /\ Messages(s2c') \subseteq Messages(s2c)
  <2>1. buffered \div 2 + 1 \in Nat \ {0} /\ s2c \in Seq(ServerMessage)
    BY DEF SessionInv, SessionTypeOK
  <2>2. QED BY <1>1, <2>1, MessagesSubSeq
<1>3. /\ c2s' \in Seq(ClientMessage) /\ Messages(c2s') = Messages(c2s) \cup {Msg("Close")}
      /\ Msg("Close").type = "Close"
  BY <1>1, MessageTypes, MessagesFacts, AppendProperties DEF SessionInv, SessionTypeOK, Msg
<1>4. SessionTypeOK'
  <2>1. buffered' \in 0 .. 2 * Len(s2c')
    BY <1>1, <1>2
  <2>2. QED BY <1>1, <1>2, <1>3, <2>1 DEF SessionInv, SessionTypeOK
<1>5. ServerInv' /\ PatchInv' /\ TempInv' /\ KnownInv'
  BY <1>1 DEF SessionInv, ServerInv, PatchInv, TempInv, KnownInv, Early, Syncing, Good
<1>6. EventInv' /\ SyncedInv'
  BY <1>1, <1>2, <1>3 DEF SessionInv, EventInv, SyncedInv, Synced, Before, Good, Has
<1>7. QED BY <1>4, <1>5, <1>6 DEF SessionInv

LEMMA SendExecStep ==
  ASSUME SessionInv, SendExec PROVE SessionInv'
<1>1. /\ client = "exec" /\ client' = "watch" /\ Send(Msg("Exec"))
      /\ Msg("Exec") \in ClientMessage /\ Msg("Exec").type = "Exec"
      /\ UNCHANGED <<error, statuses, toPush, patches, seen, finishSeen, server, job, sent, disk,
                     temp, pending, diskFull, kills, sessions>>
  BY MessageTypes DEF SendExec, serverVars, fileVars, envVars, Msg
<1>2. /\ c2s' = Append(c2s, Msg("Exec")) /\ c2s' \in Seq(ClientMessage)
      /\ UNCHANGED <<s2c, buffered, garbled>>
  BY <1>1, SendFacts DEF SessionInv
<1>3. Messages(c2s') = Messages(c2s) \cup {Msg("Exec")}
  BY <1>1, <1>2, MessagesFacts DEF SessionInv, SessionTypeOK
<1>4. SessionTypeOK' /\ ServerInv' /\ TempInv'
  BY <1>1, <1>2 DEF SessionInv, SessionTypeOK, ServerInv, TempInv, Good
<1>5. PatchInv' /\ KnownInv'
  BY <1>1 DEF PatchInv, KnownInv, Early, Syncing
<1>6. SyncedInv'
  BY <1>1, <1>2, <1>3 DEF SessionInv, SyncedInv, Synced, Good, Has
<1>7. EventInv'
  <2>1. seen = 0 /\ sent = 0 /\ ~ Has(s2c, "Event")
    BY <1>1 DEF SessionInv, EventInv, Before
  <2>2. Msg("Event") \notin Messages(s2c)
    BY <2>1 DEF Has, Msg
  <2>3. Count(s2c, Msg("Event")) = 0
    BY <2>2, CountNat DEF SessionInv, SessionTypeOK
  <2>4. QED BY <1>1, <1>2, <2>1, <2>3 DEF EventInv, Before, Syncing, Early
<1>8. QED BY <1>4, <1>5, <1>6, <1>7 DEF SessionInv

LEMMA ReceiveEventStep ==
  ASSUME SessionInv, ReceiveEvent PROVE SessionInv'
<1> DEFINE types == {"Event"}
<1>1. /\ client = "watch" /\ client' = "watch" /\ Received(types) /\ seen' = seen + 1
      /\ UNCHANGED <<error, statuses, toPush, patches, finishSeen, server, job, sent, disk,
                     temp, pending, diskFull, kills, sessions>>
  BY DEF ReceiveEvent, serverVars, fileVars, envVars
<1> HIDE DEF types
<1>2. /\ s2c # <<>> /\ Head(s2c) \in ServerMessage /\ Head(s2c).type \in types
      /\ s2c' = Tail(s2c) /\ s2c' \in Seq(ServerMessage) /\ c2s' = c2s
      /\ buffered' \in 0 .. 2 * Len(s2c') /\ garbled' = FALSE
  BY <1>1, ReceivedFacts DEF SessionInv
<1>3. Head(s2c) = Msg("Event")
  BY <1>2, MessageContents DEF types
<1>4. seen \in Nat /\ sent \in 0..MaxEvents /\ MaxEvents \in Nat
  BY SessionAssumption DEF SessionInv, SessionTypeOK
<1>5. /\ Count(s2c', Msg("Event")) \in Nat
      /\ Count(s2c, Msg("Event")) = Count(s2c', Msg("Event")) + 1
  BY <1>2, <1>3, CountNat, CountTail DEF SessionInv, SessionTypeOK
<1>6. seen' + Count(s2c', Msg("Event")) <= sent /\ seen' \in 0..MaxEvents
  <2>1. seen + Count(s2c, Msg("Event")) <= sent
    BY <1>1 DEF SessionInv, EventInv
  <2>2. QED BY <1>1, <1>4, <1>5, <2>1
<1>7. SessionTypeOK' /\ ServerInv' /\ TempInv'
  <2>1. SessionTypeOK'
    BY <1>1, <1>2, <1>6 DEF SessionInv, SessionTypeOK
  <2>2. QED BY <1>1, <2>1 DEF SessionInv, ServerInv, TempInv, Good
<1>8. PatchInv' /\ KnownInv' /\ EventInv'
  BY <1>1, <1>6 DEF PatchInv, KnownInv, EventInv, Before, Early, Syncing
<1>9. SyncedInv'
  BY <1>1, <1>2 DEF SessionInv, SyncedInv, Synced, Good, Has
<1>10. QED BY <1>7, <1>8, <1>9 DEF SessionInv

LEMMA ClientStepInv ==
  ASSUME SessionInv, ClientStep PROVE SessionInv'
<1>1. CASE OutOfOrder
  <2>1. client' = "failed" /\ error' = "order" /\ Received(Unexpected[client])
        /\ UNCHANGED <<statuses, toPush, patches, seen, finishSeen, server, job, sent, disk, temp,
                       pending, diskFull, kills, sessions>>
    BY <1>1 DEF OutOfOrder, Fail, serverVars, fileVars, envVars
  <2>2. finishSeen \in BOOLEAN
    BY DEF SessionInv, SessionTypeOK
  <2>3. QED BY <2>1, <2>2, ReadStep
<1>2. CASE ReceiveDebug \/ ReceiveFinish
  <2>1. PICK types \in {{"Debug"}, {"Finish"}} :
          /\ Received(types) /\ client \in {"await", "watch"} /\ client' \in {client, "waitExit"}
          /\ client' # client => client = "watch"
          /\ finishSeen' \in {finishSeen, TRUE}
          /\ UNCHANGED <<error, statuses, toPush, patches, seen, server, job, sent, disk, temp,
                         pending, diskFull, kills, sessions>>
    BY <1>2 DEF ReceiveDebug, ReceiveFinish, clientVars, serverVars, fileVars, envVars
  <2>2. finishSeen' \in BOOLEAN
    BY <2>1 DEF SessionInv, SessionTypeOK
  <2>3. QED BY <2>1, <2>2, ReadStep
<1>3. CASE PushDone \/ SendFileList \/ ReceiveStatus \/ \E f \in Files : Push(f)
  BY <1>3, SendFileListStep, ReceiveStatusStep, PushStep, PushDoneStep
<1>4. CASE ReceiveApplied \/ CloseSync \/ SendExec \/ ReceiveEvent
  BY <1>4, ReceiveAppliedStep, CloseSyncStep, SendExecStep, ReceiveEventStep
<1>5. CASE \/ Connect \/ ConnectTimeout \/ ReadMore \/ GarbledFrame \/ RxTimeout \/ StreamEnds
         \/ ClientIoError \/ ExitSeen
  <2>1. SessionTypeOK
    BY DEF SessionInv
  <2>2. ClientMoves
    BY <1>5, <2>1, ClientMovesCases
  <2>3. QED BY <2>2, ClientMovesStep
<1>6. QED BY <1>1, <1>2, <1>3, <1>4, <1>5 DEF ClientStep

(***************************************************************************)
(* The server: steps without a message                                     *)
(***************************************************************************)

\* The server goes on to wait for somebody, or ends.
ServerMoves ==
  /\ UNCHANGED <<client, error, statuses, toPush, patches, seen, finishSeen, c2s, s2c, buffered,
                 garbled, job, sent, disk, temp, pending, diskFull, kills, sessions>>
  /\ \/ server = "boot" /\ server' = "listening"
     \/ server = "listening" /\ server' = "sync"
     \/ server = "sync" /\ server' = "waitExec"
     \/ server \notin Inert \cup {"absent"} /\ server' \in Inert

LEMMA ServerMovesStep ==
  ASSUME SessionInv, ServerMoves PROVE SessionInv'
<1> USE DEF Inert, Ended
<1>1. SessionTypeOK' /\ ServerInv'
  BY DEF ServerMoves, SessionInv, SessionTypeOK, ServerInv, Serving, Patching, Applying
<1>2. PatchInv' /\ EventInv' /\ TempInv'
  BY DEF ServerMoves, SessionInv, PatchInv, EventInv, TempInv, Places, Underway, InHand, Acked,
     Patching, Good
<1>3. KnownInv' /\ SyncedInv'
  BY DEF ServerMoves, SessionInv, KnownInv, SyncedInv, Synced, Serving, Patching, Good
<1>4. QED BY <1>1, <1>2, <1>3 DEF SessionInv

LEMMA ServerMovesCases ==
  ASSUME \/ Bind \/ Accept \/ AcceptTimeout \/ SyncTimeout \/ ExecTimeout \/ RunWithoutClient
         \/ BrokenPipe \/ DecodeFails \/ ReplaceFails
  PROVE  ServerMoves
BY DEF Bind, Accept, AcceptTimeout, SyncTimeout, ExecTimeout, RunWithoutClient, BrokenPipe,
   DecodeFails, ReplaceFails, ServerMoves, Inert, Ended, channelVars, clientVars, fileVars, envVars

\* What was not on disk yet is lost, but the session is, too.
LEMMA KillStep ==
  ASSUME SessionInv, Kill PROVE SessionInv'
<1>1. /\ server \notin Ended /\ server # "absent" /\ server' = "killed" /\ kills' = kills + 1
      /\ pending' = {}
      /\ UNCHANGED <<client, error, statuses, toPush, patches, seen, finishSeen, c2s, s2c, buffered,
                     garbled, job, sent, disk, temp, diskFull, sessions>>
  BY DEF Kill, channelVars, clientVars
<1>2. sessions \in 1..MaxSessions /\ kills < sessions /\ kills \in 0..MaxSessions /\ MaxSessions \in Nat
  BY <1>1, SessionAssumption DEF SessionInv, SessionTypeOK, ServerInv
<1>3. SessionTypeOK' /\ ServerInv'
  BY <1>1, <1>2 DEF SessionInv, SessionTypeOK, ServerInv, Serving, Patching, Applying, Inert, Ended
<1>4. PatchInv' /\ EventInv' /\ TempInv' /\ KnownInv' /\ SyncedInv'
  BY <1>1 DEF SessionInv, PatchInv, EventInv, TempInv, KnownInv, SyncedInv, Serving, Patching
<1>5. QED BY <1>3, <1>4 DEF SessionInv

LEMMA DiskFillsStep ==
  ASSUME SessionInv, DiskFills PROVE SessionInv'
<1>1. /\ diskFull' = TRUE
      /\ UNCHANGED <<client, error, statuses, toPush, patches, seen, finishSeen, c2s, s2c, buffered,
                     garbled, server, job, sent, disk, temp, pending, kills, sessions>>
  BY DEF DiskFills, channelVars, clientVars, serverVars, fileVars
<1>2. SessionTypeOK' /\ ServerInv'
  BY <1>1 DEF SessionInv, SessionTypeOK, ServerInv
<1>3. PatchInv' /\ EventInv'
  BY <1>1 DEF SessionInv, PatchInv, EventInv, Places, Underway, InHand, Acked
<1>4. TempInv' /\ KnownInv' /\ SyncedInv'
  BY <1>1 DEF TempInv, KnownInv, SyncedInv
<1>5. QED BY <1>2, <1>3, <1>4 DEF SessionInv

\* tokio writes what it has: a file that was good stays good.
LEMMA LandWriteStep ==
  ASSUME SessionInv, NEW f \in Files, LandWrite(f) PROVE SessionInv'
<1>1. /\ f \in pending /\ pending' = pending \ {f}
      /\ disk' = IF diskFull THEN disk ELSE [disk EXCEPT ![f] = "current"]
      /\ UNCHANGED <<client, error, statuses, toPush, patches, seen, finishSeen, c2s, s2c, buffered,
                     garbled, server, job, sent, temp, diskFull, kills, sessions>>
  BY DEF LandWrite, channelVars, clientVars, serverVars, envVars
<1>2. SessionTypeOK' /\ ServerInv'
  BY <1>1 DEF SessionInv, SessionTypeOK, ServerInv
<1>3. PatchInv' /\ EventInv'
  BY <1>1 DEF SessionInv, PatchInv, EventInv, Places, Underway, InHand, Acked
<1>4. disk \in [Files -> {"absent", "old", "torn", "current"}] /\ pending \subseteq Files
  BY DEF SessionInv, SessionTypeOK
<1>5. ~ diskFull => \A g \in Files : Good(g) => Good(g)'
  BY <1>1, <1>4 DEF Good
<1>6. TempInv'
  <2>1. server = "applied" => job.file \in Files
    BY DEF SessionInv, ServerInv, Applying, Patch
  <2>2. QED BY <1>1, <1>5, <2>1 DEF SessionInv, TempInv
<1>7. KnownInv' /\ SyncedInv'
  <2>1. \A m \in Messages(s2c) : m.type = "PatchApplied" => m.file \in Files
    BY MessagesFacts, MessageContents DEF SessionInv, SessionTypeOK
  <2>2. KnownInv'
    BY <1>1, <1>5, <2>1 DEF SessionInv, KnownInv
  <2>3. SyncedInv'
    BY <1>1, <1>5 DEF SessionInv, SyncedInv, Synced, Has
  <2>4. QED BY <2>2, <2>3
<1>8. QED BY <1>2, <1>3, <1>6, <1>7 DEF SessionInv

\* The next session starts with nothing under way.
LEMMA NextSessionStep ==
  ASSUME SessionInv, NextSession PROVE SessionInv'
<1>1. /\ client' = "start" /\ error' = "none" /\ statuses' = [f \in Files |-> "Same"]
      /\ toPush' = {} /\ patches' = {} /\ seen' = 0 /\ finishSeen' = FALSE
      /\ c2s' = <<>> /\ s2c' = <<>> /\ buffered' = 0 /\ garbled' = FALSE
      /\ server' = "absent" /\ job' = NoJob /\ sent' = 0
      /\ sessions < MaxSessions /\ sessions' = sessions + 1
      /\ UNCHANGED <<temp, pending, diskFull, kills>>
  BY DEF NextSession
<1>2. PICK edited : disk' = [f \in Files |-> IF f \in edited THEN "old" ELSE disk[f]]
  BY DEF NextSession
<1>3. /\ MaxSessions \in Nat /\ MaxEvents \in Nat /\ "Same" \in Statuses
      /\ <<>> \in Seq(ClientMessage) /\ <<>> \in Seq(ServerMessage) /\ Len(<<>>) = 0
      /\ Messages(<<>>) = {}
  BY SessionAssumption, EmptySeq DEF Statuses, Messages
<1>4. SessionTypeOK'
  <2>1. disk' \in [Files -> {"absent", "old", "torn", "current"}]
    BY <1>2 DEF SessionInv, SessionTypeOK
  <2>2. /\ statuses' \in [Files -> Statuses] /\ sessions' \in 1..MaxSessions
        /\ seen' \in 0..MaxEvents /\ sent' \in 0..MaxEvents /\ buffered' \in 0 .. 2 * Len(s2c')
    BY <1>1, <1>3 DEF SessionInv, SessionTypeOK
  <2>3. QED BY <1>1, <1>3, <2>1, <2>2 DEF SessionInv, SessionTypeOK
<1>5. ServerInv'
  BY <1>1, <1>3 DEF SessionInv, SessionTypeOK, ServerInv, Applying, Inert, Ended
<1>6. \A f : Places(f)' = 0
  <2>1. \A m : Count(<<>>, m) = 0
    BY <1>3, CountNat
  <2>2. QED BY <1>1, <2>1 DEF Places, Underway, InHand, Acked
<1>7. PatchInv' /\ EventInv' /\ TempInv' /\ KnownInv' /\ SyncedInv'
  BY <1>1, <1>3, <1>6 DEF PatchInv, EventInv, TempInv, KnownInv, SyncedInv, Synced, Has
<1>8. QED BY <1>4, <1>5, <1>7 DEF SessionInv

(***************************************************************************)
(* The server: messages                                                    *)
(***************************************************************************)

\* A message other than a Patch is taken off the stream, or thrown away where nobody
\* looks for patches any more.
LEMMA TakeStep ==
  ASSUME SessionInv, NEW type, Take(type), type # "Patch" \/ server' = "waitExec",
         \/ type = "Close" /\ server = "sync" /\ server' = "waitExec"
         \/ server = "waitExec" /\ server' = "waitExec"
         \/ type = "Exec" /\ server = "waitExec" /\ server' = "running"
         \/ type = "FileList" /\ server = "sync" /\ server' = "failed",
         UNCHANGED <<client, error, statuses, toPush, patches, seen, finishSeen, s2c, buffered,
                     garbled, job, sent, disk, temp, pending, diskFull, kills, sessions>>
  PROVE  SessionInv'
<1>1. /\ c2s # <<>> /\ Head(c2s) \in ClientMessage /\ Head(c2s).type = type
      /\ c2s' = Tail(c2s) /\ c2s' \in Seq(ClientMessage)
  BY TakeFacts DEF SessionInv
<1>2. Messages(c2s) = Messages(c2s') \cup {Head(c2s)}
  BY <1>1, MessagesFacts DEF SessionInv, SessionTypeOK
<1>3. SessionTypeOK' /\ ServerInv'
  BY <1>1 DEF SessionInv, SessionTypeOK, ServerInv, Serving, Patching, Applying, Inert, Ended
<1>4. PatchInv' /\ TempInv'
  BY DEF SessionInv, PatchInv, TempInv, Patching
<1>5. EventInv'
  BY <1>1, <1>2 DEF SessionInv, EventInv, Has
<1>6. KnownInv' /\ SyncedInv'
  BY <1>1, <1>2 DEF SessionInv, KnownInv, SyncedInv, Synced, Serving, Patching, Good, Has
<1>7. QED BY <1>3, <1>4, <1>5, <1>6 DEF SessionInv

\* A message that says nothing of a file is sent.
LEMMA ReplyStep ==
  ASSUME SessionInv, NEW m \in ServerMessage, Reply(m), m.type \in {"Debug", "Event", "Finish"},
         \/ m.type = "Debug" /\ server = "listed" /\ server' = "sync" /\ sent' = sent
         \/ server = "running" /\ server' = "running" /\ sent < MaxEvents /\ sent' = sent + 1
         \/ m.type = "Finish" /\ server = "running" /\ server' = "exited" /\ sent' = sent,
         UNCHANGED <<client, error, statuses, toPush, patches, seen, finishSeen, c2s, job, disk,
                     temp, pending, diskFull, kills, sessions>>
  PROVE  SessionInv'
<1>1. /\ s2c' = Append(s2c, m) /\ s2c' \in Seq(ServerMessage)
      /\ buffered' \in 0 .. 2 * Len(s2c') /\ UNCHANGED garbled
  BY ReplyFacts DEF SessionInv
<1>2. Messages(s2c') = Messages(s2c) \cup {m}
  BY <1>1, MessagesFacts DEF SessionInv, SessionTypeOK
<1>3. SessionTypeOK'
  <2>1. sent' \in 0..MaxEvents
    BY SessionAssumption DEF SessionInv, SessionTypeOK
  <2>2. QED BY <1>1, <2>1 DEF SessionInv, SessionTypeOK, Inert, Ended
<1>4. ServerInv' /\ TempInv'
  BY DEF SessionInv, ServerInv, TempInv, Serving, Patching, Applying, Inert, Ended
<1>5. \A f : Places(f)' = Places(f)
  BY <1>1, PlacesKept DEF SessionInv
<1>6. PatchInv'
  BY <1>5 DEF SessionInv, PatchInv, Patching
<1>7. EventInv'
  <2>1. client \in Before => server = "listed" /\ m.type = "Debug"
    BY DEF SessionInv, EventInv
  <2>2. client = "watch" => seen + Count(s2c', Msg("Event")) <= sent'
    <3>1. Count(s2c, Msg("Event")) \in Nat /\ seen \in Nat /\ sent \in Nat
      BY CountNat, SessionAssumption DEF SessionInv, SessionTypeOK
    <3>2. Count(s2c', Msg("Event")) = Count(s2c, Msg("Event")) + IF m = Msg("Event") THEN 1 ELSE 0
      BY <1>1, CountAppend DEF SessionInv, SessionTypeOK
    <3>3. m = Msg("Event") \/ sent' = sent + 1 \/ Count(s2c', Msg("Event")) = Count(s2c, Msg("Event"))
      BY <3>1, <3>2
    <3>4. m = Msg("Event") => sent' = sent + 1
      BY DEF Msg
    <3>5. QED BY <3>1, <3>2, <3>3, <3>4 DEF SessionInv, EventInv
  <2>3. QED BY <1>2, <2>1, <2>2 DEF SessionInv, EventInv, Has
<1>8. KnownInv' /\ SyncedInv'
  BY <1>1, <1>2 DEF SessionInv, KnownInv, SyncedInv, Synced, Serving, Patching, Good
<1>9. QED BY <1>3, <1>4, <1>6, <1>7, <1>8 DEF SessionInv

\* The status tells what is on the disk.
LEMMA ReceiveFileListStep ==
  ASSUME SessionInv, ReceiveFileList PROVE SessionInv'
<1> DEFINE st == [f \in Files |-> StatusOf(f)]
<1>1. /\ server = "sync" /\ server' = "listed" /\ Take("FileList") /\ Reply(Status(st))
      /\ UNCHANGED <<client, error, statuses, toPush, patches, seen, finishSeen, job, sent, disk,
                     temp, pending, diskFull, kills, sessions>>
  BY DEF ReceiveFileList, clientVars, fileVars, envVars
<1>2. st \in [Files -> Statuses] /\ \A f \in Files : st[f] = "Same" => Good(f)
  BY DEF StatusOf, Statuses, Good
<1> HIDE DEF st
<1> DEFINE m == Status(st)
<1>3. m \in ServerMessage /\ m.type = "FileStatus" /\ m.status = st
  BY <1>2, MessageTypes DEF Status
<1>4. Reply(m)
  BY <1>1
<1> HIDE DEF m
<1>5. /\ s2c' = Append(s2c, m) /\ s2c' \in Seq(ServerMessage)
      /\ buffered' \in 0 .. 2 * Len(s2c') /\ UNCHANGED garbled
  BY <1>3, <1>4, ReplyFacts DEF SessionInv
<1>6. Messages(s2c') = Messages(s2c) \cup {m}
  BY <1>3, <1>5, MessagesFacts DEF SessionInv, SessionTypeOK
<1>7. /\ c2s # <<>> /\ Head(c2s) \in ClientMessage /\ Head(c2s).type = "FileList"
      /\ c2s' = Tail(c2s) /\ c2s' \in Seq(ClientMessage)
  BY <1>1, TakeFacts DEF SessionInv
<1>8. Messages(c2s) = Messages(c2s') \cup {Head(c2s)}
  BY <1>7, MessagesFacts DEF SessionInv, SessionTypeOK
<1>9. SessionTypeOK' /\ ServerInv' /\ TempInv'
  BY <1>1, <1>5, <1>7 DEF SessionInv, SessionTypeOK, ServerInv, TempInv, Serving, Patching,
     Applying, Inert, Ended, Good
<1>10. \A f : Places(f)' = Places(f)
  BY <1>1, <1>3, <1>5, <1>7, PlacesKept DEF SessionInv
<1>11. PatchInv'
  BY <1>1, <1>10 DEF SessionInv, PatchInv, Patching
<1>12. EventInv'
  <2>1. Count(s2c', Msg("Event")) = Count(s2c, Msg("Event"))
    <3>1. m # Msg("Event") /\ Count(s2c, Msg("Event")) \in Nat
      BY <1>3, CountNat DEF Msg, SessionInv, SessionTypeOK
    <3>2. QED BY <1>3, <1>5, <3>1, CountAppend DEF SessionInv, SessionTypeOK
  <2>2. QED BY <1>1, <1>3, <1>6, <1>8, <2>1 DEF SessionInv, EventInv, Has
<1>13. KnownInv' /\ SyncedInv'
  BY <1>1, <1>2, <1>3, <1>6, <1>8 DEF SessionInv, KnownInv, SyncedInv, Synced, Serving, Patching,
     Good, Has
<1>14. QED BY <1>9, <1>11, <1>12, <1>13 DEF SessionInv

(***************************************************************************)
(* The server: one patch                                                   *)
(***************************************************************************)

\* The patch is nowhere else while it is applied, and the client waits for it.
LEMMA ApplyingFacts ==
  ASSUME SessionInv, server \in Applying
  PROVE  /\ job.file \in Files /\ job # NoJob
         /\ client \in Syncing =>
              /\ client \notin Early /\ job.file \in patches
              /\ Underway(job.file) = 0 /\ Acked(job.file) = 0
              /\ FileMsg("PatchApplied", job.file) \notin Messages(s2c)
         /\ ~ diskFull => ~ Synced
<1>1. PICK f \in Files, kind \in {"Full", "Partial"} : job = Patch(f, kind)
  BY DEF SessionInv, ServerInv
<1>2. job.file = f /\ job # NoJob
  <2>1. job.file = f /\ job.type = "Patch" /\ NoJob.type = "None"
    BY <1>1 DEF Patch, NoJob, Msg
  <2>2. QED BY <2>1
<1>3. server \in Patching /\ server \in Serving
  BY DEF Applying, Patching, Serving
<1>4. Underway(f) \in Nat /\ Acked(f) \in Nat /\ InHand(f) = 1
  BY <1>2, PlacesTypes DEF SessionInv, InHand
<1>5. ASSUME client \in Syncing
      PROVE  f \in patches /\ Underway(f) = 0 /\ Acked(f) = 0
  <2>1. Places(f) = IF f \in patches THEN 1 ELSE 0
    BY <1>3, <1>5 DEF SessionInv, PatchInv
  <2>2. QED BY <1>4, <2>1 DEF Places
<1>6. client \in Syncing => client \notin Early
  BY <1>3, EarlyFacts
<1>7. client \in Syncing => FileMsg("PatchApplied", f) \notin Messages(s2c)
  BY <1>5, CountNat DEF Acked, SessionInv, SessionTypeOK
<1>8. ~ diskFull => ~ Synced
  BY <1>2, <1>3 DEF SessionInv, SyncedInv
<1>9. QED BY <1>1, <1>2, <1>5, <1>6, <1>7, <1>8

\* It changes no file but its own.
LEMMA ApplyingKeeps ==
  ASSUME SessionInv, server \in Applying, server' \in Applying \cup {"failed"},
         ~ diskFull => \A f \in Files : f # job.file /\ Good(f) => Good(f)',
         UNCHANGED <<client, error, statuses, toPush, patches, seen, finishSeen, c2s, s2c, buffered,
                     garbled, job, sent, diskFull, kills, sessions>>
  PROVE  ServerInv' /\ PatchInv' /\ EventInv' /\ KnownInv' /\ SyncedInv'
<1>1. ServerInv'
  BY DEF SessionInv, ServerInv, Serving, Patching, Applying, Inert, Ended
<1>2. PatchInv' /\ EventInv'
  BY DEF SessionInv, PatchInv, EventInv, Places, Underway, InHand, Acked, Patching, Applying
<1>3. server' # "running" /\ server \in Serving /\ (~ diskFull => ~ Synced)
  BY ApplyingFacts DEF Applying, Patching, Serving
<1>4. SyncedInv'
  BY <1>3 DEF SyncedInv, Synced, Has
<1>5. KnownInv'
  <2> SUFFICES ASSUME client \in Syncing, ~ diskFull
               PROVE  /\ client \notin Early
                      /\ \A m \in Messages(s2c) : m.type = "PatchApplied" => Good(m.file)'
                      /\ \A f \in Files \ patches :
                            (f \in toPush => statuses[f] = "Same") => Good(f)'
    BY DEF KnownInv, Good
  <2>1. client \notin Early /\ job.file \in patches /\ client \in {"push", "await"}
        /\ FileMsg("PatchApplied", job.file) \notin Messages(s2c)
    BY ApplyingFacts DEF Syncing
  <2>2. ASSUME NEW m \in Messages(s2c), m.type = "PatchApplied"
        PROVE  Good(m.file)'
    <3>1. m.file \in Files /\ m = FileMsg("PatchApplied", m.file)
      BY <2>2, MessagesFacts, MessageContents DEF SessionInv, SessionTypeOK
    <3>2. m.file # job.file /\ Good(m.file)
      BY <1>3, <2>1, <2>2, <3>1 DEF SessionInv, KnownInv
    <3>3. QED BY <3>1, <3>2
  <2>3. ASSUME NEW f \in Files \ patches, f \in toPush => statuses[f] = "Same"
        PROVE  Good(f)'
    BY <1>3, <2>1, <2>3 DEF SessionInv, KnownInv
  <2>4. QED BY <2>1, <2>2, <2>3
<1>6. QED BY <1>1, <1>2, <1>4, <1>5

LEMMA FullPatchStep ==
  ASSUME SessionInv, FullPatch PROVE SessionInv'
<1>1. /\ server = "patch" /\ server' = "applied" /\ server \in Applying /\ server' \in Applying
      /\ disk' = [disk EXCEPT ![job.file] = "torn"] /\ pending' = pending \cup {job.file}
      /\ UNCHANGED <<client, error, statuses, toPush, patches, seen, finishSeen, c2s, s2c, buffered,
                     garbled, job, sent, temp, diskFull, kills, sessions>>
  BY DEF FullPatch, Applying, clientVars, channelVars, envVars
<1>2. /\ job.file \in Files /\ disk \in [Files -> {"absent", "old", "torn", "current"}]
      /\ pending \in SUBSET Files
  BY <1>1, ApplyingFacts DEF SessionInv, SessionTypeOK
<1>3. SessionTypeOK'
  BY <1>1, <1>2 DEF SessionInv, SessionTypeOK
<1>4. \A f \in Files : f # job.file /\ Good(f) => Good(f)'
  BY <1>1, <1>2 DEF Good
<1>5. ServerInv' /\ PatchInv' /\ EventInv' /\ KnownInv' /\ SyncedInv'
  BY <1>1, <1>4, ApplyingKeeps
<1>6. TempInv'
  BY <1>1 DEF TempInv, Good
<1>7. QED BY <1>3, <1>5, <1>6 DEF SessionInv

LEMMA PatchFailsStep ==
  ASSUME SessionInv, FullPatchFails \/ PartialPatchFails PROVE SessionInv'
<1>1. /\ server = "patch" /\ server' = "failed" /\ server \in Applying
      /\ disk' \in {disk, [disk EXCEPT ![job.file] = "torn"]}
      /\ temp' \in {temp, [temp EXCEPT ![job.file] = "torn"]}
      /\ UNCHANGED <<client, error, statuses, toPush, patches, seen, finishSeen, c2s, s2c, buffered,
                     garbled, job, sent, pending, diskFull, kills, sessions>>
  BY DEF FullPatchFails, PartialPatchFails, Applying, clientVars, channelVars, envVars
<1>2. /\ job.file \in Files /\ disk \in [Files -> {"absent", "old", "torn", "current"}]
      /\ temp \in [Files -> {"none", "good", "torn"}]
  BY <1>1, ApplyingFacts DEF SessionInv, SessionTypeOK
<1>3. SessionTypeOK'
  <2>1. /\ disk' \in [Files -> {"absent", "old", "torn", "current"}]
        /\ temp' \in [Files -> {"none", "good", "torn"}]
    BY <1>1, <1>2
  <2>2. QED BY <1>1, <2>1 DEF SessionInv, SessionTypeOK, Inert, Ended
<1>4. \A f \in Files : f # job.file /\ Good(f) => Good(f)'
  BY <1>1, <1>2 DEF Good
<1>5. ServerInv' /\ PatchInv' /\ EventInv' /\ KnownInv' /\ SyncedInv'
  BY <1>1, <1>4, ApplyingKeeps
<1>6. TempInv'
  BY <1>1 DEF TempInv
<1>7. QED BY <1>3, <1>5, <1>6 DEF SessionInv

LEMMA PartialPatchStep ==
  ASSUME SessionInv, PartialPatch PROVE SessionInv'
<1>1. /\ server = "patch" /\ server' \in {"remove", "failed"} /\ server \in Applying
      /\ server' \in Applying \cup {"failed"}
      /\ UNCHANGED <<client, error, statuses, toPush, patches, seen, finishSeen, c2s, s2c, buffered,
                     garbled, job, sent, disk, pending, diskFull, kills, sessions>>
  BY DEF PartialPatch, Applying, clientVars, channelVars, envVars
<1>2. job.file \in Files /\ temp \in [Files -> {"none", "good", "torn"}]
  BY <1>1, ApplyingFacts DEF SessionInv, SessionTypeOK
<1>3. /\ temp' \in [Files -> {"none", "good", "torn"}]
      /\ ~ diskFull /\ server' = "remove" => temp'[job.file] = "good"
  BY <1>2 DEF PartialPatch
<1>4. SessionTypeOK'
  BY <1>1, <1>3 DEF SessionInv, SessionTypeOK, Inert, Ended
<1>5. ServerInv' /\ PatchInv' /\ EventInv' /\ KnownInv' /\ SyncedInv'
  <2>1. \A f \in Files : Good(f) => Good(f)'
    BY <1>1 DEF Good
  <2>2. QED BY <1>1, <2>1, ApplyingKeeps
<1>6. TempInv'
  BY <1>1, <1>3 DEF TempInv
<1>7. QED BY <1>4, <1>5, <1>6 DEF SessionInv

LEMMA RemoveOriginalStep ==
  ASSUME SessionInv, RemoveOriginal PROVE SessionInv'
<1>1. /\ server = "remove" /\ server' = "rename" /\ server \in Applying /\ server' \in Applying
      /\ disk' = [disk EXCEPT ![job.file] = "absent"]
      /\ UNCHANGED <<client, error, statuses, toPush, patches, seen, finishSeen, c2s, s2c, buffered,
                     garbled, job, sent, temp, pending, diskFull, kills, sessions>>
  BY DEF RemoveOriginal, Applying, clientVars, channelVars, envVars
<1>2. job.file \in Files /\ disk \in [Files -> {"absent", "old", "torn", "current"}]
  BY <1>1, ApplyingFacts DEF SessionInv, SessionTypeOK
<1>3. SessionTypeOK'
  BY <1>1, <1>2 DEF SessionInv, SessionTypeOK
<1>4. \A f \in Files : f # job.file /\ Good(f) => Good(f)'
  BY <1>1, <1>2 DEF Good
<1>5. ServerInv' /\ PatchInv' /\ EventInv' /\ KnownInv' /\ SyncedInv'
  BY <1>1, <1>4, ApplyingKeeps
<1>6. TempInv'
  BY <1>1 DEF SessionInv, TempInv
<1>7. QED BY <1>3, <1>5, <1>6 DEF SessionInv

LEMMA RenameTempStep ==
  ASSUME SessionInv, RenameTemp PROVE SessionInv'
<1>1. /\ server = "rename" /\ server' = "applied" /\ server \in Applying /\ server' \in Applying
      /\ disk' = [disk EXCEPT ![job.file] = IF temp[job.file] = "good" THEN "current" ELSE "torn"]
      /\ temp' = [temp EXCEPT ![job.file] = "none"]
      /\ UNCHANGED <<client, error, statuses, toPush, patches, seen, finishSeen, c2s, s2c, buffered,
                     garbled, job, sent, pending, diskFull, kills, sessions>>
  BY DEF RenameTemp, Applying, clientVars, channelVars, envVars
<1>2. /\ job.file \in Files /\ disk \in [Files -> {"absent", "old", "torn", "current"}]
      /\ temp \in [Files -> {"none", "good", "torn"}]
  BY <1>1, ApplyingFacts DEF SessionInv, SessionTypeOK
<1>3. SessionTypeOK'
  BY <1>1, <1>2 DEF SessionInv, SessionTypeOK
<1>4. \A f \in Files : f # job.file /\ Good(f) => Good(f)'
  BY <1>1, <1>2 DEF Good
<1>5. ServerInv' /\ PatchInv' /\ EventInv' /\ KnownInv' /\ SyncedInv'
  BY <1>1, <1>4, ApplyingKeeps
<1>6. TempInv'
  BY <1>1, <1>2 DEF SessionInv, TempInv, Good
<1>7. QED BY <1>3, <1>5, <1>6 DEF SessionInv

\* The Patch moves from the stream to the server ...
LEMMA ReceivePatchStep ==
  ASSUME SessionInv, ReceivePatch PROVE SessionInv'
<1>1. /\ server = "sync" /\ server' = "patch" /\ Take("Patch") /\ Reply(Msg("Debug"))
      /\ job' = Head(c2s)
      /\ UNCHANGED <<client, error, statuses, toPush, patches, seen, finishSeen, sent, disk, temp,
                     pending, diskFull, kills, sessions>>
  BY DEF ReceivePatch, clientVars, fileVars, envVars
<1>2. /\ c2s # <<>> /\ Head(c2s) \in ClientMessage /\ Head(c2s).type = "Patch"
      /\ c2s' = Tail(c2s) /\ c2s' \in Seq(ClientMessage)
  BY <1>1, TakeFacts DEF SessionInv
<1>3. PICK f \in Files, kind \in {"Full", "Partial"} : Head(c2s) = Patch(f, kind)
  BY <1>2, MessageContents
<1>4. Msg("Debug") \in ServerMessage /\ Msg("Debug").type = "Debug"
  BY MessageTypes DEF Msg
<1>5. /\ s2c' = Append(s2c, Msg("Debug")) /\ s2c' \in Seq(ServerMessage)
      /\ buffered' \in 0 .. 2 * Len(s2c') /\ UNCHANGED garbled
  BY <1>1, <1>4, ReplyFacts DEF SessionInv
<1>6. /\ Messages(s2c') = Messages(s2c) \cup {Msg("Debug")}
      /\ Messages(c2s) = Messages(c2s') \cup {Head(c2s)}
  BY <1>2, <1>4, <1>5, MessagesFacts DEF SessionInv, SessionTypeOK
<1>7. job = NoJob /\ Has(c2s, "Patch") /\ client \notin Early
  <2>1. server \in Patching /\ Has(c2s, "Patch")
    BY <1>1, <1>2, <1>6 DEF Patching, Has
  <2>2. QED BY <1>1, <2>1, EarlyFacts DEF SessionInv, ServerInv, Serving, Patching, Applying
<1>8. SessionTypeOK' /\ ServerInv' /\ TempInv'
  <2>1. SessionTypeOK'
    BY <1>1, <1>2, <1>5 DEF SessionInv, SessionTypeOK
  <2>2. QED BY <1>1, <1>3, <2>1 DEF SessionInv, ServerInv, TempInv, Serving, Applying, Inert, Ended
<1>9. PatchInv'
  <2>1. ASSUME NEW g \in Files
        PROVE  Places(g)' = Places(g)
    <3>1. /\ \A m : Count(c2s', m) \in Nat
          /\ \A m : Count(c2s, m) = Count(c2s', m) + IF Patch(f, kind) = m THEN 1 ELSE 0
      BY <1>2, <1>3, CountTail, CountNat DEF SessionInv, SessionTypeOK
    <3>2. \A k \in {"Full", "Partial"} : Patch(f, kind) = Patch(g, k) <=> g = f /\ k = kind
      BY DEF Patch
    <3>3. Underway(g) = Underway(g)' + IF g = f THEN 1 ELSE 0
      BY <3>1, <3>2 DEF Underway
    <3>4. InHand(g) = 0 /\ InHand(g)' = IF g = f THEN 1 ELSE 0
      <4>1. /\ job'.file = f /\ job'.type = "Patch" /\ NoJob.type = "None"
        BY <1>1, <1>3 DEF Patch, NoJob, Msg
      <4>2. job' # NoJob
        BY <4>1
      <4>3. QED BY <1>7, <4>1, <4>2 DEF InHand
    <3>5. Acked(g)' = Acked(g)
      BY <1>4, <1>5, AckedKept DEF SessionInv
    <3>6. Underway(g)' \in Nat /\ Acked(g) \in Nat
      BY <3>1, PlacesTypes DEF SessionInv, Underway
    <3>7. QED BY <3>3, <3>4, <3>5, <3>6 DEF Places
  <2>2. QED BY <1>1, <2>1 DEF SessionInv, PatchInv, Patching
<1>10. EventInv'
  <2>1. Count(s2c', Msg("Event")) = Count(s2c, Msg("Event"))
    <3>1. Msg("Debug") # Msg("Event") /\ Count(s2c, Msg("Event")) \in Nat
      BY CountNat DEF Msg, SessionInv, SessionTypeOK
    <3>2. QED BY <1>4, <1>5, <3>1, CountAppend DEF SessionInv, SessionTypeOK
  <2>2. QED BY <1>1, <1>4, <1>6, <2>1 DEF SessionInv, EventInv, Has
<1>11. KnownInv'
  BY <1>1, <1>4, <1>6, <1>7 DEF SessionInv, KnownInv, Serving, Patching, Good
<1>12. SyncedInv'
  BY <1>1, <1>6, <1>7 DEF SessionInv, SyncedInv, Synced, Serving, Patching, Good, Has
<1>13. QED BY <1>8, <1>9, <1>10, <1>11, <1>12 DEF SessionInv

\* ... and from there to the answer.
LEMMA SendAppliedStep ==
  ASSUME SessionInv, SendApplied PROVE SessionInv'
<1> PICK f : f = job.file
  OBVIOUS
<1> DEFINE m == FileMsg("PatchApplied", f)
<1>1. /\ server = "applied" /\ server' = "sync" /\ server \in Applying /\ Reply(m) /\ job' = NoJob
      /\ UNCHANGED <<client, error, statuses, toPush, patches, seen, finishSeen, c2s, sent, disk,
                     temp, pending, diskFull, kills, sessions>>
  BY DEF SendApplied, Applying, clientVars, fileVars, envVars
<1>2. /\ f \in Files /\ job # NoJob
      /\ client \in Syncing => client \notin Early /\ f \in patches
      /\ ~ diskFull => ~ Synced
  BY <1>1, ApplyingFacts
<1>3. m \in ServerMessage /\ m.type = "PatchApplied" /\ m.file = f
  BY <1>2, MessageTypes DEF FileMsg
<1>4. ~ diskFull => Good(f)
  BY <1>1 DEF SessionInv, TempInv
<1> HIDE DEF m
<1>5. /\ s2c' = Append(s2c, m) /\ s2c' \in Seq(ServerMessage)
      /\ buffered' \in 0 .. 2 * Len(s2c') /\ UNCHANGED garbled
  BY <1>1, <1>3, ReplyFacts DEF SessionInv
<1>6. Messages(s2c') = Messages(s2c) \cup {m}
  BY <1>3, <1>5, MessagesFacts DEF SessionInv, SessionTypeOK
<1>7. SessionTypeOK' /\ ServerInv' /\ TempInv'
  <2>1. SessionTypeOK'
    BY <1>1, <1>5 DEF SessionInv, SessionTypeOK
  <2>2. QED BY <1>1, <2>1 DEF SessionInv, ServerInv, TempInv, Applying, Inert, Ended
<1>8. PatchInv'
  <2>1. ASSUME NEW g \in Files
        PROVE  Places(g)' = Places(g)
    <3>1. Count(s2c', FileMsg("PatchApplied", g)) = Acked(g) + IF g = f THEN 1 ELSE 0
      <4>1. Count(s2c', FileMsg("PatchApplied", g)) =
              Acked(g) + IF m = FileMsg("PatchApplied", g) THEN 1 ELSE 0
        BY <1>3, <1>5, CountAppend DEF SessionInv, SessionTypeOK, Acked
      <4>2. m = FileMsg("PatchApplied", g) <=> g = f
        BY DEF m, FileMsg
      <4>3. QED BY <4>1, <4>2
    <3>2. Acked(g)' = Acked(g) + IF g = f THEN 1 ELSE 0
      BY <3>1 DEF Acked
    <3>3. InHand(g) = (IF g = f THEN 1 ELSE 0) /\ InHand(g)' = 0
      BY <1>1, <1>2 DEF InHand
    <3>4. Underway(g)' = Underway(g)
      BY <1>1 DEF Underway
    <3>5. Underway(g) \in Nat /\ Acked(g) \in Nat
      BY PlacesTypes DEF SessionInv
    <3>6. QED BY <3>2, <3>3, <3>4, <3>5 DEF Places
  <2>2. QED BY <1>1, <2>1 DEF SessionInv, PatchInv, Patching
<1>9. EventInv'
  <2>1. Count(s2c', Msg("Event")) = Count(s2c, Msg("Event"))
    <3>1. m # Msg("Event") /\ Count(s2c, Msg("Event")) \in Nat
      BY <1>3, CountNat DEF Msg, SessionInv, SessionTypeOK
    <3>2. QED BY <1>3, <1>5, <3>1, CountAppend DEF SessionInv, SessionTypeOK
  <2>2. QED BY <1>1, <1>3, <1>6, <2>1 DEF SessionInv, EventInv, Has
<1>10. KnownInv'
  BY <1>1, <1>2, <1>3, <1>4, <1>6 DEF SessionInv, KnownInv, Serving, Patching, Applying, Good
<1>11. SyncedInv'
  BY <1>1, <1>2 DEF SyncedInv, Synced, Has
<1>12. QED BY <1>7, <1>8, <1>9, <1>10, <1>11 DEF SessionInv

LEMMA ServerStepInv ==
  ASSUME SessionInv, ServerStep \/ ServerFails PROVE SessionInv'
<1>1. CASE \/ Bind \/ Accept \/ AcceptTimeout \/ SyncTimeout \/ ExecTimeout \/ RunWithoutClient
           \/ BrokenPipe \/ DecodeFails \/ ReplaceFails
  BY <1>1, ServerMovesCases, ServerMovesStep
<1>2. CASE ReceiveClose \/ DropMessage \/ ReceiveExec \/ ListFails
  <2>1. PICK type : /\ Take(type)
                    /\ \/ type = "Close" /\ server = "sync" /\ server' = "waitExec"
                       \/ server = "waitExec" /\ server' = "waitExec"
                       \/ type = "Exec" /\ server = "waitExec" /\ server' = "running"
                       \/ type = "FileList" /\ server = "sync" /\ server' = "failed"
                    /\ UNCHANGED <<s2c, buffered, garbled, job, sent>>
    BY <1>2 DEF ReceiveClose, DropMessage, ReceiveExec, ListFails, Take, serverVars
  <2>2. UNCHANGED <<client, error, statuses, toPush, patches, seen, finishSeen, disk, temp, pending,
                    diskFull, kills, sessions>>
    BY <1>2 DEF ReceiveClose, DropMessage, ReceiveExec, ListFails, clientVars, fileVars, envVars
  <2>3. type # "Patch" \/ server' = "waitExec"
    BY <2>1
  <2>4. QED BY <2>1, <2>2, <2>3, TakeStep
<1>3. CASE SendStatusDebug \/ SendEvent \/ SendFinish
  <2>1. PICK m \in {Msg("Debug"), Msg("Event"), Msg("Finish")} :
          /\ Reply(m)
          /\ \/ m.type = "Debug" /\ server = "listed" /\ server' = "sync" /\ sent' = sent
             \/ server = "running" /\ server' = "running" /\ sent < MaxEvents /\ sent' = sent + 1
             \/ m.type = "Finish" /\ server = "running" /\ server' = "exited" /\ sent' = sent
    BY <1>3 DEF SendStatusDebug, SendEvent, SendFinish, Msg
  <2>2. m \in ServerMessage /\ m.type \in {"Debug", "Event", "Finish"}
    BY <2>1, MessageTypes DEF Msg
  <2>3. UNCHANGED <<client, error, statuses, toPush, patches, seen, finishSeen, c2s, job, disk,
                    temp, pending, diskFull, kills, sessions>>
    BY <1>3 DEF SendStatusDebug, SendEvent, SendFinish, clientVars, fileVars, envVars
  <2>4. QED BY <2>1, <2>2, <2>3, ReplyStep
<1>4. CASE ReceiveFileList \/ ReceivePatch \/ SendApplied
  BY <1>4, ReceiveFileListStep, ReceivePatchStep, SendAppliedStep
<1>5. CASE FullPatch \/ PartialPatch \/ RemoveOriginal \/ RenameTemp
  BY <1>5, FullPatchStep, PartialPatchStep, RemoveOriginalStep, RenameTempStep
<1>6. CASE FullPatchFails \/ PartialPatchFails
  BY <1>6, PatchFailsStep
<1>7. QED BY <1>1, <1>2, <1>3, <1>4, <1>5, <1>6 DEF ServerStep, ServerFails

(***************************************************************************)
(* The theorems                                                            *)
(***************************************************************************)

LEMMA SessionInitially == SessionInit => SessionInv
<1> SUFFICES ASSUME SessionInit PROVE SessionInv
  OBVIOUS
<1>1. /\ <<>> \in Seq(ClientMessage) /\ <<>> \in Seq(ServerMessage) /\ Len(<<>>) = 0
      /\ Messages(<<>>) = {} /\ "Same" \in Statuses /\ MaxSessions \in Nat \ {0} /\ MaxEvents \in Nat
  BY EmptySeq, SessionAssumption DEF Messages, Statuses
<1>2. SessionTypeOK /\ ServerInv
  <2>1. /\ disk \in [Files -> {"absent", "old", "torn", "current"}]
        /\ statuses \in [Files -> Statuses] /\ buffered \in 0 .. 2 * Len(s2c)
        /\ temp \in [Files -> {"none", "good", "torn"}]
    BY <1>1 DEF SessionInit
  <2>2. /\ seen \in 0..MaxEvents /\ sent \in 0..MaxEvents /\ kills \in 0..MaxSessions
        /\ sessions \in 1..MaxSessions /\ c2s \in Seq(ClientMessage) /\ s2c \in Seq(ServerMessage)
    BY <1>1 DEF SessionInit
  <2> SessionTypeOK
    BY <2>1, <2>2 DEF SessionInit, SessionTypeOK
  <2>3. QED BY <1>1 DEF SessionInit, ServerInv, Applying, Inert, Ended
<1>3. \A f : Places(f) = 0
  <2>1. \A m : Count(<<>>, m) = 0
    BY <1>1, CountNat
  <2>2. QED BY <2>1 DEF SessionInit, Places, Underway, InHand, Acked
<1>4. PatchInv /\ EventInv /\ TempInv /\ KnownInv /\ SyncedInv
  BY <1>1, <1>3 DEF SessionInit, PatchInv, EventInv, TempInv, KnownInv, SyncedInv, Synced, Has
<1>5. QED BY <1>2, <1>4 DEF SessionInv

LEMMA SessionStep == SessionInv /\ [SessionNext]_sessionVars => SessionInv'
<1> SUFFICES ASSUME SessionInv, [SessionNext]_sessionVars PROVE SessionInv'
  OBVIOUS
<1>1. CASE UNCHANGED sessionVars
  <2>1. UNCHANGED <<client, error, statuses, toPush, patches, seen, finishSeen, c2s, s2c, buffered,
                    garbled, server, job, sent, disk, temp, pending, diskFull, kills, sessions>>
    BY <1>1 DEF sessionVars, channelVars, clientVars, serverVars, fileVars, envVars
  <2>2. SessionTypeOK' /\ ServerInv'
    BY <2>1 DEF SessionInv, SessionTypeOK, ServerInv
  <2>3. PatchInv' /\ EventInv' /\ TempInv'
    BY <2>1 DEF SessionInv, PatchInv, EventInv, TempInv, Places, Underway, InHand, Acked, Good
  <2>4. KnownInv' /\ SyncedInv'
    BY <2>1 DEF SessionInv, KnownInv, SyncedInv, Synced, Good
  <2>5. QED BY <2>2, <2>3, <2>4 DEF SessionInv
<1>2. QED
  BY <1>1, StartRemoteStep, ClientStepInv, ServerStepInv, LandWriteStep, KillStep, DiskFillsStep,
     NextSessionStep
  DEF SessionNext

\* The invariant holds in every state of every session.
THEOREM SessionInvariant == SessionSpec => []SessionInv
BY SessionInitially, SessionStep, PTL DEF SessionSpec

\* The variables keep their types: no more events are received than were sent, and no
\* session has two servers killed.
THEOREM SessionTypeCorrect == SessionSpec => []SessionTypeOK
<1>1. SessionInv => SessionTypeOK
  BY DEF SessionInv
<1>2. QED BY SessionInvariant, <1>1, PTL

\* A server that runs the project has the client's version of every file, or will have
\* it once tokio has written it.
THEOREM SessionExecOnSyncedTree == SessionSpec => []ExecOnSyncedTree
<1>1. SessionInv => ExecOnSyncedTree
  BY DEF SessionInv, SyncedInv, Synced, Serving, Good, ExecOnSyncedTree
<1>2. QED BY SessionInvariant, <1>1, PTL

\* Every patch the client waits for is on its way, being applied or acknowledged, once.
THEOREM SessionPatchInOnePlace == SessionSpec => []PatchInOnePlace
<1>1. SessionInv => PatchInOnePlace
  BY DEF SessionInv, PatchInv, Places, Underway, InHand, Acked, Syncing, Patching, PatchInOnePlace
<1>2. QED BY SessionInvariant, <1>1, PTL

\* The original of a file only goes when the new contents are complete in its temporary.
THEOREM SessionContentSurvives == SessionSpec => ContentSurvives
<1> DEFINE Survives == \A f \in Files : ~ diskFull /\ disk[f] # "absent" /\ disk'[f] = "absent"
                                          => temp'[f] = "good"
<1>1. SessionInv /\ [SessionNext]_sessionVars => [Survives]_sessionVars
  <2> SUFFICES ASSUME SessionInv, SessionNext, NEW f \in Files,
                      ~ diskFull, disk[f] # "absent", disk'[f] = "absent"
               PROVE  temp'[f] = "good"
    OBVIOUS
  <2>1. disk \in [Files -> {"absent", "old", "torn", "current"}]
    BY DEF SessionInv, SessionTypeOK
  <2>2. CASE RemoveOriginal
    <3>1. /\ server = "remove" /\ temp' = temp /\ disk' = [disk EXCEPT ![job.file] = "absent"]
      BY <2>2 DEF RemoveOriginal
    <3>2. f = job.file
      BY <2>1, <3>1
    <3>3. QED BY <3>1, <3>2 DEF SessionInv, TempInv
  <2>3. CASE FullPatch \/ FullPatchFails
    BY <2>1, <2>3 DEF FullPatch, FullPatchFails
  <2>4. CASE RenameTemp
    BY <2>1, <2>4 DEF RenameTemp
  <2>5. ASSUME NEW g \in Files, LandWrite(g) PROVE FALSE
    BY <2>1, <2>5 DEF LandWrite
  <2>6. CASE NextSession
    BY <2>1, <2>6 DEF NextSession
  <2>7. CASE StartRemote \/ ClientStep
    <3>1. UNCHANGED fileVars
      BY <2>7 DEF StartRemote, ClientStep, Connect, ConnectTimeout, ReadMore, OutOfOrder,
         GarbledFrame, RxTimeout, StreamEnds, ClientIoError, SendFileList, ReceiveStatus, Push,
         PushDone, ReceiveApplied, ReceiveDebug, CloseSync, SendExec, ReceiveEvent, ReceiveFinish,
         ExitSeen
    <3>2. QED BY <3>1 DEF fileVars
  <2>8. CASE (ServerStep \/ ServerFails) /\ ~ (FullPatch \/ FullPatchFails \/ RemoveOriginal \/ RenameTemp)
    <3>1. disk' = disk
      BY <2>8 DEF ServerStep, Bind, Accept, AcceptTimeout, ReceiveFileList, SendStatusDebug,
         ReceivePatch, PartialPatch, SendApplied, ReceiveClose, SyncTimeout, DropMessage,
         ExecTimeout, ReceiveExec, SendEvent, SendFinish, RunWithoutClient, BrokenPipe,
         ServerFails, DecodeFails, ListFails, PartialPatchFails, ReplaceFails, fileVars
    <3>2. QED BY <3>1
  <2>9. CASE Kill \/ DiskFills
    BY <2>9 DEF Kill, DiskFills, fileVars
  <2>10. QED
    BY <2>2, <2>3, <2>4, <2>5, <2>6, <2>7, <2>8, <2>9 DEF SessionNext
<1>2. QED BY SessionInvariant, <1>1, PTL DEF SessionSpec, ContentSurvives

(***************************************************************************)
(* Neither side is ever without a step, and every step brings the sessions *)
(* closer to their end                                                     *)
(***************************************************************************)

\* The client was told the state of the files before anything else, and the server has
\* said so when it goes on.
StatusFirst ==
  client \in Early =>
    /\ s2c = <<>> \/ Head(s2c).type = "FileStatus"
    /\ server = "listed" => s2c # <<>>

\* A server that still patches meets Close before Exec.
CloseFirst(seq) ==
  \A i \in DOMAIN seq : seq[i].type = "Exec" => \E j \in 1..(i - 1) : seq[j].type = "Close"
CloseBeforeExec ==
  server \in Patching => CloseFirst(c2s) /\ (client = "exec" => Has(c2s, "Close"))

\* What the client has read to its end has an end.
EndInv ==
  /\ server = "absent" => client = "start"
  /\ garbled => client \notin Syncing \cup {"close"}
  /\ Has(s2c, "Finish") => server = "exited"
  /\ client \in {"waitExit", "ok"} => server \in Ended
  /\ server = "hung" => client = "failed"

OnTheWay == StatusFirst /\ CloseBeforeExec /\ EndInv

\* The client has a step to do: the disjunction of its guards.  A killed server has no exit
\* status, and is waited for without a limit.
ClientGoesOn ==
  \/ client \in {"connect", "list", "push", "close", "exec"}
  \/ Reading /\ buffered < 2
  \/ client = "watch" /\ garbled
  \/ Reading /\ buffered >= 2 /\ ~ garbled /\ (client = "status" => Head(s2c).type # "Debug")
  \/ client = "waitExit" /\ server \in {"exited", "failed"}

ServerGoesOn ==
  \/ server \in {"boot", "listening", "listed", "remove", "rename", "applied", "waitExec", "running"}
  \/ server = "sync" /\ (c2s = <<>> \/ Head(c2s).type \in {"FileList", "Patch", "Close"})
  \/ server = "patch" /\ job.kind \in {"Full", "Partial"}

NeitherStuck ==
  /\ client \in Over \cup {"start"} \/ ClientGoesOn \/ (client = "waitExit" /\ server = "killed")
  /\ server \in Ended \cup {"absent"} \/ ServerGoesOn \/ Spins
  /\ server = "absent" => client = "start"

LEMMA HeadOfAppend ==
  ASSUME NEW S, NEW seq \in Seq(S), NEW e \in S
  PROVE  /\ Append(seq, e) # <<>>
         /\ Head(Append(seq, e)) = IF seq = <<>> THEN e ELSE Head(seq)
<1>1. /\ Append(seq, e) \in Seq(S) /\ Len(Append(seq, e)) = Len(seq) + 1 /\ Len(seq) \in Nat
      /\ Append(seq, e)[Len(seq) + 1] = e
      /\ \A i \in 1..Len(seq) : Append(seq, e)[i] = seq[i]
  BY AppendProperties
<1>2. Append(seq, e) # <<>>
  BY <1>1
<1>3. Head(Append(seq, e)) = Append(seq, e)[1]
  BY <1>1, <1>2
<1>4. CASE seq = <<>>
  BY <1>1, <1>2, <1>3, <1>4
<1>5. CASE seq # <<>>
  <2>1. 1 \in 1..Len(seq) /\ Head(seq) = seq[1]
    BY <1>1, <1>5
  <2>2. QED BY <1>1, <1>2, <1>3, <1>5, <2>1
<1>6. QED BY <1>4, <1>5

\* Before it has sent Exec, the client sees nothing but what the sync answers.
LEMMA EarlyServer ==
  ASSUME SessionInv, client \in Early
  PROVE  ~ (ReceivePatch \/ SendApplied \/ SendEvent \/ SendFinish)
<1>1. server # "running"
  BY DEF SessionInv, EventInv, Before, Syncing
<1>2. ~ (server = "sync" /\ Take("Patch"))
  <2> SUFFICES ASSUME server = "sync", Take("Patch") PROVE FALSE
    OBVIOUS
  <2>1. c2s # <<>> /\ Head(c2s).type = "Patch" /\ c2s \in Seq(ClientMessage)
    BY TakeFacts DEF SessionInv, SessionTypeOK
  <2>2. Has(c2s, "Patch")
    BY <2>1, MessagesFacts DEF Has
  <2>3. QED BY <2>2, EarlyFacts DEF Patching
<1>3. server # "applied"
  BY EarlyFacts DEF Patching, Applying
<1>4. QED BY <1>1, <1>2, <1>3 DEF ReceivePatch, SendApplied, SendEvent, SendFinish

Replies ==
  ReceiveFileList \/ SendStatusDebug \/ ReceivePatch \/ SendApplied \/ SendEvent \/ SendFinish

\* The steps that leave the messages to the client as they are, and do not list files.
LEMMA SilentSteps ==
  ASSUME StartRemote \/ (ServerStep /\ ~ Replies) \/ ServerFails \/ Kill \/ DiskFills \/ \E f \in Files : LandWrite(f)
  PROVE  /\ UNCHANGED <<s2c, garbled>> /\ (client' = client \/ StartRemote)
         /\ server' = server \/ server' \notin {"listed", "absent"}
<1>1. CASE \/ Bind \/ Accept \/ AcceptTimeout \/ SyncTimeout \/ ExecTimeout \/ RunWithoutClient
           \/ BrokenPipe \/ DecodeFails \/ ReplaceFails
  BY <1>1, ServerMovesCases DEF ServerMoves, Inert, Ended
<1>2. CASE ReceiveClose \/ DropMessage \/ ReceiveExec \/ ListFails
  BY <1>2 DEF ReceiveClose, DropMessage, ReceiveExec, ListFails, serverVars, clientVars
<1>3. CASE FullPatch \/ PartialPatch \/ RemoveOriginal \/ RenameTemp \/ FullPatchFails
         \/ PartialPatchFails
  BY <1>3 DEF FullPatch, PartialPatch, RemoveOriginal, RenameTemp, FullPatchFails, PartialPatchFails,
     channelVars, clientVars
<1>4. CASE StartRemote \/ Kill \/ DiskFills \/ \E f \in Files : LandWrite(f)
  BY <1>4 DEF StartRemote, Kill, DiskFills, LandWrite, channelVars, serverVars, clientVars
<1>5. QED BY <1>1, <1>2, <1>3, <1>4 DEF ServerStep, ServerFails, Replies

LEMMA StatusFirstStep ==
  SessionInv /\ StatusFirst /\ [SessionNext]_sessionVars => StatusFirst'
<1> SUFFICES ASSUME SessionInv, StatusFirst, [SessionNext]_sessionVars, client' \in Early
             PROVE  /\ s2c' = <<>> \/ Head(s2c').type = "FileStatus"
                    /\ server' = "listed" => s2c' # <<>>
  BY DEF StatusFirst
<1>1. s2c \in Seq(ServerMessage)
  BY DEF SessionInv, SessionTypeOK
<1>2. CASE UNCHANGED sessionVars
  BY <1>2 DEF sessionVars, channelVars, clientVars, serverVars, StatusFirst
<1>3. CASE NextSession
  BY <1>3 DEF NextSession
<1>4. CASE ClientStep
  <2>1. s2c' = s2c /\ server' = server /\ client \in Early
    <3>1. CASE \/ Connect \/ ConnectTimeout \/ ReadMore \/ GarbledFrame \/ RxTimeout \/ StreamEnds
               \/ ClientIoError \/ ExitSeen
      <4>1. ClientMoves
        BY <3>1, ClientMovesCases DEF SessionInv
      <4>2. QED BY <4>1 DEF ClientMoves, Early
    <3>2. CASE SendFileList
      BY <3>2 DEF SendFileList, Send, serverVars, Early
    <3>3. ~ (OutOfOrder \/ ReceiveStatus \/ PushDone \/ ReceiveApplied \/ CloseSync \/ SendExec
             \/ ReceiveEvent \/ ReceiveFinish \/ ReceiveDebug \/ \E f \in Files : Push(f))
      BY DEF OutOfOrder, Fail, ReceiveStatus, PushDone, ReceiveApplied, CloseSync, SendExec,
         ReceiveEvent, ReceiveFinish, ReceiveDebug, Push, clientVars, Early
    <3>4. QED BY <1>4, <3>1, <3>2, <3>3 DEF ClientStep
  <2>2. QED BY <2>1 DEF StatusFirst
<1>5. CASE StartRemote \/ (ServerStep /\ ~ Replies) \/ ServerFails \/ Kill \/ DiskFills
         \/ \E f \in Files : LandWrite(f)
  <2>1. client \in Early
    <3>1. client' = client \/ client = "start"
      BY <1>5, SilentSteps DEF StartRemote
    <3>2. QED BY <3>1 DEF Early
  <2>2. s2c' = s2c /\ (server' = "listed" => server = "listed")
    BY <1>5, SilentSteps
  <2>3. QED BY <2>1, <2>2 DEF StatusFirst
<1>6. CASE ReceiveFileList
  <2>1. PICK m \in ServerMessage : m.type = "FileStatus" /\ s2c' = Append(s2c, m)
    <3>1. [f \in Files |-> StatusOf(f)] \in [Files -> Statuses]
      BY DEF StatusOf, Statuses
    <3> DEFINE m == Status([f \in Files |-> StatusOf(f)])
    <3>2. m \in ServerMessage /\ m.type = "FileStatus"
      BY <3>1, MessageTypes DEF Status
    <3>3. s2c' = Append(s2c, m)
      BY <1>6 DEF ReceiveFileList, Reply
    <3>4. QED BY <3>2, <3>3
  <2>2. client \in Early
    BY <1>6 DEF ReceiveFileList, clientVars
  <2>3. QED BY <1>1, <2>1, <2>2, HeadOfAppend DEF StatusFirst
<1>7. CASE SendStatusDebug
  <2>1. client \in Early /\ server = "listed" /\ server' = "sync" /\ s2c' = Append(s2c, Msg("Debug"))
    BY <1>7 DEF SendStatusDebug, Reply, clientVars
  <2>2. s2c # <<>> /\ Head(s2c).type = "FileStatus"
    BY <2>1 DEF StatusFirst
  <2>3. QED BY <1>1, <2>1, <2>2, HeadOfAppend, MessageTypes
<1>8. CASE ReceivePatch \/ SendApplied \/ SendEvent \/ SendFinish
  <2>1. client \in Early
    BY <1>8 DEF ReceivePatch, SendApplied, SendEvent, SendFinish, clientVars
  <2>2. QED BY <1>8, <2>1, EarlyServer
<1>9. QED BY <1>2, <1>3, <1>4, <1>5, <1>6, <1>7, <1>8 DEF SessionNext, Replies

-----------------------------------------------------------------------------

LEMMA CloseFirstAppend ==
  ASSUME NEW seq \in Seq(ClientMessage), NEW e \in ClientMessage, CloseFirst(seq),
         e.type # "Exec" \/ Has(seq, "Close")
  PROVE  CloseFirst(Append(seq, e))
<1>1. /\ DOMAIN seq = 1..Len(seq) /\ Len(seq) \in Nat
      /\ DOMAIN Append(seq, e) = 1 .. Len(seq) + 1 /\ Append(seq, e)[Len(seq) + 1] = e
      /\ \A i \in 1..Len(seq) : Append(seq, e)[i] = seq[i]
  BY AppendProperties
<1> SUFFICES ASSUME NEW i \in DOMAIN Append(seq, e), Append(seq, e)[i].type = "Exec"
             PROVE  \E j \in 1..(i - 1) : Append(seq, e)[j].type = "Close"
  BY DEF CloseFirst
<1>2. CASE i \in 1..Len(seq)
  <2>1. PICK j \in 1..(i - 1) : seq[j].type = "Close"
    BY <1>1, <1>2 DEF CloseFirst
  <2>2. j \in 1..Len(seq)
    BY <1>1, <1>2
  <2>3. QED BY <1>1, <2>1, <2>2
<1>3. CASE i = Len(seq) + 1
  <2>1. Has(seq, "Close")
    BY <1>1, <1>3
  <2>2. PICK j \in 1..Len(seq) : seq[j].type = "Close"
    BY <1>1, <2>1 DEF Has, Messages
  <2>3. j \in 1..(i - 1)
    BY <1>1, <1>3
  <2>4. QED BY <1>1, <2>2, <2>3
<1>4. QED BY <1>1, <1>2, <1>3

LEMMA CloseFirstTail ==
  ASSUME NEW seq \in Seq(ClientMessage), seq # <<>>, CloseFirst(seq), Head(seq).type # "Close"
  PROVE  CloseFirst(Tail(seq)) /\ Head(seq).type # "Exec"
<1> DEFINE n == Len(seq) - 1
<1>1. /\ DOMAIN seq = 1 .. n + 1 /\ n \in Nat /\ DOMAIN Tail(seq) = 1..n
      /\ Head(seq) = seq[1] /\ \A i \in 1..n : Tail(seq)[i] = seq[i + 1]
  BY HeadTailProperties
<1> HIDE DEF n
<1>2. seq[1].type # "Exec"
  <2>1. 1 \in DOMAIN seq /\ ~ \E j \in 1 .. 1 - 1 : TRUE
    BY <1>1
  <2>2. QED BY <2>1 DEF CloseFirst
<1>3. ASSUME NEW i \in 1..n, Tail(seq)[i].type = "Exec"
      PROVE  \E j \in 1..(i - 1) : Tail(seq)[j].type = "Close"
  <2>1. i + 1 \in DOMAIN seq /\ seq[i + 1].type = "Exec"
    BY <1>1, <1>3
  <2>2. PICK j \in 1 .. (i + 1) - 1 : seq[j].type = "Close"
    BY <2>1 DEF CloseFirst
  <2>3. j # 1
    BY <1>1, <2>2
  <2>4. j - 1 \in 1..(i - 1) /\ j - 1 \in 1..n /\ (j - 1) + 1 = j
    BY <1>1, <2>2, <2>3
  <2>5. QED BY <1>1, <2>2, <2>4
<1>4. QED BY <1>1, <1>2, <1>3 DEF CloseFirst

\* A message that is taken is no Close, or the server does not patch any more.
LEMMA TakeKeepsClose ==
  ASSUME SessionInv, CloseBeforeExec, client' = client, server \in Patching,
         NEW type, Take(type), type # "Close"
  PROVE  CloseBeforeExec'
<1>1. /\ c2s \in Seq(ClientMessage) /\ c2s # <<>> /\ Head(c2s).type = type /\ c2s' = Tail(c2s)
  BY TakeFacts DEF SessionInv, SessionTypeOK
<1>2. CloseFirst(c2s')
  BY <1>1, CloseFirstTail DEF CloseBeforeExec
<1>3. Has(c2s, "Close") => Has(c2s', "Close")
  BY <1>1, MessagesFacts DEF Has
<1>4. QED BY <1>2, <1>3 DEF CloseBeforeExec

LEMMA CloseBeforeExecStep ==
  SessionInv /\ CloseBeforeExec /\ [SessionNext]_sessionVars => CloseBeforeExec'
<1> SUFFICES ASSUME SessionInv, CloseBeforeExec, [SessionNext]_sessionVars, server' \in Patching
             PROVE  CloseFirst(c2s') /\ (client' = "exec" => Has(c2s', "Close"))
  BY DEF CloseBeforeExec
<1> USE DEF Patching
<1>1. c2s \in Seq(ClientMessage)
  BY DEF SessionInv, SessionTypeOK
<1>2. CASE NextSession
  BY <1>2 DEF NextSession, CloseFirst
<1>3. CASE UNCHANGED <<client, server, c2s>>
  BY <1>3 DEF CloseBeforeExec
<1>4. CASE c2s' = c2s /\ server \in Patching /\ client' # "exec"
  BY <1>4 DEF CloseBeforeExec
<1>5. CASE c2s' = c2s /\ server \in Patching /\ client' = client
  BY <1>5 DEF CloseBeforeExec
<1>6. ASSUME UNCHANGED sessionVars \/ DiskFills \/ \E f \in Files : LandWrite(f)
      PROVE  UNCHANGED <<client, server, c2s>>
  BY <1>6 DEF sessionVars, DiskFills, LandWrite, channelVars, clientVars, serverVars
<1>7. ~ Kill /\ ~ ServerFails
  BY DEF Kill, ServerFails, DecodeFails, ListFails, FullPatchFails, PartialPatchFails, ReplaceFails
<1>8. CASE StartRemote
  BY <1>4, <1>8 DEF StartRemote, SessionInv, ServerInv, channelVars
<1>9. CASE ClientStep
  <2>1. server' = server /\ server \in Patching
    <3>1. server' = server
      <4>1. CASE \/ Connect \/ ConnectTimeout \/ ReadMore \/ GarbledFrame \/ RxTimeout
                 \/ StreamEnds \/ ClientIoError \/ ExitSeen
        BY <4>1, ClientMovesCases DEF ClientMoves, SessionInv
      <4>2. CASE OutOfOrder \/ SendFileList \/ ReceiveStatus \/ (\E f \in Files : Push(f)) \/ PushDone
        BY <4>2 DEF OutOfOrder, SendFileList, ReceiveStatus, Push, PushDone, serverVars
      <4>3. CASE ReceiveApplied \/ ReceiveDebug \/ CloseSync \/ SendExec \/ ReceiveEvent \/ ReceiveFinish
        BY <4>3 DEF ReceiveApplied, ReceiveDebug, CloseSync, SendExec, ReceiveEvent, ReceiveFinish,
           serverVars
      <4>4. QED BY <1>9, <4>1, <4>2, <4>3 DEF ClientStep
    <3>2. QED BY <3>1
  <2>2. CASE \/ Connect \/ ConnectTimeout \/ ReadMore \/ GarbledFrame \/ RxTimeout \/ StreamEnds
             \/ ClientIoError \/ ExitSeen
    <3>1. c2s' = c2s /\ (client' = client \/ client' # "exec")
      BY <2>2, ClientMovesCases DEF ClientMoves, SessionInv
    <3>2. QED BY <1>4, <1>5, <2>1, <3>1
  <2>3. CASE OutOfOrder \/ ReceiveStatus \/ ReceiveApplied \/ ReceiveEvent \/ ReceiveFinish
             \/ ReceiveDebug
    <3>1. c2s' = c2s /\ (client' = client \/ client' # "exec")
      BY <2>3 DEF OutOfOrder, Fail, ReceiveStatus, ReceiveApplied, ReceiveEvent, ReceiveFinish,
         ReceiveDebug, Received, clientVars
    <3>2. QED BY <1>4, <1>5, <2>1, <3>1
  <2>4. CASE PushDone
    BY <1>4, <2>1, <2>4 DEF PushDone, channelVars
  <2>5. CASE SendFileList \/ SendExec \/ CloseSync \/ \E f \in Files : Push(f)
    <3>1. CASE c2s' = c2s
      BY <1>4, <2>1, <2>5, <3>1 DEF SendFileList, SendExec, CloseSync, Push
    <3>2. CASE c2s' # c2s
      <4>1. PICK m \in ClientMessage :
              /\ c2s' = Append(c2s, m)
              /\ m.type = "Exec" => client = "exec"
              /\ client' = "exec" => m.type = "Close"
        <5>1. CASE SendFileList
          BY <5>1, MessageTypes DEF SendFileList, Send, Msg
        <5>2. CASE SendExec
          BY <5>2, MessageTypes DEF SendExec, Send, Msg
        <5>3. CASE CloseSync
          BY <5>3, MessageTypes DEF CloseSync, Msg
        <5>4. ASSUME NEW f \in Files, Push(f)
              PROVE  \E m \in ClientMessage :
                       /\ c2s' = Append(c2s, m)
                       /\ m.type = "Exec" => client = "exec"
                       /\ client' = "exec" => m.type = "Close"
          <6>1. client = "push" /\ client' = "push"
            BY <5>4 DEF Push
          <6>2. \E kind \in {"Full", "Partial"} : c2s' = Append(c2s, Patch(f, kind))
            BY <3>2, <5>4 DEF Push, Send, channelVars
          <6>3. QED BY <6>1, <6>2, MessageTypes DEF Patch
        <5>5. QED BY <2>5, <5>1, <5>2, <5>3, <5>4
      <4>2. CloseFirst(c2s')
        BY <1>1, <2>1, <4>1, CloseFirstAppend DEF CloseBeforeExec
      <4>3. client' = "exec" => Has(c2s', "Close")
        BY <1>1, <4>1, MessagesFacts DEF Has
      <4>4. QED BY <4>2, <4>3
    <3>3. QED BY <3>1, <3>2
  <2>6. QED BY <1>9, <2>2, <2>3, <2>4, <2>5 DEF ClientStep
<1>10. CASE ServerStep
  <2>1. CASE \/ Bind \/ Accept \/ AcceptTimeout \/ SyncTimeout \/ ExecTimeout \/ RunWithoutClient
             \/ BrokenPipe \/ DecodeFails \/ ReplaceFails
    <3>1. UNCHANGED <<client, c2s>> /\ server \in Patching
      BY <2>1, ServerMovesCases DEF ServerMoves, Inert, Ended
    <3>2. QED BY <1>5, <3>1
  <2>2. CASE ReceiveFileList \/ ReceivePatch
    <3>1. (Take("FileList") \/ Take("Patch")) /\ server \in Patching /\ client' = client
      BY <2>2 DEF ReceiveFileList, ReceivePatch, clientVars
    <3>2. CloseBeforeExec'
      BY <3>1, TakeKeepsClose
    <3>3. QED BY <3>2 DEF CloseBeforeExec
  <2>3. ~ (ReceiveClose \/ DropMessage \/ ReceiveExec \/ SendEvent \/ SendFinish)
    BY DEF ReceiveClose, DropMessage, ReceiveExec, SendEvent, SendFinish, serverVars
  <2>4. CASE SendStatusDebug \/ SendApplied \/ FullPatch \/ PartialPatch \/ RemoveOriginal \/ RenameTemp
    <3>1. UNCHANGED <<client, c2s>> /\ server \in Patching
      BY <2>4 DEF SendStatusDebug, SendApplied, FullPatch, PartialPatch, RemoveOriginal, RenameTemp,
         clientVars, channelVars
    <3>2. QED BY <1>5, <3>1
  <2>5. QED BY <1>10, <2>1, <2>2, <2>3, <2>4 DEF ServerStep
<1>11. QED BY <1>2, <1>3, <1>6, <1>7, <1>8, <1>9, <1>10 DEF SessionNext

-----------------------------------------------------------------------------

\* The steps that have no part in the end of a session.
LEMMA EndKept ==
  ASSUME EndInv, s2c \in Seq(ServerMessage), UNCHANGED <<client, garbled>>,
         \/ server' = server
         \/ server \notin Ended \cup {"absent"} /\ server' # "absent"
              /\ (server' = "hung" => client = "failed"),
         \/ s2c' = s2c
         \/ \E m \in ServerMessage : m.type # "Finish" /\ s2c' = Append(s2c, m)
         \/ s2c # <<>> /\ s2c' = Tail(s2c)
  PROVE  EndInv'
<1>1. Has(s2c', "Finish") => Has(s2c, "Finish")
  <2>1. ASSUME NEW m \in ServerMessage, m.type # "Finish", s2c' = Append(s2c, m)
        PROVE  Messages(s2c') = Messages(s2c) \cup {m}
    BY <2>1, MessagesFacts
  <2>2. ASSUME s2c # <<>>, s2c' = Tail(s2c)
        PROVE  Messages(s2c') \subseteq Messages(s2c)
    BY <2>2, MessagesFacts
  <2>3. QED BY <2>1, <2>2 DEF Has
<1>2. QED BY <1>1 DEF EndInv, Ended

LEMMA EndStep ==
  SessionInv /\ EndInv /\ [SessionNext]_sessionVars => EndInv'
<1> SUFFICES ASSUME SessionInv, EndInv, [SessionNext]_sessionVars
             PROVE  EndInv'
  OBVIOUS
<1>1. s2c \in Seq(ServerMessage) /\ SessionTypeOK
  BY DEF SessionInv, SessionTypeOK
<1>2. CASE UNCHANGED sessionVars \/ DiskFills \/ \E f \in Files : LandWrite(f)
  <2>1. UNCHANGED <<client, garbled, server, s2c>>
    BY <1>2 DEF sessionVars, DiskFills, LandWrite, channelVars, clientVars, serverVars
  <2>2. QED BY <1>1, <2>1, EndKept
<1>3. CASE NextSession
  <2>1. s2c' = <<>> /\ garbled' = FALSE /\ client' = "start" /\ server' = "absent"
    BY <1>3 DEF NextSession
  <2>2. ~ Has(s2c', "Finish")
    BY <1>1, <2>1, MessagesFacts DEF Has
  <2>3. QED BY <2>1, <2>2 DEF EndInv
<1>4. CASE StartRemote
  BY <1>4 DEF StartRemote, channelVars, EndInv, ServerInv, SessionInv, Syncing, Early
<1>5. CASE Kill
  <2>1. UNCHANGED <<client, garbled, s2c>> /\ server \notin Ended \cup {"absent"} /\ server' = "killed"
    BY <1>5 DEF Kill, channelVars, clientVars
  <2>2. QED BY <1>1, <2>1, EndKept
<1>6. CASE ClientStep
  <2> USE DEF EndInv, Syncing, Early
  <2>1. CASE \/ Connect \/ ConnectTimeout \/ ReadMore \/ GarbledFrame \/ RxTimeout
             \/ ClientIoError \/ ExitSeen
    <3>1. UNCHANGED <<server, s2c, garbled>> /\ client # "start"
      BY <1>1, <2>1, ClientMovesCases DEF ClientMoves, Connect, ConnectTimeout, ReadMore, Reading,
         GarbledFrame, RxTimeout, ClientIoError, ExitSeen
    <3>2. \/ client' \in {client, "failed"}
          \/ client = "waitExit" /\ client' = "ok"
          \/ client = "connect" /\ client' = "list"
      BY <2>1 DEF Connect, ConnectTimeout, ReadMore, GarbledFrame, RxTimeout,
         ClientIoError, ExitSeen, Fail, clientVars
    <3>3. client \notin Over
      BY <2>1 DEF Connect, ConnectTimeout, ReadMore, Reading, GarbledFrame, RxTimeout, ClientIoError,
         ExitSeen, Over
    <3>4. QED BY <3>1, <3>2, <3>3 DEF Over
  <2>2. CASE StreamEnds
    BY <2>2 DEF StreamEnds, Reading, Fail, serverVars, channelVars
  <2>3. CASE SendFileList \/ SendExec
    BY <2>3 DEF SendFileList, SendExec, Send, serverVars
  <2>4. ASSUME NEW f \in Files, Push(f) PROVE EndInv'
    BY <2>4 DEF Push, Send, serverVars, channelVars
  <2>5. CASE PushDone
    BY <2>5 DEF PushDone, serverVars, channelVars
  <2>6. CASE CloseSync
    <3>1. buffered \div 2 + 1 \in Nat \ {0}
      BY <1>1 DEF SessionTypeOK
    <3>2. Has(s2c', "Finish") => Has(s2c, "Finish")
      BY <1>1, <2>6, <3>1, MessagesSubSeq DEF CloseSync, Has
    <3>3. QED BY <2>6, <3>2 DEF CloseSync, serverVars
  <2>7. CASE OutOfOrder \/ ReceiveStatus \/ ReceiveApplied \/ ReceiveDebug \/ ReceiveEvent \/ ReceiveFinish
    <3>1. PICK types : Received(types) /\ (ReceiveFinish => types = {"Finish"})
      BY <2>7 DEF OutOfOrder, ReceiveStatus, ReceiveApplied, ReceiveDebug, ReceiveEvent, ReceiveFinish
    <3>2. /\ s2c # <<>> /\ Head(s2c).type \in types /\ s2c' = Tail(s2c) /\ garbled' = FALSE
      BY <1>1, <3>1, ReceivedFacts
    <3>3. Has(s2c', "Finish") => Has(s2c, "Finish")
      BY <1>1, <3>2, MessagesFacts DEF Has
    <3>4. ReceiveFinish => Has(s2c, "Finish")
      BY <1>1, <3>1, <3>2, MessagesFacts DEF Has
    <3>5. /\ server' = server /\ client \notin {"start", "ok", "failed"} /\ client' # "ok"
          /\ client' \in {"waitExit"} => ReceiveFinish
      BY <2>7 DEF OutOfOrder, Fail, Reading, ReceiveStatus, ReceiveApplied, ReceiveDebug, ReceiveEvent,
         ReceiveFinish, serverVars, clientVars
    <3>6. server = "exited" => server \in Ended
      BY DEF Ended
    <3>7. QED BY <3>2, <3>3, <3>4, <3>5, <3>6
  <2>8. QED BY <1>6, <2>1, <2>2, <2>3, <2>4, <2>5, <2>6, <2>7 DEF ClientStep
<1>7. CASE ServerStep \/ ServerFails
  <2> USE DEF Inert, Ended
  <2>1. CASE \/ Bind \/ Accept \/ AcceptTimeout \/ SyncTimeout \/ ExecTimeout \/ RunWithoutClient
             \/ BrokenPipe \/ DecodeFails \/ ReplaceFails
    <3>1. UNCHANGED <<client, garbled, s2c>> /\ server \notin Inert \cup {"absent"} /\ server' # "absent"
      BY <2>1, ServerMovesCases DEF ServerMoves
    <3>2. server' = "hung" => client = "failed"
      BY <2>1, <3>1 DEF Bind, Accept, AcceptTimeout, SyncTimeout, ExecTimeout, RunWithoutClient,
         BrokenPipe, DecodeFails, ReplaceFails, EndInv, Over
    <3>3. QED BY <1>1, <3>1, <3>2, EndKept
  <2>2. CASE ReceiveClose \/ DropMessage \/ ReceiveExec \/ ListFails
    <3>1. /\ UNCHANGED <<client, garbled, s2c>>
          /\ server' = server \/ (server \notin Inert \cup {"absent"} /\ server' \notin {"absent", "hung"})
      BY <2>2 DEF ReceiveClose, DropMessage, ReceiveExec, ListFails, clientVars, serverVars
    <3>2. QED BY <1>1, <3>1, EndKept
  <2>3. CASE FullPatch \/ PartialPatch \/ RemoveOriginal \/ RenameTemp \/ FullPatchFails
             \/ PartialPatchFails
    <3>1. /\ UNCHANGED <<client, garbled, s2c>>
          /\ server \notin Inert \cup {"absent"} /\ server' \notin {"absent", "hung"}
      BY <2>3 DEF FullPatch, PartialPatch, RemoveOriginal, RenameTemp, FullPatchFails,
         PartialPatchFails, clientVars, channelVars
    <3>2. QED BY <1>1, <3>1, EndKept
  <2>4. CASE ReceiveFileList \/ SendStatusDebug \/ ReceivePatch \/ SendApplied \/ SendEvent
    <3>1. /\ UNCHANGED <<client, garbled>>
          /\ server' = server \/ (server \notin Inert \cup {"absent"} /\ server' \notin {"absent", "hung"})
      BY <2>4 DEF ReceiveFileList, SendStatusDebug, ReceivePatch, SendApplied, SendEvent, Reply, clientVars
    <3>2. \E m \in ServerMessage : m.type # "Finish" /\ s2c' = Append(s2c, m)
      <4>1. CASE ReceiveFileList
        <5>1. [f \in Files |-> StatusOf(f)] \in [Files -> Statuses]
          BY DEF StatusOf, Statuses
        <5>2. QED BY <4>1, <5>1, MessageTypes DEF ReceiveFileList, Reply, Status
      <4>2. CASE SendStatusDebug \/ ReceivePatch
        BY <4>2, MessageTypes DEF SendStatusDebug, ReceivePatch, Reply, Msg
      <4>3. CASE SendEvent
        BY <4>3, MessageTypes DEF SendEvent, Reply, Msg
      <4>4. CASE SendApplied
        <5>1. job.file \in Files
          BY <4>4 DEF SendApplied, SessionInv, ServerInv, Applying, Patch
        <5>2. QED BY <4>4, <5>1, MessageTypes DEF SendApplied, Reply, FileMsg
      <4>5. QED BY <2>4, <4>1, <4>2, <4>3, <4>4
    <3>3. QED BY <1>1, <3>1, <3>2, EndKept
  <2>5. CASE SendFinish
    BY <2>5 DEF SendFinish, Reply, EndInv, clientVars
  <2>6. QED BY <1>7, <2>1, <2>2, <2>3, <2>4, <2>5 DEF ServerStep, ServerFails
<1>8. QED BY <1>2, <1>3, <1>4, <1>5, <1>6, <1>7 DEF SessionNext

LEMMA NeitherStuckInv == SessionInv /\ OnTheWay => NeitherStuck
<1> SUFFICES ASSUME SessionInv, OnTheWay PROVE NeitherStuck
  OBVIOUS
<1>1. SessionTypeOK /\ s2c \in Seq(ServerMessage) /\ c2s \in Seq(ClientMessage)
  BY DEF SessionInv, SessionTypeOK
<1>2. ASSUME client \notin Over \cup {"start"}, ~ (client = "waitExit" /\ server = "killed")
      PROVE  ClientGoesOn
  <2>1. CASE client \in {"connect", "list", "push", "close", "exec"}
    BY <2>1 DEF ClientGoesOn
  <2>2. CASE client = "waitExit"
    BY <1>2, <2>2 DEF ClientGoesOn, OnTheWay, EndInv, Ended
  <2>3. CASE Reading
    <3>1. CASE buffered < 2
      BY <2>3, <3>1 DEF ClientGoesOn
    <3>2. CASE ~ (buffered < 2)
      <4>1. buffered >= 2
        BY <1>1, <3>2 DEF SessionTypeOK
      <4>2. s2c # <<>>
        BY <1>1, <4>1 DEF SessionTypeOK
      <4>3. client = "status" => Head(s2c).type # "Debug"
        BY <4>2 DEF OnTheWay, StatusFirst, Early
      <4>4. garbled => client = "watch"
        BY <2>3 DEF Reading, OnTheWay, EndInv, Syncing, Early
      <4>5. QED BY <2>3, <4>1, <4>3, <4>4 DEF ClientGoesOn
    <3>3. QED BY <3>1, <3>2
  <2>4. QED BY <1>1, <1>2, <2>1, <2>2, <2>3 DEF SessionTypeOK, Reading
<1>3. ASSUME server \notin Ended \cup {"absent"}
      PROVE  ServerGoesOn \/ Spins
  <2>1. CASE server = "sync"
    <3>1. CASE c2s = <<>>
      BY <2>1, <3>1 DEF ServerGoesOn
    <3>2. CASE c2s # <<>>
      <4>1. Head(c2s) \in ClientMessage /\ Head(c2s) = c2s[1] /\ 1 \in DOMAIN c2s
        BY <1>1, <3>2
      <4>2. Head(c2s).type \in {"FileList", "Patch", "Close", "Exec"}
        BY <4>1 DEF ClientMessage
      <4>3. Head(c2s).type # "Exec"
        <5>1. CloseFirst(c2s)
          BY <2>1 DEF OnTheWay, CloseBeforeExec, Patching
        <5>2. ~ \E j \in 1 .. 1 - 1 : TRUE
          OBVIOUS
        <5>3. QED BY <4>1, <5>1, <5>2 DEF CloseFirst
      <4>4. QED BY <2>1, <4>2, <4>3 DEF ServerGoesOn
    <3>3. QED BY <3>1, <3>2
  <2>2. CASE server = "patch"
    <3>1. job.kind \in {"Full", "Partial"}
      BY <2>2 DEF SessionInv, ServerInv, Applying, Patch
    <3>2. QED BY <2>2, <3>1 DEF ServerGoesOn
  <2>3. CASE server = "hung"
    BY <2>3 DEF OnTheWay, EndInv, Spins
  <2>4. QED BY <1>1, <1>3, <2>1, <2>2, <2>3 DEF SessionTypeOK, ServerGoesOn, Inert, Ended
<1>4. server = "absent" => client = "start"
  BY DEF OnTheWay, EndInv
<1>5. QED BY <1>2, <1>3, <1>4 DEF NeitherStuck

\* Whatever crosses, times out or is killed, neither side is left without a step: a client
\* always has something to read, to send or to give up on, but for one that waits for the exit
\* status of a killed server; and a server that was started has something to do until its
\* process is gone, but for one whose client went away during the run: it may spin in
\* to_local's busy wait.
THEOREM SessionNeverStuck == SessionSpec => []NeitherStuck
<1>1. SessionInit => OnTheWay
  BY DEF SessionInit, OnTheWay, StatusFirst, CloseBeforeExec, CloseFirst, EndInv, Has, Messages
<1>2. SessionInv /\ OnTheWay /\ [SessionNext]_sessionVars => OnTheWay'
  BY StatusFirstStep, CloseBeforeExecStep, EndStep DEF OnTheWay
<1>3. QED BY <1>1, <1>2, SessionInvariant, NeitherStuckInv, PTL DEF SessionSpec

-----------------------------------------------------------------------------

\* How far each side is from its end.
ClientStage ==
  CASE client = "start" -> 10 [] client = "connect" -> 9 [] client = "list" -> 8
    [] client = "status" -> 7 [] client = "push" -> 6 [] client = "await" -> 5
    [] client = "close" -> 4 [] client = "exec" -> 3 [] client = "watch" -> 2
    [] client = "waitExit" -> 1 [] OTHER -> 0
ServerStage ==
  CASE server = "absent" -> 7 [] server = "boot" -> 6 [] server = "listening" -> 5
    [] server \in {"sync", "listed"} \cup Applying -> 4
    [] server = "waitExec" -> 3 [] server = "running" -> 2 [] server = "hung" -> 1 [] OTHER -> 0
Stages == ClientStage + ServerStage

\* The files to push, the messages on the way to the server, its answer to the one in hand,
\* and the events it may send.
ReplySteps ==
  CASE server = "patch" -> 4 [] server = "remove" -> 3 [] server = "rename" -> 2
    [] server \in {"applied", "listed"} -> 1 [] OTHER -> 0
Work == 6 * Cardinality(toPush) + 5 * Len(c2s) + ReplySteps + (MaxEvents - sent)

\* Writes that have not landed, answers not read or read and not taken, a disk that can fill.
Rest == Cardinality(pending) + (3 * Len(s2c) - buffered) + IF diskFull THEN 0 ELSE 1

\* What is left to do, the most significant first.
SessionRank == <<MaxSessions - sessions, Stages, Work, Rest>>
SessionRanks == [1..4 -> Nat]
SessionOrder == LexProductOrdering(OpToRel(<, Nat), Nat, 4)
SessionDescent == <<SessionRank', SessionRank>> \in SessionOrder

LEMMA SessionOrderWellFounded == IsWellFoundedOn(SessionOrder, SessionRanks)
<1> DEFINE Less == OpToRel(<, Nat)
<1>1. IsWellFoundedOn(Less, Nat)
  BY NatLessThanWellFounded
<1>2. SessionOrder = LexProductOrdering(Less, Nat, 4)
  BY DEF SessionOrder
<1> HIDE DEF Less
<1>3. QED BY <1>1, <1>2, WFLexProductOrdering DEF SessionRanks

LEMMA SessionRankBelow ==
  ASSUME NEW r \in SessionRanks, NEW s \in SessionRanks,
         \/ r[1] < s[1]
         \/ r[1] = s[1] /\ r[2] < s[2]
         \/ r[1] = s[1] /\ r[2] = s[2] /\ r[3] < s[3]
         \/ r[1] = s[1] /\ r[2] = s[2] /\ r[3] = s[3] /\ r[4] < s[4]
  PROVE  <<r, s>> \in SessionOrder
<1>1. \E i \in 1..4 : (\A j \in 1..(i - 1) : r[j] = s[j]) /\ r[i] < s[i]
  <2>1. /\ \A j \in 1..0 : FALSE
        /\ \A j \in 1..1 : j = 1
        /\ \A j \in 1..2 : j = 1 \/ j = 2
        /\ \A j \in 1..3 : j = 1 \/ j = 2 \/ j = 3
    OBVIOUS
  <2>2. CASE r[1] < s[1]
    BY <2>1, <2>2
  <2>3. CASE r[1] = s[1] /\ r[2] < s[2]
    BY <2>1, <2>3
  <2>4. CASE r[1] = s[1] /\ r[2] = s[2] /\ r[3] < s[3]
    BY <2>1, <2>4
  <2>5. CASE r[1] = s[1] /\ r[2] = s[2] /\ r[3] = s[3] /\ r[4] < s[4]
    BY <2>1, <2>5
  <2>6. QED BY <2>2, <2>3, <2>4, <2>5
<1>2. PICK i \in 1..4 : (\A j \in 1..(i - 1) : r[j] = s[j]) /\ r[i] < s[i]
  BY <1>1
<1>3. r[i] \in Nat /\ s[i] \in Nat
  BY DEF SessionRanks
<1> DEFINE Less == OpToRel(<, Nat)
<1>4. <<r[i], s[i]>> \in Less
  BY <1>2, <1>3 DEF OpToRel
<1>5. SessionOrder = LexProductOrdering(Less, Nat, 4)
  BY DEF SessionOrder
<1> HIDE DEF Less
<1>6. QED BY <1>2, <1>4, <1>5 DEF LexProductOrdering, SessionRanks

LEMMA RankTypes ==
  SessionTypeOK => /\ ClientStage \in Nat /\ ServerStage \in Nat /\ ReplySteps \in Nat
                   /\ Cardinality(toPush) \in Nat /\ Cardinality(pending) \in Nat
                   /\ Len(c2s) \in Nat /\ Len(s2c) \in Nat /\ buffered \in 0 .. 2 * Len(s2c)
                   /\ MaxEvents - sent \in Nat /\ MaxSessions - sessions \in Nat
                   /\ IsFiniteSet(toPush) /\ IsFiniteSet(pending)
<1> SUFFICES ASSUME SessionTypeOK
             PROVE  /\ ClientStage \in Nat /\ ServerStage \in Nat /\ ReplySteps \in Nat
                    /\ Cardinality(toPush) \in Nat /\ Cardinality(pending) \in Nat
                    /\ Len(c2s) \in Nat /\ Len(s2c) \in Nat /\ buffered \in 0 .. 2 * Len(s2c)
                    /\ MaxEvents - sent \in Nat /\ MaxSessions - sessions \in Nat
                    /\ IsFiniteSet(toPush) /\ IsFiniteSet(pending)
  OBVIOUS
<1>1. ClientStage \in Nat
  BY DEF ClientStage
<1>2. ServerStage \in Nat
  BY DEF ServerStage
<1>3. ReplySteps \in Nat
  BY DEF ReplySteps
<1>4. toPush \subseteq Files /\ pending \subseteq Files
  BY DEF SessionTypeOK
<1>5. IsFiniteSet(toPush) /\ IsFiniteSet(pending)
  BY <1>4, SessionAssumption, FS_Subset
<1>6. Cardinality(toPush) \in Nat /\ Cardinality(pending) \in Nat
  BY <1>5, FS_CardinalityType
<1>7. /\ Len(c2s) \in Nat /\ Len(s2c) \in Nat /\ buffered \in 0 .. 2 * Len(s2c)
      /\ MaxEvents - sent \in Nat /\ MaxSessions - sessions \in Nat
  BY SessionAssumption DEF SessionTypeOK
<1>8. QED BY <1>1, <1>2, <1>3, <1>5, <1>6, <1>7

LEMMA SessionRanked == SessionTypeOK => SessionRank \in SessionRanks
<1> SUFFICES ASSUME SessionTypeOK PROVE SessionRank \in SessionRanks
  OBVIOUS
<1> PICK c, v, w, a, b, l, m, n, e, k :
      /\ c = ClientStage /\ v = ServerStage /\ w = ReplySteps /\ a = Cardinality(toPush)
      /\ b = Cardinality(pending) /\ l = Len(c2s) /\ m = Len(s2c) /\ n = buffered
      /\ e = MaxEvents - sent /\ k = MaxSessions - sessions
  OBVIOUS
<1>1. /\ c \in Nat /\ v \in Nat /\ w \in Nat /\ a \in Nat /\ b \in Nat /\ l \in Nat /\ m \in Nat
      /\ n \in 0 .. 2 * m /\ e \in Nat /\ k \in Nat
  BY RankTypes
<1>2. c + v \in Nat /\ 6 * a + 5 * l + w + e \in Nat
  BY <1>1
<1>3. b + (3 * m - n) + (IF diskFull THEN 0 ELSE 1) \in Nat
  BY <1>1
<1>4. k \in Nat /\ Stages \in Nat /\ Work \in Nat /\ Rest \in Nat
  BY <1>1, <1>2, <1>3 DEF Stages, Work, Rest
<1>5. PICK q \in Nat, x \in Nat, y \in Nat, z \in Nat : SessionRank = <<q, x, y, z>>
  BY <1>4 DEF SessionRank
<1>6. QED BY <1>5 DEF SessionRanks

-----------------------------------------------------------------------------

\* The rank of a step: the first component that changes gets smaller.
LEMMA Closer ==
  ASSUME SessionTypeOK, SessionTypeOK', sessions' = sessions,
         \/ Stages' < Stages
         \/ Stages' = Stages /\ Work' < Work
         \/ Stages' = Stages /\ Work' = Work /\ Rest' < Rest
  PROVE  SessionDescent
<1>1. PICK r \in SessionRanks, s \in SessionRanks : r = SessionRank' /\ s = SessionRank
  <2>1. (SessionTypeOK => SessionRank \in SessionRanks)'
    BY SessionRanked, PTL
  <2>2. SessionRank \in SessionRanks /\ SessionRank' \in SessionRanks
    BY <2>1, SessionRanked DEF SessionRanks
  <2>3. QED BY <2>2
<1>2. /\ r[1] = s[1] /\ r[2] = Stages' /\ r[3] = Work' /\ r[4] = Rest'
      /\ s[2] = Stages /\ s[3] = Work /\ s[4] = Rest
  BY <1>1 DEF SessionRank
<1>3. <<r, s>> \in SessionOrder
  BY <1>2, SessionRankBelow
<1>4. QED BY <1>1, <1>3 DEF SessionDescent

\* One side moves on ...
LEMMA ClientCloser ==
  ASSUME SessionTypeOK, SessionTypeOK', UNCHANGED <<server, sessions>>,
         \/ client \notin Over /\ client' = "failed"
         \/ client = "connect" /\ client' = "list"
         \/ client = "list" /\ client' = "status"
         \/ client = "status" /\ client' = "push"
         \/ client = "push" /\ client' \in {"await", "close"}
         \/ client = "await" /\ client' = "close"
         \/ client = "close" /\ client' = "exec"
         \/ client = "exec" /\ client' = "watch"
         \/ client = "watch" /\ client' = "waitExit"
         \/ client = "waitExit" /\ client' = "ok"
  PROVE  SessionDescent
<1>0. PICK c, d, v : c = ClientStage /\ d = ClientStage' /\ v = ServerStage
  OBVIOUS
<1>1. v \in Nat /\ ServerStage' = v
  BY <1>0 DEF ServerStage
<1>2. c \in Nat /\ d \in Nat /\ d < c
  <2>1. CASE client \notin Over /\ client' = "failed"
    <3>1. d = 0
      BY <1>0, <2>1 DEF ClientStage
    <3>2. c \in 1..10
      BY <1>0, <2>1 DEF ClientStage, SessionTypeOK, Over
    <3>3. QED BY <3>1, <3>2
  <2>2. CASE \/ client = "connect" /\ client' = "list"
             \/ client = "list" /\ client' = "status"
             \/ client = "status" /\ client' = "push"
    BY <1>0, <2>2 DEF ClientStage
  <2>3. CASE \/ client = "push" /\ client' \in {"await", "close"}
             \/ client = "await" /\ client' = "close"
             \/ client = "close" /\ client' = "exec"
    BY <1>0, <2>3 DEF ClientStage
  <2>4. CASE \/ client = "exec" /\ client' = "watch"
             \/ client = "watch" /\ client' = "waitExit"
             \/ client = "waitExit" /\ client' = "ok"
    BY <1>0, <2>4 DEF ClientStage
  <2>5. QED BY <2>1, <2>2, <2>3, <2>4
<1>3. d + v < c + v
  BY <1>1, <1>2
<1>4. Stages' = d + v /\ Stages = c + v
  BY <1>0, <1>1 DEF Stages
<1>5. Stages' < Stages
  BY <1>3, <1>4
<1>6. QED BY <1>5, Closer

LEMMA ServerCloser ==
  ASSUME SessionTypeOK, SessionTypeOK', UNCHANGED <<client, sessions>>,
         \/ server \notin Inert /\ server' \in Inert
         \/ server \notin Ended /\ server' \in Ended
         \/ server = "boot" /\ server' = "listening"
         \/ server = "listening" /\ server' = "sync"
         \/ server = "sync" /\ server' = "waitExec"
         \/ server = "waitExec" /\ server' = "running"
  PROVE  SessionDescent
<1>0. PICK c, v, w : c = ClientStage /\ v = ServerStage /\ w = ServerStage'
  OBVIOUS
<1>1. c \in Nat /\ ClientStage' = c
  BY <1>0 DEF ClientStage
<1>2. v \in Nat /\ w \in Nat /\ w < v
  <2>1. CASE \/ server \notin Inert /\ server' \in Inert
             \/ server \notin Ended /\ server' \in Ended
    <3>1. w \in 0..1 /\ (server' \in Ended => w = 0)
      BY <1>0, <2>1 DEF ServerStage, Inert, Ended, Applying
    <3>2. v \in 1..7 /\ (server \notin Inert => v \in 2..7)
      <4>1. /\ server \in {"absent", "boot", "listening"} => v \in 5..7
            /\ server \in {"sync", "listed"} \cup Applying => v = 4
            /\ server \in {"waitExec", "running"} => v \in 2..3
            /\ server = "hung" => v = 1
        BY <1>0 DEF ServerStage, Applying
      <4>2. server \in {"absent", "boot", "listening"} \cup {"sync", "listed"} \cup Applying
                        \cup {"waitExec", "running", "hung"}
        BY <2>1 DEF SessionTypeOK, Applying, Inert, Ended
      <4>3. server = "hung" => server \in Inert
        BY DEF Inert
      <4>4. QED BY <4>1, <4>2, <4>3
    <3>3. QED BY <2>1, <3>1, <3>2
  <2>2. CASE \/ server = "boot" /\ server' = "listening"
             \/ server = "listening" /\ server' = "sync"
    BY <1>0, <2>2 DEF ServerStage, Applying
  <2>3. CASE \/ server = "sync" /\ server' = "waitExec"
             \/ server = "waitExec" /\ server' = "running"
    BY <1>0, <2>3 DEF ServerStage, Applying
  <2>4. QED BY <2>1, <2>2, <2>3
<1>3. c + w < c + v
  BY <1>1, <1>2
<1>4. Stages' = c + w /\ Stages = c + v
  BY <1>0, <1>1 DEF Stages
<1>5. Stages' < Stages
  BY <1>3, <1>4
<1>6. QED BY <1>5, Closer

\* ... or stays, and has less to do ...
LEMMA WorkCloser ==
  ASSUME SessionTypeOK, SessionTypeOK', UNCHANGED <<client, sessions>>,
         server' = server \/ {server, server'} \subseteq {"sync", "listed"} \cup Applying,
         Work' < Work
  PROVE  SessionDescent
<1>1. ServerStage' = ServerStage
  BY DEF ServerStage, Applying
<1>2. ClientStage' = ClientStage
  BY DEF ClientStage
<1>3. Stages' = Stages
  BY <1>1, <1>2 DEF Stages
<1>4. QED BY <1>3, Closer

\* ... or reads, or a write lands, or the disk is full.
LEMMA RestCloser ==
  ASSUME SessionTypeOK, SessionTypeOK', UNCHANGED <<client, server, sessions, toPush, c2s, sent>>,
         Rest' < Rest
  PROVE  SessionDescent
<1>1. Stages' = Stages
  BY DEF Stages, ServerStage, ClientStage
<1>2. Work' = Work
  BY DEF Work, ReplySteps
<1>3. QED BY <1>1, <1>2, Closer

\* The server takes a message, gets on with its answer or sends an event.
LEMMA ServerWorks ==
  ASSUME SessionTypeOK, SessionTypeOK', UNCHANGED <<client, sessions, toPush>>,
         server' = server \/ {server, server'} \subseteq {"sync", "listed"} \cup Applying,
         \/ /\ c2s # <<>> /\ c2s' = Tail(c2s) /\ sent' = sent
            /\ ReplySteps = 0 /\ ReplySteps' \in 0..4
         \/ c2s' = c2s /\ sent' = sent /\ ReplySteps' < ReplySteps
         \/ c2s' = c2s /\ sent' = sent + 1 /\ server' = server
  PROVE  SessionDescent
<1>0. PICK a, l, w, x, n, k :
         /\ a = Cardinality(toPush) /\ l = Len(c2s) /\ w = ReplySteps /\ n = MaxEvents - sent
         /\ x = ReplySteps' /\ k = MaxEvents - sent'
  OBVIOUS
<1>1. a \in Nat /\ l \in Nat /\ w \in Nat /\ n \in Nat /\ x \in Nat
  <2>1. (SessionTypeOK => ReplySteps \in Nat)'
    BY RankTypes, PTL
  <2>2. QED BY <1>0, <2>1, RankTypes
<1>2. Work = 6 * a + 5 * l + w + n
  BY <1>0 DEF Work
<1>3. Work' = 6 * a + 5 * Len(c2s') + x + k
  BY <1>0 DEF Work
<1>4. CASE c2s # <<>> /\ c2s' = Tail(c2s) /\ sent' = sent /\ ReplySteps = 0 /\ ReplySteps' \in 0..4
  <2>1. Len(c2s') = l - 1 /\ k = n /\ w = 0 /\ x \in 0..4
    BY <1>0, <1>4, HeadTailProperties DEF SessionTypeOK
  <2>2. 6 * a + 5 * (l - 1) + x + n < 6 * a + 5 * l + 0 + n
    BY <1>1, <2>1
  <2>3. QED BY <1>2, <1>3, <2>1, <2>2, WorkCloser
<1>5. CASE c2s' = c2s /\ sent' = sent /\ ReplySteps' < ReplySteps
  <2>1. Len(c2s') = l /\ k = n /\ x < w
    BY <1>0, <1>5
  <2>2. 6 * a + 5 * l + x + n < 6 * a + 5 * l + w + n
    BY <1>1, <2>1
  <2>3. QED BY <1>2, <1>3, <2>1, <2>2, WorkCloser
<1>6. CASE c2s' = c2s /\ sent' = sent + 1 /\ server' = server
  <2>1. Len(c2s') = l /\ x = w
    BY <1>0, <1>6 DEF ReplySteps
  <2>2. k = n - 1
    BY <1>0, <1>6, SessionAssumption DEF SessionTypeOK
  <2>3. 6 * a + 5 * l + w + (n - 1) < 6 * a + 5 * l + w + n
    BY <1>1
  <2>4. QED BY <1>2, <1>3, <2>1, <2>2, <2>3, WorkCloser
<1>7. QED BY <1>4, <1>5, <1>6

LEMMA PushCloser ==
  ASSUME SessionTypeOK, SessionTypeOK', NEW f \in Files, Push(f)
  PROVE  SessionDescent
<1>1. /\ UNCHANGED <<client, sessions, server, sent>> /\ f \in toPush /\ toPush' = toPush \ {f}
      /\ c2s' = c2s \/ \E m \in ClientMessage : c2s' = Append(c2s, m)
  BY MessageTypes DEF Push, Send, channelVars, serverVars, envVars
<1>2. PICK a, b, l, k, w, n :
         /\ a = Cardinality(toPush) /\ b = Cardinality(toPush') /\ l = Len(c2s) /\ k = Len(c2s')
         /\ w = ReplySteps /\ n = MaxEvents - sent
  OBVIOUS
<1>3. a \in Nat /\ l \in Nat /\ w \in Nat /\ n \in Nat
  BY <1>2, RankTypes
<1>4. b = a - 1
  BY <1>1, <1>2, RankTypes, FS_RemoveElement
<1>5. k = l \/ k = l + 1
  BY <1>1, <1>2, AppendProperties DEF SessionTypeOK
<1>6. ReplySteps' = w
  BY <1>1, <1>2 DEF ReplySteps
<1>7. 6 * (a - 1) + 5 * k + w + n < 6 * a + 5 * l + w + n
  BY <1>3, <1>5
<1>8. Work = 6 * a + 5 * l + w + n
  BY <1>2 DEF Work
<1>9. Work' = 6 * (a - 1) + 5 * k + w + n
  BY <1>1, <1>2, <1>4, <1>6 DEF Work
<1>10. QED BY <1>1, <1>7, <1>8, <1>9, WorkCloser

\* The client takes an answer, or more of them has arrived.
LEMMA ReadCloser ==
  ASSUME SessionTypeOK, SessionTypeOK',
         UNCHANGED <<client, server, sessions, toPush, c2s, sent, pending, diskFull>>,
         \/ \E types : Received(types)
         \/ s2c' = s2c /\ buffered' \in buffered + 1 .. 2 * Len(s2c)
  PROVE  SessionDescent
<1>1. PICK p, m, n, d, k, o :
         /\ p = Cardinality(pending) /\ m = Len(s2c) /\ n = buffered /\ d = IF diskFull THEN 0 ELSE 1
         /\ k = Len(s2c') /\ o = buffered'
  OBVIOUS
<1>2. p \in Nat /\ m \in Nat /\ n \in 0 .. 2 * m /\ d \in 0..1
  BY <1>1, RankTypes
<1>3. \/ k = m - 1 /\ o = n - 2
      \/ k = m /\ o \in n + 1 .. 2 * m
  <2>1. ASSUME NEW types, Received(types)
        PROVE  k = m - 1 /\ o = n - 2
    <3>1. s2c # <<>> /\ s2c' = Tail(s2c) /\ buffered' = buffered - 2 /\ s2c \in Seq(ServerMessage)
      BY <2>1, ReceivedFacts DEF Received, SessionTypeOK
    <3>2. Len(Tail(s2c)) = Len(s2c) - 1
      BY <3>1, HeadTailProperties
    <3>3. QED BY <1>1, <3>1, <3>2
  <2>2. QED BY <1>1, <2>1
<1>4. p + (3 * k - o) + d < p + (3 * m - n) + d
  BY <1>2, <1>3
<1>5. Rest = p + (3 * m - n) + d /\ Rest' = p + (3 * k - o) + d
  BY <1>1 DEF Rest
<1>6. QED BY <1>4, <1>5, RestCloser

LEMMA ClientStepDescends ==
  ASSUME SessionTypeOK, SessionTypeOK', ClientStep
  PROVE  SessionDescent
<1> USE DEF serverVars, envVars
<1>1. CASE Connect \/ ConnectTimeout \/ GarbledFrame \/ ExitSeen
  BY <1>1, ClientCloser DEF Connect, ConnectTimeout, GarbledFrame, ExitSeen, Fail, Over
<1>2. CASE RxTimeout \/ StreamEnds \/ ClientIoError \/ OutOfOrder
  BY <1>2, ClientCloser DEF RxTimeout, StreamEnds, ClientIoError, OutOfOrder, Fail, Over, Reading
<1>3. CASE SendFileList \/ ReceiveStatus \/ PushDone
  BY <1>3, ClientCloser DEF SendFileList, ReceiveStatus, PushDone
<1>4. CASE CloseSync \/ SendExec \/ ReceiveFinish
  BY <1>4, ClientCloser DEF CloseSync, SendExec, ReceiveFinish
<1>5. ASSUME NEW f \in Files, Push(f) PROVE SessionDescent
  BY <1>5, PushCloser
<1>6. CASE ReceiveApplied
  <2>1. CASE client' = "close"
    BY <1>6, <2>1, ClientCloser DEF ReceiveApplied
  <2>2. CASE client' # "close"
    <3>1. UNCHANGED <<client, server, sessions, toPush, c2s, sent, pending, diskFull>>
      BY <1>6, <2>2 DEF ReceiveApplied, Received, fileVars
    <3>2. \E types : Received(types)
      BY <1>6 DEF ReceiveApplied
    <3>3. QED BY <3>1, <3>2, ReadCloser
  <2>3. QED BY <2>1, <2>2
<1>7. CASE ReceiveDebug \/ ReceiveEvent
  <2>1. UNCHANGED <<client, server, sessions, toPush, c2s, sent, pending, diskFull>>
    BY <1>7 DEF ReceiveDebug, ReceiveEvent, Received, fileVars, clientVars
  <2>2. \E types : Received(types)
    BY <1>7 DEF ReceiveDebug, ReceiveEvent
  <2>3. QED BY <2>1, <2>2, ReadCloser
<1>8. CASE ReadMore
  <2>1. UNCHANGED <<client, server, sessions, toPush, c2s, sent, pending, diskFull, s2c>>
    BY <1>8 DEF ReadMore, fileVars, clientVars
  <2>2. buffered' \in buffered + 1 .. 2 * Len(s2c)
    BY <1>8 DEF ReadMore
  <2>3. QED BY <2>1, <2>2, ReadCloser
<1>9. QED BY <1>1, <1>2, <1>3, <1>4, <1>5, <1>6, <1>7, <1>8 DEF ClientStep

LEMMA ServerStepDescends ==
  ASSUME SessionTypeOK, SessionTypeOK', ServerStep \/ ServerFails
  PROVE  SessionDescent
<1> USE DEF clientVars, envVars
<1>1. CASE \/ Bind \/ Accept \/ AcceptTimeout \/ SyncTimeout \/ ExecTimeout \/ RunWithoutClient
           \/ BrokenPipe \/ DecodeFails \/ ReplaceFails
  <2>1. ServerMoves
    BY <1>1, ServerMovesCases
  <2>2. CASE ExecTimeout
    BY <2>2, ServerCloser DEF ExecTimeout, Inert, Ended
  <2>3. QED BY <2>1, ServerCloser DEF ServerMoves
<1>2. CASE ReceiveClose \/ ReceiveExec \/ SendFinish
  BY <1>2, ServerCloser DEF ReceiveClose, ReceiveExec, SendFinish, Inert, Ended
<1>3. CASE ReceiveFileList \/ ReceivePatch
  <2>1. /\ UNCHANGED <<client, sessions, toPush, sent>> /\ c2s # <<>> /\ c2s' = Tail(c2s)
        /\ server = "sync" /\ server' \in {"listed", "patch"}
    BY <1>3 DEF ReceiveFileList, ReceivePatch, Take
  <2>2. ReplySteps = 0 /\ ReplySteps' \in 0..4
    BY <2>1 DEF ReplySteps
  <2>3. QED BY <2>1, <2>2, ServerWorks DEF Applying
<1>4. CASE SendStatusDebug \/ FullPatch \/ RemoveOriginal \/ RenameTemp \/ SendApplied
  <2>1. /\ UNCHANGED <<client, sessions, toPush, sent, c2s>>
        /\ \/ server \in {"listed", "applied"} /\ server' = "sync"
           \/ server \in {"patch", "rename"} /\ server' = "applied"
           \/ server = "remove" /\ server' = "rename"
    BY <1>4 DEF SendStatusDebug, FullPatch, RemoveOriginal, RenameTemp, SendApplied, channelVars
  <2>2. ReplySteps' < ReplySteps
    BY <2>1 DEF ReplySteps
  <2>3. QED BY <2>1, <2>2, ServerWorks DEF Applying
<1>5. CASE PartialPatch
  <2>1. /\ UNCHANGED <<client, sessions, toPush, sent, c2s>> /\ server = "patch"
        /\ server' \in {"remove", "failed"}
    BY <1>5 DEF PartialPatch, channelVars
  <2>2. CASE server' = "failed"
    BY <2>1, <2>2, ServerCloser DEF Inert, Ended
  <2>3. CASE server' = "remove"
    <3>1. ReplySteps' < ReplySteps
      BY <2>1, <2>3 DEF ReplySteps
    <3>2. QED BY <2>1, <2>3, <3>1, ServerWorks DEF Applying
  <2>4. QED BY <2>1, <2>2, <2>3
<1>6. CASE DropMessage
  <2>1. /\ UNCHANGED <<client, server, sessions, toPush, sent>> /\ c2s # <<>> /\ c2s' = Tail(c2s)
        /\ server = "waitExec"
    BY <1>6 DEF DropMessage, serverVars
  <2>2. ReplySteps = 0 /\ ReplySteps' = 0
    BY <2>1 DEF ReplySteps
  <2>3. QED BY <2>1, <2>2, ServerWorks
<1>7. CASE SendEvent
  BY <1>7, ServerWorks DEF SendEvent
<1>8. CASE ListFails \/ FullPatchFails \/ PartialPatchFails
  BY <1>8, ServerCloser DEF ListFails, FullPatchFails, PartialPatchFails, Inert, Ended
<1>9. QED BY <1>1, <1>2, <1>3, <1>4, <1>5, <1>6, <1>7, <1>8 DEF ServerStep, ServerFails

LEMMA OthersDescend ==
  ASSUME SessionInv, SessionTypeOK',
         StartRemote \/ Kill \/ DiskFills \/ NextSession \/ \E f \in Files : LandWrite(f)
  PROVE  SessionDescent
<1>1. SessionTypeOK
  BY DEF SessionInv
<1>2. CASE StartRemote
  <2>1. /\ client = "start" /\ client' = "connect" /\ server = "absent" /\ server' = "boot"
        /\ sessions' = sessions
    BY <1>2 DEF StartRemote, SessionInv, ServerInv, envVars
  <2>2. Stages = 10 + 7
    <3>1. ClientStage = 10
      BY <2>1 DEF ClientStage
    <3>2. ServerStage = 7
      BY <2>1 DEF ServerStage, Applying
    <3>3. QED BY <3>1, <3>2 DEF Stages
  <2>3. Stages' = 9 + 6
    <3>1. ClientStage' = 9
      BY <2>1 DEF ClientStage
    <3>2. ServerStage' = 6
      BY <2>1 DEF ServerStage, Applying
    <3>3. QED BY <3>1, <3>2 DEF Stages
  <2>4. QED BY <1>1, <2>1, <2>2, <2>3, Closer
<1>3. CASE Kill
  BY <1>1, <1>3, ServerCloser DEF Kill, clientVars, Ended
<1>4. CASE NextSession
  <2>1. PICK r \in SessionRanks, s \in SessionRanks : r = SessionRank' /\ s = SessionRank
    <3>1. (SessionTypeOK => SessionRank \in SessionRanks)'
      BY SessionRanked, PTL
    <3>2. SessionRank \in SessionRanks /\ SessionRank' \in SessionRanks
      BY <1>1, <3>1, SessionRanked DEF SessionRanks
    <3>3. QED BY <3>2
  <2>2. r[1] = MaxSessions - sessions' /\ s[1] = MaxSessions - sessions
    BY <2>1 DEF SessionRank
  <2>3. sessions' = sessions + 1 /\ sessions \in Nat /\ MaxSessions \in Nat
    BY <1>1, <1>4, SessionAssumption DEF NextSession, SessionTypeOK
  <2>4. r[1] < s[1]
    BY <2>2, <2>3
  <2>5. QED BY <2>1, <2>4, SessionRankBelow DEF SessionDescent
<1>5. ASSUME \/ DiskFills
             \/ \E f \in Files : LandWrite(f)
      PROVE  SessionDescent
  <2>1. UNCHANGED <<client, server, sessions, toPush, c2s, sent, s2c, buffered>>
    BY <1>5 DEF DiskFills, LandWrite, channelVars, clientVars, serverVars, envVars
  <2>2. PICK p, q, t, d, e :
          /\ p = Cardinality(pending) /\ q = Cardinality(pending') /\ t = 3 * Len(s2c) - buffered
          /\ d = (IF diskFull THEN 0 ELSE 1) /\ e = (IF diskFull' THEN 0 ELSE 1)
    OBVIOUS
  <2>3. p \in Nat /\ t \in Int /\ IsFiniteSet(pending) /\ d \in Nat
    BY <1>1, <2>2, RankTypes
  <2>4. (q = p /\ e = d - 1) \/ (q = p - 1 /\ e = d)
    <3>1. CASE DiskFills
      BY <2>2, <3>1 DEF DiskFills, fileVars
    <3>2. ASSUME NEW f \in Files, LandWrite(f)
          PROVE  q = p - 1 /\ e = d
      <4>1. f \in pending /\ pending' = pending \ {f} /\ diskFull' = diskFull
        BY <3>2 DEF LandWrite, envVars
      <4>2. QED BY <2>2, <2>3, <4>1, FS_RemoveElement
    <3>3. QED BY <1>5, <3>1, <3>2
  <2>5. q + t + e < p + t + d
    BY <2>3, <2>4
  <2>6. Rest = p + t + d /\ Rest' = q + t + e
    BY <2>1, <2>2 DEF Rest
  <2>7. QED BY <1>1, <2>1, <2>5, <2>6, RestCloser
<1>6. QED BY <1>2, <1>3, <1>4, <1>5

\* Every step of every process brings the sessions closer to their end, in an order that has
\* no infinite descent: nothing is tried for ever, whatever crosses, times out or is killed.
\* With SessionNeverStuck this is why, as soon as both are scheduled, a started session ends on
\* both sides or comes to one of the two waits without end that SessionNeverStuck names.
THEOREM SessionDescends ==
  /\ IsWellFoundedOn(SessionOrder, SessionRanks)
  /\ SessionSpec => [](SessionRank \in SessionRanks) /\ [][SessionDescent]_sessionVars
<1>1. SessionInv /\ SessionInv' /\ [SessionNext]_sessionVars => [SessionDescent]_sessionVars
  <2> SUFFICES ASSUME SessionInv, SessionInv', SessionNext PROVE SessionDescent
    OBVIOUS
  <2>1. SessionTypeOK /\ SessionTypeOK'
    BY DEF SessionInv
  <2>2. QED BY <2>1, ClientStepDescends, ServerStepDescends, OthersDescend DEF SessionNext
<1>2. SessionInv => SessionRank \in SessionRanks
  BY SessionRanked DEF SessionInv
<1>3. SessionSpec => [](SessionRank \in SessionRanks) /\ [][SessionDescent]_sessionVars
  BY <1>1, <1>2, SessionInvariant, PTL DEF SessionSpec
<1>4. QED BY <1>3, SessionOrderWellFounded

=============================================================================
