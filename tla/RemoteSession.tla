----------------------------- MODULE RemoteSession -----------------------------
(***************************************************************************)
(* One `hpg ssh` client (remote/ssh.rs) and the `hpg server` process it    *)
(* starts on the host (remote/server.rs): sync the project's files, run    *)
(* it there, watch its events.  Sessions follow one another on the same    *)
(* remote directory; a server may be killed in any of them.                *)
(*                                                                         *)
(* The stream is FIFO in both directions.  Frames from the server arrive   *)
(* in pieces: of the first messages of s2c the client's FramedRead has     *)
(* already buffered `buffered` halves, and sync_files and exec_hpg each    *)
(* make a reader of their own, so that what the first one had buffered is  *)
(* gone for the second.                                                    *)
(*                                                                         *)
(* disk describes each remote file against the client's copy of it.  All   *)
(* timeouts may strike whenever the code waits.                            *)
(***************************************************************************)
EXTENDS Naturals, Sequences, FiniteSets

CONSTANTS
  Files,          \* the files of the project
  MaxEvents,      \* bound: events of one run
  MaxSessions     \* bound: sessions one after the other

ASSUME SessionAssumption ==
  /\ IsFiniteSet(Files)
  /\ MaxEvents \in Nat /\ MaxSessions \in Nat \ {0}

VARIABLES
  client,     \* where the client's connect_socket and run_hpg_ssh are
  error,      \* why the client failed
  statuses,   \* the FileStatus the client received
  toPush,     \* files of it not looked at yet
  patches,    \* files pushed and not acknowledged
  seen,       \* events received by the client
  finishSeen, \* it received Finish
  buffered,   \* halves of messages in the client's read buffer
  garbled,    \* the stream starts in the middle of a frame
  server,     \* where the server process is
  job,        \* the Patch it is applying
  sent,       \* events sent by the server
  c2s, s2c,   \* messages under way, client to server and back
  disk,       \* the remote files
  temp,       \* their ".hpg-sync" temporaries
  pending,    \* files whose write_all is still in tokio's file buffer
  diskFull,   \* the remote disk has run out of space
  kills,      \* number of servers killed
  sessions    \* number of sessions started

channelVars == <<c2s, s2c, buffered, garbled>>
clientVars  == <<client, error, statuses, toPush, patches, seen, finishSeen>>
serverVars  == <<server, job, sent>>
fileVars    == <<disk, temp, pending>>
envVars     == <<diskFull, kills, sessions>>
sessionVars == <<channelVars, clientVars, serverVars, fileVars, envVars>>

Over   == {"ok", "failed"}                   \* the client has returned
Ended  == {"exited", "failed", "killed"}     \* the server process is gone
Inert  == Ended \cup {"hung"}                \* it touches no file and no stream

Msg(type)       == [type |-> type]
FileMsg(type, f) == [type |-> type, file |-> f]
Patch(f, kind)  == [type |-> "Patch", file |-> f, kind |-> kind]
Status(s)       == [type |-> "FileStatus", status |-> s]

NoJob == Msg("None")

SessionInit ==
  /\ client = "start" /\ error = "none"
  /\ statuses = [f \in Files |-> "Same"] /\ toPush = {} /\ patches = {}
  /\ seen = 0 /\ finishSeen = FALSE
  /\ c2s = <<>> /\ s2c = <<>> /\ buffered = 0 /\ garbled = FALSE
  /\ server = "absent" /\ job = NoJob /\ sent = 0
  /\ disk \in [Files -> {"absent", "old", "current"}]
  /\ temp = [f \in Files |-> "none"] /\ pending = {}
  /\ diskFull = FALSE /\ kills = 0 /\ sessions = 1

-----------------------------------------------------------------------------
(* Client: starting the server and connecting                              *)

Fail(why) == client' = "failed" /\ error' = why

StartRemote ==
  /\ client = "start"
  /\ client' = "connect" /\ server' = "boot"
  /\ UNCHANGED <<error, statuses, toPush, patches, seen, finishSeen, job, sent,
                 channelVars, fileVars, envVars>>

\* wait_for_socket retries until the server's socket accepts the channel.
Connect ==
  /\ client = "connect" /\ server = "listening"
  /\ client' = "list"
  /\ UNCHANGED <<error, statuses, toPush, patches, seen, finishSeen,
                 channelVars, serverVars, fileVars, envVars>>

\* ... for at most 5 seconds.
ConnectTimeout ==
  /\ client = "connect"
  /\ Fail("timeout")
  /\ UNCHANGED <<statuses, toPush, patches, seen, finishSeen, channelVars,
                 serverVars, fileVars, envVars>>

-----------------------------------------------------------------------------
(* Client: the read side of the stream                                     *)

Reading == client \in {"status", "await", "watch"}

\* FramedRead reads only while it holds no complete frame, and then takes
\* whatever has arrived.
ReadMore ==
  /\ Reading /\ buffered < 2 /\ ~ garbled
  /\ \E n \in buffered + 1 .. 2 * Len(s2c) : buffered' = n
  /\ UNCHANGED <<c2s, s2c, garbled, clientVars, serverVars, fileVars, envVars>>

\* bus.rx() returns a message of one of these types.
Received(types) ==
  /\ buffered >= 2 /\ ~ garbled
  /\ Head(s2c).type \in types
  /\ s2c' = Tail(s2c) /\ buffered' = buffered - 2
  /\ UNCHANGED <<c2s, garbled>>

\* The types each loop answers with "out-of-order execution".  A Debug in place
\* of the FileStatus would make the first loop spin; the server sends none there.
Unexpected == [status |-> {"PatchApplied", "Event", "Finish"},
               await  |-> {"FileStatus", "Event", "Finish"},
               watch  |-> {"FileStatus", "PatchApplied", "Debug"}]

OutOfOrder ==
  /\ Reading /\ Received(Unexpected[client])
  /\ Fail("order")
  /\ UNCHANGED <<statuses, toPush, patches, seen, finishSeen, serverVars,
                 fileVars, envVars>>

\* The bytes at the front are taken for a header they are not.
GarbledFrame ==
  /\ client = "watch" /\ garbled
  /\ Fail("garbled")
  /\ UNCHANGED <<statuses, toPush, patches, seen, finishSeen, channelVars,
                 serverVars, fileVars, envVars>>

\* rx() gives up after 500 seconds without a complete frame.
RxTimeout ==
  /\ Reading /\ buffered < 2
  /\ Fail("timeout")
  /\ UNCHANGED <<statuses, toPush, patches, seen, finishSeen, channelVars,
                 serverVars, fileVars, envVars>>

\* rx() returns None: an error to sync_files, the end of the run to exec_hpg.
StreamEnds ==
  /\ Reading /\ server \in Ended /\ s2c = <<>> /\ ~ garbled
  /\ IF client = "watch"
     THEN client' = "waitExit" /\ UNCHANGED error
     ELSE Fail("eof")
  /\ UNCHANGED <<statuses, toPush, patches, seen, finishSeen, channelVars,
                 serverVars, fileVars, envVars>>

\* tx() to a server that is gone, or a local file that cannot be read.
ClientIoError ==
  /\ \/ client \in {"list", "push"}
     \/ client \in {"close", "exec"} /\ server \in Ended
  /\ Fail("io")
  /\ UNCHANGED <<statuses, toPush, patches, seen, finishSeen, channelVars,
                 serverVars, fileVars, envVars>>

-----------------------------------------------------------------------------
(* Client: sync_files                                                      *)

Send(m) == c2s' = Append(c2s, m) /\ UNCHANGED <<s2c, buffered, garbled>>

SendFileList ==
  /\ client = "list"
  /\ Send(Msg("FileList")) /\ client' = "status"
  /\ UNCHANGED <<error, statuses, toPush, patches, seen, finishSeen,
                 serverVars, fileVars, envVars>>

ReceiveStatus ==
  /\ client = "status" /\ Received({"FileStatus"})
  /\ statuses' = Head(s2c).status /\ toPush' = Files /\ client' = "push"
  /\ UNCHANGED <<error, patches, seen, finishSeen, serverVars, fileVars,
                 envVars>>

\* Mutant of Push: a file that was pushed stays on the list.
PushAgain(f) ==
  /\ client = "push" /\ f \in toPush
  /\ toPush' = IF statuses[f] = "Same" THEN toPush \ {f} ELSE toPush
  /\ IF statuses[f] = "Same"
     THEN UNCHANGED <<patches, channelVars>>
     ELSE /\ patches' = patches \cup {f}
          /\ Send(Patch(f, IF statuses[f] = "Absent" THEN "Full" ELSE "Partial"))
  /\ UNCHANGED <<client, error, statuses, seen, finishSeen, serverVars,
                 fileVars, envVars>>

\* get_patch_data: nothing for an equal file, a delta for one that differs, the
\* contents of one that is absent.
Push(f) ==
  /\ client = "push" /\ f \in toPush
  /\ toPush' = toPush \ {f}
  /\ IF statuses[f] = "Same"
     THEN UNCHANGED <<patches, channelVars>>
     ELSE /\ patches' = patches \cup {f}
          /\ Send(Patch(f, IF statuses[f] = "Absent" THEN "Full" ELSE "Partial"))
  /\ UNCHANGED <<client, error, statuses, seen, finishSeen, serverVars,
                 fileVars, envVars>>

\* Mutant of PushDone: Close does not wait for the acknowledgements.
PushDoneNoWait ==
  /\ client = "push" /\ toPush = {}
  /\ client' = "close"
  /\ UNCHANGED <<error, statuses, toPush, patches, seen, finishSeen,
                 channelVars, serverVars, fileVars, envVars>>

PushDone ==
  /\ client = "push" /\ toPush = {}
  /\ client' = IF patches = {} THEN "close" ELSE "await"
  /\ UNCHANGED <<error, statuses, toPush, patches, seen, finishSeen,
                 channelVars, serverVars, fileVars, envVars>>

ReceiveApplied ==
  /\ client = "await" /\ Received({"PatchApplied"})
  /\ patches' = patches \ {Head(s2c).file}
  /\ client' = IF patches' = {} THEN "close" ELSE "await"
  /\ UNCHANGED <<error, statuses, toPush, seen, finishSeen, serverVars,
                 fileVars, envVars>>

ReceiveDebug ==
  /\ client = "await" /\ Received({"Debug"})
  /\ UNCHANGED <<clientVars, serverVars, fileVars, envVars>>

\* Close is sent, sync_files returns and its reader goes, with the frames and
\* the part of a frame it had buffered.
CloseSync ==
  /\ client = "close"
  /\ c2s' = Append(c2s, Msg("Close"))
  /\ s2c' = SubSeq(s2c, buffered \div 2 + 1, Len(s2c))
  /\ garbled' = (buffered % 2 = 1) /\ buffered' = 0
  /\ client' = "exec"
  /\ UNCHANGED <<error, statuses, toPush, patches, seen, finishSeen,
                 serverVars, fileVars, envVars>>

-----------------------------------------------------------------------------
(* Client: exec_hpg and the end of run_hpg_ssh                             *)

SendExec ==
  /\ client = "exec"
  /\ Send(Msg("Exec")) /\ client' = "watch"
  /\ UNCHANGED <<error, statuses, toPush, patches, seen, finishSeen,
                 serverVars, fileVars, envVars>>

ReceiveEvent ==
  /\ client = "watch" /\ Received({"Event"})
  /\ seen' = seen + 1
  /\ UNCHANGED <<client, error, statuses, toPush, patches, finishSeen,
                 serverVars, fileVars, envVars>>

ReceiveFinish ==
  /\ client = "watch" /\ Received({"Finish"})
  /\ finishSeen' = TRUE /\ client' = "waitExit"
  /\ UNCHANGED <<error, statuses, toPush, patches, seen, serverVars, fileVars,
                 envVars>>

\* start_remote's future only ends with an ExitStatus; a server killed by a
\* signal has none.
ExitSeen ==
  /\ client = "waitExit" /\ server \in {"exited", "failed"}
  /\ client' = "ok"
  /\ UNCHANGED <<error, statuses, toPush, patches, seen, finishSeen,
                 channelVars, serverVars, fileVars, envVars>>

ClientStep ==
  \/ Connect \/ ConnectTimeout \/ ReadMore \/ OutOfOrder \/ GarbledFrame
  \/ RxTimeout \/ StreamEnds \/ ClientIoError \/ SendFileList \/ ReceiveStatus
  \/ \E f \in Files : Push(f)
  \/ PushDone \/ ReceiveApplied \/ ReceiveDebug \/ CloseSync
  \/ SendExec \/ ReceiveEvent \/ ReceiveFinish \/ ExitSeen

-----------------------------------------------------------------------------
(* Server: start and accept                                                *)

Bind ==
  /\ server = "boot"
  /\ server' \in {"listening", "failed"}
  /\ UNCHANGED <<job, sent, channelVars, clientVars, fileVars, envVars>>

Accept ==
  /\ server = "listening" /\ client \notin {"connect", "failed"}
  /\ server' = "sync"
  /\ UNCHANGED <<job, sent, channelVars, clientVars, fileVars, envVars>>

\* No client within 5 seconds is not an error.
AcceptTimeout ==
  /\ server = "listening"
  /\ server' = "exited"
  /\ UNCHANGED <<job, sent, channelVars, clientVars, fileVars, envVars>>

-----------------------------------------------------------------------------
(* Server: server_sync                                                     *)

Take(type) ==
  /\ c2s # <<>> /\ Head(c2s).type = type
  /\ c2s' = Tail(c2s)

Reply(m) == s2c' = Append(s2c, m) /\ UNCHANGED <<buffered, garbled>>

StatusOf(f) ==
  CASE disk[f] = "absent" -> "Absent"
    [] disk[f] = "current" -> "Same"
    [] OTHER -> "Differs"

\* check_dir, and the first of two replies.
ReceiveFileList ==
  /\ server = "sync" /\ Take("FileList")
  /\ Reply(Status([f \in Files |-> StatusOf(f)]))
  /\ server' = "listed"
  /\ UNCHANGED <<job, sent, clientVars, fileVars, envVars>>

\* The second reply, "sent file status".
SendStatusDebug ==
  /\ server = "listed"
  /\ Reply(Msg("Debug")) /\ server' = "sync"
  /\ UNCHANGED <<c2s, job, sent, clientVars, fileVars, envVars>>

\* A Patch is announced with a Debug message before it is applied.
ReceivePatch ==
  /\ server = "sync" /\ Take("Patch")
  /\ Reply(Msg("Debug"))
  /\ job' = Head(c2s) /\ server' = "patch"
  /\ UNCHANGED <<sent, clientVars, fileVars, envVars>>

\* Full: the file is created or truncated and its contents handed to tokio's
\* file buffer; write_all returns before the last chunk is on disk.
FullPatch ==
  /\ server = "patch" /\ job.kind = "Full"
  /\ disk' = [disk EXCEPT ![job.file] = "torn"]
  /\ pending' = pending \cup {job.file}
  /\ server' = "applied"
  /\ UNCHANGED <<temp, job, sent, channelVars, clientVars, envVars>>

\* ... where it gets later, by the end of the process at the latest; an error
\* of that write is never looked at.
LandWrite(f) ==
  /\ f \in pending
  /\ pending' = pending \ {f}
  /\ disk' = IF diskFull THEN disk ELSE [disk EXCEPT ![f] = "current"]
  /\ UNCHANGED <<temp, channelVars, clientVars, serverVars, envVars>>

\* Mutant of PartialPatch: an existing temporary is truncated and reused, and
\* the original is removed before the new contents are written.
PartialPatchInPlace ==
  /\ server = "patch" /\ job.kind = "Partial"
  /\ disk' = [disk EXCEPT ![job.file] = "absent"]
  /\ server' = "rename"
  /\ temp' = [temp EXCEPT ![job.file] = "torn"]
  /\ UNCHANGED <<pending, job, sent, channelVars, clientVars, envVars>>

\* Partial (apply_patch): the patched contents go to a temporary, which must
\* not exist.  On a full disk either apply reports the error or the flush that
\* dropping the BufWriter makes swallows it.  (Other errors: PartialPatchFails.)
PartialPatch ==
  /\ server = "patch" /\ job.kind = "Partial"
  /\ IF temp[job.file] # "none"
     THEN server' = "failed" /\ UNCHANGED temp
     ELSE IF diskFull
          THEN /\ temp' = [temp EXCEPT ![job.file] = "torn"]
               /\ server' \in {"remove", "failed"}
          ELSE /\ temp' = [temp EXCEPT ![job.file] = "good"]
               /\ server' = "remove"
  /\ UNCHANGED <<disk, pending, job, sent, channelVars, clientVars, envVars>>

\* ... the original is removed ...
RemoveOriginal ==
  /\ server = "remove"
  /\ disk' = [disk EXCEPT ![job.file] = "absent"]
  /\ server' = "rename"
  /\ UNCHANGED <<temp, pending, job, sent, channelVars, clientVars, envVars>>

\* ... and the temporary renamed to it.
RenameTemp ==
  /\ server = "rename"
  /\ disk' = [disk EXCEPT ![job.file] =
                IF temp[job.file] = "good" THEN "current" ELSE "torn"]
  /\ temp' = [temp EXCEPT ![job.file] = "none"]
  /\ server' = "applied"
  /\ UNCHANGED <<pending, job, sent, channelVars, clientVars, envVars>>

\* Mutant of SendApplied: only a delta is acknowledged.
SendAppliedPartial ==
  /\ server = "applied"
  /\ IF job.kind = "Partial" THEN Reply(FileMsg("PatchApplied", job.file))
                             ELSE UNCHANGED <<s2c, buffered, garbled>>
  /\ job' = NoJob /\ server' = "sync"
  /\ UNCHANGED <<c2s, sent, clientVars, fileVars, envVars>>

SendApplied ==
  /\ server = "applied"
  /\ Reply(FileMsg("PatchApplied", job.file))
  /\ job' = NoJob /\ server' = "sync"
  /\ UNCHANGED <<c2s, sent, clientVars, fileVars, envVars>>

ReceiveClose ==
  /\ server = "sync" /\ Take("Close")
  /\ server' = "waitExec"
  /\ UNCHANGED <<s2c, buffered, garbled, job, sent, clientVars, fileVars,
                 envVars>>

\* Nothing for 50 seconds, or the client closed the stream: both leave the loop
\* as Close does.
SyncTimeout ==
  /\ server = "sync" /\ c2s = <<>>
  /\ server' = "waitExec"
  /\ UNCHANGED <<job, sent, channelVars, clientVars, fileVars, envVars>>

-----------------------------------------------------------------------------
(* Server: server_exec_hpg                                                 *)

\* wait_for_exec_msg passes over every message but Exec.
DropMessage ==
  /\ server = "waitExec" /\ c2s # <<>> /\ Head(c2s).type # "Exec"
  /\ c2s' = Tail(c2s)
  /\ UNCHANGED <<s2c, buffered, garbled, serverVars, clientVars, fileVars,
                 envVars>>

\* Mutant of ExecTimeout: rw.next() is awaited without a timeout.
ExecNoTimeout ==
  /\ server = "waitExec" /\ c2s = <<>> /\ FALSE
  /\ UNCHANGED <<serverVars, channelVars, clientVars, fileVars, envVars>>

\* Nothing for 5 seconds, or the stream closed: an error.
ExecTimeout ==
  /\ server = "waitExec" /\ c2s = <<>>
  /\ server' = "failed"
  /\ UNCHANGED <<job, sent, channelVars, clientVars, fileVars, envVars>>

ReceiveExec ==
  /\ server = "waitExec" /\ Take("Exec")
  /\ server' = "running"
  /\ UNCHANGED <<s2c, buffered, garbled, job, sent, clientVars, fileVars,
                 envVars>>

\* The pump hands an event of the run to the client's stream.
SendEvent ==
  /\ server = "running" /\ sent < MaxEvents /\ client \notin Over
  /\ Reply(Msg("Event")) /\ sent' = sent + 1
  /\ UNCHANGED <<c2s, server, job, clientVars, fileVars, envVars>>

\* The run is over, with or without an error: Finish says neither.
SendFinish ==
  /\ server = "running" /\ client \notin Over
  /\ Reply(Msg("Finish")) /\ server' = "exited"
  /\ UNCHANGED <<c2s, job, sent, clientVars, fileVars, envVars>>

\* Without a client the run ends in an error, or in to_local's busy wait when
\* the pump has panicked (module TrackerSink).
RunWithoutClient ==
  /\ server = "running" /\ client \in Over
  /\ server' \in {"failed", "hung"}
  /\ UNCHANGED <<job, sent, channelVars, clientVars, fileVars, envVars>>

\* A reply to a client that is gone.
BrokenPipe ==
  /\ server \in {"listed", "patch", "applied"} /\ client \in Over
  /\ server' = "failed"
  /\ UNCHANGED <<job, sent, channelVars, clientVars, fileVars, envVars>>

\* Half a frame at the end of the stream, or one of another version of hpg.
DecodeFails ==
  /\ server \in {"sync", "waitExec"} /\ (c2s # <<>> \/ client \in Over)
  /\ server' = "failed"
  /\ UNCHANGED <<job, sent, channelVars, clientVars, fileVars, envVars>>

\* check_dir meets a directory it cannot create or a file it cannot read.
ListFails ==
  /\ server = "sync" /\ Take("FileList")
  /\ server' = "failed"
  /\ UNCHANGED <<s2c, buffered, garbled, job, sent, clientVars, fileVars, envVars>>

\* open fails and leaves the file as it is, or write_all after the truncation.
FullPatchFails ==
  /\ server = "patch" /\ job.kind = "Full"
  /\ disk' \in {disk, [disk EXCEPT ![job.file] = "torn"]}
  /\ server' = "failed"
  /\ UNCHANGED <<temp, pending, job, sent, channelVars, clientVars, envVars>>

\* The temporary cannot be created, or was, and the original cannot be read or
\* the delta not be applied.
PartialPatchFails ==
  /\ server = "patch" /\ job.kind = "Partial" /\ temp[job.file] = "none"
  /\ temp' \in {temp, [temp EXCEPT ![job.file] = "torn"]}
  /\ server' = "failed"
  /\ UNCHANGED <<disk, pending, job, sent, channelVars, clientVars, envVars>>

\* remove_file or rename fails.
ReplaceFails ==
  /\ server \in {"remove", "rename"}
  /\ server' = "failed"
  /\ UNCHANGED <<job, sent, channelVars, clientVars, fileVars, envVars>>

ServerStep ==
  \/ Bind \/ Accept \/ AcceptTimeout \/ ReceiveFileList \/ SendStatusDebug
  \/ ReceivePatch \/ FullPatch \/ PartialPatch \/ RemoveOriginal \/ RenameTemp
  \/ SendApplied \/ ReceiveClose \/ SyncTimeout \/ DropMessage \/ ExecTimeout
  \/ ReceiveExec \/ SendEvent \/ SendFinish \/ RunWithoutClient \/ BrokenPipe

\* Errors of the host; each ends the server.
ServerFails ==
  \/ DecodeFails \/ ListFails \/ FullPatchFails \/ PartialPatchFails
  \/ ReplaceFails

-----------------------------------------------------------------------------
(* The host and the user                                                   *)

\* The server dies from a signal; writes not on disk yet are lost with it.
Kill ==
  /\ server \notin Ended \cup {"absent"}
  /\ server' = "killed" /\ kills' = kills + 1
  /\ pending' = {}
  /\ UNCHANGED <<job, sent, disk, temp, channelVars, clientVars, diskFull,
                 sessions>>

DiskFills ==
  /\ ~ diskFull
  /\ diskFull' = TRUE
  /\ UNCHANGED <<channelVars, clientVars, serverVars, fileVars, kills,
                 sessions>>

\* The user edits some files and runs hpg again; a client waiting for the exit
\* status of a killed server has to be interrupted first.
NextSession ==
  /\ sessions < MaxSessions
  /\ client \in Over \/ (client = "waitExit" /\ server = "killed")
  /\ server \in Inert /\ pending = {}
  /\ client' = "start" /\ error' = "none"
  /\ statuses' = [f \in Files |-> "Same"] /\ toPush' = {} /\ patches' = {}
  /\ seen' = 0 /\ finishSeen' = FALSE
  /\ c2s' = <<>> /\ s2c' = <<>> /\ buffered' = 0 /\ garbled' = FALSE
  /\ server' = "absent" /\ job' = NoJob /\ sent' = 0
  /\ \E edited \in SUBSET {f \in Files : disk[f] = "current"} :
       disk' = [f \in Files |-> IF f \in edited THEN "old" ELSE disk[f]]
  /\ sessions' = sessions + 1
  /\ UNCHANGED <<temp, pending, diskFull, kills>>

SessionNext ==
  \/ StartRemote \/ ClientStep \/ ServerStep \/ ServerFails
  \/ \E f \in Files : LandWrite(f)
  \/ Kill \/ DiskFills \/ NextSession

SessionSpec == SessionInit /\ [][SessionNext]_sessionVars

\* The client and the server run as long as they can; that the run itself ends
\* is an assumption on the configuration it executes.  Nobody has to start a
\* session, to kill a server, to fill the disk or to fail.
FairSessionSpec ==
  /\ SessionSpec
  /\ WF_sessionVars(ClientStep) /\ WF_sessionVars(ServerStep)
  /\ \A f \in Files : WF_sessionVars(LandWrite(f))

-----------------------------------------------------------------------------
(* Properties                                                              *)

Statuses == {"Absent", "Same", "Differs"}
ClientMessage ==
  [type : {"FileList", "Close", "Exec"}]
    \cup [type : {"Patch"}, file : Files, kind : {"Full", "Partial"}]
ServerMessage ==
  [type : {"Debug", "Event", "Finish"}]
    \cup [type : {"PatchApplied"}, file : Files]
    \cup [type : {"FileStatus"}, status : [Files -> Statuses]]

SessionTypeOK ==
  /\ client \in {"start", "connect", "list", "status", "push", "await", "close",
                 "exec", "watch", "waitExit"} \cup Over
  /\ error \in {"none", "timeout", "order", "garbled", "eof", "io"}
  /\ statuses \in [Files -> Statuses]
  /\ toPush \subseteq Files /\ patches \subseteq Files \ toPush
  /\ seen \in 0..MaxEvents /\ finishSeen \in BOOLEAN
  /\ buffered \in 0 .. 2 * Len(s2c) /\ garbled \in BOOLEAN
  /\ server \in {"absent", "boot", "listening", "sync", "listed", "patch",
                 "remove", "rename", "applied", "waitExec", "running"}
                  \cup Inert
  /\ job \in {NoJob} \cup ClientMessage /\ sent \in 0..MaxEvents
  /\ c2s \in Seq(ClientMessage) /\ s2c \in Seq(ServerMessage)
  /\ disk \in [Files -> {"absent", "old", "torn", "current"}]
  /\ temp \in [Files -> {"none", "good", "torn"}] /\ pending \subseteq Files
  /\ diskFull \in BOOLEAN /\ kills \in 0..MaxSessions
  /\ sessions \in 1..MaxSessions

Count(seq, m) == Cardinality({i \in DOMAIN seq : seq[i] = m})

\* Whatever times out, is dropped or is killed, a server that starts to run the
\* project has the client's version of every file, or will have as soon as
\* tokio has written it.
ExecOnSyncedTree ==
  server = "running" /\ ~ diskFull =>
    \A f \in Files : disk[f] = "current" \/ f \in pending

\* While both sides are syncing, every patch the client still waits for is in
\* exactly one place: on its way, being applied, or acknowledged by a message
\* on the way back; and no other patch is anywhere.
PatchInOnePlace ==
  client \in {"push", "await"}
    /\ server \in {"sync", "listed", "patch", "remove", "rename", "applied"} =>
    \A f \in Files :
      Count(c2s, Patch(f, "Full")) + Count(c2s, Patch(f, "Partial"))
        + (IF job # NoJob /\ job.file = f THEN 1 ELSE 0)
        + Count(s2c, FileMsg("PatchApplied", f))
        = IF f \in patches THEN 1 ELSE 0

\* apply_patch never takes the last copy of a file away: when the original goes,
\* the new contents are complete in the temporary, so that a kill at any moment
\* leaves one of them.
ContentSurvives ==
  [][\A f \in Files :
       ~ diskFull /\ disk[f] # "absent" /\ disk'[f] = "absent"
         => temp'[f] = "good"]_sessionVars

\* to_local waits without a limit for a queue that the pump, which panicked when
\* the client went away during the run, will not drain any more.
Spins == server = "hung" /\ client = "failed"

\* Unless a server is killed, a session that was started ends on both sides,
\* whichever messages and timeouts cross; but for the server that Spins.
SessionEnds ==
  [](kills = 0) =>
    (client = "connect" ~> (client \in Over /\ (server \in Ended \/ Spins)))

\* "Debug: Send message back to client for debugging purposes" (messages.rs): a
\* debug message does not make the session fail.  It does when nothing has to
\* be patched: sync_files returns without having read it.
DebugHarmless ==
  error # "order"
=============================================================================
