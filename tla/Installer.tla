------------------------------- MODULE Installer -------------------------------
(***************************************************************************)
(* install() of a script, over several runs (modules/installer.rs,         *)
(* modules/archive.rs).  An archive is fetched from a url, or is a file    *)
(* that comes with the script; it is extracted, and the hash the script    *)
(* gives is written to .hpg-hash in the install directory.  The next run   *)
(* reads it to see whether there is anything to do.  Each step can fail,   *)
(* and the process can be killed at any of them.                           *)
(*                                                                         *)
(* An archive has the same parts in each version; a hash stands for the    *)
(* version it is the hash of.                                              *)
(***************************************************************************)
EXTENDS Naturals, Sequences

CONSTANTS
  Versions,     \* versions of the archive
  Parts,        \* parts of an archive: files, or chunks of a download
  MaxCalls      \* bound: calls of install()

None == 0
ASSUME InstallerAssumption ==
  Versions \subseteq Nat \ {None} /\ Parts \in Nat \ {0} /\ MaxCalls \in Nat

VARIABLES
  source,       \* InstallSource: url or file
  kind,         \* what guess_archive_type makes of the name: a type that can be
                \* unpacked, .tar.bz2, or none
  nested,       \* install_dir is given: a directory of the archive's last part
  hash,         \* the script: its hash, None if omitted
  served,       \* the version at the url, or that the script brings along
  archive,      \* the file at archive_path: versions of its parts, or absent
  created,      \* extract_dir exists
  disk,         \* version of each part in extract_dir
  hashFile,     \* .hpg-hash: a hash, or None if it is absent or empty
  pc, at,       \* where install() is, and at which part of the archive
  fetched,      \* the version this call downloads or finds
  outcome,      \* what it returned
  calls,
  recorded,     \* history: hash and version of the last archive recorded in .hpg-hash
  touched       \* history: the parts written since

scriptVars == <<source, kind, nested, hash, served>>
diskVars   == <<created, disk, hashFile, recorded, touched>>
callVars   == <<pc, at, fetched, outcome, calls>>
installVars == <<scriptVars, archive, diskVars, callVars>>

absent == <<None>>
Whole(v) == [p \in 1..Parts |-> v]

InstallInit ==
  /\ source \in {"url", "file"} /\ kind \in {"known", "bz2", "unknown"} /\ nested \in BOOLEAN
  /\ hash \in Versions \cup {None} /\ served \in Versions
  /\ archive = IF source = "file" THEN Whole(served) ELSE absent
  /\ created = FALSE /\ disk = [p \in 1..Parts |-> None] /\ hashFile = None
  /\ pc = "idle" /\ at = 0 /\ fetched = None /\ outcome = "none" /\ calls = 0
  /\ recorded = [hash |-> None, version |-> None] /\ touched = {}

Return(res) == pc' = "idle" /\ outcome' = res

\* Between two runs the script is changed, or what the url serves.
Edit ==
  /\ pc = "idle" /\ calls < MaxCalls
  /\ hash' \in Versions \cup {None} /\ served' \in Versions
  /\ archive' = IF source = "file" THEN Whole(served') ELSE archive
  /\ outcome' = "none"
  /\ UNCHANGED <<source, kind, nested, diskVars, pc, at, fetched, calls>>

-----------------------------------------------------------------------------
(* install()                                                               *)

InstallDirExists == IF nested THEN disk[Parts] # None ELSE created

\* Mutant of HashMatches: the archive is looked at first.
HashMatchesArchive ==
  hash # None /\ (archive = Whole(hash) \/ (InstallDirExists /\ hashFile = hash))

\* Without an install directory the archive's own hash is compared.
HashMatches ==
  hash # None /\ IF InstallDirExists THEN hashFile = hash ELSE archive = Whole(hash)

Skip ==
  /\ pc = "idle" /\ calls < MaxCalls /\ HashMatches
  /\ Return("skipped") /\ calls' = calls + 1
  /\ UNCHANGED <<scriptVars, archive, diskVars, at, fetched>>

\* The archive's directory cannot be made: before the hash is looked at.
NoArchiveDir ==
  /\ pc = "idle" /\ calls < MaxCalls /\ source = "url"
  /\ Return("error") /\ calls' = calls + 1
  /\ UNCHANGED <<scriptVars, archive, diskVars, at, fetched>>

\* Mutant of InstallUrl: an archive that is there is not fetched again.
InstallUrlCached ==
  /\ pc = "idle" /\ calls < MaxCalls /\ ~ HashMatches /\ source = "url"
  /\ calls' = calls + 1 /\ outcome' = "none" /\ fetched' = served
  /\ IF archive \in {Whole(v) : v \in Versions}
     THEN pc' = "extract" /\ at' = 1 /\ UNCHANGED archive
     ELSE pc' = "download" /\ archive' = <<>> /\ UNCHANGED at
  /\ UNCHANGED <<scriptVars, diskVars>>

\* download() up to the file: a status other than success leaves it alone, after
\* that it is truncated.
InstallUrl ==
  /\ pc = "idle" /\ calls < MaxCalls /\ ~ HashMatches /\ source = "url"
  /\ calls' = calls + 1 /\ fetched' = served
  /\ \/ pc' = "download" /\ outcome' = "none" /\ archive' = <<>>
     \/ Return("error") /\ UNCHANGED archive
  /\ UNCHANGED <<scriptVars, diskVars, at>>

InstallFile ==
  /\ pc = "idle" /\ calls < MaxCalls /\ ~ HashMatches /\ source = "file"
  /\ calls' = calls + 1 /\ fetched' = served
  /\ IF kind = "unknown" THEN Return("error") /\ UNCHANGED at
                         ELSE pc' = "extract" /\ at' = 1 /\ outcome' = "none"
  /\ UNCHANGED <<scriptVars, archive, diskVars>>

\* copy_to: the next chunk
Receive ==
  /\ pc = "download" /\ Len(archive) < Parts
  /\ archive' = Append(archive, fetched)
  /\ UNCHANGED <<scriptVars, diskVars, callVars>>

\* The type of the archive is guessed only now.
Received ==
  /\ pc = "download" /\ Len(archive) = Parts
  /\ IF kind = "unknown" THEN Return("error") /\ UNCHANGED at
                         ELSE pc' = "extract" /\ at' = 1 /\ UNCHANGED outcome
  /\ UNCHANGED <<scriptVars, archive, diskVars, fetched, calls>>

\* Mutant of DownloadFails: the error of copy_to is passed over.
DownloadFailsSilently ==
  /\ pc = "download"
  /\ pc' = "extract" /\ at' = 1
  /\ UNCHANGED <<scriptVars, archive, diskVars, fetched, outcome, calls>>

DownloadFails ==
  /\ pc = "download"
  /\ Return("error")
  /\ UNCHANGED <<scriptVars, archive, diskVars, at, fetched, calls>>

\* One part of the archive; what is in its place is overwritten, the rest is left.
ExtractPart ==
  /\ pc = "extract" /\ kind = "known" /\ at <= Len(archive)
  /\ created' = TRUE /\ disk' = [disk EXCEPT ![at] = archive[at]]
  /\ touched' = touched \cup {at} /\ at' = at + 1
  /\ UNCHANGED <<scriptVars, archive, hashFile, recorded, pc, fetched, outcome, calls>>

ExtractFails ==
  /\ pc = "extract"
  /\ Return("error")
  /\ UNCHANGED <<scriptVars, archive, diskVars, at, fetched, calls>>

\* Unpacking .tar.bz2 is unimplemented!(): a panic, which ends the run.
ExtractPanics ==
  /\ pc = "extract" /\ kind = "bz2"
  /\ Return("panicked")
  /\ UNCHANGED <<scriptVars, archive, diskVars, at, fetched, calls>>

\* Everything is extracted.  With a hash, .hpg-hash is opened and truncated.
Extracted ==
  /\ pc = "extract" /\ at > Parts
  /\ IF hash = None THEN Return("installed") /\ UNCHANGED hashFile
                    ELSE pc' = "record" /\ hashFile' = None /\ UNCHANGED outcome
  /\ UNCHANGED <<scriptVars, archive, created, disk, recorded, touched, at, fetched, calls>>

\* write_all: the hash of the script, whatever was extracted
WriteHash ==
  /\ pc = "record"
  /\ hashFile' = hash /\ touched' = {}
  /\ recorded' = [hash |-> hash, version |-> fetched]
  /\ Return("installed")
  /\ UNCHANGED <<scriptVars, archive, created, disk, at, fetched, calls>>

WriteHashFails ==
  /\ pc = "record"
  /\ Return("error")
  /\ UNCHANGED <<scriptVars, archive, diskVars, at, fetched, calls>>

Kill ==
  /\ pc # "idle"
  /\ Return("killed")
  /\ UNCHANGED <<scriptVars, archive, diskVars, at, fetched, calls>>

InstallNext ==
  \/ Edit \/ Skip \/ NoArchiveDir \/ InstallUrl \/ InstallFile
  \/ Receive \/ Received \/ DownloadFails
  \/ ExtractPart \/ ExtractFails \/ ExtractPanics \/ Extracted \/ WriteHash \/ WriteHashFails
  \/ Kill

InstallSpec == InstallInit /\ [][InstallNext]_installVars
-----------------------------------------------------------------------------
(* Properties                                                              *)

InstallerTypeOK ==
  /\ source \in {"url", "file"} /\ kind \in {"known", "bz2", "unknown"} /\ nested \in BOOLEAN
  /\ hash \in Versions \cup {None} /\ served \in Versions
  /\ \/ archive = absent
     \/ archive \in Seq(Versions) /\ Len(archive) <= Parts
  /\ created \in BOOLEAN /\ disk \in [1..Parts -> Versions \cup {None}]
  /\ created \/ disk = Whole(None)
  /\ hashFile \in {None, recorded.hash}
  /\ pc \in {"idle", "download", "extract", "record"}
  /\ pc \in {"extract", "record"} => kind # "unknown" /\ archive = Whole(fetched)
  /\ at \in 0 .. Parts + 1 /\ fetched \in Versions \cup {None}
  /\ outcome \in {"none", "installed", "skipped", "error", "panicked", "killed"} /\ calls \in 0..MaxCalls
  /\ recorded \in [hash : Versions \cup {None}, version : Versions \cup {None}]
  /\ touched \subseteq 1..Parts

\* install() passes over a directory only if an archive has once been extracted there
\* to its end with this very hash, and all of it is in place that a later install,
\* failed or killed, did not overwrite.  Without the directory it is passed over if
\* the archive at hand is whole: then nothing need have been extracted at all.
SkipJustified ==
  outcome = "skipped" =>
    /\ hash # None
    /\ InstallDirExists => /\ recorded.hash = hash
                           /\ \A p \in 1..Parts \ touched : disk[p] = recorded.version
    /\ ~ InstallDirExists => archive = Whole(hash)

\* An install that is not passed over leaves every part of the archive in the version
\* the source had at this call, whatever earlier calls have left in archive_path and
\* in the directory, and the hash for the next run.
InstalledIsWhole ==
  outcome = "installed" => /\ disk = Whole(fetched)
                           /\ hash # None => hashFile = hash
=============================================================================
