---------------------------- MODULE Installer_proofs ----------------------------
(***************************************************************************)
(* Theorems about install(), for archives of any size, any set of versions *)
(* and any number of calls.                                                *)
(***************************************************************************)
EXTENDS Installer, TLAPS

USE InstallerAssumption

(***************************************************************************)
(* The inductive invariant                                                 *)
(***************************************************************************)

\* The call under way: what is downloaded, extracted and recorded is of one version.
CallInv ==
  /\ pc # "idle" => outcome = "none" /\ fetched \in Versions
  /\ source = "file" => archive = Whole(served)
  /\ pc = "download" => /\ source = "url" /\ archive \in Seq(Versions)
                        /\ \A i \in 1..Len(archive) : archive[i] = fetched
  /\ pc \in {"extract", "record"} => archive = Whole(fetched)
  /\ pc = "extract" => at \in 1 .. Parts + 1 /\ \A p \in 1..Parts : p < at => disk[p] = fetched
  /\ pc = "record" => hash # None /\ disk = Whole(fetched)

\* A part that was not written since the hash was is of the hash's version.
RecordedInv == \A p \in 1..Parts \ touched : disk[p] = recorded.version

InstallerInv ==
  InstallerTypeOK /\ CallInv /\ RecordedInv /\ SkipJustified /\ InstalledIsWhole

LEMMA WholeFacts ==
  ASSUME NEW v \in Versions
  PROVE  /\ Whole(v) \in Seq(Versions) /\ Len(Whole(v)) = Parts
         /\ \A i \in 1..Parts : Whole(v)[i] = v
BY DEF Whole

LEMMA WholeAbsent ==
  /\ Whole(None) \in [1..Parts -> Versions \cup {None}]
  /\ \A i \in 1..Parts : Whole(None)[i] = None
BY DEF Whole

LEMMA EmptyArchive == <<>> \in Seq(Versions) /\ Len(<<>>) = 0
OBVIOUS

\* A sequence of Parts equal parts is a whole archive.
LEMMA WholeBySteps ==
  ASSUME NEW v \in Versions, NEW s \in Seq(Versions), Len(s) = Parts,
         \A i \in 1..Len(s) : s[i] = v
  PROVE  s = Whole(v)
BY DEF Whole

LEMMA InstallerInitially == InstallInit => InstallerInv
<1> SUFFICES ASSUME InstallInit PROVE InstallerInv
  OBVIOUS
<1>1. InstallerTypeOK
  <2>1. source = "file" => archive \in Seq(Versions) /\ Len(archive) <= Parts
    BY WholeFacts DEF InstallInit
  <2>2. disk = Whole(None) /\ disk \in [1..Parts -> Versions \cup {None}]
    BY WholeAbsent DEF InstallInit, Whole
  <2>3. archive = absent \/ (archive \in Seq(Versions) /\ Len(archive) <= Parts)
    <3>1. source \in {"url", "file"} /\ (source = "url" => archive = absent)
      BY DEF InstallInit
    <3>2. QED BY <2>1, <3>1
  <2>4. /\ at \in 0 .. Parts + 1 /\ calls \in 0..MaxCalls /\ touched \subseteq 1..Parts
        /\ recorded \in [hash : Versions \cup {None}, version : Versions \cup {None}]
        /\ hashFile \in {None, recorded.hash}
    BY DEF InstallInit
  <2>5. QED BY <2>2, <2>3, <2>4 DEF InstallInit, InstallerTypeOK
<1>2. CallInv /\ RecordedInv /\ SkipJustified /\ InstalledIsWhole
  BY DEF InstallInit, CallInv, RecordedInv, SkipJustified, InstalledIsWhole, None
<1>3. QED BY <1>1, <1>2 DEF InstallerInv

(***************************************************************************)
(* The steps                                                               *)
(***************************************************************************)

\* Between two runs: the file that comes with the script is whole again.
LEMMA EditStep ==
  ASSUME InstallerInv, Edit PROVE InstallerInv'
<1> USE DEF InstallerInv, Edit
<1>1. InstallerTypeOK'
  BY WholeFacts DEF InstallerTypeOK, CallInv, Return, scriptVars, diskVars, None
<1>2. CallInv'
  BY WholeFacts DEF InstallerTypeOK, CallInv, Return, scriptVars, diskVars
<1>3. RecordedInv'
  BY DEF RecordedInv, scriptVars, diskVars
<1>4. SkipJustified'
  BY DEF SkipJustified, CallInv, Return
<1>5. InstalledIsWhole'
  BY DEF InstalledIsWhole, CallInv, Return
<1>6. QED BY <1>1, <1>2, <1>3, <1>4, <1>5

\* A call that is passed over: the hash it found was recorded, or is the archive's.
LEMMA SkipStep ==
  ASSUME InstallerInv, Skip PROVE InstallerInv'
<1> USE DEF InstallerInv, Skip
<1>1. InstallerTypeOK'
  BY DEF InstallerTypeOK, Return, scriptVars, diskVars, None
<1>2. CallInv'
  BY DEF CallInv, Return, scriptVars, diskVars
<1>3. RecordedInv'
  BY DEF RecordedInv, diskVars
<1>4. SkipJustified'
  BY DEF SkipJustified, HashMatches, InstallDirExists, RecordedInv, InstallerTypeOK,
         Return, scriptVars, diskVars, None
<1>5. InstalledIsWhole'
  BY DEF InstalledIsWhole, Return
<1>6. QED BY <1>1, <1>2, <1>3, <1>4, <1>5

\* A call that fails before it has looked at anything
LEMMA NoArchiveDirStep ==
  ASSUME InstallerInv, NoArchiveDir PROVE InstallerInv'
<1> USE DEF InstallerInv, NoArchiveDir
<1>1. InstallerTypeOK'
  BY DEF InstallerTypeOK, Return, scriptVars, diskVars, None
<1>2. CallInv'
  BY DEF CallInv, Return, scriptVars, diskVars
<1>3. RecordedInv' /\ SkipJustified' /\ InstalledIsWhole'
  BY DEF RecordedInv, SkipJustified, InstalledIsWhole, Return, diskVars
<1>4. QED BY <1>1, <1>2, <1>3

\* A download starts, with an empty file, or fails before.
LEMMA InstallUrlStep ==
  ASSUME InstallerInv, InstallUrl PROVE InstallerInv'
<1> USE DEF InstallerInv
<1>1. InstallerTypeOK'
  <2>1. archive' = absent \/ (archive' \in Seq(Versions) /\ Len(archive') <= Parts)
    <3>1. archive' = archive \/ archive' = <<>>
      BY DEF InstallUrl
    <3>2. CASE archive' = archive
      BY <3>2 DEF InstallerTypeOK
    <3>3. CASE archive' = <<>>
      BY <3>3, EmptyArchive
    <3>4. QED BY <3>1, <3>2, <3>3
  <2>2. QED BY <2>1 DEF InstallUrl, InstallerTypeOK, Return, scriptVars, diskVars
<1>2. CallInv'
  <2>1. fetched' \in Versions /\ source' = "url" /\ pc' \in {"idle", "download"}
    BY DEF InstallUrl, InstallerTypeOK, Return, scriptVars
  <2>2. pc' = "download" => outcome' = "none" /\ archive' = <<>>
    BY DEF InstallUrl, Return
  <2>3. pc' = "download" => /\ archive' \in Seq(Versions)
                           /\ \A i \in 1..Len(archive') : archive'[i] = fetched'
    BY <2>2, EmptyArchive
  <2>4. QED BY <2>1, <2>2, <2>3 DEF CallInv
<1>3. RecordedInv' /\ SkipJustified' /\ InstalledIsWhole'
  BY DEF InstallUrl, RecordedInv, SkipJustified, InstalledIsWhole, Return, diskVars
<1>4. QED BY <1>1, <1>2, <1>3

\* The file that comes with the script is extracted.
LEMMA InstallFileStep ==
  ASSUME InstallerInv, InstallFile PROVE InstallerInv'
<1> USE DEF InstallerInv, InstallFile
<1>1. InstallerTypeOK'
  BY DEF InstallerTypeOK, CallInv, Return, scriptVars, diskVars, None
<1>2. CallInv'
  BY DEF InstallerTypeOK, CallInv, Return, scriptVars, diskVars
<1>3. RecordedInv'
  BY DEF RecordedInv, scriptVars, diskVars
<1>4. SkipJustified'
  BY DEF SkipJustified, CallInv, Return
<1>5. InstalledIsWhole'
  BY DEF InstalledIsWhole, CallInv, Return
<1>6. QED BY <1>1, <1>2, <1>3, <1>4, <1>5

\* One more part of the archive has arrived.
LEMMA ReceiveStep ==
  ASSUME InstallerInv, Receive PROVE InstallerInv'
<1> USE DEF InstallerInv, Receive
<1>1. InstallerTypeOK'
  BY DEF InstallerTypeOK, CallInv, scriptVars, diskVars, callVars
<1>2. CallInv'
  BY DEF InstallerTypeOK, CallInv, scriptVars, diskVars, callVars
<1>3. RecordedInv'
  BY DEF RecordedInv, diskVars
<1>4. SkipJustified'
  BY DEF SkipJustified, CallInv, callVars
<1>5. InstalledIsWhole'
  BY DEF InstalledIsWhole, CallInv, callVars
<1>6. QED BY <1>1, <1>2, <1>3, <1>4, <1>5

\* All parts have arrived: the archive is whole, of the version that was fetched.
LEMMA ReceivedStep ==
  ASSUME InstallerInv, Received PROVE InstallerInv'
<1> USE DEF InstallerInv, Received
<1>1. InstallerTypeOK'
  BY WholeBySteps DEF InstallerTypeOK, CallInv, Return, scriptVars, diskVars, None
<1>2. CallInv'
  BY WholeBySteps DEF InstallerTypeOK, CallInv, Return, scriptVars, diskVars
<1>3. RecordedInv'
  BY DEF RecordedInv, diskVars
<1>4. SkipJustified'
  BY DEF SkipJustified, CallInv, Return
<1>5. InstalledIsWhole'
  BY DEF InstalledIsWhole, CallInv, Return
<1>6. QED BY <1>1, <1>2, <1>3, <1>4, <1>5

\* One part is written over what was in its place, and counts as touched.
LEMMA ExtractPartStep ==
  ASSUME InstallerInv, ExtractPart PROVE InstallerInv'
<1> USE DEF InstallerInv, ExtractPart
<1>1. InstallerTypeOK'
  BY WholeFacts DEF InstallerTypeOK, CallInv, Return, scriptVars, diskVars, None
<1>2. CallInv'
  BY WholeFacts DEF InstallerTypeOK, CallInv, Return, scriptVars, diskVars
<1>3. RecordedInv'
  BY DEF RecordedInv, scriptVars, diskVars
<1>4. SkipJustified'
  BY DEF SkipJustified, CallInv, Return
<1>5. InstalledIsWhole'
  BY DEF InstalledIsWhole, CallInv, Return
<1>6. QED BY <1>1, <1>2, <1>3, <1>4, <1>5

\* Everything is extracted: all parts are of the version fetched.
LEMMA ExtractedStep ==
  ASSUME InstallerInv, Extracted PROVE InstallerInv'
<1> USE DEF InstallerInv, Extracted
<1>1. InstallerTypeOK'
  BY DEF InstallerTypeOK, CallInv, Return, scriptVars, None
<1>2. CallInv'
  BY DEF InstallerTypeOK, CallInv, Return, scriptVars, Whole
<1>3. RecordedInv'
  BY DEF RecordedInv, InstallerTypeOK
<1>4. SkipJustified'
  BY DEF SkipJustified, CallInv, Return
<1>5. InstalledIsWhole'
  BY DEF InstalledIsWhole, InstallerTypeOK, CallInv, Return, scriptVars, Whole
<1>6. QED BY <1>1, <1>2, <1>3, <1>4, <1>5

\* The hash is recorded for a directory that is whole.
LEMMA WriteHashStep ==
  ASSUME InstallerInv, WriteHash PROVE InstallerInv'
<1> USE DEF InstallerInv, WriteHash
<1>1. InstallerTypeOK'
  BY DEF InstallerTypeOK, CallInv, Return, scriptVars, None
<1>2. CallInv'
  BY DEF CallInv, Return, scriptVars
<1>3. RecordedInv'
  BY WholeFacts DEF RecordedInv, CallInv
<1>4. SkipJustified'
  BY DEF SkipJustified, CallInv, Return
<1>5. InstalledIsWhole'
  BY DEF InstalledIsWhole, CallInv, Return, scriptVars
<1>6. QED BY <1>1, <1>2, <1>3, <1>4, <1>5

\* The calls that end in an error or a panic, and the kill: they change nothing but the call.
LEMMA StopStep ==
  ASSUME InstallerInv,
         pc # "idle", pc' = "idle", outcome' \in {"error", "panicked", "killed"},
         UNCHANGED <<scriptVars, archive, diskVars, at, fetched, calls>>
  PROVE  InstallerInv'
<1> USE DEF InstallerInv
<1>1. InstallerTypeOK'
  BY DEF InstallerTypeOK, scriptVars, diskVars
<1>2. CallInv' /\ RecordedInv' /\ SkipJustified' /\ InstalledIsWhole'
  BY DEF CallInv, RecordedInv, SkipJustified, InstalledIsWhole, scriptVars, diskVars
<1>3. QED BY <1>1, <1>2

LEMMA InstallerStep == InstallerInv /\ [InstallNext]_installVars => InstallerInv'
<1> SUFFICES ASSUME InstallerInv, [InstallNext]_installVars PROVE InstallerInv'
  OBVIOUS
<1>1. CASE DownloadFails
  BY <1>1, StopStep DEF DownloadFails, Return
<1>2. CASE ExtractFails
  BY <1>2, StopStep DEF ExtractFails, Return
<1>3. CASE WriteHashFails
  BY <1>3, StopStep DEF WriteHashFails, Return
<1>4. CASE Kill
  BY <1>4, StopStep DEF Kill, Return
<1>5. CASE UNCHANGED installVars
  BY <1>5 DEF installVars, scriptVars, diskVars, callVars, InstallerInv, InstallerTypeOK,
              CallInv, RecordedInv, SkipJustified, InstalledIsWhole, InstallDirExists
<1>6. CASE ExtractPanics
  BY <1>6, StopStep DEF ExtractPanics, Return
<1>7. QED
  BY <1>1, <1>2, <1>3, <1>4, <1>5, <1>6, EditStep, SkipStep, NoArchiveDirStep, InstallUrlStep, InstallFileStep,
     ReceiveStep, ReceivedStep, ExtractPartStep, ExtractedStep, WriteHashStep
     DEF InstallNext

(***************************************************************************)
(* The theorems                                                            *)
(***************************************************************************)

\* The invariant holds in every state of every sequence of calls.
THEOREM InstallerInvariant == InstallSpec => []InstallerInv
BY InstallerInitially, InstallerStep, PTL DEF InstallSpec

\* The state is well typed; in particular nothing but a whole archive is extracted.
THEOREM InstallerTypeCorrect == InstallSpec => []InstallerTypeOK
<1>1. InstallerInv => InstallerTypeOK
  BY DEF InstallerInv
<1>2. QED BY <1>1, InstallerInvariant, PTL

\* install() passes over a directory only if its hash was recorded there, and every
\* part not written since is of the version it was recorded for.
THEOREM InstallerSkipJustified == InstallSpec => []SkipJustified
<1>1. InstallerInv => SkipJustified
  BY DEF InstallerInv
<1>2. QED BY <1>1, InstallerInvariant, PTL

\* An install that is not passed over leaves the whole archive as it was fetched.
THEOREM InstallerInstalledIsWhole == InstallSpec => []InstalledIsWhole
<1>1. InstallerInv => InstalledIsWhole
  BY DEF InstallerInv
<1>2. QED BY <1>1, InstallerInvariant, PTL
=============================================================================
