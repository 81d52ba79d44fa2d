-------------------------------- MODULE Packages --------------------------------
(***************************************************************************)
(* pkg.apt and pkg.arch (modules/pkg.rs, modules/packaging): update,       *)
(* status, install, remove and ensure, as sequences of calls to a package  *)
(* manager whose database they query before and after.                     *)
(*                                                                         *)
(* A query is a process whose output is read line by line: one line for a  *)
(* package that is there, on stdout, and one for a package that is not, on *)
(* stderr.  exec_streaming_process may lose lines of one of the streams    *)
(* (module ProcessStream); package_status accepts only as many answers as  *)
(* it asked for.  dpkg-query has a line for every architecture a name is   *)
(* on record for, and names are all that the lines say.                    *)
(*                                                                         *)
(* The package manager itself is outside of hpg: what its calls may do to  *)
(* the database is an assumption.                                          *)
(***************************************************************************)
EXTENDS Naturals, Sequences, FiniteSets

CONSTANTS
  Names,        \* package names
  MaxForeign,   \* bound: names on record for two architectures
  Elsewhere,    \* bound: statuses of a package of the second one
  MaxReqs,      \* bound: packages given to one call
  MaxCalls      \* bound: calls of the script

ASSUME PackagesAssumption ==
  IsFiniteSet(Names) /\ MaxForeign \in Nat /\ MaxReqs \in Nat /\ MaxCalls \in Nat

VARIABLES
  manager,      \* "apt" or "arch"
  db,           \* the database: a version, or why there is none
  foreign,      \* the names that are on record for another architecture too
  index,        \* the repositories' contents as last fetched
  updated,      \* pkg.<manager>._updated
  op,           \* the function being called
  pc,           \* where it is
  args,         \* its argument, a list of install requests
  asked,        \* the packages of the last query
  answer,       \* the lines read from it
  wanted,       \* the positions in args of what install_packages is called with
  result,       \* what the last call has returned
  before,       \* the database when the call began
  collateral,   \* an install has removed or upgraded a package it was not given
  calls         \* number of calls so far

callVars == <<op, pc, args, asked, answer, wanted, result>>
pkgVars == <<manager, db, foreign, index, updated, callVars, before, collateral, calls>>

Versions == {"v1", "v2"}
Latest(i) == IF i = "stale" THEN "v1" ELSE "v2"
\* dpkg also has on record a package that was removed but for its configuration, is
\* half installed, or is installed although its selection is another than `install':
\* on hold, or to be deinstalled.
States(m) == Versions \cup {"absent"} \cup (IF m = "apt" THEN {"config", "half", "held"} ELSE {})

Any == "any"                            \* a request without a version
Requests == [name : Names, version : Versions \cup {Any}]
Named(positions) == {args[i].name : i \in positions}

NoResult == [status |-> "none", updated |-> FALSE]
Failed   == [status |-> "error", updated |-> FALSE]
Ok(u)    == [status |-> "ok", updated |-> u]

PkgInit ==
  /\ manager \in {"apt", "arch"}
  /\ db \in [Names -> States(manager)] /\ before = db
  /\ foreign \in SUBSET Names /\ Cardinality(foreign) <= MaxForeign
  /\ manager = "arch" => foreign = {}
  /\ index = "stale" /\ updated = FALSE
  /\ op = "none" /\ pc = "idle" /\ args = <<>> /\ asked = {} /\ answer = {}
  /\ wanted = {} /\ result = NoResult
  /\ collateral = FALSE /\ calls = 0

Begin(f) ==
  /\ pc = "idle" /\ calls < MaxCalls
  /\ calls' = calls + 1 /\ op' = f /\ before' = db /\ collateral' = FALSE
  /\ asked' = {} /\ answer' = {}

Return(res) == pc' = "idle" /\ result' = res

-----------------------------------------------------------------------------
(* update                                                                  *)

\* update(force) with the repositories fetched before
UpdateSkipped ==
  /\ Begin("update") /\ updated
  /\ Return(Ok(FALSE))
  /\ args' = <<>> /\ wanted' = {}
  /\ UNCHANGED <<manager, db, foreign, index, updated>>

\* update(true), or the first update
UpdateRepos ==
  /\ Begin("update")
  /\ args' = <<>> /\ wanted' = {}
  /\ \/ index' = "fresh" /\ updated' = TRUE /\ Return(Ok(TRUE))
     \/ Return(Failed) /\ UNCHANGED <<index, updated>>
  /\ UNCHANGED <<manager, db, foreign>>

-----------------------------------------------------------------------------
(* package_status                                                          *)

\* Installed is what is installed and selected to be.
Status(state) ==
  CASE state \in Versions -> state
    [] state = "half" -> "requested"
    [] OTHER -> "notinstalled"

\* dpkg-query and pacman -Q: what is on record is printed once, for each architecture
\* (other: the statuses of the packages of another one); what is not is complained
\* about, by dpkg-query once for every time it was asked for.  The lines from both
\* calls of pacman are put into a set.
Stdout(other) ==
  {[name |-> n, arch |-> "own", status |-> Status(db[n]), at |-> 0] :
     n \in {m \in Named(wanted) : db[m] # "absent"}}
  \cup {[name |-> n, arch |-> "other", status |-> other[n], at |-> 0] :
          n \in Named(wanted) \cap foreign}
Stderr ==
  {[name |-> args[i].name, arch |-> "none", status |-> "notinstalled",
    at |-> IF manager = "apt" THEN i ELSE 0] :
     i \in {j \in wanted : db[args[j].name] = "absent" /\ args[j].name \notin foreign}}

\* What may be read of the two streams: one of them has all of its lines.
Readings ==
  UNION {{lines \in SUBSET (Stdout(other) \cup Stderr) : Stdout(other) \subseteq lines \/ Stderr \subseteq lines} :
           other \in [Named(wanted) \cap foreign -> Elsewhere]}

Ask(next) ==
  \E lines \in Readings :
    /\ asked' = Named(wanted)
    /\ IF Cardinality(lines) = Cardinality(wanted)
       THEN answer' = lines /\ pc' = next /\ UNCHANGED result
       ELSE answer' = {} /\ Return(Failed)

After == CASE pc = "check" -> "checked" [] pc = "status" -> "known" [] pc = "verify" -> "verified"

\* Mutant of Query: no check of the number of answers.
QueryUnchecked ==
  /\ pc \in {"check", "status", "verify"}
  /\ answer' \in Readings
  /\ asked' = Named(wanted) /\ pc' = After
  /\ UNCHANGED <<manager, db, foreign, index, updated, op, args, wanted, result, before,
                 collateral, calls>>

\* package_status, with the number of answers checked: of ensure, at the start
\* of install_packages, and at the end of it or of remove_packages.
Query ==
  /\ pc \in {"check", "status", "verify"}
  /\ Ask(After)
  /\ UNCHANGED <<manager, db, foreign, index, updated, op, args, wanted, before,
                 collateral, calls>>

\* The process could not be run, or printed something else.
QueryFails ==
  /\ pc \in {"check", "status", "verify"}
  /\ Return(Failed)
  /\ UNCHANGED <<manager, db, foreign, index, updated, op, args, asked, answer, wanted,
                 before, collateral, calls>>

Answered(statuses) == {line.name : line \in {l \in answer : l.status \in statuses}}

-----------------------------------------------------------------------------
(* The calls of the script                                                 *)

CallStatus(n) ==
  /\ Begin("status") /\ pc' = "verify"
  /\ args' = <<[name |-> n, version |-> Any]>> /\ wanted' = {1}
  /\ UNCHANGED <<manager, db, foreign, index, updated, result>>

CallInstall(reqs) ==
  /\ Begin("install") /\ pc' = "status"
  /\ args' = reqs /\ wanted' = DOMAIN reqs
  /\ UNCHANGED <<manager, db, foreign, index, updated, result>>

CallEnsure(reqs) ==
  /\ Begin("ensure") /\ pc' = "check"
  /\ args' = reqs /\ wanted' = DOMAIN reqs
  /\ UNCHANGED <<manager, db, foreign, index, updated, result>>

CallRemove(reqs) ==
  /\ Begin("remove") /\ pc' = "remove"
  /\ args' = reqs /\ wanted' = DOMAIN reqs
  /\ UNCHANGED <<manager, db, foreign, index, updated, result>>

-----------------------------------------------------------------------------
(* ensure                                                                  *)

\* Mutant of Missing: a package that is only requested counts as installed.
MissingNotRequested == Answered({"notinstalled"})

Missing == Answered({"notinstalled", "requested"})

\* Nothing is missing: versions are not looked at.
EnsureNothing ==
  /\ pc = "checked" /\ Missing = {}
  /\ Return(Ok(FALSE))
  /\ UNCHANGED <<manager, db, foreign, index, updated, op, args, asked, answer, wanted,
                 before, collateral, calls>>

\* Mutant of EnsureMissing: the filter keeps the wrong half of the requests.
EnsureMissingInverted ==
  /\ pc = "checked" /\ Missing # {}
  /\ wanted' = {i \in DOMAIN args : args[i].name \notin Missing}
  /\ pc' = "status"
  /\ UNCHANGED <<manager, db, foreign, index, updated, op, args, asked, answer, result,
                 before, collateral, calls>>

\* Something is missing: the repositories are fetched unless update() has done so,
\* and install_packages is called with the missing ones.  The flag stays as it is.
EnsureMissing ==
  /\ pc = "checked" /\ Missing # {}
  /\ wanted' = {i \in DOMAIN args : args[i].name \in Missing}
  /\ \/ updated /\ pc' = "status" /\ UNCHANGED <<index, result>>
     \/ ~ updated /\ index' = "fresh" /\ pc' = "status" /\ UNCHANGED result
     \/ ~ updated /\ Return(Failed) /\ UNCHANGED index
  /\ UNCHANGED <<manager, db, foreign, updated, op, args, asked, answer, before, collateral,
                 calls>>

-----------------------------------------------------------------------------
(* install_packages                                                        *)

\* The request for a name is the first one with it.
IsFirst(i) == \A j \in wanted : args[j].name = args[i].name => i <= j
RequestFor(n) == args[CHOOSE i \in wanted : args[i].name = n /\ IsFirst(i)]

\* Mutant of ToInstall: an installed package is left alone whatever its version.
ToInstallAbsent ==
  {RequestFor(line.name) : line \in {l \in answer : l.status \notin Versions}}

\* What is not installed, or not in the version asked for
ToInstall ==
  {RequestFor(line.name) :
     line \in {l \in answer : \/ l.status \notin Versions
                              \/ RequestFor(l.name).version \notin {Any, l.status}}}

InstallNothing ==
  /\ pc = "known" /\ ToInstall = {}
  /\ Return(Ok(op = "ensure"))
  /\ UNCHANGED <<manager, db, foreign, index, updated, op, args, asked, answer, wanted,
                 before, collateral, calls>>

Resolved(req, i) == IF req.version = Any THEN Latest(i) ELSE req.version

\* call_install succeeds: what was asked for is installed, but for names that only
\* other packages provide, and packages that stay on hold.  pacman -Syu fetches the
\* repositories and upgrades everything; apt may remove a package that is in the way.
InstallSucceeds ==
  LET i       == IF manager = "arch" THEN "fresh" ELSE index
      names   == {req.name : req \in ToInstall}
  IN  /\ pc = "known" /\ ToInstall # {}
      /\ \A req \in ToInstall :
           req.version \in {Any, Latest(i)} \cup (IF manager = "apt" THEN {"v1"} ELSE {})
      /\ \E same \in SUBSET {n \in names : db[n] \notin Versions},
            victims \in SUBSET {n \in Names \ names : db[n] \in Versions} :
           /\ manager = "arch" => victims = {}
           /\ db' = [n \in Names |->
                CASE n \in victims -> "config"
                  [] n \in names \ same -> Resolved(RequestFor(n), i)
                  [] manager = "arch" /\ db[n] \in Versions /\ n \notin names -> "v2"
                  [] OTHER -> db[n]]
           /\ collateral' = (\E n \in Names \ names : db'[n] # db[n])
      /\ index' = i /\ pc' = "verify"
      /\ UNCHANGED <<manager, foreign, updated, op, args, asked, answer, wanted, result,
                     before, calls>>

\* call_install exits with an error, with any of the packages done, half done or
\* not touched; the error ends the call.
InstallFails ==
  /\ pc = "known" /\ ToInstall # {}
  /\ \E n \in {req.name : req \in ToInstall}, s \in States(manager) :
       db' = [db EXCEPT ![n] = IF s \in Versions \cup {"half"} THEN s ELSE @]
  /\ index' \in IF manager = "arch" THEN {index, "fresh"} ELSE {index}
  /\ Return(Failed)
  /\ UNCHANGED <<manager, foreign, updated, op, args, asked, answer, wanted, before,
                 collateral, calls>>

-----------------------------------------------------------------------------
(* remove_packages                                                         *)

\* call_remove: apt keeps the configuration and passes over what is not installed.
\* That its success removed every package, one on hold say, is not taken for granted.
RemoveSucceeds ==
  /\ pc = "remove"
  /\ manager = "arch" => \A n \in Named(wanted) : db[n] # "absent"
  /\ \E kept \in SUBSET Named(wanted) :
       /\ manager = "arch" => kept = {}
       /\ db' = [n \in Names |->
            IF n \in Named(wanted) \ kept /\ db[n] # "absent"
            THEN (IF manager = "apt" THEN "config" ELSE "absent") ELSE db[n]]
  /\ pc' = "verify"
  /\ UNCHANGED <<manager, foreign, index, updated, op, args, asked, answer, wanted, result,
                 before, collateral, calls>>

RemoveFails ==
  /\ pc = "remove"
  /\ Return(Failed)
  /\ UNCHANGED <<manager, db, foreign, index, updated, op, args, asked, answer, wanted,
                 before, collateral, calls>>

-----------------------------------------------------------------------------
\* The status after the call: an error if a package is still missing, or still there.
Verified ==
  /\ pc = "verified"
  /\ CASE op \in {"install", "ensure"} ->
            Return(IF Answered({"notinstalled"}) = {} THEN Ok(op = "ensure") ELSE Failed)
       [] op = "remove" ->
            Return(IF Answered(Versions) = {} THEN Ok(FALSE) ELSE Failed)
       [] op = "status" -> Return(Ok(FALSE))
  /\ UNCHANGED <<manager, db, foreign, index, updated, op, args, asked, answer, wanted,
                 before, collateral, calls>>

Lists == UNION {[1..k -> Requests] : k \in 1..MaxReqs}

PkgNext ==
  \/ UpdateSkipped \/ UpdateRepos
  \/ \E n \in Names : CallStatus(n)
  \/ \E reqs \in Lists : CallInstall(reqs) \/ CallEnsure(reqs)
  \/ \E reqs \in Lists : (\A i \in DOMAIN reqs : reqs[i].version = Any) /\ CallRemove(reqs)
  \/ Query \/ QueryFails \/ EnsureNothing \/ EnsureMissing
  \/ InstallNothing \/ InstallSucceeds \/ InstallFails
  \/ RemoveSucceeds \/ RemoveFails \/ Verified

PkgSpec == PkgInit /\ [][PkgNext]_pkgVars

-----------------------------------------------------------------------------
(* Properties                                                              *)

PkgTypeOK ==
  /\ manager \in {"apt", "arch"}
  /\ db \in [Names -> States(manager)] /\ before \in [Names -> States(manager)]
  /\ foreign \subseteq Names
  /\ index \in {"stale", "fresh"} /\ updated \in BOOLEAN
  /\ op \in {"none", "update", "status", "install", "ensure", "remove"}
  /\ pc \in {"idle", "check", "checked", "status", "known", "remove", "verify", "verified"}
  /\ args \in Seq(Requests) /\ wanted \subseteq DOMAIN args
  /\ pc \in {"status", "verify"} => wanted # {}
  /\ asked \subseteq Names /\ \A line \in answer : line.name \in asked
  /\ result.status \in {"none", "ok", "error"} /\ result.updated \in BOOLEAN
  /\ collateral \in BOOLEAN /\ calls \in 0..MaxCalls

\* An accepted answer is the truth about every package asked for, although lines of
\* the query may be lost and names may be repeated: the counts would not agree.  What
\* it says of a package on hold is that it is not installed.  Names on record for a
\* second architecture are excepted: their second line may stand in for a lost one.
OneLineEach(names) == names \cap foreign = {}
StatusAccurate ==
  pc \in {"checked", "known", "verified"} /\ OneLineEach(asked) =>
    {<<line.name, line.status>> : line \in answer} = {<<n, Status(db[n])>> : n \in asked}

\* A call that returns without an error has done what its name says: after remove()
\* nothing of it is installed, but for what is on hold; after install() and ensure()
\* nothing of it is missing, nor on hold; and after install() each package is there in
\* the version asked for first.  What the package manager did to packages it was not
\* given is excepted: ensure() does not look again at those that were there, nor
\* install() at versions; and so are calls with names of a second architecture.
Succeeded(f) == pc = "idle" /\ op = f /\ result.status = "ok" /\ OneLineEach(Named(DOMAIN args))
FirstFor(i) == \A j \in 1 .. i - 1 : args[j].name # args[i].name
CallsEffective ==
  /\ Succeeded("remove") => \A n \in Named(DOMAIN args) : db[n] \notin Versions
  /\ Succeeded("ensure") /\ ~ collateral =>
       \A n \in Named(DOMAIN args) : Status(db[n]) # "notinstalled"
  /\ Succeeded("install") =>
       \A i \in DOMAIN args :
         /\ Status(db[args[i].name]) # "notinstalled"
         /\ FirstFor(i) /\ ~ collateral /\ db[args[i].name] \in Versions =>
              args[i].version \in {Any, db[args[i].name]}

\* ensure() reports `updated' if a package was missing, or on hold, when it was called,
\* does not if all were there in the versions requested, and leaves the system as it is
\* when it does not: a configuration can be applied again.  A package that was there in
\* another version is left out: ensure() does not look at versions (mod.rs:114-123),
\* although its documentation makes them count (hpgdefs.lua:294).  Calls with names of
\* a second architecture are excepted here too.
EnsureIdempotent ==
  Succeeded("ensure") =>
    /\ (\E n \in Named(DOMAIN args) : before[n] \notin Versions) => result.updated
    /\ (\A i \in DOMAIN args : before[args[i].name] \in Versions
                              /\ args[i].version \in {Any, before[args[i].name]}) => ~ result.updated
    /\ ~ result.updated => db = before

=============================================================================
