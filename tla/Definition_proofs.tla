--------------------------- MODULE Definition_proofs ---------------------------
(***************************************************************************)
(* Proofs about the definition phase, for scripts of any length over any   *)
(* set of names.                                                           *)
(***************************************************************************)
EXTENDS Definition, TLAPS, SequenceTheorems

(***************************************************************************)
(* The inductive invariant                                                 *)
(***************************************************************************)

\* The part of the state that the properties below depend on.
Base ==
  /\ nextId \in Nat \ {0}
  /\ graph \in Seq(Seq(Nat)) /\ Len(graph) = nextId - 1
  /\ globals \in [Names -> Nat] /\ named \in [Names -> Nat]
  /\ calls \in Nat
  /\ phase \in {"script", "ready", "failed"}

\* A resolved name has an entry, which is never replaced.
ResolvedInv ==
  \A r \in resolved : r[1] \in Names /\ r[2] # 0 /\ named[r[1]] = r[2]

\* Only target() registers names while the script runs.
NamesInv ==
  phase = "script" /\ calls = 0 => \A n \in Names : named[n] = 0

DefInv ==
  /\ Base
  /\ GraphWellFounded
  /\ ResolvedInv
  /\ NamesInv
  /\ BindingsHaveNames

LEMMA InitDefInv == DefInit => DefInv
<1> SUFFICES ASSUME DefInit PROVE DefInv
  OBVIOUS
<1>1. Base
  BY DEF DefInit, Base
<1>2. GraphWellFounded
  BY DEF DefInit, GraphWellFounded
<1>3. ResolvedInv /\ NamesInv /\ BindingsHaveNames
  BY DEF DefInit, ResolvedInv, NamesInv, BindingsHaveNames
<1>4. QED BY <1>1, <1>2, <1>3 DEF DefInv

\* The first registration of a name stays, and every bound global has one.
LEMMA FindTasksFacts ==
  ASSUME Base
  PROVE  /\ FindTasks(named) \in [Names -> Nat]
         /\ \A n \in Names :
              /\ named[n] # 0 => FindTasks(named)[n] = named[n]
              /\ named[n] = 0 => FindTasks(named)[n] = globals[n]
BY DEF Base, FindTasks

\* The dependencies given to one call of task() were returned by earlier calls.
LEMMA DependenciesDefined ==
  ASSUME Base, NEW ds \in SeqUpTo(Defined, MaxDeps)
  PROVE  ds \in Seq(Nat) /\ \A i \in DOMAIN ds : ds[i] \in 1 .. nextId - 1
<1>1. PICK k \in 0..MaxDeps : ds \in [1..k -> Defined]
  BY DEF SeqUpTo
<1>2. k \in Nat /\ Defined \subseteq Nat
  BY DefinitionAssumption DEF Base, Defined
<1>3. ds \in [1..k -> Nat]
  BY <1>1, <1>2
<1>4. ds \in Seq(Nat)
  BY <1>2, <1>3, SeqDef
<1>5. QED BY <1>1, <1>4 DEF Defined

LEMMA DefineTaskDefInv ==
  ASSUME DefInv, NEW n \in Names, NEW ds \in SeqUpTo(Defined, MaxDeps),
         NEW body \in BOOLEAN, DefineTask(n, ds, body)
  PROVE  DefInv'
<1> USE DEF DefInv
<1>1. ds \in Seq(Nat) /\ \A i \in DOMAIN ds : ds[i] \in 1 .. nextId - 1
  BY DependenciesDefined
<1>2. /\ graph' \in Seq(Seq(Nat)) /\ Len(graph') = Len(graph) + 1
      /\ \A t \in 1..Len(graph) : graph'[t] = graph[t]
      /\ graph'[Len(graph) + 1] = ds
  BY <1>1 DEF DefineTask, Base
<1>3. globals' \in [Names -> Nat] /\ nextId' = nextId + 1 /\ phase = "script"
      /\ UNCHANGED <<named, resolved, calls, phase>>
  BY DEF DefineTask, Base
<1>4. Base'
  BY <1>2, <1>3 DEF Base
<1>5. GraphWellFounded'
  <2> SUFFICES ASSUME NEW t \in 1 .. Len(graph) + 1, NEW i \in DOMAIN graph'[t]
               PROVE  graph'[t][i] \in 1 .. t - 1
    BY <1>2 DEF GraphWellFounded
  <2>1. CASE t = Len(graph) + 1
    BY <1>1, <1>2, <2>1 DEF Base
  <2>2. CASE t \in 1 .. Len(graph)
    <3>1. t \in DOMAIN graph /\ graph'[t] = graph[t]
      BY <1>2, <2>2 DEF Base
    <3>2. QED BY <3>1 DEF GraphWellFounded
  <2>3. QED BY <2>1, <2>2 DEF Base
<1>6. ResolvedInv' /\ NamesInv' /\ BindingsHaveNames'
  BY <1>3 DEF ResolvedInv, NamesInv, BindingsHaveNames
<1>7. QED BY <1>4, <1>5, <1>6

LEMMA TargetDefInv ==
  ASSUME DefInv, NEW args \in SeqUpTo(Arguments, MaxArgs), Target(args)
  PROVE  DefInv'
<1> USE DEF DefInv
<1> DEFINE names == FindTasks(named)
           ids   == [i \in DOMAIN args |-> Lookup(names, args[i])]
<1>1. /\ phase = "script" /\ calls' = calls + 1 /\ named' = names
      /\ UNCHANGED <<nextId, graph, globals, phase>>
      /\ \A i \in DOMAIN args : ids[i] # 0
      /\ resolved' = resolved \cup
            {<<args[i].name, ids[i]>> : i \in {j \in DOMAIN args : args[j].task = 0}}
  BY DEF Target
<1>2. Base' /\ NamesInv' /\ BindingsHaveNames' /\ GraphWellFounded'
  BY <1>1, FindTasksFacts DEF Base, NamesInv, BindingsHaveNames, GraphWellFounded
<1>3. ASSUME NEW i \in DOMAIN args, args[i].task = 0
      PROVE  args[i].name \in Names
  <2>1. PICK k \in 0..MaxArgs : args \in [1..k -> Arguments]
    BY DEF SeqUpTo
  <2>2. args[i] \in Arguments
    BY <2>1
  <2>3. \A t \in Defined : ByTask(t).task # 0
    BY DEF ByTask, Defined, Base
  <2>4. PICK n \in Names : args[i] = ByName(n)
    BY <1>3, <2>2, <2>3 DEF Arguments
  <2>5. QED BY <2>4 DEF ByName
<1>4. ResolvedInv'
  <2> SUFFICES ASSUME NEW r \in resolved'
               PROVE  r[1] \in Names /\ r[2] # 0 /\ names[r[1]] = r[2]
    BY <1>1 DEF ResolvedInv
  <2>1. CASE r \in resolved
    BY <2>1, FindTasksFacts DEF ResolvedInv
  <2>2. CASE r \notin resolved
    <3>1. PICK i \in DOMAIN args : args[i].task = 0 /\ r = <<args[i].name, ids[i]>>
      BY <1>1, <2>2
    <3>2. ids[i] = names[args[i].name]
      BY <3>1 DEF Lookup
    <3>3. QED BY <1>1, <1>3, <3>1, <3>2
  <2>3. QED BY <2>1, <2>2
<1>5. QED BY <1>2, <1>4

LEMMA EndScriptDefInv ==
  ASSUME DefInv, EndScript
  PROVE  DefInv'
<1> USE DEF DefInv, EndScript
<1>1. Base' /\ GraphWellFounded' /\ NamesInv'
  BY FindTasksFacts DEF Base, GraphWellFounded, NamesInv
<1>2. ResolvedInv'
  BY FindTasksFacts DEF ResolvedInv
<1>3. BindingsHaveNames'
  BY FindTasksFacts DEF Base, NamesInv, BindingsHaveNames
<1>4. QED BY <1>1, <1>2, <1>3

LEMMA UnbindDefInv ==
  ASSUME DefInv, NEW n \in Names, Unbind(n)
  PROVE  DefInv'
BY DEF DefInv, Unbind, Base, GraphWellFounded, ResolvedInv, NamesInv,
       BindingsHaveNames

LEMMA TargetFailsDefInv ==
  ASSUME DefInv, TargetFails
  PROVE  DefInv'
<1> USE DEF DefInv
<1>1. PICK found \in SUBSET Names :
        named' = [n \in Names |-> IF n \in found THEN FindTasks(named)[n] ELSE named[n]]
  BY DEF TargetFails
<1>2. phase = "script" /\ calls' = calls + 1
      /\ UNCHANGED <<nextId, graph, globals, resolved, phase>>
  BY DEF TargetFails
<1>3. named' \in [Names -> Nat] /\ \A n \in Names : named[n] # 0 => named'[n] = named[n]
  BY <1>1, FindTasksFacts DEF Base
<1>4. Base' /\ NamesInv' /\ BindingsHaveNames' /\ GraphWellFounded'
  BY <1>2, <1>3 DEF Base, NamesInv, BindingsHaveNames, GraphWellFounded
<1>5. ResolvedInv'
  BY <1>2, <1>3 DEF ResolvedInv
<1>6. QED BY <1>4, <1>5

\* The steps that touch neither the graph nor the names.
Others ==
  \/ ScriptError \/ UNCHANGED defVars
  \/ \E ids \in SUBSET Ids : AssignVarTasks(ids)
  \/ \E list \in SeqUpTo(Defined, MaxArgs) : AssignVarTargets(list)

LEMMA OthersDefInv ==
  ASSUME DefInv, Others
  PROVE  DefInv'
<1>1. /\ UNCHANGED <<nextId, graph, globals, named, resolved, calls>>
      /\ phase' = phase \/ phase' = "failed"
  BY DEF Others, ScriptError, AssignVarTasks, AssignVarTargets, defVars
<1>2. QED BY <1>1 DEF DefInv, Base, GraphWellFounded, ResolvedInv, NamesInv,
                      BindingsHaveNames

\* The graph and the names agree at every step of every script.
THEOREM DefinitionInvariant == DefSpec => []DefInv
<1>1. DefInv /\ [DefNext]_defVars => DefInv'
  BY DefineTaskDefInv, TargetDefInv, TargetFailsDefInv, EndScriptDefInv, UnbindDefInv,
     OthersDefInv
  DEF DefNext, Others
<1>2. QED BY InitDefInv, <1>1, PTL DEF DefSpec

(***************************************************************************)
(* The properties                                                          *)
(***************************************************************************)

\* The graph that eval() builds has only registered tasks as dependencies, and no
\* cycle: what DepGraphsAssumption of TaskPlan asks for.
THEOREM DefGraphWellFounded == DefSpec => []GraphWellFounded
<1>1. QED BY DefinitionInvariant, PTL DEF DefInv

\* A name that target() has resolved keeps its task for the command line.
THEOREM DefNamesKeepMeaning == DefSpec => []NamesKeepMeaning
<1>1. DefInv => NamesKeepMeaning
  BY DEF DefInv, ResolvedInv, NamesKeepMeaning
<1>2. QED BY DefinitionInvariant, <1>1, PTL

\* Every bound global has a name once the script has run.
THEOREM DefBindingsHaveNames == DefSpec => []BindingsHaveNames
<1>1. DefInv => BindingsHaveNames
  BY DEF DefInv
<1>2. QED BY DefinitionInvariant, <1>1, PTL

(***************************************************************************)
(* The types, and what eval() hands over                                   *)
(***************************************************************************)

DefTypeInv == DefTypeOK /\ SlotsKept

LEMMA DefinedTypes ==
  ASSUME DefTypeOK
  PROVE  nextId \in Nat \ {0} /\ Defined \subseteq Ids /\ Defined \subseteq Nat \ {0}
BY DefinitionAssumption DEF DefTypeOK, Defined, Ids

LEMMA InitDefTypeInv == DefInit => DefTypeInv
<1> SUFFICES ASSUME DefInit PROVE DefTypeInv
  OBVIOUS
<1>1. <<>> \in Seq(Seq(Ids)) /\ <<>> \in Seq(Defined) /\ Len(<<>>) = 0 /\ DOMAIN <<>> = {}
  OBVIOUS
<1>2. nextId = 1 /\ nextId \in 1 .. MaxTasks + 1 /\ calls \in 0 .. MaxTargets
  BY DefinitionAssumption DEF DefInit
<1>3. globals \in [Names -> 0 .. nextId - 1] /\ named \in [Names -> 0 .. nextId - 1]
  BY <1>2 DEF DefInit
<1>4. DefTypeOK
  BY <1>1, <1>2, <1>3 DEF DefInit, DefTypeOK
<1>5. SlotsKept
  BY <1>1 DEF DefInit, SlotsKept
<1>6. QED BY <1>4, <1>5 DEF DefTypeInv

\* A list of at most n elements of S is a sequence.
LEMMA SeqUpToType ==
  ASSUME NEW S, NEW n \in Nat, NEW s \in SeqUpTo(S, n)
  PROVE  s \in Seq(S)
<1>1. PICK k \in 0..n : s \in [1..k -> S]
  BY DEF SeqUpTo
<1>2. QED BY <1>1, SeqDef

LEMMA SeqSubset ==
  ASSUME NEW S, NEW T, S \subseteq T, NEW s \in Seq(S)
  PROVE  s \in Seq(T)
OBVIOUS

\* What is behind the end of a sequence is what was appended.
LEMMA Concatenation ==
  ASSUME NEW S, NEW a \in Seq(S), NEW b \in Seq(S)
  PROVE  /\ a \o b \in Seq(S) /\ DOMAIN (a \o b) = 1 .. Len(a) + Len(b)
         /\ \A i \in DOMAIN a : (a \o b)[i] = a[i]
         /\ \A i \in DOMAIN (a \o b) : i \notin DOMAIN a =>
              i - Len(a) \in DOMAIN b /\ (a \o b)[i] = b[i - Len(a)]
<1>1. Len(a) \in Nat /\ DOMAIN a = 1 .. Len(a) /\ Len(b) \in Nat /\ DOMAIN b = 1 .. Len(b)
  BY LenProperties
<1>2. /\ a \o b \in Seq(S) /\ Len(a \o b) = Len(a) + Len(b)
      /\ \A i \in 1 .. Len(a) + Len(b) :
           (a \o b)[i] = IF i <= Len(a) THEN a[i] ELSE b[i - Len(a)]
  BY ConcatProperties
<1>3. DOMAIN (a \o b) = 1 .. Len(a) + Len(b)
  BY <1>2, LenProperties
<1>4. QED BY <1>1, <1>2, <1>3

\* target() keeps a list that is free of repetitions so.
LEMMA NewTargetsFacts ==
  ASSUME NEW S, NEW list \in Seq(S), NEW n \in Nat, NEW ids \in [1..n -> S],
         NEW new \in NewTargets(list, ids)
  PROVE  /\ list \o new \in Seq(S)
         /\ (\A i, j \in DOMAIN list : list[i] = list[j] => i = j) =>
              \A i, j \in DOMAIN (list \o new) : (list \o new)[i] = (list \o new)[j] => i = j
<1>1. Range(ids) \subseteq S /\ Len(ids) = n
  BY DEF Range
<1>2. /\ new \in SeqUpTo(Range(ids), n) /\ Range(new) = Range(ids) \ Range(list)
      /\ \A j, k \in DOMAIN new : j < k =>
           \E i \in DOMAIN ids : ids[i] = new[j] /\ \A l \in 1..i : ids[l] # new[k]
  BY <1>1 DEF NewTargets
<1>3. new \in Seq(S)
  <2>1. new \in Seq(Range(ids))
    BY <1>2, SeqUpToType
  <2>2. QED BY <1>1, <2>1
<1>4. /\ Len(list) \in Nat /\ DOMAIN list = 1 .. Len(list)
      /\ Len(new) \in Nat /\ DOMAIN new = 1 .. Len(new)
  BY <1>3, LenProperties
<1>5. ASSUME NEW j \in DOMAIN new, NEW k \in DOMAIN new, j < k
      PROVE  new[j] # new[k]
  <2>1. PICK i \in DOMAIN ids : ids[i] = new[j] /\ \A l \in 1..i : ids[l] # new[k]
    BY <1>2, <1>5
  <2>2. i \in 1..i
    BY <2>1
  <2>3. QED BY <2>1, <2>2
<1>6. \A i \in DOMAIN list, j \in DOMAIN new : list[i] # new[j]
  BY <1>2 DEF Range
<1> DEFINE all == list \o new
<1>7. /\ all \in Seq(S) /\ DOMAIN all = 1 .. Len(list) + Len(new)
      /\ \A i \in DOMAIN list : all[i] = list[i]
      /\ \A i \in DOMAIN all : i \notin DOMAIN list =>
           i - Len(list) \in DOMAIN new /\ all[i] = new[i - Len(list)]
  BY <1>3, Concatenation
<1> HIDE DEF all
<1> SUFFICES ASSUME \A i, j \in DOMAIN list : list[i] = list[j] => i = j
             PROVE  \A i, j \in DOMAIN all : all[i] = all[j] => i = j
  BY <1>7 DEF all
<1>8. ASSUME NEW i \in DOMAIN all, NEW j \in DOMAIN all, i < j
      PROVE  all[i] # all[j]
  <2>1. CASE j \in DOMAIN list
    <3>1. i \in DOMAIN list
      BY <1>4, <1>7, <1>8, <2>1
    <3>2. i # j
      BY <1>7, <1>8
    <3>3. QED BY <1>7, <2>1, <3>1, <3>2
  <2>2. CASE i \in DOMAIN list /\ j \notin DOMAIN list
    BY <1>6, <1>7, <2>2
  <2>3. CASE i \notin DOMAIN list /\ j \notin DOMAIN list
    <3>1. i - Len(list) < j - Len(list)
      BY <1>4, <1>7, <1>8
    <3>2. QED BY <1>5, <1>7, <2>3, <3>1
  <2>4. QED BY <2>1, <2>2, <2>3
<1>9. \A i, j \in DOMAIN all : all[i] = all[j] => i = j
  <2> SUFFICES ASSUME NEW i \in DOMAIN all, NEW j \in DOMAIN all, i # j
               PROVE  all[i] # all[j]
    OBVIOUS
  <2>1. i < j \/ j < i
    BY <1>4, <1>7
  <2>2. QED BY <1>8, <2>1
<1>10. QED BY <1>9

LEMMA DefineTaskTypes ==
  ASSUME DefTypeInv, NEW n \in Names, NEW ds \in SeqUpTo(Defined, MaxDeps),
         NEW body \in BOOLEAN, DefineTask(n, ds, body)
  PROVE  DefTypeInv'
<1> USE DEF DefTypeInv
<1>1. /\ nextId' = nextId + 1 /\ nextId' \in 1 .. MaxTasks + 1
      /\ Defined \subseteq Defined' /\ nextId \in Defined'
      /\ 0 .. nextId - 1 \subseteq 0 .. nextId' - 1 /\ nextId \in 0 .. nextId' - 1
  BY DefinitionAssumption DEF DefineTask, DefTypeOK, Defined
<1>2. ds \in Seq(Ids)
  <2>1. ds \in Seq(Defined)
    BY DefinitionAssumption, SeqUpToType
  <2>2. QED BY <2>1, DefinedTypes, SeqSubset
<1>3. graph' \in Seq(Seq(Ids)) /\ Len(graph') = nextId' - 1
  BY <1>1, <1>2, DefinedTypes DEF DefineTask, DefTypeOK
<1>4. globals' \in [Names -> 0 .. nextId' - 1] /\ named' \in [Names -> 0 .. nextId' - 1]
  BY <1>1 DEF DefineTask, DefTypeOK
<1>5. withBody' \subseteq Defined' /\ bodies' \subseteq Ids
  BY <1>1, DefinitionAssumption DEF DefineTask, DefTypeOK, Ids
<1>6. targets' \in Seq(Defined') /\ targets' = targets
  <2>1. targets' = targets /\ targets \in Seq(Defined)
    BY DEF DefineTask, DefTypeOK
  <2>2. targets \in Seq(Defined')
    BY <1>1, <2>1, SeqSubset
  <2>3. QED BY <2>1, <2>2
<1>7. UNCHANGED <<tasksIsTable, targetsIsList, rewritten, resolved, calls, phase>>
  BY DEF DefineTask
<1>8. DefTypeOK'
  BY <1>1, <1>3, <1>4, <1>5, <1>6, <1>7 DEF DefTypeOK
<1>9. SlotsKept'
  <2>1. "tasks" \notin rewritten => bodies' = withBody'
    BY DEF SlotsKept, DefineTask
  <2>2. QED BY <1>6, <1>7, <2>1 DEF SlotsKept
<1>10. QED BY <1>8, <1>9

\* Every argument of target() that is not an error means a registered task.
LEMMA ArgumentTypes ==
  ASSUME DefTypeOK, NEW names \in [Names -> 0 .. nextId - 1], NEW arg \in Arguments
  PROVE  /\ Lookup(names, arg) \in 0 .. nextId - 1
         /\ arg.task = 0 => arg.name \in Names
<1>1. CASE \E n \in Names : arg = ByName(n)
  BY <1>1 DEF ByName, Lookup
<1>2. CASE \E t \in Defined : arg = ByTask(t)
  BY <1>2, DefinedTypes DEF ByTask, Lookup, Defined
<1>3. QED BY <1>1, <1>2 DEF Arguments

LEMMA FindTasksTypes ==
  ASSUME DefTypeOK
  PROVE  FindTasks(named) \in [Names -> 0 .. nextId - 1]
BY DEF DefTypeOK, FindTasks

LEMMA TargetTypes ==
  ASSUME DefTypeInv, NEW args \in SeqUpTo(Arguments, MaxArgs), Target(args)
  PROVE  DefTypeInv'
<1> USE DEF DefTypeInv
<1> DEFINE names == FindTasks(named)
           ids   == [i \in DOMAIN args |-> Lookup(names, args[i])]
<1>1. PICK k \in Nat : args \in [1..k -> Arguments]
  BY DefinitionAssumption DEF SeqUpTo
<1>2. names \in [Names -> 0 .. nextId - 1]
  BY FindTasksTypes
<1>3. /\ \A i \in DOMAIN ids : ids[i] # 0
      /\ calls < MaxTargets /\ calls' = calls + 1 /\ named' = names
      /\ \E new \in NewTargets(targets, ids) : targets' = targets \o new
      /\ resolved' = resolved \cup
            {<<args[i].name, ids[i]>> : i \in {j \in DOMAIN args : args[j].task = 0}}
      /\ UNCHANGED <<nextId, graph, globals, withBody, bodies, tasksIsTable,
                     targetsIsList, rewritten, phase>>
  BY DEF Target
<1> HIDE DEF names
<1>4. \A i \in 1..k : args[i].task = 0 => args[i].name \in Names
  BY <1>1, <1>2, ArgumentTypes
<1>5. \A i \in 1..k : ids[i] \in Defined
  <2> SUFFICES ASSUME NEW i \in 1..k PROVE ids[i] \in Defined
    OBVIOUS
  <2>1. ids[i] = Lookup(names, args[i]) /\ ids[i] # 0
    BY <1>1, <1>3
  <2>2. ids[i] \in 0 .. nextId - 1
    BY <1>1, <1>2, <2>1, ArgumentTypes
  <2>3. QED BY <2>1, <2>2, DefinedTypes DEF Defined
<1>6. ids \in [1..k -> Defined]
  BY <1>1, <1>5
<1>7. resolved' \subseteq Names \X Defined
  BY <1>1, <1>3, <1>4, <1>5 DEF DefTypeOK
<1> HIDE DEF ids
<1>8. targets' \in Seq(Defined) /\ SlotsKept'
  <2>1. PICK new \in NewTargets(targets, ids) : targets' = targets \o new
    BY <1>3
  <2>2. targets \in Seq(Defined)
    BY DEF DefTypeOK
  <2>3. /\ targets' \in Seq(Defined)
        /\ (\A i, j \in DOMAIN targets : targets[i] = targets[j] => i = j) =>
             \A i, j \in DOMAIN targets' : targets'[i] = targets'[j] => i = j
    <3> DEFINE all == targets \o new
    <3>1. /\ all \in Seq(Defined)
          /\ (\A i, j \in DOMAIN targets : targets[i] = targets[j] => i = j) =>
               \A i, j \in DOMAIN all : all[i] = all[j] => i = j
      BY <1>1, <1>6, <2>1, <2>2, NewTargetsFacts
    <3> HIDE DEF all
    <3>2. targets' = all
      BY <2>1 DEF all
    <3>3. QED BY <3>1, <3>2
  <2>4. ASSUME "targets" \notin rewritten
        PROVE  \A i, j \in DOMAIN targets' : targets'[i] = targets'[j] => i = j
    BY <2>3, <2>4 DEF SlotsKept
  <2>5. rewritten' = rewritten /\ ("targets" \notin rewritten => targetsIsList')
        /\ ("tasks" \notin rewritten => tasksIsTable' /\ bodies' = withBody')
    BY <1>3 DEF SlotsKept
  <2>6. SlotsKept'
    BY <2>4, <2>5 DEF SlotsKept
  <2>7. QED BY <2>3, <2>6
<1>9. Defined' = Defined /\ calls' \in 0 .. MaxTargets
  BY <1>3, DefinitionAssumption DEF Defined, DefTypeOK
<1>10. DefTypeOK'
  BY <1>2, <1>3, <1>7, <1>8, <1>9 DEF DefTypeOK
<1>11. QED BY <1>8, <1>10

\* The other steps define no task.
LEMMA RestTypes ==
  ASSUME DefTypeInv, (\E n \in Names : Unbind(n)) \/ TargetFails \/ EndScript \/ Others
  PROVE  DefTypeInv'
<1> USE DEF DefTypeInv
<1>1. nextId' = nextId /\ Defined' = Defined
  BY DEF Unbind, TargetFails, EndScript, Others, ScriptError, AssignVarTasks, AssignVarTargets,
         defVars, Defined
<1>2. CASE \E n \in Names : Unbind(n)
  <2>1. 0 \in 0 .. nextId - 1
    BY DEF DefTypeOK
  <2>2. globals' \in [Names -> 0 .. nextId - 1]
    BY <1>2, <2>1 DEF Unbind, DefTypeOK
  <2>3. UNCHANGED <<nextId, graph, named, withBody, bodies, tasksIsTable, targets,
                    targetsIsList, rewritten, resolved, calls, phase>>
    BY <1>2 DEF Unbind
  <2>4. QED BY <1>1, <2>2, <2>3 DEF DefTypeOK, SlotsKept
<1>3. CASE EndScript
  BY <1>1, <1>3, FindTasksTypes DEF EndScript, DefTypeOK, SlotsKept
<1>4. CASE ScriptError
  BY <1>1, <1>4 DEF ScriptError, DefTypeOK, SlotsKept
<1>5. ASSUME NEW ids \in SUBSET Ids, AssignVarTasks(ids) PROVE DefTypeInv'
  BY <1>1, <1>5 DEF AssignVarTasks, DefTypeOK, SlotsKept
<1>6. ASSUME NEW list \in SeqUpTo(Defined, MaxArgs), AssignVarTargets(list)
      PROVE  DefTypeInv'
  <2>1. list \in Seq(Defined)
    BY DefinitionAssumption, SeqUpToType
  <2>2. QED BY <1>1, <1>6, <2>1 DEF AssignVarTargets, DefTypeOK, SlotsKept
<1>7. CASE TargetFails
  <2>1. PICK found \in SUBSET Names :
          named' = [n \in Names |-> IF n \in found THEN FindTasks(named)[n] ELSE named[n]]
    BY <1>7 DEF TargetFails
  <2>2. named' \in [Names -> 0 .. nextId - 1]
    BY <2>1, FindTasksTypes DEF DefTypeOK
  <2>3. calls' \in 0 .. MaxTargets
    BY <1>7, DefinitionAssumption DEF TargetFails, DefTypeOK
  <2>4. QED BY <1>1, <1>7, <2>2, <2>3 DEF TargetFails, DefTypeOK, SlotsKept
<1>8. CASE UNCHANGED defVars
  BY <1>1, <1>8 DEF defVars, DefTypeOK, SlotsKept
<1>9. QED BY <1>2, <1>3, <1>4, <1>5, <1>6, <1>7, <1>8 DEF Others

LEMMA DefTypeInvariant == DefSpec => []DefTypeInv
<1>1. DefTypeInv /\ [DefNext]_defVars => DefTypeInv'
  BY DefineTaskTypes, TargetTypes, RestTypes DEF DefNext, Others
<1>2. QED BY InitDefTypeInv, <1>1, PTL DEF DefSpec

\* The variables keep their types, whatever the script writes into the two slots: names
\* and default targets are of tasks that are registered.
THEOREM DefTypeCorrect == DefSpec => []DefTypeOK
<1>1. QED BY DefTypeInvariant, PTL DEF DefTypeInv

\* As long as the script leaves the two slots to task() and target(), exactly the tasks that
\* were given a body have one, and no default target is listed twice.
THEOREM DefSlotsKept == DefSpec => []SlotsKept
<1>1. QED BY DefTypeInvariant, PTL DEF DefTypeInv

\* What eval() hands to execute() when the script is over: the planner's tasks are those
\* registered, each depends on tasks with smaller ids, and what can be requested, by name or as
\* default targets, are such tasks.  A script that assigned `vars.targets' may list one twice,
\* which the planner allows in its requests.
HandOver ==
  phase = "ready" =>
    /\ Defined \subseteq Nat \ {0}
    /\ graph \in [Defined -> Seq(Defined)]
    /\ \A t \in Defined : \A i \in DOMAIN graph[t] : graph[t][i] < t
    /\ \A n \in Names : named[n] # 0 => named[n] \in Defined
    /\ targets \in Seq(Defined)

\* The assumptions of TaskPlan about Tasks, DepGraphs and Requests hold of every script.
THEOREM DefHandsOver == DefSpec => []HandOver
<1>1. DefTypeInv /\ GraphWellFounded => HandOver
  <2> SUFFICES ASSUME DefTypeInv, GraphWellFounded PROVE HandOver
    OBVIOUS
  <2>1. DefTypeOK /\ SlotsKept /\ nextId \in Nat \ {0}
    BY DefinedTypes DEF DefTypeInv
  <2>2. graph \in Seq(Seq(Ids)) /\ Len(graph) = nextId - 1 /\ DOMAIN graph = Defined
    BY <2>1 DEF DefTypeOK, Defined
  <2>3. ASSUME NEW t \in Defined
        PROVE  graph[t] \in Seq(Defined) /\ \A i \in DOMAIN graph[t] : graph[t][i] < t
    <3>1. graph[t] \in Seq(Ids) /\ t \in Nat /\ t <= nextId - 1
      BY <2>1, <2>2 DEF Defined
    <3>2. \A i \in DOMAIN graph[t] : graph[t][i] \in 1 .. t - 1
      BY <2>2 DEF GraphWellFounded
    <3>3. \A i \in DOMAIN graph[t] : graph[t][i] \in Defined /\ graph[t][i] < t
      BY <2>1, <3>1, <3>2 DEF Defined
    <3>4. Len(graph[t]) \in Nat /\ graph[t] = [i \in 1 .. Len(graph[t]) |-> graph[t][i]]
          /\ DOMAIN graph[t] = 1 .. Len(graph[t])
      BY <3>1
    <3>5. graph[t] \in Seq(Defined)
      BY <3>3, <3>4, IsASeq
    <3>6. QED BY <3>3, <3>5
  <2>4. graph \in [Defined -> Seq(Defined)]
    <3>1. graph = [t \in Defined |-> graph[t]]
      BY <2>2
    <3>2. QED BY <2>3, <3>1
  <2>5. \A n \in Names : named[n] # 0 => named[n] \in Defined
    BY <2>1 DEF DefTypeOK, Defined
  <2>6. targets \in Seq(Defined)
    BY <2>1 DEF DefTypeOK
  <2>7. QED BY <2>1, <2>3, <2>4, <2>5, <2>6, DefinedTypes DEF HandOver
<1>2. QED BY DefTypeInvariant, DefGraphWellFounded, <1>1, PTL
=============================================================================
