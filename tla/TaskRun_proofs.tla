---------------------------- MODULE TaskRun_proofs ----------------------------
(***************************************************************************)
(* Theorems about the planner and about execute(), for every set of tasks, *)
(* every dependency graph the definition phase can build, every list of    *)
(* requests and every behaviour of the task bodies.  Those about execute() *)
(* rest on the planner's invariant: the loop never misses the result of a  *)
(* parent because the plan lists parents first, and a result is final      *)
(* because the plan lists no task twice.                                   *)
(***************************************************************************)
EXTENDS TaskRun, TLAPS, SequenceTheorems, FiniteSets, FiniteSetTheorems,
        WellFoundedInduction

(***************************************************************************)
(* Type correctness                                                        *)
(***************************************************************************)

LEMMA InitTypeOK == Init => TypeOK
  BY DEF Init, TypeOK, Phases

\* The dependency lists of a graph the definition phase has built.
LEMMA GraphFacts ==
  ASSUME TypeOK, NEW t \in Tasks
  PROVE  /\ deps[t] \in Seq(Tasks)
         /\ \A i \in DOMAIN deps[t] : deps[t][i] \in Tasks /\ deps[t][i] < t
         /\ t \in Nat \ {0}
  BY DepGraphsAssumption, TasksAssumption DEF TypeOK

LEMMA PlanTypeOK ==
  ASSUME TypeOK, NEW ts \in Seq(Tasks), Plan(ts)
  PROVE  TypeOK'
  BY DEF TypeOK, Plan, walkVars, retainVars, Phases

LEMMA StepTypeOK ==
  ASSUME TypeOK, PlanStep
  PROVE  TypeOK'
<1>1. CASE StartWalk
  BY <1>1 DEF TypeOK, StartWalk, retainVars, Phases
<1>2. CASE Discover
  <2>1. Top \in Tasks
    BY <1>2 DEF TypeOK, Discover, Top
  <2>2. deps[Top] \in Seq(Tasks)
    BY <2>1, GraphFacts
  <2>3. QED BY <1>2, <2>1, <2>2 DEF TypeOK, Discover, retainVars, Phases
<1>3. CASE PushNeighbour
  <2>1. node \in Tasks /\ edge \in DOMAIN deps[node] /\ deps[node] \in Seq(Tasks)
    BY <1>3, GraphFacts DEF TypeOK, PushNeighbour
  <2>2. deps[node][edge] \in Tasks
    BY <2>1, GraphFacts
  <2>3. stack' \in Seq(Tasks)
    BY <1>3, <2>2 DEF TypeOK, PushNeighbour
  <2>4. QED BY <1>3, <2>1, <2>3 DEF TypeOK, PushNeighbour, retainVars, Phases
<1>4. CASE ExpandDone
  BY <1>4 DEF TypeOK, ExpandDone, walkVars, retainVars, Phases
<1>5. ASSUME Pop
      PROVE  stack' \in Seq(Tasks) /\ Top \in Tasks
  BY <1>5 DEF TypeOK, Pop, Top
<1>6. CASE Emit
  BY <1>5, <1>6 DEF TypeOK, Emit, Pop, retainVars, Phases
<1>7. CASE Discard
  BY <1>5, <1>7 DEF TypeOK, Discard, Pop, retainVars, Phases
<1>8. CASE EndWalk
  BY <1>8 DEF TypeOK, EndWalk, walkVars, retainVars, Phases
<1>9. CASE StartRetain
  BY <1>9 DEF TypeOK, StartRetain, walkVars, retainVars, Phases
<1>10. CASE Retain
  BY <1>10 DEF TypeOK, Retain, walkVars, Phases
<1>11. CASE PlanReady
  BY <1>11 DEF TypeOK, PlanReady, walkVars, retainVars, Phases
<1>12. QED
  BY <1>1, <1>2, <1>3, <1>4, <1>6, <1>7, <1>8, <1>9, <1>10, <1>11 DEF PlanStep

\* Every variable of the planner keeps its type.
THEOREM TypeCorrect == Spec => []TypeOK
<1>1. TypeOK /\ [Next]_planVars => TypeOK'
  <2> SUFFICES ASSUME TypeOK, [Next]_planVars PROVE TypeOK'
    OBVIOUS
  <2>1. ASSUME NEW ts \in Requests, Plan(ts) PROVE TypeOK'
    BY <2>1, PlanTypeOK, RequestsAssumption
  <2>2. CASE UNCHANGED planVars
    BY <2>2 DEF planVars, walkVars, retainVars, TypeOK
  <2>3. QED BY <2>1, <2>2, StepTypeOK DEF Next
<1>2. QED BY InitTypeOK, <1>1, PTL DEF Spec

(***************************************************************************)
(* The inductive invariant                                                 *)
(***************************************************************************)

\* The last occurrence of n on the stack is at i, and everything pushed since then
\* is a task with a smaller id.
LastAt(n, i) ==
    /\ i \in DOMAIN stack
    /\ stack[i] = n
    /\ \A j \in DOMAIN stack : j > i => stack[j] < n

\* The walk will have returned d by the time the stack is back to i.
Handled(d, i) == d \in finished \/ \E j \in DOMAIN stack : j > i /\ stack[j] = d

\* A node that was discovered and not yet returned is still on the stack, under the
\* dependencies that have not been returned.
StackInv ==
    \A n \in discovered \ finished :
        \E i \in DOMAIN stack :
            /\ LastAt(n, i)
            /\ ~(phase = "expand" /\ n = node) =>
                   \A k \in DOMAIN deps[n] : Handled(deps[n][k], i)

\* While the neighbours of `node' are being pushed, those already looked at are
\* handled, and nothing above `node' has been visited.
ExpandInv ==
    phase = "expand" =>
        /\ node \in discovered \ finished
        /\ \E i \in DOMAIN stack :
              /\ LastAt(node, i)
              /\ \A j \in DOMAIN stack : j > i => stack[j] \notin discovered
              /\ \A k \in DOMAIN deps[node] : k > edge => Handled(deps[node][k], i)

\* Every prefix of the concatenated walks is closed under dependencies.
ExecutionInv ==
    /\ DepsPrecede(deps, execution)
    /\ finished \subseteq Range(execution)

\* retain() has kept exactly the elements it has seen.
RetainInv ==
    /\ uniques = Range(ordering)
    /\ \A k \in 1..scanned : execution[k] \in uniques

PlanInv ==
    /\ TypeOK
    /\ StackInv
    /\ ExpandInv
    /\ ExecutionInv
    /\ RetainInv
    /\ ParentsFirst
    /\ NoDuplicates

LEMMA InitPlanInv == Init => PlanInv
<1> SUFFICES ASSUME Init PROVE PlanInv
  OBVIOUS
<1>1. Range(<<>>) = {}
  BY DEF Range
<1>2. QED
  BY <1>1, InitTypeOK
  DEF Init, PlanInv, StackInv, ExpandInv, ExecutionInv, RetainInv, ParentsFirst,
      NoDuplicates, DepsPrecede

(***************************************************************************)
(* The walk: StackInv and ExpandInv                                        *)
(***************************************************************************)

LEMMA StartWalkStack ==
  ASSUME PlanInv, StartWalk
  PROVE  StackInv' /\ ExpandInv'
  BY DEF StartWalk, StackInv, ExpandInv

\* A dependency of the top of the stack that was discovered has been returned: if it
\* were still on the stack, the top would have a smaller id than its dependency.
LEMMA DiscoveredDepFinished ==
  ASSUME PlanInv, phase = "walk", stack # <<>>,
         NEW k \in DOMAIN deps[Top], deps[Top][k] \in discovered
  PROVE  deps[Top][k] \in finished
<1> DEFINE d == deps[Top][k]
<1>1. Top \in Tasks /\ Len(stack) \in DOMAIN stack
  BY DEF PlanInv, TypeOK, Top
<1>2. d \in Tasks /\ d < Top /\ Top \in Nat /\ d \in Nat
  BY <1>1, GraphFacts, TasksAssumption DEF PlanInv
<1> SUFFICES ASSUME d \notin finished PROVE FALSE
  OBVIOUS
<1>3. PICK i \in DOMAIN stack : LastAt(d, i)
  BY DEF PlanInv, StackInv
<1>4. CASE i = Len(stack)
  BY <1>2, <1>3, <1>4 DEF LastAt, Top
<1>5. CASE i # Len(stack)
  <2>1. Len(stack) > i
    BY <1>1, <1>5 DEF PlanInv, TypeOK
  <2>2. Top < d
    BY <1>1, <1>3, <2>1 DEF LastAt, Top
  <2>3. QED BY <1>2, <2>2
<1>6. QED BY <1>4, <1>5

LEMMA DiscoverStack ==
  ASSUME PlanInv, Discover
  PROVE  StackInv' /\ ExpandInv'
<1> PICK top, len : top = Top /\ len = Len(stack)
  OBVIOUS
<1>1. /\ stack \in Seq(Tasks) /\ stack # <<>> /\ top \notin discovered
      /\ node' = top /\ edge' = Len(deps[top]) /\ discovered' = discovered \cup {top}
      /\ deps' = deps /\ stack' = stack /\ finished' = finished
      /\ phase = "walk" /\ phase' = "expand"
      /\ finished \subseteq discovered
  BY DEF Discover, PlanInv, TypeOK
<1>2. top \in Tasks /\ len \in DOMAIN stack /\ stack[len] = top
  BY <1>1 DEF Top
<1>3. deps[top] \in Seq(Tasks)
  BY <1>2, GraphFacts DEF PlanInv
<1>4. \A j \in DOMAIN stack' : ~(j > len)
  BY <1>1
<1>5. LastAt(top, len)'
  BY <1>1, <1>2, <1>4 DEF LastAt
<1>6. StackInv'
  <2> SUFFICES ASSUME NEW n \in discovered' \ finished'
               PROVE  \E i \in DOMAIN stack' :
                         /\ LastAt(n, i)'
                         /\ n # top => \A k \in DOMAIN deps'[n] : Handled(deps[n][k], i)'
    BY <1>1 DEF StackInv
  <2>1. CASE n = top
    BY <1>1, <1>2, <1>5, <2>1
  <2>2. CASE n # top
    <3>1. n \in discovered \ finished
      BY <1>1, <2>2
    <3>2. PICK i \in DOMAIN stack :
             LastAt(n, i) /\ \A k \in DOMAIN deps[n] : Handled(deps[n][k], i)
      BY <1>1, <3>1 DEF PlanInv, StackInv
    <3>3. LastAt(n, i)' /\ \A k \in DOMAIN deps'[n] : Handled(deps[n][k], i)'
      BY <1>1, <3>2 DEF LastAt, Handled
    <3>4. QED BY <1>1, <3>3
  <2>3. QED BY <2>1, <2>2
<1>7. ExpandInv'
  <2>1. top \in discovered' \ finished'
    BY <1>1
  <2>2. \A k \in DOMAIN deps'[top] : ~(k > edge')
    BY <1>1, <1>3
  <2>3. QED BY <1>1, <1>2, <1>4, <1>5, <2>1, <2>2 DEF ExpandInv
<1>8. QED BY <1>6, <1>7

LEMMA PushNeighbourStack ==
  ASSUME PlanInv, PushNeighbour
  PROVE  StackInv' /\ ExpandInv'
<1> PICK succ, len : succ = deps[node][edge] /\ len = Len(stack)
  OBVIOUS
<1>1. /\ stack \in Seq(Tasks) /\ node \in Tasks /\ node \in Nat
      /\ edge \in DOMAIN deps[node] /\ edge' = edge - 1 /\ edge \in Nat
      /\ stack' = IF succ \in discovered THEN stack ELSE Append(stack, succ)
      /\ deps' = deps /\ node' = node /\ discovered' = discovered /\ finished' = finished
      /\ phase = "expand" /\ phase' = "expand"
  BY GraphFacts DEF PushNeighbour, PlanInv, TypeOK
<1>2. succ \in Tasks /\ succ < node /\ succ \in Nat /\ deps[node] \in Seq(Tasks)
  BY <1>1, GraphFacts, TasksAssumption DEF PlanInv
<1>3. PICK top \in DOMAIN stack :
         /\ LastAt(node, top)
         /\ \A j \in DOMAIN stack : j > top => stack[j] \notin discovered
         /\ \A k \in DOMAIN deps[node] : k > edge => Handled(deps[node][k], top)
  BY <1>1 DEF PlanInv, ExpandInv
<1>4. node \in discovered \ finished
  BY <1>1 DEF PlanInv, ExpandInv
<1>5. succ \in discovered => succ \in finished
  <2> SUFFICES ASSUME succ \in discovered, succ \notin finished PROVE FALSE
    OBVIOUS
  <2>1. PICK i \in DOMAIN stack : LastAt(succ, i)
    BY DEF PlanInv, StackInv
  <2>2. CASE i < top
    BY <1>1, <1>2, <1>3, <2>1, <2>2 DEF LastAt
  <2>3. CASE i = top
    BY <1>1, <1>2, <1>3, <2>1, <2>3 DEF LastAt
  <2>4. CASE i > top
    BY <1>3, <2>1, <2>4 DEF LastAt
  <2>5. QED BY <1>1, <1>3, <2>1, <2>2, <2>3, <2>4
<1>6. CASE succ \in discovered
  <2>1. stack' = stack
    BY <1>1, <1>6
  <2>2. \A n, i : (LastAt(n, i) => LastAt(n, i)') /\ (Handled(n, i) => Handled(n, i)')
    BY <1>1, <2>1 DEF LastAt, Handled
  <2>3. StackInv'
    BY <1>1, <2>1, <2>2 DEF PlanInv, StackInv
  <2>4. Handled(succ, top)'
    BY <1>1, <1>5, <1>6 DEF Handled
  <2>5. \A k \in DOMAIN deps'[node'] : k > edge' => Handled(deps[node][k], top)'
    BY <1>1, <1>2, <1>3, <2>2, <2>4
  <2>6. ExpandInv'
    BY <1>1, <1>3, <1>4, <2>1, <2>2, <2>5 DEF ExpandInv
  <2>7. QED BY <2>3, <2>6
<1>7. CASE succ \notin discovered
  <2>1. /\ DOMAIN stack' = 1..(len + 1) /\ stack'[len + 1] = succ
        /\ \A j \in 1..len : stack'[j] = stack[j]
        /\ DOMAIN stack = 1..len /\ len \in Nat
    BY <1>1, <1>2, <1>7
  <2>2. ASSUME NEW n \in Nat, NEW i, LastAt(n, i), succ < n
        PROVE  LastAt(n, i)'
    BY <2>1, <2>2, <1>1 DEF LastAt
  <2>3. \A n, i : i \in DOMAIN stack /\ Handled(n, i) => Handled(n, i)'
    BY <1>1, <2>1 DEF Handled
  <2>4. StackInv'
    <3> SUFFICES ASSUME NEW n \in discovered \ finished
                 PROVE  \E i \in DOMAIN stack' :
                           /\ LastAt(n, i)'
                           /\ n # node => \A k \in DOMAIN deps'[n] : Handled(deps[n][k], i)'
      BY <1>1 DEF StackInv
    <3>1. PICK i \in DOMAIN stack :
             LastAt(n, i) /\ (n # node => \A k \in DOMAIN deps[n] : Handled(deps[n][k], i))
      BY <1>1 DEF PlanInv, StackInv
    <3>2. n \in Nat /\ node <= n
      <4>1. n \in Tasks /\ n \in Nat
        BY TasksAssumption DEF PlanInv, TypeOK
      <4>2. CASE i < top
        BY <1>1, <1>3, <3>1, <4>1, <4>2 DEF LastAt
      <4>3. CASE i = top
        BY <1>1, <1>3, <3>1, <4>3 DEF LastAt
      <4>4. CASE i > top
        BY <1>3, <3>1, <4>4 DEF LastAt
      <4>5. QED BY <2>1, <4>1, <4>2, <4>3, <4>4
    <3>3. LastAt(n, i)'
      BY <1>1, <1>2, <2>2, <3>1, <3>2
    <3>4. QED BY <1>1, <2>1, <2>3, <3>1, <3>3
  <2>5. LastAt(node, top)'
    BY <1>1, <1>2, <1>3, <2>2
  <2>6. Handled(succ, top)'
    BY <1>3, <2>1 DEF Handled
  <2>7. \A k \in DOMAIN deps'[node'] : k > edge' => Handled(deps[node][k], top)'
    BY <1>1, <1>2, <1>3, <2>3, <2>6
  <2>8. \A j \in DOMAIN stack' : j > top => stack'[j] \notin discovered'
    BY <1>1, <1>3, <1>7, <2>1
  <2>9. ExpandInv'
    BY <1>1, <1>3, <1>4, <2>1, <2>5, <2>7, <2>8 DEF ExpandInv
  <2>10. QED BY <2>4, <2>9
<1>8. QED BY <1>6, <1>7

LEMMA ExpandDoneStack ==
  ASSUME PlanInv, ExpandDone
  PROVE  StackInv' /\ ExpandInv'
<1>1. /\ node \in Tasks /\ edge = 0 /\ phase = "expand" /\ phase' = "walk"
      /\ deps' = deps /\ stack' = stack /\ node' = node
      /\ discovered' = discovered /\ finished' = finished
  BY DEF ExpandDone, walkVars, PlanInv, TypeOK
<1>2. deps[node] \in Seq(Tasks)
  BY <1>1, GraphFacts DEF PlanInv
<1>3. \A n, i : (LastAt(n, i) => LastAt(n, i)') /\ (Handled(n, i) => Handled(n, i)')
  BY <1>1 DEF LastAt, Handled
<1>4. PICK top \in DOMAIN stack :
         LastAt(node, top) /\ \A k \in DOMAIN deps[node] : Handled(deps[node][k], top)
  BY <1>1, <1>2 DEF PlanInv, ExpandInv
<1>5. StackInv'
  <2> SUFFICES ASSUME NEW n \in discovered \ finished
               PROVE  \E i \in DOMAIN stack :
                         LastAt(n, i)' /\ \A k \in DOMAIN deps[n] : Handled(deps[n][k], i)'
    BY <1>1 DEF StackInv
  <2>1. \E i \in DOMAIN stack :
           LastAt(n, i) /\ \A k \in DOMAIN deps[n] : Handled(deps[n][k], i)
    BY <1>1, <1>4 DEF PlanInv, StackInv
  <2>2. QED BY <1>1, <1>3, <2>1
<1>6. QED BY <1>1, <1>5 DEF ExpandInv

\* The top of the stack that is met again has been returned, or all its dependencies
\* have been: its only occurrence under smaller ids is the top itself.
LEMMA TopDepsFinished ==
  ASSUME PlanInv, phase = "walk", stack # <<>>, Top \in discovered \ finished
  PROVE  \A d \in Range(deps[Top]) : d \in finished
<1>1. Top \in Tasks /\ Len(stack) \in DOMAIN stack /\ Top \in Nat
  <2>1. Top \in Tasks /\ Len(stack) \in DOMAIN stack
    BY DEF PlanInv, TypeOK, Top
  <2>2. QED BY <2>1, TasksAssumption
<1>2. PICK i \in DOMAIN stack :
         LastAt(Top, i) /\ \A k \in DOMAIN deps[Top] : Handled(deps[Top][k], i)
  BY DEF PlanInv, StackInv
<1>3. i = Len(stack)
  <2>1. i \in 1..Len(stack) /\ Len(stack) \in Nat
    BY DEF PlanInv, TypeOK
  <2>2. ~(Len(stack) > i)
    BY <1>1, <1>2 DEF LastAt, Top
  <2>3. QED BY <2>1, <2>2
<1>4. \A j \in DOMAIN stack : ~(j > i)
  BY <1>3 DEF PlanInv, TypeOK
<1>5. \A k \in DOMAIN deps[Top] : deps[Top][k] \in finished
  BY <1>2, <1>4 DEF Handled
<1>6. QED BY <1>5 DEF Range

\* Popping a node that has been returned keeps what is under it.
LEMMA PopStack ==
  ASSUME PlanInv, Pop, finished' = finished \cup {Top},
         UNCHANGED <<deps, discovered, node, phase>>
  PROVE  StackInv' /\ ExpandInv'
<1> PICK top, len : top = Top /\ len = Len(stack)
  OBVIOUS
<1>1. /\ stack \in Seq(Tasks) /\ stack # <<>> /\ phase = "walk" /\ phase' = "walk"
      /\ len \in Nat \ {0} /\ DOMAIN stack = 1..len /\ stack[len] = top
      /\ finished' = finished \cup {top} /\ deps' = deps /\ discovered' = discovered
  BY DEF PlanInv, TypeOK, Pop, Top
<1>2. DOMAIN stack' = 1..(len - 1) /\ \A j \in 1..(len - 1) : stack'[j] = stack[j]
  BY <1>1 DEF Pop
<1>3. StackInv'
  <2> SUFFICES ASSUME NEW n \in discovered \ finished'
               PROVE  \E i \in DOMAIN stack' :
                         /\ LastAt(n, i)'
                         /\ \A k \in DOMAIN deps'[n] : Handled(deps[n][k], i)'
    BY <1>1 DEF StackInv
  <2>1. n \in discovered \ finished /\ n # top
    BY <1>1
  <2>2. PICK i \in DOMAIN stack :
           LastAt(n, i) /\ \A k \in DOMAIN deps[n] : Handled(deps[n][k], i)
    BY <1>1, <2>1 DEF PlanInv, StackInv
  <2>3. i \in DOMAIN stack'
    BY <1>1, <1>2, <2>1, <2>2 DEF LastAt
  <2>4. LastAt(n, i)'
    BY <1>1, <1>2, <2>2, <2>3 DEF LastAt
  <2>5. \A d : Handled(d, i) => Handled(d, i)'
    BY <1>1, <1>2 DEF Handled
  <2>6. QED BY <1>1, <2>2, <2>3, <2>4, <2>5
<1>4. QED BY <1>1, <1>3 DEF ExpandInv

LEMMA StepStackInv ==
  ASSUME PlanInv, PlanStep
  PROVE  StackInv' /\ ExpandInv'
<1>1. CASE StartWalk
  BY <1>1, StartWalkStack
<1>2. CASE Discover
  BY <1>2, DiscoverStack
<1>3. CASE PushNeighbour
  BY <1>3, PushNeighbourStack
<1>4. CASE ExpandDone
  BY <1>4, ExpandDoneStack
<1>5. CASE Emit
  BY <1>5, PopStack DEF Emit
<1>6. CASE Discard
  <2>1. finished' = finished \cup {Top}
    BY <1>6 DEF Discard
  <2>2. QED BY <1>6, <2>1, PopStack DEF Discard
<1>7. CASE EndWalk
  BY <1>7 DEF EndWalk, walkVars, PlanInv, StackInv, ExpandInv, LastAt, Handled
<1>8. CASE StartRetain
  BY <1>8 DEF StartRetain, walkVars, PlanInv, StackInv, ExpandInv, LastAt, Handled
<1>9. CASE Retain
  BY <1>9 DEF Retain, walkVars, PlanInv, StackInv, ExpandInv, LastAt, Handled
<1>10. CASE PlanReady
  BY <1>10 DEF PlanReady, walkVars, PlanInv, StackInv, ExpandInv, LastAt, Handled
<1>11. QED
  BY <1>1, <1>2, <1>3, <1>4, <1>5, <1>6, <1>7, <1>8, <1>9, <1>10 DEF PlanStep

(***************************************************************************)
(* The concatenated walks: ExecutionInv                                    *)
(***************************************************************************)

\* Appending a task whose dependencies are in a dependency-closed list keeps it so.
LEMMA AppendDepsPrecede ==
  ASSUME NEW g \in [Tasks -> Seq(Tasks)],
         NEW s \in Seq(Tasks), NEW t \in Tasks,
         DepsPrecede(g, s), \A d \in Range(g[t]) : d \in Range(s)
  PROVE  DepsPrecede(g, Append(s, t))
<1> DEFINE s2 == Append(s, t)
<1>1. /\ DOMAIN s = 1..Len(s) /\ DOMAIN s2 = 1..(Len(s) + 1) /\ Len(s) \in Nat
      /\ s2[Len(s) + 1] = t /\ \A j \in 1..Len(s) : s2[j] = s[j]
  OBVIOUS
<1> SUFFICES ASSUME NEW i \in DOMAIN s2, NEW d \in Range(g[s2[i]])
             PROVE  \E j \in 1..(i - 1) : s2[j] = d
  BY DEF DepsPrecede
<1>2. CASE i = Len(s) + 1
  <2>1. PICK j \in DOMAIN s : s[j] = d
    BY <1>1, <1>2 DEF Range
  <2>2. QED BY <1>1, <1>2, <2>1
<1>3. CASE i \in DOMAIN s
  <2>1. PICK j \in 1..(i - 1) : s[j] = d
    BY <1>1, <1>3 DEF DepsPrecede
  <2>2. QED BY <1>1, <1>3, <2>1
<1>4. i \in 1..(Len(s) + 1)
  BY <1>1
<1>5. i = Len(s) + 1 \/ i \in DOMAIN s
  BY <1>1, <1>4
<1>6. QED BY <1>2, <1>3, <1>5

LEMMA RangeOfAppend ==
  ASSUME NEW S, NEW s \in Seq(S), NEW t \in S
  PROVE  Range(Append(s, t)) = Range(s) \cup {t}
<1>1. /\ DOMAIN s = 1..Len(s) /\ DOMAIN Append(s, t) = 1..(Len(s) + 1) /\ Len(s) \in Nat
      /\ Append(s, t)[Len(s) + 1] = t /\ \A j \in 1..Len(s) : Append(s, t)[j] = s[j]
  OBVIOUS
<1>2. QED BY <1>1 DEF Range

LEMMA StepExecutionInv ==
  ASSUME PlanInv, PlanStep
  PROVE  ExecutionInv'
<1>1. CASE Emit
  <2> PICK top, walked : top = Top /\ walked = Append(execution, top)
    OBVIOUS
  <2>1. /\ top \in Tasks /\ top \in discovered \ finished /\ phase = "walk"
        /\ stack # <<>> /\ execution \in Seq(Tasks)
        /\ finished' = finished \cup {top} /\ execution' = walked
        /\ deps' = deps /\ deps \in [Tasks -> Seq(Tasks)]
    BY <1>1, DepGraphsAssumption DEF Emit, Pop, PlanInv, TypeOK, Top
  <2>2. \A d \in Range(deps[top]) : d \in Range(execution)
    BY <2>1, TopDepsFinished DEF PlanInv, ExecutionInv
  <2>3. DepsPrecede(deps, walked)
    BY <2>1, <2>2, AppendDepsPrecede DEF PlanInv, ExecutionInv
  <2>4. DepsPrecede(deps, execution)'
    BY <2>1, <2>3
  <2>5. Range(execution') = Range(execution) \cup {top}
    BY <2>1, RangeOfAppend
  <2>6. QED BY <2>1, <2>4, <2>5 DEF PlanInv, ExecutionInv
<1>2. CASE StartWalk
  BY <1>2 DEF StartWalk, PlanInv, ExecutionInv, DepsPrecede
<1>3. ASSUME UNCHANGED <<deps, execution, finished>>
      PROVE  ExecutionInv'
  BY <1>3 DEF PlanInv, ExecutionInv, DepsPrecede
<1>4. CASE Discover \/ PushNeighbour \/ ExpandDone \/ Discard
  BY <1>3, <1>4 DEF Discover, PushNeighbour, ExpandDone, Discard, walkVars
<1>5. CASE EndWalk \/ StartRetain \/ Retain \/ PlanReady
  BY <1>3, <1>5 DEF EndWalk, StartRetain, Retain, PlanReady, walkVars
<1>6. QED BY <1>1, <1>2, <1>4, <1>5 DEF PlanStep

(***************************************************************************)
(* retain(): RetainInv, ParentsFirst and NoDuplicates                      *)
(***************************************************************************)

LEMMA StepRetainInv ==
  ASSUME PlanInv, PlanStep
  PROVE  RetainInv' /\ ParentsFirst' /\ NoDuplicates'
<1>1. CASE Retain
  <2> PICK t, kept : t = execution[scanned + 1] /\ kept = Append(ordering, t)
    OBVIOUS
  <2>1. /\ scanned \in Nat /\ scanned + 1 \in DOMAIN execution /\ t \in Tasks
        /\ ordering \in Seq(Tasks) /\ uniques = Range(ordering) /\ deps' = deps
        /\ deps \in [Tasks -> Seq(Tasks)]
        /\ execution' = execution /\ scanned' = scanned + 1
        /\ uniques' = uniques \cup {t}
        /\ ordering' = IF t \in uniques THEN ordering ELSE kept
    BY <1>1, DepGraphsAssumption DEF Retain, walkVars, PlanInv, TypeOK, RetainInv
  <2>2. \A k \in 1..scanned' : execution'[k] \in uniques'
    BY <2>1 DEF PlanInv, RetainInv
  <2>3. CASE t \in uniques
    BY <2>1, <2>2, <2>3 DEF PlanInv, RetainInv, ParentsFirst, DepsPrecede, NoDuplicates
  <2>4. CASE t \notin uniques
    <3>1. \A d \in Range(deps[t]) : d \in Range(ordering)
      <4> TAKE d \in Range(deps[t])
      <4>1. PICK j \in 1..((scanned + 1) - 1) : execution[j] = d
        BY <2>1 DEF PlanInv, ExecutionInv, DepsPrecede
      <4>2. QED BY <2>1, <4>1 DEF PlanInv, RetainInv
    <3>2. DepsPrecede(deps, kept)
      BY <2>1, <3>1, AppendDepsPrecede DEF PlanInv, ParentsFirst
    <3>3. ParentsFirst'
      BY <2>1, <2>4, <3>2 DEF ParentsFirst
    <3>4. Range(ordering') = Range(ordering) \cup {t}
      BY <2>1, <2>4, RangeOfAppend
    <3>5. NoDuplicates'
      <4>1. \A i \in DOMAIN ordering : ordering[i] # t
        BY <2>1, <2>4 DEF Range
      <4>2. QED BY <2>1, <2>4, <4>1 DEF PlanInv, NoDuplicates
    <3>6. QED BY <2>1, <2>2, <3>3, <3>4, <3>5 DEF RetainInv
  <2>5. QED BY <2>3, <2>4
<1>2. CASE Emit
  <2>1. /\ execution \in Seq(Tasks) /\ scanned \in 0..Len(execution) /\ Top \in Tasks
        /\ execution' = Append(execution, Top)
        /\ UNCHANGED <<deps, scanned, uniques, ordering>>
    BY <1>2 DEF Emit, Pop, Top, retainVars, PlanInv, TypeOK
  <2>2. \A k \in 1..scanned : execution'[k] = execution[k]
    BY <2>1
  <2>3. QED
    BY <2>1, <2>2 DEF PlanInv, RetainInv, ParentsFirst, DepsPrecede, NoDuplicates
<1>3. ASSUME UNCHANGED <<deps, execution, scanned, uniques, ordering>>
      PROVE  RetainInv' /\ ParentsFirst' /\ NoDuplicates'
  BY <1>3 DEF PlanInv, RetainInv, ParentsFirst, DepsPrecede, NoDuplicates
<1>4. CASE StartWalk \/ Discover \/ PushNeighbour \/ ExpandDone
  BY <1>3, <1>4 DEF StartWalk, Discover, PushNeighbour, ExpandDone, walkVars, retainVars
<1>5. CASE Discard \/ EndWalk \/ StartRetain \/ PlanReady
  BY <1>3, <1>5 DEF Discard, EndWalk, StartRetain, PlanReady, walkVars, retainVars
<1>6. QED BY <1>1, <1>2, <1>4, <1>5 DEF PlanStep

(***************************************************************************)
(* The invariant and its consequences                                      *)
(***************************************************************************)

LEMMA StepPlanInv ==
  ASSUME PlanInv, PlanStep
  PROVE  PlanInv'
BY StepTypeOK, StepStackInv, StepExecutionInv, StepRetainInv DEF PlanInv

LEMMA PlanPlanInv ==
  ASSUME PlanInv, NEW ts \in Seq(Tasks), Plan(ts)
  PROVE  PlanInv'
<1>1. phase' = "target" /\ UNCHANGED <<deps, walkVars, retainVars>>
      /\ phase = "idle"
  BY DEF Plan
<1>2. TypeOK'
  BY PlanTypeOK DEF PlanInv
<1>3. StackInv' /\ ExpandInv'
  BY <1>1 DEF PlanInv, StackInv, ExpandInv, LastAt, Handled, walkVars
<1>4. ExecutionInv'
  BY <1>1 DEF PlanInv, ExecutionInv, DepsPrecede, walkVars
<1>5. RetainInv' /\ ParentsFirst' /\ NoDuplicates'
  BY <1>1 DEF PlanInv, RetainInv, ParentsFirst, DepsPrecede, NoDuplicates, walkVars,
      retainVars
<1>6. QED BY <1>2, <1>3, <1>4, <1>5 DEF PlanInv

LEMMA StutterPlanInv ==
  ASSUME PlanInv, UNCHANGED planVars
  PROVE  PlanInv'
<1>1. TypeOK'
  BY DEF PlanInv, planVars, walkVars, retainVars, TypeOK
<1>2. StackInv' /\ ExpandInv'
  BY DEF PlanInv, planVars, walkVars, StackInv, ExpandInv, LastAt, Handled
<1>3. ExecutionInv' /\ RetainInv' /\ ParentsFirst' /\ NoDuplicates'
  BY DEF PlanInv, planVars, walkVars, retainVars, ExecutionInv, RetainInv, ParentsFirst,
      DepsPrecede, NoDuplicates
<1>4. QED BY <1>1, <1>2, <1>3 DEF PlanInv

\* The invariant holds in every state of the planner.
THEOREM PlanInvariant == Spec => []PlanInv
<1>1. PlanInv /\ [Next]_planVars => PlanInv'
  <2> SUFFICES ASSUME PlanInv, [Next]_planVars PROVE PlanInv'
    OBVIOUS
  <2>1. ASSUME NEW ts \in Requests, Plan(ts) PROVE PlanInv'
    BY <2>1, PlanPlanInv, RequestsAssumption
  <2>2. QED BY <2>1, StepPlanInv, StutterPlanInv DEF Next
<1>2. QED BY InitPlanInv, <1>1, PTL DEF Spec

\* The plan lists every task after everything it depends on, on every graph and for
\* every request: what the unwrap() in execute() relies on.
THEOREM PlanParentsFirst == Spec => []ParentsFirst
<1>1. PlanInv => ParentsFirst
  BY DEF PlanInv
<1>2. QED BY PlanInvariant, <1>1, PTL

\* No task is listed twice in the plan.
THEOREM PlanNoDuplicates == Spec => []NoDuplicates
<1>1. PlanInv => NoDuplicates
  BY DEF PlanInv
<1>2. QED BY PlanInvariant, <1>1, PTL

(***************************************************************************)
(* What the targets need                                                   *)
(***************************************************************************)

\* The tasks needed for a set of tasks contain it and are closed under dependencies.
LEMMA NeededFacts ==
  ASSUME NEW g \in [Tasks -> Seq(Tasks)], NEW T \in SUBSET Tasks
  PROVE  T \subseteq Needed(g, T) /\ Needed(g, T) \subseteq Tasks
         /\ ClosedUnder(g, Needed(g, T))
<1>1. T \subseteq Needed(g, T) /\ Needed(g, T) \subseteq Tasks
  BY DEF Needed
<1>2. ASSUME NEW t \in Needed(g, T), NEW d \in Range(g[t])
      PROVE  d \in Needed(g, T)
  <2>1. t \in Tasks /\ d \in Tasks
    BY DEF Needed, Range
  <2>2. ASSUME NEW S \in SUBSET Tasks, T \subseteq S, ClosedUnder(g, S)
        PROVE  d \in S
    <3>1. t \in S
      BY <2>2 DEF Needed
    <3>2. QED BY <2>2, <3>1 DEF ClosedUnder
  <2>3. QED BY <2>1, <2>2 DEF Needed
<1>3. QED BY <1>1, <1>2 DEF ClosedUnder

\* They are the least set of this kind.
LEMMA NeededLeast ==
  ASSUME NEW g, NEW T, NEW S \in SUBSET Tasks, T \subseteq S, ClosedUnder(g, S)
  PROVE  Needed(g, T) \subseteq S
BY DEF Needed

LEMMA NeededMonotone ==
  ASSUME NEW g, NEW T, NEW U, T \subseteq U
  PROVE  Needed(g, T) \subseteq Needed(g, U)
BY DEF Needed

\* A list of tasks behind their dependencies contains what its members need.
LEMMA PrecedeClosed ==
  ASSUME NEW g, NEW s \in Seq(Tasks), DepsPrecede(g, s)
  PROVE  ClosedUnder(g, Range(s)) /\ Range(s) \in SUBSET Tasks
<1>1. ASSUME NEW i \in DOMAIN s, NEW d \in Range(g[s[i]])
      PROVE  d \in Range(s)
  <2>1. PICK j \in 1..(i - 1) : s[j] = d
    BY DEF DepsPrecede
  <2>2. j \in DOMAIN s
    OBVIOUS
  <2>3. QED BY <2>1, <2>2 DEF Range
<1>2. ClosedUnder(g, Range(s))
  <2> SUFFICES ASSUME NEW t \in Range(s), NEW d \in Range(g[t])
               PROVE  d \in Range(s)
    BY DEF ClosedUnder
  <2>1. PICK i \in DOMAIN s : s[i] = t
    BY DEF Range
  <2>2. QED BY <1>1, <2>1
<1>3. QED BY <1>2 DEF Range

\* The first r requested tasks, and what they need.
Wanted(r) == {requested[k] : k \in 1..r}
NeededBy(r) == Needed(deps, Wanted(r))

LEMMA NeededByFacts ==
  ASSUME TypeOK, NEW r \in 0..Len(requested)
  PROVE  /\ NeededBy(r) \subseteq Tasks
         /\ ClosedUnder(deps, NeededBy(r))
         /\ \A k \in 1..r : requested[k] \in NeededBy(r)
         /\ \A q \in 0..r : NeededBy(q) \subseteq NeededBy(r)
<1>1. deps \in [Tasks -> Seq(Tasks)] /\ Wanted(r) \in SUBSET Tasks
  BY DepGraphsAssumption DEF TypeOK, Wanted
<1>2. \A q \in 0..r : Wanted(q) \subseteq Wanted(r)
  BY DEF Wanted
<1>3. \A k \in 1..r : requested[k] \in Wanted(r)
  BY DEF Wanted
<1>4. QED BY <1>1, <1>2, <1>3, NeededFacts, NeededMonotone DEF NeededBy

LEMMA NeededByPrefix ==
  ASSUME TypeOK, NEW r \in 0..Len(requested)
  PROVE  NeededBy(r) = Needed(deps, Range(SubSeq(requested, 1, r)))
<1> DEFINE s == SubSeq(requested, 1, r)
<1>1. DOMAIN s = 1..r /\ \A k \in 1..r : s[k] = requested[k]
  BY DEF TypeOK
<1>2. Wanted(r) = Range(s)
  BY <1>1 DEF Wanted, Range
<1>3. QED BY <1>2 DEF NeededBy

LEMMA NeededByRequested ==
  ASSUME TypeOK
  PROVE  NeededBy(Len(requested)) = Needed(deps, Range(requested))
<1>1. Wanted(Len(requested)) = Range(requested)
  BY DEF TypeOK, Wanted, Range
<1>2. QED BY <1>1 DEF NeededBy

LEMMA NeededBySame ==
  ASSUME UNCHANGED <<deps, requested>>
  PROVE  \A r : NeededBy(r)' = NeededBy(r)
BY DEF NeededBy, Wanted, Needed, ClosedUnder

\* The walk of a target starts from it, and meets only what the targets so far need.
WalkInv ==
    /\ target \in 0..Len(requested)
    /\ phase = "idle" => target = 0 /\ stack = <<>> /\ execution = <<>> /\ ordering = <<>>
    /\ phase \in {"walk", "expand"} =>
          /\ target > 0
          /\ \/ requested[target] \in finished
             \/ stack # <<>> /\ stack[1] = requested[target]
    /\ \A i \in DOMAIN stack : stack[i] \in NeededBy(target)
    /\ phase \in {"retain", "ready"} => target = Len(requested)
    /\ phase = "ready" => scanned = Len(execution)

\* Nothing else is in the walks, and the targets walked to the end are.
TargetInv ==
    /\ Range(execution) \subseteq NeededBy(target)
    /\ Range(ordering) \subseteq Range(execution)
    /\ \A r \in 1..target :
          r < target \/ phase \notin {"walk", "expand"} => requested[r] \in Range(execution)

\* What the first r targets need is in s before anything they do not need.
ListedEarlier(s, r) ==
    \A i \in DOMAIN s : s[i] \notin NeededBy(r) =>
        \A t \in NeededBy(r) : \E j \in 1..(i - 1) : s[j] = t

EarlierInv ==
    \A r \in 1..Len(requested) : ListedEarlier(execution, r) /\ ListedEarlier(ordering, r)

OrderInv == PlanInv /\ WalkInv /\ TargetInv /\ EarlierInv

LEMMA InitOrderInv == Init => OrderInv
<1> SUFFICES ASSUME Init PROVE OrderInv
  OBVIOUS
<1>1. Range(<<>>) = {}
  BY DEF Range
<1>2. WalkInv
  BY DEF Init, WalkInv
<1>3. TargetInv
  BY <1>1 DEF Init, TargetInv
<1>4. EarlierInv
  BY DEF Init, EarlierInv
<1>5. QED BY <1>2, <1>3, <1>4, InitPlanInv DEF OrderInv

\* A target that was walked to its end is in the walks with all it needs.
LEMMA WalkedTargets ==
  ASSUME OrderInv, NEW r \in 0..target,
         r < target \/ phase \notin {"walk", "expand"}
  PROVE  NeededBy(r) \subseteq Range(execution)
<1>1. /\ execution \in Seq(Tasks) /\ DepsPrecede(deps, execution) /\ target \in Nat
  BY DEF OrderInv, PlanInv, TypeOK, ExecutionInv
<1>2. ClosedUnder(deps, Range(execution)) /\ Range(execution) \in SUBSET Tasks
  BY <1>1, PrecedeClosed
<1>3. \A k \in 1..r : requested[k] \in Range(execution)
  BY <1>1 DEF OrderInv, TargetInv
<1>4. Wanted(r) \subseteq Range(execution)
  BY <1>3 DEF Wanted
<1>5. QED BY <1>2, <1>4, NeededLeast DEF NeededBy

(***************************************************************************)
(* The steps of the planner: WalkInv, TargetInv and EarlierInv             *)
(***************************************************************************)

LEMMA PlanOrderInv ==
  ASSUME OrderInv, NEW ts \in Seq(Tasks), Plan(ts)
  PROVE  OrderInv'
<1>1. PlanInv'
  BY PlanPlanInv DEF OrderInv
<1>2. /\ target' = 0 /\ stack' = <<>> /\ execution' = <<>> /\ ordering' = <<>>
      /\ phase' = "target" /\ requested' = ts
  BY DEF Plan, walkVars, retainVars, OrderInv, WalkInv
<1>3. Range(<<>>) = {}
  BY DEF Range
<1>4. WalkInv'
  BY <1>2 DEF WalkInv
<1>5. TargetInv'
  BY <1>2, <1>3 DEF TargetInv
<1>6. EarlierInv'
  BY <1>2 DEF EarlierInv, ListedEarlier
<1>7. QED BY <1>1, <1>4, <1>5, <1>6 DEF OrderInv

\* Steps that leave the walks and the plan alone keep what is said of them.
LEMMA SameLists ==
  ASSUME OrderInv, UNCHANGED <<deps, requested, execution, ordering>>
  PROVE  EarlierInv'
<1>1. \A r : NeededBy(r)' = NeededBy(r)
  BY NeededBySame
<1>2. \A r \in 1..Len(requested)' : ListedEarlier(execution, r)' /\ ListedEarlier(ordering, r)'
  BY <1>1 DEF OrderInv, EarlierInv, ListedEarlier
<1>3. QED BY <1>2 DEF EarlierInv

LEMMA StartWalkOrder ==
  ASSUME OrderInv, StartWalk
  PROVE  WalkInv' /\ TargetInv' /\ EarlierInv'
<1>1. /\ phase = "target" /\ phase' = "walk" /\ target < Len(requested) /\ target' = target + 1
      /\ stack' = <<requested[target + 1]>>
      /\ UNCHANGED <<deps, requested, execution, ordering>>
      /\ target \in Nat /\ Len(requested) \in Nat
  BY DEF StartWalk, retainVars, OrderInv, PlanInv, TypeOK
<1>2. \A r : NeededBy(r)' = NeededBy(r)
  BY <1>1, NeededBySame
<1>3. /\ target + 1 \in 0..Len(requested)
      /\ requested[target + 1] \in NeededBy(target + 1)
      /\ NeededBy(target) \subseteq NeededBy(target + 1)
  BY <1>1, NeededByFacts DEF OrderInv, PlanInv
<1>4. WalkInv'
  BY <1>1, <1>2, <1>3 DEF WalkInv
<1>5. TargetInv'
  BY <1>1, <1>2, <1>3 DEF OrderInv, TargetInv
<1>6. QED BY <1>1, <1>4, <1>5, SameLists

\* A neighbour is needed by whom its node is needed by.
LEMMA PushNeighbourOrder ==
  ASSUME OrderInv, PushNeighbour
  PROVE  WalkInv' /\ TargetInv' /\ EarlierInv'
<1> PICK succ, len : succ = deps[node][edge] /\ len = Len(stack)
  OBVIOUS
<1>1. /\ phase = "expand" /\ phase' = "expand"
      /\ UNCHANGED <<deps, requested, target, finished, execution, ordering>>
      /\ stack' = stack \/ stack' = Append(stack, succ)
      /\ stack \in Seq(Tasks) /\ len \in Nat /\ node \in Tasks /\ edge \in DOMAIN deps[node]
      /\ deps[node] \in Seq(Tasks)
  BY GraphFacts DEF PushNeighbour, retainVars, OrderInv, PlanInv, TypeOK
<1>2. \A r : NeededBy(r)' = NeededBy(r)
  BY <1>1, NeededBySame
<1>3. PICK top \in DOMAIN stack : stack[top] = node
  BY <1>1 DEF OrderInv, PlanInv, ExpandInv, LastAt
<1>4. succ \in NeededBy(target) /\ succ \in Tasks
  <2>1. node \in NeededBy(target) /\ target \in 0..Len(requested)
    BY <1>3 DEF OrderInv, WalkInv
  <2>2. succ \in Range(deps[node])
    BY <1>1 DEF Range
  <2>3. ClosedUnder(deps, NeededBy(target)) /\ NeededBy(target) \subseteq Tasks
    BY <2>1, NeededByFacts DEF OrderInv, PlanInv
  <2>4. QED BY <2>1, <2>2, <2>3 DEF ClosedUnder
<1>5. WalkInv'
  <2>1. /\ \A i \in DOMAIN stack' : stack'[i] \in NeededBy(target)
        /\ stack # <<>> => stack' # <<>> /\ stack'[1] = stack[1]
    <3>1. CASE stack' = stack
      BY <3>1 DEF OrderInv, WalkInv
    <3>2. CASE stack' = Append(stack, succ)
      <4>1. DOMAIN stack' = 1..(len + 1) /\ stack'[len + 1] = succ /\ DOMAIN stack = 1..len
            /\ \A i \in 1..len : stack'[i] = stack[i]
        BY <1>1, <1>4, <3>2
      <4>2. \A i \in DOMAIN stack' : stack'[i] \in NeededBy(target)
        BY <1>1, <1>4, <4>1 DEF OrderInv, WalkInv
      <4>3. stack' # <<>> /\ (stack # <<>> => stack'[1] = stack[1])
        BY <1>1, <1>4, <3>2
      <4>4. QED BY <4>2, <4>3
    <3>3. QED BY <1>1, <3>1, <3>2
  <2>2. QED BY <1>1, <1>2, <2>1 DEF OrderInv, WalkInv
<1>6. TargetInv'
  BY <1>1, <1>2 DEF OrderInv, TargetInv
<1>7. QED BY <1>1, <1>5, <1>6, SameLists

\* A node that is popped has been returned, and is needed by the targets so far.
LEMMA PopOrder ==
  ASSUME OrderInv, Pop, finished' = finished \cup {Top},
         UNCHANGED <<deps, requested, target, phase, scanned>>
  PROVE  WalkInv'
<1>1. /\ phase = "walk" /\ stack \in Seq(Tasks) /\ stack # <<>>
      /\ stack' = SubSeq(stack, 1, Len(stack) - 1)
  BY DEF Pop, OrderInv, PlanInv, TypeOK
<1>2. \A r : NeededBy(r)' = NeededBy(r)
  BY NeededBySame
<1>3. \A i \in DOMAIN stack' : i \in DOMAIN stack /\ stack'[i] = stack[i]
  BY <1>1
<1>4. requested[target] \in finished' \/ (stack' # <<>> /\ stack'[1] = requested[target])
  <2>1. CASE requested[target] \in finished
    BY <2>1
  <2>2. CASE stack[1] = requested[target] /\ Len(stack) = 1
    BY <2>2 DEF Top
  <2>3. Len(stack) \in Nat \ {0}
    BY <1>1
  <2>4. CASE stack[1] = requested[target] /\ Len(stack) # 1
    <3>1. Len(stack) - 1 \in Nat /\ Len(stack) - 1 > 0
      BY <2>3, <2>4
    <3>2. DOMAIN stack' = 1..(Len(stack) - 1) /\ stack'[1] = stack[1]
      BY <1>1, <3>1
    <3>3. stack' # <<>>
      BY <3>1, <3>2
    <3>4. QED BY <2>4, <3>2, <3>3
  <2>5. QED BY <1>1, <2>1, <2>2, <2>4 DEF OrderInv, WalkInv
<1>5. QED BY <1>1, <1>2, <1>3, <1>4 DEF OrderInv, WalkInv

\* Behind the current walk there is nothing that an earlier target needs and that has
\* not been listed.
LEMMA EmitOrder ==
  ASSUME OrderInv, Emit
  PROVE  WalkInv' /\ TargetInv' /\ EarlierInv'
<1> PICK top, len : top = Top /\ len = Len(execution)
  OBVIOUS
<1>1. /\ phase = "walk" /\ UNCHANGED <<deps, requested, target, ordering, phase, scanned>>
      /\ execution' = Append(execution, top) /\ finished' = finished \cup {Top}
      /\ execution \in Seq(Tasks) /\ stack \in Seq(Tasks) /\ stack # <<>> /\ top \in Tasks
      /\ top = stack[Len(stack)] /\ len \in Nat /\ target \in 0..Len(requested)
      /\ requested \in Seq(Tasks)
  BY DEF Emit, Pop, Top, retainVars, OrderInv, PlanInv, TypeOK, WalkInv
<1>2. \A r : NeededBy(r)' = NeededBy(r)
  BY <1>1, NeededBySame
<1>3. top \in NeededBy(target)
  BY <1>1 DEF OrderInv, WalkInv
<1>4. Range(execution') = Range(execution) \cup {top}
  BY <1>1, RangeOfAppend
<1>5. WalkInv'
  BY <1>1, PopOrder DEF Emit
<1>6. TargetInv'
  BY <1>1, <1>2, <1>3, <1>4 DEF OrderInv, TargetInv
<1>7. EarlierInv'
  <2> SUFFICES ASSUME NEW r \in 1..Len(requested)
               PROVE  ListedEarlier(execution, r)' /\ ListedEarlier(ordering, r)'
    BY <1>1 DEF EarlierInv
  <2>1. ListedEarlier(execution, r) /\ ListedEarlier(ordering, r)
    BY DEF OrderInv, EarlierInv
  <2>2. ListedEarlier(ordering, r)'
    BY <1>1, <1>2, <2>1 DEF ListedEarlier
  <2>3. ASSUME NEW t \in NeededBy(r), top \notin NeededBy(r)
        PROVE  \E j \in 1..len : execution[j] = t
    <3>1. r < target
      <4>1. ~(target <= r)
        BY <1>1, <1>3, <2>3, NeededByFacts DEF OrderInv, PlanInv
      <4>2. QED BY <1>1, <4>1
    <3>2. t \in Range(execution)
      BY <1>1, <2>3, <3>1, WalkedTargets
    <3>3. QED BY <1>1, <3>2 DEF Range
  <2>4. /\ DOMAIN execution' = 1..(len + 1) /\ execution'[len + 1] = top
        /\ \A j \in 1..len : execution'[j] = execution[j]
        /\ DOMAIN execution = 1..len
    BY <1>1
  <2>5. ASSUME NEW i \in 1..(len + 1), execution'[i] \notin NeededBy(r), NEW t \in NeededBy(r)
        PROVE  \E j \in 1..(i - 1) : execution'[j] = t
    <3>1. CASE i = len + 1
      BY <1>1, <2>3, <2>4, <2>5, <3>1
    <3>2. CASE i \in 1..len
      <4>1. PICK j \in 1..(i - 1) : execution[j] = t
        BY <2>1, <2>4, <2>5, <3>2 DEF ListedEarlier
      <4>2. QED BY <1>1, <2>4, <3>2, <4>1
    <3>3. QED BY <1>1, <3>1, <3>2
  <2>6. ListedEarlier(execution, r)'
    BY <1>2, <2>4, <2>5 DEF ListedEarlier
  <2>7. QED BY <2>2, <2>6
<1>8. QED BY <1>5, <1>6, <1>7

LEMMA DiscardOrder ==
  ASSUME OrderInv, Discard
  PROVE  WalkInv' /\ TargetInv' /\ EarlierInv'
<1>1. /\ UNCHANGED <<deps, requested, target, phase, scanned, execution, ordering>>
      /\ finished' = finished \cup {Top} /\ Pop
  BY DEF Discard, retainVars
<1>2. \A r : NeededBy(r)' = NeededBy(r)
  BY <1>1, NeededBySame
<1>3. TargetInv'
  BY <1>1, <1>2 DEF OrderInv, TargetInv
<1>4. QED BY <1>1, <1>3, PopOrder, SameLists

\* The stack is empty: the target has been returned.
LEMMA EndWalkOrder ==
  ASSUME OrderInv, EndWalk
  PROVE  WalkInv' /\ TargetInv' /\ EarlierInv'
<1>1. /\ phase = "walk" /\ phase' = "target" /\ stack = <<>>
      /\ UNCHANGED <<deps, requested, target, stack, finished, execution, ordering, scanned>>
      /\ target \in Nat
  BY DEF EndWalk, walkVars, retainVars, OrderInv, PlanInv, TypeOK
<1>2. \A r : NeededBy(r)' = NeededBy(r)
  BY <1>1, NeededBySame
<1>3. requested[target] \in Range(execution)
  BY <1>1 DEF OrderInv, WalkInv, PlanInv, ExecutionInv
<1>4. WalkInv'
  BY <1>1, <1>2 DEF OrderInv, WalkInv
<1>5. \A r \in 1..target : r < target \/ r = target
  BY <1>1
<1>6. TargetInv'
  BY <1>1, <1>2, <1>3, <1>5 DEF OrderInv, TargetInv
<1>7. QED BY <1>1, <1>4, <1>6, SameLists

\* retain() has kept everything before the element it looks at.
LEMMA RetainOrder ==
  ASSUME OrderInv, Retain
  PROVE  WalkInv' /\ TargetInv' /\ EarlierInv'
<1> PICK t, len : t = execution[scanned + 1] /\ len = Len(ordering)
  OBVIOUS
<1>1. /\ phase = "retain" /\ UNCHANGED <<deps, requested, target, stack, finished, execution, phase>>
      /\ scanned + 1 \in DOMAIN execution /\ scanned \in Nat /\ t \in Tasks
      /\ execution \in Seq(Tasks) /\ ordering \in Seq(Tasks) /\ len \in Nat
      /\ uniques = Range(ordering) /\ \A k \in 1..scanned : execution[k] \in uniques
      /\ ordering' = IF t \in uniques THEN ordering ELSE Append(ordering, t)
  BY DEF Retain, walkVars, OrderInv, PlanInv, TypeOK, RetainInv
<1>2. \A r : NeededBy(r)' = NeededBy(r)
  BY <1>1, NeededBySame
<1>3. WalkInv'
  BY <1>1, <1>2 DEF OrderInv, WalkInv
<1>4. TargetInv'
  <2>1. Range(ordering') \subseteq Range(ordering) \cup {t}
    BY <1>1, RangeOfAppend
  <2>2. t \in Range(execution)
    BY <1>1 DEF Range
  <2>3. QED BY <1>1, <1>2, <2>1, <2>2 DEF OrderInv, TargetInv
<1>5. EarlierInv'
  <2> SUFFICES ASSUME NEW r \in 1..Len(requested)
               PROVE  ListedEarlier(execution, r)' /\ ListedEarlier(ordering, r)'
    BY <1>1 DEF EarlierInv
  <2>1. ListedEarlier(execution, r) /\ ListedEarlier(ordering, r)
    BY DEF OrderInv, EarlierInv
  <2>2. ListedEarlier(execution, r)'
    BY <1>1, <1>2, <2>1 DEF ListedEarlier
  <2>3. CASE t \in uniques
    BY <1>1, <1>2, <2>1, <2>2, <2>3 DEF ListedEarlier
  <2>4. CASE t \notin uniques
    <3>1. /\ DOMAIN ordering' = 1..(len + 1) /\ ordering'[len + 1] = t
          /\ \A j \in 1..len : ordering'[j] = ordering[j]
          /\ DOMAIN ordering = 1..len
      BY <1>1, <2>4
    <3>2. ASSUME NEW u \in NeededBy(r), t \notin NeededBy(r)
          PROVE  \E j \in 1..len : ordering[j] = u
      <4>1. PICK k \in 1..((scanned + 1) - 1) : execution[k] = u
        BY <1>1, <2>1, <3>2 DEF ListedEarlier
      <4>2. u \in Range(ordering)
        BY <1>1, <4>1
      <4>3. QED BY <3>1, <4>2 DEF Range
    <3>3. ASSUME NEW i \in 1..(len + 1), ordering'[i] \notin NeededBy(r), NEW u \in NeededBy(r)
          PROVE  \E j \in 1..(i - 1) : ordering'[j] = u
      <4>1. CASE i = len + 1
        BY <1>1, <3>1, <3>2, <3>3, <4>1
      <4>2. CASE i \in 1..len
        <5>1. PICK j \in 1..(i - 1) : ordering[j] = u
          BY <2>1, <3>1, <3>3, <4>2 DEF ListedEarlier
        <5>2. QED BY <1>1, <3>1, <4>2, <5>1
      <4>3. QED BY <1>1, <4>1, <4>2
    <3>4. ListedEarlier(ordering, r)'
      BY <1>2, <3>1, <3>3 DEF ListedEarlier
    <3>5. QED BY <2>2, <3>4
  <2>5. QED BY <2>3, <2>4
<1>6. QED BY <1>3, <1>4, <1>5

\* The other steps change neither the lists nor what is to be walked.
LEMMA SilentOrder ==
  ASSUME OrderInv, Discover \/ ExpandDone \/ StartRetain \/ PlanReady \/ UNCHANGED planVars
  PROVE  WalkInv' /\ TargetInv' /\ EarlierInv'
<1>1. /\ UNCHANGED <<deps, requested, target, stack, finished, execution, ordering, scanned>>
      /\ target \in Nat
      /\ \/ phase' = phase
         \/ phase \in {"walk", "expand"} /\ phase' \in {"walk", "expand"}
         \/ phase = "target" /\ phase' = "retain" /\ target = Len(requested)
         \/ phase = "retain" /\ phase' = "ready" /\ scanned = Len(execution)
  BY DEF Discover, ExpandDone, StartRetain, PlanReady, planVars, walkVars, retainVars,
         OrderInv, PlanInv, TypeOK
<1>2. \A r : NeededBy(r)' = NeededBy(r)
  BY <1>1, NeededBySame
<1>3. WalkInv'
  BY <1>1, <1>2 DEF OrderInv, WalkInv
<1>4. TargetInv'
  BY <1>1, <1>2 DEF OrderInv, TargetInv
<1>5. QED BY <1>1, <1>3, <1>4, SameLists

LEMMA StepOrderInv ==
  ASSUME OrderInv, PlanStep \/ UNCHANGED planVars
  PROVE  OrderInv'
<1>1. PlanInv'
  BY StepPlanInv, StutterPlanInv DEF OrderInv
<1>2. WalkInv' /\ TargetInv' /\ EarlierInv'
  BY StartWalkOrder, PushNeighbourOrder, EmitOrder, DiscardOrder, EndWalkOrder, RetainOrder,
     SilentOrder DEF PlanStep
<1>3. QED BY <1>1, <1>2 DEF OrderInv

\* The second invariant, of the walks as a whole.
THEOREM OrderInvariant == Spec => []OrderInv
<1>1. OrderInv /\ [Next]_planVars => OrderInv'
  BY PlanOrderInv, StepOrderInv, RequestsAssumption DEF Next
<1>2. QED BY InitOrderInv, <1>1, PTL DEF Spec

\* The finished plan is complete and has nothing to spare: it lists exactly the tasks
\* that the requested ones need.
LEMMA ReadyPlan ==
  ASSUME OrderInv, phase \in {"retain", "ready"}, scanned = Len(execution)
  PROVE  Range(ordering) = Needed(deps, Range(requested))
<1>1. /\ target = Len(requested) /\ target \in Nat /\ execution \in Seq(Tasks) /\ TypeOK
  BY DEF OrderInv, WalkInv, PlanInv, TypeOK
<1>2. NeededBy(target) = Needed(deps, Range(requested))
  BY <1>1, NeededByRequested
<1>3. Range(execution) = Range(ordering)
  <2>1. Range(execution) \subseteq Range(ordering)
    BY <1>1 DEF OrderInv, PlanInv, RetainInv, Range
  <2>2. QED BY <2>1 DEF OrderInv, TargetInv
<1>4. NeededBy(target) \subseteq Range(execution)
  BY <1>1, WalkedTargets
<1>5. Range(execution) = NeededBy(target)
  BY <1>4, Zenon DEF OrderInv, TargetInv
<1>6. QED BY <1>2, <1>3, <1>5

\* For every list of requests: whatever the first of them need is planned before all
\* that only the later ones need ("tasks will retain their highest priority").
THEOREM PlanEarlierTargetsFirst == Spec => []EarlierTargetsFirst
<1>1. OrderInv => EarlierTargetsFirst
  <2> SUFFICES ASSUME OrderInv, NEW i \in DOMAIN ordering, NEW j \in DOMAIN ordering,
                      NEW r \in 1..Len(requested),
                      ordering[i] \notin NeededBy(r), ordering[j] \in NeededBy(r)
               PROVE  j < i
    <3>1. OrderInv => \A r \in 1..Len(requested) :
                         NeededBy(r) = Needed(deps, Range(SubSeq(requested, 1, r)))
      BY NeededByPrefix DEF OrderInv, PlanInv, TypeOK
    <3>2. QED BY <3>1 DEF EarlierTargetsFirst
  <2>1. ordering \in Seq(Tasks)
    BY DEF OrderInv, PlanInv, TypeOK
  <2>2. PICK k \in 1..(i - 1) : ordering[k] = ordering[j]
    BY DEF OrderInv, EarlierInv, ListedEarlier
  <2>3. k \in DOMAIN ordering /\ k < i
    BY <2>1
  <2>4. k = j
    BY <2>2, <2>3 DEF OrderInv, PlanInv, NoDuplicates
  <2>5. QED BY <2>3, <2>4
<1>2. QED BY OrderInvariant, <1>1, PTL

(***************************************************************************)
(* The planner implements DependencyOrder                                  *)
(***************************************************************************)

\* The operators of both modules are the same.
LEMMA SameNeeded ==
  /\ \A s : Order!Range(s) = Range(s)
  /\ \A g, T : Order!Needed(g, T) = Needed(g, T)
<1>1. \A s : Order!Range(s) = Range(s)
  BY DEF Order!Range, Range
<1>2. \A g, S : Order!ClosedUnder(g, S) <=> ClosedUnder(g, S)
  BY <1>1 DEF Order!ClosedUnder, ClosedUnder
<1>3. \A g, T : Order!Needed(g, T) = Needed(g, T)
  BY <1>2 DEF Order!Needed, Needed
<1>4. QED BY <1>1, <1>3

\* Nothing but retain() and the end of it can be seen.
LEMMA HiddenSteps ==
  ASSUME StartWalk \/ Discover \/ PushNeighbour \/ ExpandDone \/ Emit \/ Discard
         \/ EndWalk \/ StartRetain \/ UNCHANGED planVars
  PROVE  UNCHANGED Order!vars
<1>1. /\ UNCHANGED <<deps, requested, ordering>>
      /\ phase' = phase \/ ({phase, phase'} \cap {"idle", "ready"} = {})
  BY DEF StartWalk, Discover, PushNeighbour, ExpandDone, Emit, Discard, Pop, EndWalk,
         StartRetain, planVars, walkVars, retainVars
<1>2. QED BY <1>1 DEF Order!vars

LEMMA PlanWants ==
  ASSUME OrderInv, NEW ts \in Requests, Plan(ts)
  PROVE  Order!Want
BY SameNeeded DEF Plan, retainVars, Order!Want

LEMMA RetainLists ==
  ASSUME OrderInv, Retain
  PROVE  Order!List \/ UNCHANGED Order!vars
<1> PICK t : t = execution[scanned + 1]
  OBVIOUS
<1>1. /\ phase = "retain" /\ UNCHANGED <<deps, requested, phase>>
      /\ scanned \in Nat /\ scanned + 1 \in DOMAIN execution
      /\ uniques = Range(ordering) /\ \A k \in 1..scanned : execution[k] \in uniques
      /\ ordering' = IF t \in uniques THEN ordering ELSE Append(ordering, t)
      /\ target = Len(requested) /\ TypeOK
  BY DEF Retain, walkVars, OrderInv, PlanInv, TypeOK, RetainInv, WalkInv
<1>2. CASE t \in uniques
  BY <1>1, <1>2 DEF Order!vars
<1>3. CASE t \notin uniques
  <2>1. t \in Order!Needed(deps, Range(requested)) \ Range(ordering)
    <3>1. t \in Range(execution)
      BY <1>1 DEF Range
    <3>2. QED BY <1>1, <1>3, <3>1, NeededByRequested, SameNeeded DEF OrderInv, TargetInv
  <2>2. Range(deps[t]) \subseteq Range(ordering)
    <3> SUFFICES ASSUME NEW d \in Range(deps[t]) PROVE d \in Range(ordering)
      OBVIOUS
    <3>1. PICK j \in 1..((scanned + 1) - 1) : execution[j] = d
      BY <1>1 DEF OrderInv, PlanInv, ExecutionInv, DepsPrecede
    <3>2. QED BY <1>1, <3>1
  <2>3. QED BY <1>1, <1>3, <2>1, <2>2, SameNeeded DEF Order!List
<1>4. QED BY <1>2, <1>3

LEMMA ReadyIsDone ==
  ASSUME OrderInv, PlanReady
  PROVE  Order!Done
<1>1. /\ phase = "retain" /\ phase' = "ready" /\ scanned = Len(execution)
      /\ UNCHANGED <<deps, requested, ordering>>
  BY DEF PlanReady, walkVars, retainVars
<1>2. Range(ordering) = Needed(deps, Range(requested))
  BY <1>1, ReadyPlan
<1>3. QED BY <1>1, <1>2, SameNeeded DEF Order!Done

\* Every behaviour of the planner is one of DependencyOrder: what it lists is needed,
\* comes behind its dependencies and is listed once, and the plan is not ready before
\* all that is needed is listed.
THEOREM PlanImplementsOrder == Spec => Order!Spec
<1>1. Init => Order!Init
  <2>1. Range(<<>>) = {}
    BY DEF Range
  <2>2. QED BY <2>1 DEF Init, Order!Init
<1>2. OrderInv /\ [Next]_planVars => [Order!Next]_Order!vars
  <2> SUFFICES ASSUME OrderInv, [Next]_planVars
               PROVE  Order!Next \/ UNCHANGED Order!vars
    OBVIOUS
  <2>1. ASSUME NEW ts \in Requests, Plan(ts) PROVE Order!Next
    BY <2>1, PlanWants DEF Order!Next
  <2>2. CASE Retain
    BY <2>2, RetainLists DEF Order!Next
  <2>3. CASE PlanReady
    BY <2>3, ReadyIsDone DEF Order!Next
  <2>4. QED BY <2>1, <2>2, <2>3, HiddenSteps DEF Next, PlanStep
<1>3. QED BY OrderInvariant, <1>1, <1>2, PTL DEF Spec, Order!Spec


(***************************************************************************)
(* The steps of execute(), grouped by what they do to the results          *)
(***************************************************************************)

\* A slot of Lua's registry holds something else than it should
Unreadable == DefaultsUnreadable \/ BodiesUnreadable \/ BodyUnreadable

\* A step that leaves the plan and the results alone
Quiet ==
    \/ ShowPlan \/ StartRun \/ StartTask \/ FinishIncomplete \/ FinishSuccess \/ UnknownTarget
    \/ Unreadable

\* A step that ends the current task and goes on
Recording == SkipDownstream \/ NoBody \/ BodyReturns \/ BodyReturnsUserData \/ BodyCancels

LEMMA RunNextCases ==
  RunNext = (Planning \/ Resolve \/ Quiet \/ Recording \/ BodyFails \/ BodyErrors)
BY DEF RunNext, ExecStep, Quiet, Unreadable, Recording

LEMMA UnreadableStep ==
  ASSUME Unreadable
  PROVE  /\ mode \in {"start", "planning", "task"} /\ mode' = "done" /\ verdict' = "lua error"
         /\ UNCHANGED <<planVars, results, next, called, cancelled, events>>
BY DEF Unreadable, DefaultsUnreadable, BodiesUnreadable, BodyUnreadable, Return

(***************************************************************************)
(* The inductive invariant                                                 *)
(***************************************************************************)

ModeInv ==
    /\ mode \in Modes
    /\ next \in Nat
    /\ results \in [Tasks -> Results]
    /\ called \in SUBSET Tasks
    /\ mode = "start" => phase = "idle"
    /\ mode \in {"start", "planning"} => next = 0
    /\ mode \in {"running", "task"} => next <= Len(ordering) /\ phase = "ready"
    /\ mode = "task" => next < Len(ordering)

\* While the loop runs, the tasks with a result are those it has been through.
ResultsInv ==
    mode # "done" =>
        \A t \in Tasks : results[t] # "none" <=> \E i \in 1..next : ordering[i] = t

\* A task that succeeded, or whose body was called, has only successful dependencies.
SuccessInv ==
    \A t \in Tasks :
        results[t] = "success" \/ t \in called =>
            \A d \in Range(deps[t]) : results[d] = "success"

RunInv ==
    /\ PlanInv
    /\ ModeInv
    /\ ResultsInv
    /\ SuccessInv

LEMMA InitRunInv == RunInit => RunInv
<1> SUFFICES ASSUME RunInit PROVE RunInv
  OBVIOUS
<1>1. PlanInv
  BY InitPlanInv DEF RunInit
<1>2. ModeInv
  BY DEF RunInit, Init, ModeInv, Modes, Results
<1>3. ResultsInv /\ SuccessInv
  BY DEF RunInit, ResultsInv, SuccessInv
<1>4. QED BY <1>1, <1>2, <1>3 DEF RunInv

\* The current task has no result yet, since the plan does not list it twice.
LEMMA CurrentFacts ==
  ASSUME RunInv, mode = "task"
  PROVE  /\ Current \in Tasks
         /\ next + 1 \in DOMAIN ordering
         /\ results[Current] = "none"
         /\ \A d \in Range(deps[Current]) : d \in Tasks /\ results[d] # "none"
<1>1. /\ next \in Nat /\ next < Len(ordering) /\ ordering \in Seq(Tasks)
  BY DEF RunInv, ModeInv, PlanInv, TypeOK
<1>2. next + 1 \in DOMAIN ordering /\ Current \in Tasks
  BY <1>1 DEF Current
<1>3. results[Current] = "none"
  <2>1. \A i \in 1..next : ordering[i] # ordering[next + 1]
    BY <1>1, <1>2 DEF RunInv, PlanInv, NoDuplicates
  <2>2. QED BY <1>2, <2>1 DEF RunInv, ResultsInv, Current
<1>4. ASSUME NEW d \in Range(deps[Current])
      PROVE  d \in Tasks /\ results[d] # "none"
  <2>1. d \in Tasks
    BY <1>2, GraphFacts DEF Range, RunInv, PlanInv
  <2>2. PICK j \in 1..((next + 1) - 1) : ordering[j] = d
    BY <1>2 DEF RunInv, PlanInv, ParentsFirst, DepsPrecede, Current
  <2>3. j \in 1..next
    BY <1>1
  <2>4. QED BY <2>1, <2>2, <2>3 DEF RunInv, ResultsInv
<1>5. QED BY <1>2, <1>3, <1>4

LEMMA PlanStepSame ==
  ASSUME PlanStep
  PROVE  UNCHANGED <<deps, requested>> /\ phase # "idle"
BY DEF PlanStep, StartWalk, Discover, PushNeighbour, ExpandDone, Emit, Discard, Pop,
       EndWalk, StartRetain, Retain, PlanReady

LEMMA PlanningRunInv ==
  ASSUME RunInv, Planning
  PROVE  RunInv'
<1>1. PlanInv'
  BY StepPlanInv DEF RunInv, Planning
<1>2. /\ mode = "planning" /\ deps' = deps
      /\ UNCHANGED <<mode, next, results, called>>
  BY PlanStepSame DEF Planning, runVars
<1>3. ModeInv'
  BY <1>2 DEF RunInv, ModeInv
<1>4. ResultsInv'
  BY <1>2 DEF RunInv, ModeInv, ResultsInv
<1>5. SuccessInv'
  BY <1>2 DEF RunInv, SuccessInv
<1>6. QED BY <1>1, <1>3, <1>4, <1>5 DEF RunInv

LEMMA ResolveRunInv ==
  ASSUME RunInv, Resolve
  PROVE  RunInv'
<1>1. PICK names \in CommandLines, defaults \in DefaultLists, runDefaults \in BOOLEAN :
         /\ Unknown \notin Range(names)
         /\ Plan(IF runDefaults THEN names \o defaults ELSE names)
  BY DEF Resolve
<1>2. names \in Seq(Tasks)
  <2>1. names \in Seq(Tasks \cup {Unknown})
    BY CommandLinesAssumption
  <2>2. \A i \in 1..Len(names) : names[i] \in Tasks
    BY <1>1, <2>1 DEF Range
  <2>3. QED BY <2>1, <2>2
<1>3. (IF runDefaults THEN names \o defaults ELSE names) \in Seq(Tasks)
  BY <1>2, DefaultListsAssumption
<1>4. PlanInv'
  BY <1>1, <1>3, PlanPlanInv DEF RunInv
<1>5. /\ mode = "start" /\ mode' = "planning"
      /\ UNCHANGED <<deps, ordering, next, results, called>>
  BY <1>1 DEF Resolve, Plan, retainVars
<1>6. ModeInv' /\ ResultsInv' /\ SuccessInv'
  BY <1>5 DEF RunInv, ModeInv, ResultsInv, SuccessInv, Modes
<1>7. QED BY <1>4, <1>6 DEF RunInv

LEMMA QuietRunInv ==
  ASSUME RunInv, Quiet
  PROVE  RunInv'
<1>1. UNCHANGED <<planVars, results, next, called>>
  BY UnreadableStep
  DEF Quiet, ShowPlan, StartRun, StartTask, FinishIncomplete, FinishSuccess, UnknownTarget
<1>2. PlanInv'
  BY <1>1, StutterPlanInv DEF RunInv
<1>3. UNCHANGED <<deps, ordering, phase, results, next, called>>
  BY <1>1 DEF planVars, retainVars
<1>4. /\ mode # "done"
      /\ \/ mode' = "done"
         \/ mode = "planning" /\ mode' = "running" /\ phase = "ready"
         \/ mode = "running" /\ mode' = "task" /\ next < Len(ordering)
  BY UnreadableStep
  DEF Quiet, ShowPlan, StartRun, StartTask, FinishIncomplete, FinishSuccess, UnknownTarget, Return
<1>5. Len(ordering) \in Nat
  BY DEF RunInv, PlanInv, TypeOK
<1>6. ModeInv'
  BY <1>3, <1>4, <1>5 DEF RunInv, ModeInv, Modes
<1>7. ResultsInv' /\ SuccessInv'
  BY <1>3, <1>4 DEF RunInv, ResultsInv, SuccessInv
<1>8. QED BY <1>2, <1>6, <1>7 DEF RunInv

\* What recording the result r of the current task does to the three parts.
LEMMA ResultRunInv ==
  ASSUME RunInv, mode = "task", NEW r \in Results \ {"none"},
         results' = [results EXCEPT ![Current] = r],
         called' = called \/ (ParentsSucceeded /\ called' = called \cup {Current}),
         r = "success" => ParentsSucceeded,
         UNCHANGED planVars
  PROVE  /\ PlanInv'
         /\ results' \in [Tasks -> Results] /\ called' \in SUBSET Tasks
         /\ SuccessInv'
         /\ \A t \in Tasks : results'[t] # "none" <=> t = Current \/ results[t] # "none"
<1> PICK cur : cur = Current
  OBVIOUS
<1>1. PlanInv'
  BY StutterPlanInv DEF RunInv
<1>2. /\ cur \in Tasks /\ results[cur] = "none" /\ results \in [Tasks -> Results]
      /\ results' = [results EXCEPT ![cur] = r] /\ deps' = deps
      /\ called \in SUBSET Tasks
  BY CurrentFacts DEF RunInv, ModeInv, planVars
<1>3. SuccessInv'
  <2> SUFFICES ASSUME NEW t \in Tasks, results'[t] = "success" \/ t \in called',
                      NEW d \in Range(deps[t])
               PROVE  results'[d] = "success"
    BY <1>2 DEF SuccessInv
  <2>1. results[d] = "success"
    BY <1>2 DEF RunInv, SuccessInv, ParentsSucceeded
  <2>2. d \in Tasks
    BY GraphFacts DEF Range, RunInv, PlanInv
  <2>3. QED BY <1>2, <2>1, <2>2
<1>4. QED BY <1>1, <1>2, <1>3

LEMMA RecordingRunInv ==
  ASSUME RunInv, Recording
  PROVE  RunInv'
<1>1. PICK r \in Results \ {"none"} :
         /\ mode = "task" /\ Record(r)
         /\ r = "success" => ParentsSucceeded
         /\ called' = called \/ (ParentsSucceeded /\ called' = called \cup {Current})
  BY DEF Recording, SkipDownstream, NoBody, BodyReturns, BodyReturnsUserData, BodyCancels,
      Call, Results
<1>2. /\ results' = [results EXCEPT ![Current] = r] /\ next' = next + 1
      /\ mode' = "running" /\ UNCHANGED planVars
  BY <1>1 DEF Record
<1>3. /\ PlanInv' /\ results' \in [Tasks -> Results] /\ called' \in SUBSET Tasks
      /\ SuccessInv'
      /\ \A t \in Tasks : results'[t] # "none" <=> t = Current \/ results[t] # "none"
  BY <1>1, <1>2, ResultRunInv
<1>4. /\ ordering' = ordering /\ phase' = phase /\ next \in Nat
      /\ next < Len(ordering) /\ phase = "ready" /\ Len(ordering) \in Nat
  BY <1>1, <1>2 DEF planVars, retainVars, RunInv, ModeInv, PlanInv, TypeOK
<1>5. ModeInv'
  BY <1>2, <1>3, <1>4 DEF ModeInv, Modes
<1>6. ResultsInv'
  <2> SUFFICES ASSUME NEW t \in Tasks
               PROVE  results'[t] # "none" <=> \E i \in 1..next' : ordering'[i] = t
    BY DEF ResultsInv
  <2>1. results[t] # "none" <=> \E i \in 1..next : ordering[i] = t
    BY <1>1 DEF RunInv, ResultsInv
  <2>2. 1..next' = (1..next) \cup {next + 1}
    BY <1>2, <1>4
  <2>3. QED BY <1>3, <1>4, <2>1, <2>2 DEF Current
<1>7. QED BY <1>3, <1>5, <1>6 DEF RunInv

LEMMA BodyFailsRunInv ==
  ASSUME RunInv, BodyFails
  PROVE  RunInv'
<1>1. /\ mode = "task" /\ mode' = "done" /\ next' = next /\ ParentsSucceeded
      /\ results' = [results EXCEPT ![Current] = "failed"]
      /\ called' = called \cup {Current} /\ UNCHANGED planVars
  BY DEF BodyFails, Call, Return
<1>2. PlanInv' /\ results' \in [Tasks -> Results] /\ called' \in SUBSET Tasks /\ SuccessInv'
  BY <1>1, ResultRunInv DEF Results
<1>3. ModeInv' /\ ResultsInv'
  BY <1>1, <1>2 DEF RunInv, ModeInv, ResultsInv, Modes
<1>4. QED BY <1>2, <1>3 DEF RunInv

LEMMA BodyErrorsRunInv ==
  ASSUME RunInv, BodyErrors
  PROVE  RunInv'
<1>1. /\ mode = "task" /\ mode' = "done" /\ ParentsSucceeded
      /\ called' = called \cup {Current} /\ UNCHANGED <<planVars, next, results>>
  BY DEF BodyErrors, Call, Return
<1>2. Current \in Tasks
  BY <1>1, CurrentFacts
<1>3. PlanInv'
  BY <1>1, StutterPlanInv DEF RunInv
<1>4. deps' = deps
  BY <1>1 DEF planVars
<1>5. SuccessInv'
  BY <1>1, <1>4 DEF RunInv, SuccessInv, ParentsSucceeded
<1>6. ModeInv' /\ ResultsInv'
  BY <1>1, <1>2 DEF RunInv, ModeInv, ResultsInv, Modes
<1>7. QED BY <1>3, <1>5, <1>6 DEF RunInv

LEMMA StutterRunInv ==
  ASSUME RunInv, UNCHANGED vars
  PROVE  RunInv'
<1>1. UNCHANGED <<planVars, mode, results, next, called>>
  BY DEF vars, runVars
<1>2. PlanInv'
  BY <1>1, StutterPlanInv DEF RunInv
<1>3. UNCHANGED <<deps, ordering, phase>>
  BY <1>1 DEF planVars, retainVars
<1>4. ModeInv' /\ ResultsInv' /\ SuccessInv'
  BY <1>1, <1>3 DEF RunInv, ModeInv, ResultsInv, SuccessInv
<1>5. QED BY <1>2, <1>4 DEF RunInv

THEOREM RunInvariant == RunSpec => []RunInv
<1>1. RunInv /\ [RunNext]_vars => RunInv'
  BY RunNextCases, PlanningRunInv, ResolveRunInv, QuietRunInv, RecordingRunInv,
     BodyFailsRunInv, BodyErrorsRunInv, StutterRunInv
<1>2. QED BY InitRunInv, <1>1, PTL DEF RunSpec

\* Whatever the configuration and the bodies do, the unwrap() of a parent's result in
\* execute() finds one: its comment ("we're guaranteed to execute parents first due to
\* ordering", src/task/mod.rs:388) is true.
THEOREM RunUnwrapSafe == RunSpec => []UnwrapSafe
<1>1. RunInv => UnwrapSafe
  BY CurrentFacts DEF UnwrapSafe
<1>2. QED BY RunInvariant, <1>1, PTL

\* A body is called only when everything its task needs, at any distance, has
\* succeeded: no cancelled or failed task is ever built upon.
THEOREM RunBodiesAfterUpstream == RunSpec => []BodiesRunAfterUpstream
<1>1. RunInv => BodiesRunAfterUpstream
  <2> SUFFICES ASSUME RunInv, NEW t \in called, NEW u \in Upstream(t)
               PROVE  results[u] = "success"
    BY DEF BodiesRunAfterUpstream
  <2> DEFINE S == {s \in Tasks : results[s] = "success"}
  <2>1. t \in Tasks /\ Range(deps[t]) \subseteq Tasks
    BY GraphFacts DEF Range, RunInv, ModeInv, PlanInv
  <2>2. Range(deps[t]) \subseteq S
    BY <2>1 DEF RunInv, SuccessInv
  <2>3. ClosedUnder(deps, S)
    <3> SUFFICES ASSUME NEW s \in S, NEW d \in Range(deps[s]) PROVE d \in S
      BY DEF ClosedUnder
    <3>1. d \in Tasks
      BY GraphFacts DEF Range, RunInv, PlanInv
    <3>2. QED BY <3>1 DEF RunInv, SuccessInv
  <2>4. u \in S
    BY <2>2, <2>3 DEF Upstream, Needed
  <2>5. QED BY <2>4
<1>2. QED BY RunInvariant, <1>1, PTL

(***************************************************************************)
(* execute() and the planner                                               *)
(***************************************************************************)

\* A run drives the planner as the planner's own specification says.
THEOREM RunPlans == RunSpec => Spec
<1>1. RunInit => Init
  BY DEF RunInit
<1>2. [RunNext]_vars => [Next]_planVars
  <2>1. ASSUME Resolve PROVE Next
    <3>1. PICK names \in CommandLines, defaults \in DefaultLists, runDefaults \in BOOLEAN :
             /\ Unknown \notin Range(names)
             /\ Plan(IF runDefaults THEN names \o defaults ELSE names)
      BY <2>1 DEF Resolve
    <3>2. (IF runDefaults THEN names \o defaults ELSE names) \in Requests
      BY <3>1, CallsAssumption
    <3>3. QED BY <3>1, <3>2 DEF Next
  <2>2. CASE Planning
    BY <2>2 DEF Planning, Next
  <2>3. ASSUME Quiet \/ Recording \/ BodyFails \/ BodyErrors \/ UNCHANGED vars
        PROVE  UNCHANGED planVars
    BY <2>3, UnreadableStep DEF Quiet, ShowPlan, StartRun, StartTask, FinishIncomplete, FinishSuccess,
         UnknownTarget, Recording, SkipDownstream, NoBody, BodyReturns, BodyReturnsUserData,
         BodyCancels, Record, BodyFails, BodyErrors, vars
  <2>4. QED BY <2>1, <2>2, <2>3, RunNextCases
<1>3. QED BY <1>1, <1>2, PTL DEF RunSpec, Spec

\* So the tasks are run in the order the targets were requested in.
THEOREM RunEarlierTargetsFirst == RunSpec => []EarlierTargetsFirst
BY RunPlans, PlanEarlierTargetsFirst, PTL

(***************************************************************************)
(* What is reported, and who is skipped                                    *)
(***************************************************************************)

\* Nothing is said of an end before it, and of a skip only when there was one.
EventsInv ==
    /\ events \in Seq(Events)
    /\ verdict \in Verdicts
    /\ mode # "done" =>
          /\ verdict = "none"
          /\ ~Reported("BatchSuccess") /\ ~Reported("TaskFail")
          /\ "failed" \notin Range(results)
    /\ mode \in {"start", "planning"} => events = <<>> /\ called = {}
    /\ Reported("TaskSkip") => \E t \in Tasks : results[t] = "skipped"

\* A skip comes from the task's own cancel() or from one upstream.
SkippedInv ==
    /\ cancelled \in SUBSET called
    /\ \A t \in cancelled : results[t] = "skipped"
    /\ \A t \in Tasks :
          results[t] = "skipped" => t \in cancelled \/ Upstream(t) \cap cancelled # {}

\* What the loop has been through has a result, also when it was left.
PositionInv ==
    /\ mode = "start" => requested = <<>>
    /\ next <= Len(ordering)
    /\ \A i \in 1..next : results[ordering[i]] # "none"

ReportInv == EventsInv /\ SkippedInv /\ PositionInv /\ VerdictReported

LEMMA InitReportInv == RunInit => ReportInv
<1> SUFFICES ASSUME RunInit PROVE ReportInv
  OBVIOUS
<1>1. Range(<<>>) = {}
  BY DEF Range
<1>2. "failed" \notin Range(results)
  BY DEF RunInit, Range
<1>3. EventsInv
  BY <1>1, <1>2 DEF RunInit, EventsInv, Reported, Verdicts
<1>4. SkippedInv
  BY DEF RunInit, SkippedInv
<1>5. PositionInv /\ VerdictReported
  BY DEF RunInit, Init, PositionInv, VerdictReported
<1>6. QED BY <1>3, <1>4, <1>5 DEF ReportInv

LEMMA EventSent ==
  ASSUME events \in Seq(Events), NEW e \in Events, events' = Append(events, e)
  PROVE  /\ events' \in Seq(Events)
         /\ events'[Len(events')] = e
         /\ \A f : Reported(f)' <=> Reported(f) \/ f = e
<1>1. Range(events') = Range(events) \cup {e}
  BY RangeOfAppend
<1>2. QED BY <1>1 DEF Reported

LEMMA UpstreamSame ==
  ASSUME deps' = deps
  PROVE  \A t : Upstream(t)' = Upstream(t)
BY DEF Upstream, Needed, ClosedUnder

\* The dependencies of a task and what they need are upstream of it.
LEMMA UpstreamOfParent ==
  ASSUME TypeOK, NEW t \in Tasks, NEW d \in Range(deps[t])
  PROVE  d \in Upstream(t) /\ Upstream(d) \subseteq Upstream(t)
<1>1. deps \in [Tasks -> Seq(Tasks)] /\ Range(deps[t]) \in SUBSET Tasks
  BY GraphFacts, DepGraphsAssumption DEF Range, TypeOK
<1>2. /\ Range(deps[t]) \subseteq Upstream(t) /\ Upstream(t) \in SUBSET Tasks
      /\ ClosedUnder(deps, Upstream(t))
  BY <1>1, NeededFacts DEF Upstream
<1>3. Range(deps[d]) \subseteq Upstream(t)
  BY <1>2 DEF ClosedUnder
<1>4. QED BY <1>2, <1>3, NeededLeast DEF Upstream

\* What is upstream of a task that succeeded, or was called, has succeeded.
LEMMA UpstreamSucceeded ==
  ASSUME RunInv, NEW t \in Tasks, results[t] = "success" \/ t \in called
  PROVE  \A u \in Upstream(t) : results[u] = "success"
<1> DEFINE S == {s \in Tasks : results[s] = "success"}
<1>1. \A s \in Tasks : Range(deps[s]) \subseteq Tasks
  BY GraphFacts DEF Range, RunInv, PlanInv
<1>2. Range(deps[t]) \subseteq S
  BY <1>1 DEF RunInv, SuccessInv
<1>3. ClosedUnder(deps, S)
  BY <1>1 DEF ClosedUnder, RunInv, SuccessInv
<1>4. Upstream(t) \subseteq S
  BY <1>2, <1>3, NeededLeast DEF Upstream
<1>5. QED BY <1>4

LEMMA ResolveReport ==
  ASSUME RunInv, ReportInv, Resolve
  PROVE  ReportInv'
<1>1. /\ mode = "start" /\ mode' = "planning"
      /\ UNCHANGED <<deps, ordering, results, next, called, cancelled, events, verdict>>
  BY DEF Resolve, Plan, retainVars
<1>2. EventsInv'
  BY <1>1 DEF ReportInv, EventsInv, Reported
<1>3. SkippedInv'
  BY <1>1, UpstreamSame DEF ReportInv, SkippedInv
<1>4. PositionInv' /\ VerdictReported'
  BY <1>1 DEF ReportInv, PositionInv, VerdictReported
<1>5. QED BY <1>2, <1>3, <1>4 DEF ReportInv

\* The plan is made before anything has a result.
LEMMA PlanningReport ==
  ASSUME RunInv, RunInv', ReportInv, Planning
  PROVE  ReportInv'
<1>1. /\ mode = "planning" /\ mode' = "planning" /\ next' = 0 /\ deps' = deps
      /\ UNCHANGED <<results, called, cancelled, events, verdict>>
  BY PlanStepSame DEF Planning, runVars, RunInv, ModeInv
<1>2. EventsInv'
  BY <1>1 DEF ReportInv, EventsInv, Reported
<1>3. SkippedInv'
  BY <1>1, UpstreamSame DEF ReportInv, SkippedInv
<1>4. PositionInv' /\ VerdictReported'
  BY <1>1 DEF RunInv, PlanInv, TypeOK, PositionInv, VerdictReported
<1>5. QED BY <1>2, <1>3, <1>4 DEF ReportInv

\* Steps that end nothing, and record nothing.
LEMMA GoOnReport ==
  ASSUME RunInv, ReportInv, StartRun \/ StartTask \/ UNCHANGED vars
  PROVE  ReportInv'
<1>1. UNCHANGED <<planVars, results, next, called, cancelled, verdict>>
  BY DEF StartRun, StartTask, vars, runVars
<1>2. UNCHANGED <<deps, requested, ordering>>
  BY <1>1 DEF planVars, retainVars
<1>3. SkippedInv'
  BY <1>1, <1>2, UpstreamSame DEF ReportInv, SkippedInv
<1>4. CASE StartRun \/ StartTask
  <2>1. /\ mode # "done" /\ mode' \in {"running", "task"}
        /\ \E e \in {"BatchStart", "TaskStart"} : events' = Append(events, e)
    BY <1>4 DEF StartRun, StartTask
  <2>2. PICK e \in {"BatchStart", "TaskStart"} : events' = Append(events, e)
    BY <2>1
  <2>3. e \in Events /\ events \in Seq(Events)
    BY DEF Events, ReportInv, EventsInv
  <2>4. EventsInv'
    BY <1>1, <2>1, <2>2, <2>3, EventSent DEF ReportInv, EventsInv
  <2>5. PositionInv' /\ VerdictReported'
    BY <1>1, <1>2, <2>1 DEF ReportInv, PositionInv, VerdictReported
  <2>6. QED BY <1>3, <2>4, <2>5 DEF ReportInv
<1>5. CASE UNCHANGED vars
  <2>1. UNCHANGED <<mode, events>>
    BY <1>5 DEF vars, runVars
  <2>2. EventsInv' /\ PositionInv' /\ VerdictReported'
    BY <1>1, <1>2, <2>1 DEF ReportInv, EventsInv, PositionInv, VerdictReported, Reported,
         Incomplete
  <2>3. QED BY <1>3, <2>2 DEF ReportInv
<1>6. QED BY <1>4, <1>5

\* The returns before the loop.
LEMMA EarlyReturnReport ==
  ASSUME RunInv, ReportInv, UnknownTarget \/ ShowPlan
  PROVE  ReportInv'
<1>1. /\ mode \in {"start", "planning"} /\ mode' = "done"
      /\ verdict' \in {"unknown task", "plan shown"}
      /\ UNCHANGED <<planVars, results, next, called, cancelled, events>>
  BY DEF UnknownTarget, ShowPlan, Return
<1>2. UNCHANGED <<deps, requested, ordering>>
  BY <1>1 DEF planVars, retainVars
<1>3. EventsInv'
  BY <1>1 DEF ReportInv, EventsInv, Reported, Verdicts
<1>4. SkippedInv'
  BY <1>1, <1>2, UpstreamSame DEF ReportInv, SkippedInv
<1>5. PositionInv'
  BY <1>1, <1>2 DEF ReportInv, PositionInv
<1>6. VerdictReported'
  BY <1>1 DEF ReportInv, EventsInv, VerdictReported, Reported
<1>7. QED BY <1>3, <1>4, <1>5, <1>6 DEF ReportInv

\* A task that ends with the loop going on, with what it reports.
LEMMA RecordingFacts ==
  ASSUME Recording
  PROVE  \E r \in {"success", "skipped"} :
           /\ mode = "task" /\ Record(r)
           /\ r = "success" => UNCHANGED cancelled /\ ParentsSucceeded
           /\ r = "skipped" => \/ ParentIncomplete /\ UNCHANGED cancelled
                               \/ /\ cancelled' = cancelled \cup {Current}
                                  /\ called' = called \cup {Current}
                                  /\ ParentsSucceeded
           /\ called \subseteq called'
           /\ \/ events' = events
              \/ events' = Append(events, "TaskComplete")
              \/ r = "skipped" /\ events' = Append(events, "TaskSkip")
BY DEF Recording, SkipDownstream, NoBody, BodyReturns, BodyReturnsUserData, BodyCancels, Call

\* A parent that keeps its task from running was skipped.
LEMMA SkippedParent ==
  ASSUME RunInv, ReportInv, mode = "task", ParentIncomplete
  PROVE  \E d \in Range(deps[Current]) : d \in Tasks /\ results[d] = "skipped"
<1>1. PICK k \in DOMAIN deps[Current] : Incomplete(results[deps[Current][k]])
  BY DEF ParentIncomplete
<1>2. deps[Current][k] \in Range(deps[Current]) /\ deps[Current][k] \in Tasks
  BY CurrentFacts DEF Range
<1>3. results[deps[Current][k]] # "failed"
  BY <1>2 DEF ReportInv, EventsInv, Range, RunInv, ModeInv
<1>4. QED BY <1>1, <1>2, <1>3 DEF Incomplete

LEMMA RecordingReport ==
  ASSUME RunInv, ReportInv, Recording
  PROVE  ReportInv'
<1> PICK cur : cur = Current
  OBVIOUS
<1>1. PICK r \in {"success", "skipped"} :
           /\ mode = "task" /\ Record(r)
           /\ r = "success" => UNCHANGED cancelled
           /\ r = "skipped" => \/ ParentIncomplete /\ UNCHANGED cancelled
                               \/ /\ cancelled' = cancelled \cup {Current}
                                  /\ called' = called \cup {Current}
           /\ called \subseteq called'
           /\ \/ events' = events
              \/ events' = Append(events, "TaskComplete")
              \/ r = "skipped" /\ events' = Append(events, "TaskSkip")
  BY RecordingFacts
<1>2. /\ mode' = "running" /\ next' = next + 1 /\ UNCHANGED <<deps, ordering, verdict>>
      /\ results' = [results EXCEPT ![cur] = r] /\ next \in Nat /\ next < Len(ordering)
      /\ results \in [Tasks -> Results] /\ ordering \in Seq(Tasks)
      /\ called \in SUBSET Tasks
  BY <1>1 DEF Record, planVars, retainVars, RunInv, ModeInv, PlanInv, TypeOK
<1>3. cur \in Tasks /\ results[cur] = "none" /\ ordering[next + 1] = cur
  BY <1>1, CurrentFacts DEF Current
<1>4. results'[cur] = r /\ \A t \in Tasks : t # cur => results'[t] = results[t]
  BY <1>2, <1>3
<1>5. EventsInv'
  <2>1. "failed" \notin Range(results')
    BY <1>1, <1>2, <1>4 DEF ReportInv, EventsInv, Range
  <2>2. /\ events' \in Seq(Events) /\ ~Reported("BatchSuccess")' /\ ~Reported("TaskFail")'
        /\ Reported("TaskSkip")' => Reported("TaskSkip") \/ r = "skipped"
    <3>1. CASE events' = events
      BY <1>1, <3>1 DEF ReportInv, EventsInv, Reported
    <3>2. CASE events' = Append(events, "TaskComplete")
      BY <1>1, <3>2, EventSent DEF ReportInv, EventsInv, Events
    <3>3. CASE r = "skipped" /\ events' = Append(events, "TaskSkip")
      BY <1>1, <3>3, EventSent DEF ReportInv, EventsInv, Events
    <3>4. QED BY <1>1, <3>1, <3>2, <3>3
  <2>3. QED BY <1>1, <1>2, <1>3, <1>4, <2>1, <2>2 DEF ReportInv, EventsInv
<1>6. SkippedInv'
  <2>1. cancelled \subseteq cancelled' /\ cancelled' \in SUBSET called'
    BY <1>1 DEF ReportInv, SkippedInv
  <2>2. \A t \in cancelled' : results'[t] = "skipped"
    BY <1>1, <1>2, <1>3, <1>4 DEF ReportInv, SkippedInv
  <2>3. ASSUME NEW t \in Tasks, results'[t] = "skipped"
        PROVE  t \in cancelled' \/ Upstream(t) \cap cancelled' # {}
    <3>1. CASE t # cur
      BY <1>4, <2>1, <2>3, <3>1 DEF ReportInv, SkippedInv
    <3>2. CASE t = cur /\ t \in cancelled'
      BY <3>2
    <3>3. CASE t = cur /\ t \notin cancelled'
      <4>1. ParentIncomplete
        BY <1>1, <1>4, <2>3, <3>3
      <4>2. PICK d \in Range(deps[cur]) : d \in Tasks /\ results[d] = "skipped"
        BY <1>1, <4>1, SkippedParent
      <4>3. d \in cancelled \/ Upstream(d) \cap cancelled # {}
        BY <4>2 DEF ReportInv, SkippedInv
      <4>4. d \in Upstream(cur) /\ Upstream(d) \subseteq Upstream(cur)
        BY <1>3, <4>2, UpstreamOfParent DEF RunInv, PlanInv
      <4>5. QED BY <2>1, <3>3, <4>3, <4>4
    <3>4. QED BY <3>1, <3>2, <3>3
  <2>4. QED BY <1>2, <2>1, <2>2, <2>3, UpstreamSame DEF SkippedInv
<1>7. PositionInv'
  <2>1. \A i \in 1..(next + 1) : i \in 1..next \/ i = next + 1
    BY <1>2
  <2>2. \A i \in 1..next : ordering[i] \in Tasks
    BY <1>2
  <2>3. \A i \in 1..(next + 1) : results'[ordering[i]] # "none"
    BY <1>1, <1>3, <1>4, <2>1, <2>2 DEF ReportInv, PositionInv
  <2>4. QED BY <1>2, <2>3 DEF PositionInv
<1>8. VerdictReported'
  BY <1>2 DEF VerdictReported
<1>9. QED BY <1>5, <1>6, <1>7, <1>8 DEF ReportInv

\* The event of a failure is sent for the task and for the batch.
LEMMA TwiceAppended ==
  ASSUME NEW S, NEW s \in Seq(S), NEW e \in S
  PROVE  s \o <<e, e>> = Append(Append(s, e), e)
<1> DEFINE a == s \o <<e, e>>
           b == Append(Append(s, e), e)
<1>1. a \in Seq(S) /\ b \in Seq(S) /\ Len(a) = Len(s) + 2 /\ Len(b) = Len(s) + 2
  OBVIOUS
<1>2. \A i \in 1..(Len(s) + 2) : a[i] = b[i]
  OBVIOUS
<1> HIDE DEF a, b
<1>3. a = b
  BY <1>1, <1>2
<1>4. QED BY <1>3 DEF a, b

LEMMA BodyFailsReport ==
  ASSUME RunInv, ReportInv, BodyFails
  PROVE  ReportInv'
<1> PICK cur : cur = Current
  OBVIOUS
<1>1. /\ mode = "task" /\ mode' = "done" /\ verdict' = "skipped task"
      /\ events' = events \o <<"TaskFail", "TaskFail">>
      /\ called' = called \cup {cur} /\ results' = [results EXCEPT ![cur] = "failed"]
      /\ UNCHANGED <<deps, requested, ordering, next, cancelled>>
      /\ results \in [Tasks -> Results] /\ ordering \in Seq(Tasks)
      /\ next \in Nat /\ next < Len(ordering)
  BY DEF BodyFails, Call, Return, planVars, retainVars, RunInv, ModeInv, PlanInv, TypeOK
<1>2. cur \in Tasks /\ results[cur] = "none" /\ cur \in Range(ordering)
  BY <1>1, CurrentFacts DEF Current, Range
<1>3. results'[cur] = "failed" /\ \A t \in Tasks : t # cur => results'[t] = results[t]
  BY <1>1, <1>2
<1>4. /\ events' \in Seq(Events) /\ events'[Len(events')] = "TaskFail"
      /\ \A f : Reported(f)' <=> Reported(f) \/ f = "TaskFail"
  <2> DEFINE es == Append(events, "TaskFail")
  <2>1. "TaskFail" \in Events /\ events \in Seq(Events)
    BY DEF Events, ReportInv, EventsInv
  <2>2. es \in Seq(Events) /\ Range(es) = Range(events) \cup {"TaskFail"}
    BY <2>1, RangeOfAppend
  <2>3. events' = Append(es, "TaskFail")
    BY <1>1, <2>1, TwiceAppended
  <2> HIDE DEF es
  <2>4. Range(events') = Range(es) \cup {"TaskFail"}
    BY <2>1, <2>2, <2>3, RangeOfAppend
  <2>5. events' \in Seq(Events) /\ events'[Len(events')] = "TaskFail"
    BY <2>1, <2>2, <2>3
  <2>6. QED BY <2>2, <2>4, <2>5 DEF Reported
<1>5. EventsInv'
  <2>1. Reported("TaskSkip")' => \E t \in Tasks : results'[t] = "skipped"
    BY <1>2, <1>3, <1>4 DEF ReportInv, EventsInv
  <2>2. QED BY <1>1, <1>4, <2>1 DEF EventsInv, Verdicts
<1>6. SkippedInv'
  <2>1. cur \notin cancelled
    BY <1>2 DEF ReportInv, SkippedInv
  <2>2. \A t \in cancelled : t \in Tasks
    BY DEF ReportInv, SkippedInv, RunInv, ModeInv
  <2>3. QED BY <1>1, <1>3, <2>1, <2>2, UpstreamSame DEF ReportInv, SkippedInv
<1>7. PositionInv'
  <2> ordering \in Seq(Tasks) /\ next \in Nat /\ next < Len(ordering)
    BY <1>1
  <2>1. \A i \in 1..next : ordering[i] \in Tasks
    OBVIOUS
  <2>2. \A t \in Tasks : results[t] # "none" => results'[t] # "none"
    BY <1>3
  <2>3. QED BY <1>1, <2>1, <2>2 DEF ReportInv, PositionInv
<1>8. VerdictReported'
  <2>1. ~Reported("BatchSuccess")'
    BY <1>1, <1>4 DEF ReportInv, EventsInv
  <2>2. Incomplete(results'[cur])
    BY <1>3 DEF Incomplete
  <2>3. \E t \in Range(ordering') : Incomplete(results'[t])
    BY <1>1, <1>2, <2>2
  <2>4. QED BY <1>1, <1>4, <2>1, <2>3 DEF VerdictReported, Incomplete
<1>9. QED BY <1>5, <1>6, <1>7, <1>8 DEF ReportInv

LEMMA ErrorReport ==
  ASSUME RunInv, ReportInv, BodyErrors \/ Unreadable
  PROVE  ReportInv'
<1>1. /\ mode \in {"start", "planning", "task"} /\ mode' = "done" /\ verdict' = "lua error"
      /\ called \subseteq called' /\ UNCHANGED <<planVars, next, results, cancelled, events>>
  BY UnreadableStep DEF BodyErrors, Call, Return
<1>2. UNCHANGED <<deps, requested, ordering>>
  BY <1>1 DEF planVars, retainVars
<1>3. EventsInv'
  BY <1>1 DEF ReportInv, EventsInv, Reported, Verdicts
<1>4. SkippedInv'
  BY <1>1, <1>2, UpstreamSame DEF ReportInv, SkippedInv
<1>5. PositionInv'
  BY <1>1, <1>2 DEF ReportInv, PositionInv
<1>6. VerdictReported'
  BY <1>1 DEF ReportInv, EventsInv, VerdictReported, Reported
<1>7. QED BY <1>3, <1>4, <1>5, <1>6 DEF ReportInv

\* The tasks with a result are the planned ones, at the end of the loop.
LEMMA EndOfLoop ==
  ASSUME RunInv, mode = "running", next = Len(ordering)
  PROVE  \A t \in Tasks : results[t] # "none" <=> t \in Range(ordering)
<1>1. ordering \in Seq(Tasks)
  BY DEF RunInv, PlanInv, TypeOK
<1>2. QED BY <1>1 DEF RunInv, ResultsInv, Range

LEMMA FinishReport ==
  ASSUME RunInv, ReportInv, FinishIncomplete \/ FinishSuccess
  PROVE  ReportInv'
<1>1. /\ mode = "running" /\ mode' = "done" /\ next = Len(ordering)
      /\ UNCHANGED <<planVars, results, next, called, cancelled>>
      /\ \/ AnyIncomplete /\ verdict' = "skipped task" /\ events' = Append(events, "TaskFail")
         \/ ~AnyIncomplete /\ verdict' = "ok" /\ events' = Append(events, "BatchSuccess")
  BY DEF FinishIncomplete, FinishSuccess, Return
<1>2. UNCHANGED <<deps, requested, ordering>>
  BY <1>1 DEF planVars, retainVars
<1>3. events \in Seq(Events) /\ {"TaskFail", "BatchSuccess"} \subseteq Events
  BY DEF ReportInv, EventsInv, Events
<1>4. EventsInv'
  BY <1>1, <1>3, EventSent DEF ReportInv, EventsInv, Verdicts
<1>5. SkippedInv'
  BY <1>1, <1>2, UpstreamSame DEF ReportInv, SkippedInv
<1>6. PositionInv'
  BY <1>1, <1>2 DEF ReportInv, PositionInv
<1>7. VerdictReported'
  <2>1. CASE AnyIncomplete
    <3>1. /\ verdict' = "skipped task" /\ events'[Len(events')] = "TaskFail"
          /\ ~Reported("BatchSuccess")'
      BY <1>1, <1>3, <2>1, EventSent DEF ReportInv, EventsInv
    <3>2. PICK t \in Tasks : Incomplete(results[t])
      BY <2>1 DEF AnyIncomplete
    <3>3. t \in Range(ordering)
      BY <1>1, <3>2, EndOfLoop DEF Incomplete
    <3>4. QED BY <1>1, <1>2, <3>1, <3>2, <3>3 DEF VerdictReported, Incomplete
  <2>2. CASE ~AnyIncomplete
    <3>1. /\ verdict' = "ok" /\ events'[Len(events')] = "BatchSuccess"
          /\ Reported("BatchSuccess")' /\ ~Reported("TaskFail")'
          /\ Reported("TaskSkip")' => Reported("TaskSkip")
      BY <1>1, <1>3, <2>2, EventSent DEF ReportInv, EventsInv
    <3>2. ~Reported("TaskSkip")'
      BY <2>2, <3>1 DEF ReportInv, EventsInv, AnyIncomplete, Incomplete
    <3>3. \A t \in Range(ordering) : t \in Tasks
      BY DEF RunInv, PlanInv, TypeOK, Range
    <3>4. \A t \in Range(ordering) : results[t] = "success"
      BY <1>1, <2>2, <3>3, EndOfLoop
         DEF AnyIncomplete, Incomplete, RunInv, ModeInv, Results
    <3>5. QED BY <1>1, <1>2, <3>1, <3>2, <3>4 DEF VerdictReported
  <2>3. QED BY <2>1, <2>2
<1>8. QED BY <1>4, <1>5, <1>6, <1>7 DEF ReportInv

THEOREM ReportInvariant == RunSpec => []ReportInv
<1>1. RunInv /\ RunInv' /\ ReportInv /\ [RunNext]_vars => ReportInv'
  BY RunNextCases, PlanningReport, ResolveReport, GoOnReport, EarlyReturnReport,
     RecordingReport, BodyFailsReport, ErrorReport, FinishReport DEF Quiet
<1>2. QED BY InitReportInv, RunInvariant, <1>1, PTL DEF RunSpec

\* The run's state is well typed, events included.
THEOREM RunTypeCorrect == RunSpec => []RunTypeOK
<1>1. RunInv /\ ReportInv => RunTypeOK
  <2> SUFFICES ASSUME RunInv, ReportInv PROVE RunTypeOK
    OBVIOUS
  <2>1. next \in 0..Len(ordering)
    BY DEF RunInv, ModeInv, PlanInv, TypeOK, ReportInv, PositionInv
  <2>2. QED
    BY <2>1 DEF RunInv, ModeInv, PlanInv, ReportInv, EventsInv, SkippedInv, RunTypeOK
<1>2. QED BY RunInvariant, ReportInvariant, <1>1, PTL

\* In a run that was not stopped by a failure, the tasks that did not succeed are
\* exactly the cancelled ones and those downstream of one, at any distance.
THEOREM RunCancelSkips == RunSpec => []CancelSkipsOnlyDownstream
<1>1. RunInv /\ ReportInv => CancelSkipsOnlyDownstream
  <2> SUFFICES ASSUME RunInv, ReportInv, "failed" \notin Range(results), NEW i \in 1..next
               PROVE  /\ results[ordering[i]] # "none"
                      /\ results[ordering[i]] = "skipped" <=>
                            \/ ordering[i] \in cancelled
                            \/ Upstream(ordering[i]) \cap cancelled # {}
    BY DEF CancelSkipsOnlyDownstream, ReportInv, EventsInv
  <2> PICK t : t = ordering[i]
    OBVIOUS
  <2>1. t \in Tasks
    BY DEF RunInv, ModeInv, PlanInv, TypeOK, ReportInv, PositionInv
  <2>2. results[t] \in {"success", "skipped"}
    BY <2>1 DEF RunInv, ModeInv, Results, Range, ReportInv, PositionInv
  <2>3. results[t] = "success" => Upstream(t) \cap cancelled = {}
    BY <2>1, UpstreamSucceeded DEF ReportInv, SkippedInv
  <2>4. QED BY <2>1, <2>2, <2>3 DEF ReportInv, SkippedInv
<1>2. QED BY RunInvariant, ReportInvariant, <1>1, PTL

\* What is reported agrees with what execute() returns.
THEOREM RunVerdictReported == RunSpec => []VerdictReported
<1>1. ReportInv => VerdictReported
  BY DEF ReportInv
<1>2. QED BY ReportInvariant, <1>1, PTL

(***************************************************************************)
(* execute() implements DependencyRun                                      *)
(***************************************************************************)

LEMMA SameRunNeeded ==
  /\ \A s : Run!Range(s) = Range(s)
  /\ \A g, T : Run!Needed(g, T) = Needed(g, T)
<1>1. \A s : Run!Range(s) = Range(s)
  BY DEF Run!Range, Range
<1>2. \A g, S : Run!ClosedUnder(g, S) <=> ClosedUnder(g, S)
  BY <1>1 DEF Run!ClosedUnder, ClosedUnder
<1>3. \A g, T : Run!Needed(g, T) = Needed(g, T)
  BY <1>2 DEF Run!Needed, Needed
<1>4. QED BY <1>1, <1>3

\* The status of every task.
Statuses == [t \in Tasks |-> Status(results[t])]

\* Recording a result sets the status of the current task, which was pending and is
\* needed, and no other one.
LEMMA StatusRecorded ==
  ASSUME RunInv, OrderInv, mode = "task", NEW r \in Results,
         results' = [results EXCEPT ![Current] = r]
  PROVE  /\ Statuses' = [Statuses EXCEPT ![Current] = Status(r)]
         /\ Current \in Tasks /\ Statuses[Current] = "pending"
         /\ Current \in Needed(deps, Range(requested))
<1> PICK cur : cur = Current
  OBVIOUS
<1>1. cur \in Tasks /\ results[cur] = "none" /\ results \in [Tasks -> Results]
  BY CurrentFacts DEF RunInv, ModeInv
<1>2. Statuses' = [Statuses EXCEPT ![cur] = Status(r)]
  BY <1>1 DEF Statuses
<1>3. cur \in Range(ordering) /\ phase = "ready"
  BY CurrentFacts DEF Current, Range, RunInv, ModeInv
<1>4. Range(ordering) = Needed(deps, Range(requested))
  BY <1>3, ReadyPlan DEF OrderInv, WalkInv
<1>5. Statuses[cur] = "pending"
  BY <1>1 DEF Statuses, Status
<1>6. QED BY <1>1, <1>2, <1>3, <1>4, <1>5

LEMMA RunWants ==
  ASSUME RunInv, ReportInv, Resolve
  PROVE  Run!Want
<1>1. PICK names \in CommandLines, defaults \in DefaultLists, runDefaults \in BOOLEAN :
         /\ Unknown \notin Range(names)
         /\ Plan(IF runDefaults THEN names \o defaults ELSE names)
  BY DEF Resolve
<1>2. /\ requested' \in Requests /\ mode = "start" /\ UNCHANGED <<deps, results, verdict>>
  BY <1>1, CallsAssumption DEF Plan, Resolve
<1>3. Range(requested) = {} /\ verdict = "none" /\ \A t \in Tasks : Statuses[t] = "pending"
  BY <1>2 DEF ReportInv, PositionInv, EventsInv, RunInv, ModeInv, ResultsInv, Range,
       Statuses, Status
<1>4. QED BY <1>2, <1>3, SameRunNeeded DEF Run!Want, Statuses

LEMMA RunRecords ==
  ASSUME RunInv, OrderInv, ReportInv, Recording
  PROVE  \E t \in Tasks : Run!Attempt(t) \/ Run!GiveUp(t)
<1> PICK cur : cur = Current
  OBVIOUS
<1>1. PICK r \in {"success", "skipped"} :
           /\ mode = "task" /\ Record(r)
           /\ r = "success" => ParentsSucceeded
           /\ r = "skipped" => ParentIncomplete \/ ParentsSucceeded
  BY RecordingFacts
<1>2. /\ results' = [results EXCEPT ![cur] = r] /\ UNCHANGED <<deps, requested, verdict>>
      /\ verdict = "none" /\ r \in Results
  BY <1>1 DEF Record, planVars, Results, ReportInv, EventsInv
<1>3. /\ Statuses' = [Statuses EXCEPT ![cur] = Status(r)]
      /\ cur \in Tasks /\ Statuses[cur] = "pending" /\ cur \in Needed(deps, Range(requested))
  BY <1>1, <1>2, StatusRecorded
<1>4. Run!Pending(cur)
  BY <1>2, <1>3, SameRunNeeded DEF Run!Pending, Statuses
<1>5. \A d \in Range(deps[cur]) : d \in Tasks
  BY <1>1, CurrentFacts
<1>6. CASE ParentsSucceeded
  <2>1. \A d \in Range(deps[cur]) : Statuses[d] = "succeeded"
    BY <1>5, <1>6 DEF ParentsSucceeded, Statuses, Status
  <2>2. Status(r) \in {"succeeded", "skipped"}
    BY DEF Status
  <2>3. Run!Attempt(cur)
    BY <1>2, <1>3, <1>4, <2>1, <2>2, SameRunNeeded DEF Run!Attempt, Statuses
  <2>4. QED BY <1>3, <2>3
<1>7. CASE ParentIncomplete /\ r = "skipped"
  <2>1. PICK d \in Range(deps[cur]) : d \in Tasks /\ results[d] = "skipped"
    BY <1>1, <1>7, SkippedParent
  <2>2. Statuses[d] = "skipped" /\ Status(r) = "skipped"
    BY <1>7, <2>1 DEF Statuses, Status
  <2>3. Run!GiveUp(cur)
    BY <1>2, <1>3, <1>4, <2>1, <2>2, SameRunNeeded DEF Run!GiveUp, Statuses
  <2>4. QED BY <1>3, <2>3
<1>8. QED BY <1>1, <1>6, <1>7

LEMMA RunFails ==
  ASSUME RunInv, OrderInv, ReportInv, BodyFails
  PROVE  \E t \in Tasks : Run!Fail(t)
<1> PICK cur : cur = Current
  OBVIOUS
<1>1. /\ mode = "task" /\ ParentsSucceeded /\ results' = [results EXCEPT ![cur] = "failed"]
      /\ UNCHANGED <<deps, requested>> /\ verdict = "none" /\ verdict' = "skipped task"
      /\ "failed" \in Results
  BY DEF BodyFails, Call, Return, planVars, ReportInv, EventsInv, Results
<1>2. /\ Statuses' = [Statuses EXCEPT ![cur] = "failed"]
      /\ cur \in Tasks /\ Statuses[cur] = "pending" /\ cur \in Needed(deps, Range(requested))
  BY <1>1, StatusRecorded DEF Status
<1>3. Run!Pending(cur)
  BY <1>1, <1>2, SameRunNeeded DEF Run!Pending, Statuses
<1>4. \A d \in Range(deps[cur]) : Statuses[d] = "succeeded"
  BY <1>1, CurrentFacts DEF ParentsSucceeded, Statuses, Status
<1>5. Run!Fail(cur)
  BY <1>1, <1>2, <1>3, <1>4, SameRunNeeded DEF Run!Fail, Statuses
<1>6. QED BY <1>2, <1>5

LEMMA RunFinishes ==
  ASSUME RunInv, OrderInv, ReportInv, FinishIncomplete \/ FinishSuccess
  PROVE  Run!Finish
<1>1. /\ mode = "running" /\ next = Len(ordering) /\ verdict = "none"
      /\ UNCHANGED <<planVars, results>>
      /\ \/ AnyIncomplete /\ verdict' = "skipped task"
         \/ ~AnyIncomplete /\ verdict' = "ok"
  BY DEF FinishIncomplete, FinishSuccess, Return, ReportInv, EventsInv
<1>2. UNCHANGED <<deps, requested>>
  BY <1>1 DEF planVars
<1>3. phase = "ready" /\ Range(ordering) = Needed(deps, Range(requested))
  BY <1>1, ReadyPlan DEF RunInv, ModeInv, OrderInv, WalkInv
<1>4. \A t \in Tasks : results[t] # "none" <=> t \in Needed(deps, Range(requested))
  BY <1>1, <1>3, EndOfLoop
<1>5. Needed(deps, Range(requested)) \subseteq Tasks /\ results \in [Tasks -> Results]
  BY DEF Needed, RunInv, ModeInv
<1>6. \A t \in Needed(deps, Range(requested)) : Statuses[t] # "pending"
  BY <1>4, <1>5 DEF Statuses, Status
<1>7. AnyIncomplete <=> ~\A t \in Needed(deps, Range(requested)) : Statuses[t] = "succeeded"
  BY <1>4, <1>5 DEF AnyIncomplete, Incomplete, Statuses, Status, Results
<1>8. QED BY <1>1, <1>2, <1>6, <1>7, SameRunNeeded DEF Run!Finish, Statuses

LEMMA RunAborts ==
  ASSUME RunInv, ReportInv, UnknownTarget \/ ShowPlan \/ BodyErrors \/ Unreadable
  PROVE  Run!Abort
<1>1. /\ mode # "done" /\ verdict' \in {"unknown task", "plan shown", "lua error"}
      /\ UNCHANGED <<planVars, results>>
  BY UnreadableStep DEF UnknownTarget, ShowPlan, BodyErrors, Call, Return
<1>2. UNCHANGED <<deps, requested>> /\ verdict = "none"
  BY <1>1 DEF planVars, ReportInv, EventsInv
<1>3. QED BY <1>1, <1>2 DEF Run!Abort

LEMMA RunHides ==
  ASSUME Planning \/ StartRun \/ StartTask \/ UNCHANGED vars
  PROVE  UNCHANGED Run!vars
<1>1. UNCHANGED <<deps, requested, results, verdict>>
  BY PlanStepSame DEF Planning, StartRun, StartTask, vars, planVars, runVars
<1>2. QED BY <1>1 DEF Run!vars

\* Every run is one of DependencyRun: each needed task is attempted at most once, only
\* when its dependencies have succeeded, is skipped only behind one that was, and
\* nothing is attempted after a failure; the verdict is that of all of them.
THEOREM RunImplementsRun == RunSpec => Run!Spec
<1>1. RunInit => Run!Init
  <2>1. Range(<<>>) = {}
    BY DEF Range
  <2>2. QED BY <2>1, SameRunNeeded DEF RunInit, Init, Run!Init, Status
<1>2. RunInv /\ OrderInv /\ ReportInv /\ [RunNext]_vars => [Run!Next]_Run!vars
  <2> SUFFICES ASSUME RunInv, OrderInv, ReportInv, [RunNext]_vars
               PROVE  Run!Next \/ UNCHANGED Run!vars
    OBVIOUS
  <2>1. CASE Resolve
    BY <2>1, RunWants DEF Run!Next
  <2>2. CASE Recording
    BY <2>2, RunRecords DEF Run!Next
  <2>3. CASE BodyFails
    BY <2>3, RunFails DEF Run!Next
  <2>4. CASE FinishIncomplete \/ FinishSuccess
    BY <2>4, RunFinishes DEF Run!Next
  <2>5. CASE UnknownTarget \/ ShowPlan \/ BodyErrors \/ Unreadable
    BY <2>5, RunAborts DEF Run!Next
  <2>6. QED BY <2>1, <2>2, <2>3, <2>4, <2>5, RunHides, RunNextCases DEF Quiet
<1>3. RunSpec => []OrderInv
  BY RunPlans, OrderInvariant, PTL
<1>4. QED BY RunInvariant, ReportInvariant, <1>1, <1>2, <1>3, PTL DEF RunSpec, Run!Spec

(***************************************************************************)
(* Every step brings the planner, and execute(), closer to their ends, and *)
(* neither is ever without a step before it                                *)
(***************************************************************************)

Walking == phase \in {"walk", "expand"}

\* A walk stays below the task it started from: every dependency has a smaller id.
BelowTarget ==
    Walking => /\ \A i \in DOMAIN stack : stack[i] <= requested[target]
               /\ \A t \in discovered : t <= requested[target]

PlanStage ==
    CASE phase = "idle" -> 3
      [] phase = "retain" -> 1
      [] phase = "ready" -> 0
      [] OTHER -> 2
TargetsLeft == Len(requested) - target
Unseen == IF Walking THEN (1..requested[target]) \ discovered ELSE {}

\* What is left to do, the most significant first.  A node is discovered once in a walk;
\* its neighbours may be pushed again and again, but only while it is expanded.
PlanRank ==
    <<PlanStage, TargetsLeft, IF Walking THEN 1 ELSE 0, Cardinality(Unseen),
      IF phase = "expand" THEN edge + 1 ELSE 0, Len(stack), Len(execution) - scanned>>

Ranks == [1..7 -> Nat]
RankOrder == LexProductOrdering(OpToRel(<, Nat), Nat, 7)

PlanDescent == <<PlanRank', PlanRank>> \in RankOrder

\* The planner has a step to do: the disjunction of the guards of PlanStep.
PlanGoesOn ==
    \/ phase = "target" /\ (target < Len(requested) \/ target = Len(requested))
    \/ phase = "walk" /\ (stack = <<>> \/ Top \notin discovered \/ Top \in discovered)
    \/ phase = "expand" /\ (edge > 0 \/ edge = 0)
    \/ phase = "retain" /\ (scanned < Len(execution) \/ scanned = Len(execution))

LEMMA TaskIsNat == \A t \in Tasks : t \in Nat /\ t > 0
BY TasksAssumption

LEMMA BelowTargetStep == OrderInv /\ BelowTarget /\ [Next]_planVars => BelowTarget'
<1> SUFFICES ASSUME OrderInv, BelowTarget, [Next]_planVars, Walking'
             PROVE  /\ \A i \in DOMAIN stack' : stack'[i] <= requested'[target']
                    /\ \A t \in discovered' : t <= requested'[target']
  BY DEF BelowTarget
<1>1. /\ stack \in Seq(Tasks) /\ discovered \subseteq Tasks /\ requested \in Seq(Tasks)
      /\ target \in Nat /\ target <= Len(requested)
  BY DEF OrderInv, PlanInv, TypeOK, WalkInv
<1>2. CASE StartWalk
  <2>1. /\ target' = target + 1 /\ requested' = requested /\ discovered' = {}
        /\ stack' = <<requested[target + 1]>> /\ requested[target + 1] \in Tasks
    BY <1>1, <1>2 DEF StartWalk
  <2>2. requested[target + 1] \in Nat
    BY <2>1, TaskIsNat
  <2>3. QED BY <2>1, <2>2
<1>3. CASE Discover
  <2>1. /\ Walking /\ UNCHANGED <<stack, requested, target>>
        /\ discovered' = discovered \cup {Top} /\ Len(stack) \in DOMAIN stack
    BY <1>1, <1>3 DEF Discover, Walking
  <2>2. QED BY <2>1 DEF BelowTarget, Top
<1>4. CASE PushNeighbour
  <2>1. /\ Walking /\ UNCHANGED <<discovered, requested, target>>
        /\ node \in discovered /\ node \in Tasks /\ edge \in DOMAIN deps[node]
        /\ stack' = stack \/ stack' = Append(stack, deps[node][edge])
    BY <1>4, GraphFacts DEF PushNeighbour, Walking, OrderInv, PlanInv, TypeOK, ExpandInv
  <2>2. PICK root, d : root = requested[target] /\ d = deps[node][edge]
    OBVIOUS
  <2>3. d \in Tasks /\ d < node /\ node <= root
    BY <2>1, <2>2, GraphFacts DEF BelowTarget, OrderInv, PlanInv
  <2>4. target \in 1..Len(requested)
    BY <1>1, <2>1 DEF Walking, OrderInv, WalkInv
  <2>5. root \in Tasks
    BY <1>1, <2>2, <2>4
  <2>6. d <= root
    BY <2>1, <2>3, <2>5, TaskIsNat
  <2>7. \A i \in DOMAIN stack' : (i \in DOMAIN stack /\ stack'[i] = stack[i]) \/ stack'[i] = d
    BY <1>1, <2>1, <2>2, <2>3
  <2>8. /\ \A i \in DOMAIN stack : stack[i] <= root
        /\ \A t \in discovered : t <= root
    BY <2>1, <2>2 DEF BelowTarget
  <2>9. requested'[target'] = root
    BY <2>1, <2>2
  <2>10. \A i \in DOMAIN stack' : stack'[i] <= root
    BY <2>6, <2>7, <2>8
  <2>11. QED BY <2>1, <2>8, <2>9, <2>10
<1>5. CASE Pop /\ (Emit \/ Discard)
  <2>1. /\ Walking /\ UNCHANGED <<discovered, requested, target>>
        /\ stack' = SubSeq(stack, 1, Len(stack) - 1) /\ stack # <<>>
    BY <1>5 DEF Pop, Emit, Discard, Walking
  <2>2. \A i \in DOMAIN stack' : i \in DOMAIN stack /\ stack'[i] = stack[i]
    BY <1>1, <2>1
  <2>3. QED BY <2>1, <2>2 DEF BelowTarget
<1>6. CASE ExpandDone \/ UNCHANGED planVars
  <2>1. Walking /\ UNCHANGED <<discovered, requested, target, stack>>
    BY <1>6 DEF ExpandDone, planVars, walkVars, Walking
  <2>2. QED BY <2>1 DEF BelowTarget
<1>7. ~ (EndWalk \/ StartRetain \/ Retain \/ PlanReady)
  BY DEF EndWalk, StartRetain, Retain, PlanReady, Walking
<1>8. ~ \E ts \in Requests : Plan(ts)
  BY DEF Plan, Walking
<1>9. QED BY <1>2, <1>3, <1>4, <1>5, <1>6, <1>7, <1>8 DEF Next, PlanStep, Emit, Discard

\* The nodes a walk has not met: a finite set, which loses every node that is discovered.
LEMMA UnseenFinite ==
  ASSUME OrderInv
  PROVE  IsFiniteSet(Unseen) /\ Cardinality(Unseen) \in Nat
<1>1. CASE ~ Walking
  BY <1>1, FS_EmptySet DEF Unseen
<1>2. CASE Walking
  <2>1. target \in 1..Len(requested) /\ requested \in Seq(Tasks)
    BY <1>2 DEF Walking, OrderInv, WalkInv, PlanInv, TypeOK
  <2>2. requested[target] \in Nat
    BY <2>1, TaskIsNat
  <2>3. IsFiniteSet(1..requested[target])
    BY <2>2, FS_Interval
  <2>4. Unseen \subseteq 1..requested[target]
    BY DEF Unseen
  <2>5. QED BY <2>3, <2>4, FS_Subset, FS_CardinalityType
<1>3. QED BY <1>1, <1>2

LEMMA DiscoverUnseen ==
  ASSUME OrderInv, BelowTarget, Discover
  PROVE  Cardinality(Unseen)' = Cardinality(Unseen) - 1
<1>1. /\ Walking /\ Walking' /\ UNCHANGED <<requested, target>> /\ Top \notin discovered
      /\ discovered' = discovered \cup {Top} /\ Len(stack) \in DOMAIN stack
      /\ stack \in Seq(Tasks)
  BY DEF Discover, Walking, OrderInv, PlanInv, TypeOK
<1>2. Top \in Tasks /\ Top <= requested[target]
  BY <1>1 DEF BelowTarget, Top
<1>3. target \in 1..Len(requested) /\ requested \in Seq(Tasks)
  BY <1>1 DEF Walking, OrderInv, WalkInv, PlanInv, TypeOK
<1>4. requested[target] \in Nat /\ Top \in 1..requested[target]
  BY <1>2, <1>3, TaskIsNat
<1>5. Top \in Unseen
  BY <1>1, <1>4 DEF Unseen
<1>6. Unseen' = Unseen \ {Top}
  BY <1>1 DEF Unseen
<1>7. QED BY <1>5, <1>6, UnseenFinite, FS_RemoveElement

LEMMA UnseenSame ==
  ASSUME Walking = Walking', UNCHANGED <<requested, target, discovered>>
  PROVE  Cardinality(Unseen)' = Cardinality(Unseen)
BY DEF Unseen

-----------------------------------------------------------------------------

LEMMA PlanRanked == OrderInv => PlanRank \in Ranks
<1> SUFFICES ASSUME OrderInv PROVE PlanRank \in Ranks
  OBVIOUS
<1>1. PlanStage \in Nat
  BY DEF PlanStage
<1>2. TargetsLeft \in Nat
  BY DEF TargetsLeft, OrderInv, WalkInv, PlanInv, TypeOK
<1>3. (IF Walking THEN 1 ELSE 0) \in Nat /\ (IF phase = "expand" THEN edge + 1 ELSE 0) \in Nat
  BY DEF OrderInv, PlanInv, TypeOK
<1>4. Len(stack) \in Nat /\ Len(execution) - scanned \in Nat
  BY DEF OrderInv, PlanInv, TypeOK
<1>5. Cardinality(Unseen) \in Nat
  BY UnseenFinite
<1>6. PICK a, b, c, d, e, f, g \in Nat : PlanRank = <<a, b, c, d, e, f, g>>
  BY <1>1, <1>2, <1>3, <1>4, <1>5 DEF PlanRank
<1>7. QED BY <1>6 DEF Ranks

\* No infinite sequence of ranks gets smaller and smaller.
LEMMA RankOrderWellFounded == IsWellFoundedOn(RankOrder, Ranks)
<1> DEFINE Less == OpToRel(<, Nat)
<1>1. IsWellFoundedOn(Less, Nat)
  BY NatLessThanWellFounded
<1>2. RankOrder = LexProductOrdering(Less, Nat, 7)
  BY DEF RankOrder
<1> HIDE DEF Less
<1>3. QED BY <1>1, <1>2, WFLexProductOrdering DEF Ranks

\* Two ranks, component by component.
LEMMA RankBelow ==
  ASSUME NEW r \in Ranks, NEW s \in Ranks,
         \/ r[1] < s[1]
         \/ r[1] = s[1] /\ r[2] < s[2]
         \/ r[1] = s[1] /\ r[2] = s[2] /\ r[3] < s[3]
         \/ r[1] = s[1] /\ r[2] = s[2] /\ r[3] = s[3] /\ r[4] < s[4]
         \/ r[1] = s[1] /\ r[2] = s[2] /\ r[3] = s[3] /\ r[4] = s[4] /\ r[5] < s[5]
         \/ r[1] = s[1] /\ r[2] = s[2] /\ r[3] = s[3] /\ r[4] = s[4] /\ r[5] = s[5] /\ r[6] < s[6]
         \/ /\ r[1] = s[1] /\ r[2] = s[2] /\ r[3] = s[3] /\ r[4] = s[4] /\ r[5] = s[5]
            /\ r[6] = s[6] /\ r[7] < s[7]
  PROVE  <<r, s>> \in RankOrder
<1>1. \E i \in 1..7 : (\A j \in 1..(i - 1) : r[j] = s[j]) /\ r[i] < s[i]
  <2>1. /\ \A j \in 1..0 : FALSE
        /\ \A j \in 1..1 : j = 1
        /\ \A j \in 1..2 : j = 1 \/ j = 2
        /\ \A j \in 1..3 : j = 1 \/ j = 2 \/ j = 3
        /\ \A j \in 1..4 : j = 1 \/ j = 2 \/ j = 3 \/ j = 4
        /\ \A j \in 1..5 : j = 1 \/ j = 2 \/ j = 3 \/ j = 4 \/ j = 5
        /\ \A j \in 1..6 : j = 1 \/ j = 2 \/ j = 3 \/ j = 4 \/ j = 5 \/ j = 6
    OBVIOUS
  <2>2. CASE r[1] < s[1]
    BY <2>1, <2>2
  <2>3. CASE r[1] = s[1] /\ r[2] < s[2]
    BY <2>1, <2>3
  <2>4. CASE r[1] = s[1] /\ r[2] = s[2] /\ r[3] < s[3]
    BY <2>1, <2>4
  <2>5. CASE r[1] = s[1] /\ r[2] = s[2] /\ r[3] = s[3] /\ r[4] < s[4]
    BY <2>1, <2>5
  <2>6. CASE r[1] = s[1] /\ r[2] = s[2] /\ r[3] = s[3] /\ r[4] = s[4] /\ r[5] < s[5]
    BY <2>1, <2>6
  <2>7. CASE /\ r[1] = s[1] /\ r[2] = s[2] /\ r[3] = s[3] /\ r[4] = s[4] /\ r[5] = s[5]
             /\ r[6] < s[6]
    BY <2>1, <2>7
  <2>8. CASE /\ r[1] = s[1] /\ r[2] = s[2] /\ r[3] = s[3] /\ r[4] = s[4] /\ r[5] = s[5]
             /\ r[6] = s[6] /\ r[7] < s[7]
    BY <2>1, <2>8
  <2>9. QED BY <2>2, <2>3, <2>4, <2>5, <2>6, <2>7, <2>8
<1>2. PICK i \in 1..7 : (\A j \in 1..(i - 1) : r[j] = s[j]) /\ r[i] < s[i]
  BY <1>1
<1>3. r[i] \in Nat /\ s[i] \in Nat
  BY DEF Ranks
<1> DEFINE Less == OpToRel(<, Nat)
<1>4. <<r[i], s[i]>> \in Less
  BY <1>2, <1>3 DEF OpToRel
<1>5. RankOrder = LexProductOrdering(Less, Nat, 7)
  BY DEF RankOrder
<1> HIDE DEF Less
<1>6. QED BY <1>2, <1>4, <1>5 DEF LexProductOrdering, Ranks

LEMMA PlanStepDescends ==
  ASSUME OrderInv, OrderInv', BelowTarget, PlanStep
  PROVE  PlanDescent
<1> PICK r1, r2, r3, r4, r5, r6, r7 :
      /\ r1 = PlanStage' /\ r2 = TargetsLeft' /\ r3 = (IF Walking THEN 1 ELSE 0)'
      /\ r4 = Cardinality(Unseen)' /\ r5 = (IF phase = "expand" THEN edge + 1 ELSE 0)'
      /\ r6 = Len(stack') /\ r7 = Len(execution') - scanned'
  OBVIOUS
<1> PICK s1, s2, s3, s4, s5, s6, s7 :
      /\ s1 = PlanStage /\ s2 = TargetsLeft /\ s3 = (IF Walking THEN 1 ELSE 0)
      /\ s4 = Cardinality(Unseen) /\ s5 = (IF phase = "expand" THEN edge + 1 ELSE 0)
      /\ s6 = Len(stack) /\ s7 = Len(execution) - scanned
  OBVIOUS
<1>0. PICK r \in Ranks, s \in Ranks : r = PlanRank' /\ s = PlanRank
  <2>1. (OrderInv => PlanRank \in Ranks)'
    BY PlanRanked, PTL
  <2>2. PlanRank \in Ranks /\ PlanRank' \in Ranks
    BY <2>1, PlanRanked DEF Ranks
  <2>3. QED BY <2>2
<1>1. /\ r[1] = r1 /\ r[2] = r2 /\ r[3] = r3 /\ r[4] = r4 /\ r[5] = r5 /\ r[6] = r6 /\ r[7] = r7
      /\ s[1] = s1 /\ s[2] = s2 /\ s[3] = s3 /\ s[4] = s4 /\ s[5] = s5 /\ s[6] = s6 /\ s[7] = s7
  BY <1>0 DEF PlanRank
<1>2. /\ target \in Nat /\ requested \in Seq(Tasks) /\ edge \in Nat /\ scanned \in Nat
      /\ stack \in Seq(Tasks) /\ Len(execution) \in Nat
  BY DEF OrderInv, PlanInv, TypeOK
<1>3. CASE StartWalk
  <2>1. r1 = s1 /\ r2 < s2
    BY <1>2, <1>3 DEF StartWalk, PlanStage, TargetsLeft
  <2>2. QED BY <1>1, <2>1, <1>0, RankBelow DEF PlanDescent
<1>4. CASE Discover
  <2>1. r1 = s1 /\ r2 = s2 /\ r3 = s3
    BY <1>4 DEF Discover, PlanStage, TargetsLeft, Walking
  <2>2. r4 < s4
    <3>1. s4 \in Nat /\ r4 = s4 - 1
      BY <1>4, DiscoverUnseen, UnseenFinite
    <3>2. QED BY <3>1
  <2>3. QED BY <1>1, <2>1, <2>2, <1>0, RankBelow DEF PlanDescent
<1>5. CASE PushNeighbour \/ ExpandDone
  <2>1. r1 = s1 /\ r2 = s2 /\ r3 = s3
    BY <1>5 DEF PushNeighbour, ExpandDone, walkVars, PlanStage, TargetsLeft, Walking
  <2>2. r4 = s4
    BY <1>5, UnseenSame DEF PushNeighbour, ExpandDone, walkVars, Walking
  <2>3. r5 < s5
    BY <1>2, <1>5 DEF PushNeighbour, ExpandDone
  <2>4. QED BY <1>1, <2>1, <2>2, <2>3, <1>0, RankBelow DEF PlanDescent
<1>6. CASE Emit \/ Discard
  <2>1. /\ UNCHANGED <<requested, target, discovered, edge, phase>> /\ phase = "walk"
        /\ stack # <<>> /\ stack' = SubSeq(stack, 1, Len(stack) - 1)
    BY <1>6 DEF Emit, Discard, Pop
  <2>2. r1 = s1 /\ r2 = s2 /\ r3 = s3 /\ r5 = s5
    BY <2>1 DEF PlanStage, TargetsLeft, Walking
  <2>3. r4 = s4
    BY <2>1, UnseenSame DEF Walking
  <2>4. Len(stack) \in Nat /\ Len(stack) # 0 /\ Len(stack') = Len(stack) - 1
    BY <1>2, <2>1
  <2>5. r6 < s6
    BY <2>4
  <2>6. QED BY <1>1, <2>2, <2>3, <2>5, <1>0, RankBelow DEF PlanDescent
<1>7. CASE EndWalk
  <2>1. r1 = s1 /\ r2 = s2 /\ r3 < s3
    BY <1>7 DEF EndWalk, walkVars, PlanStage, TargetsLeft, Walking
  <2>2. QED BY <1>1, <2>1, <1>0, RankBelow DEF PlanDescent
<1>8. CASE StartRetain \/ PlanReady
  <2>1. r1 < s1
    BY <1>8 DEF StartRetain, PlanReady, PlanStage
  <2>2. QED BY <1>1, <2>1, <1>0, RankBelow DEF PlanDescent
<1>9. CASE Retain
  <2>1. /\ UNCHANGED <<requested, target, discovered, edge, phase, stack, execution>>
        /\ scanned' = scanned + 1
    BY <1>9 DEF Retain, walkVars
  <2>2. r1 = s1 /\ r2 = s2 /\ r3 = s3 /\ r5 = s5 /\ r6 = s6
    BY <2>1 DEF PlanStage, TargetsLeft, Walking
  <2>3. r4 = s4
    BY <2>1, UnseenSame DEF Walking
  <2>4. r7 < s7
    BY <1>2, <2>1
  <2>5. QED BY <1>1, <2>2, <2>3, <2>4, <1>0, RankBelow DEF PlanDescent
<1>10. QED BY <1>3, <1>4, <1>5, <1>6, <1>7, <1>8, <1>9 DEF PlanStep

LEMMA PlanStepOrPlanDescends ==
  OrderInv /\ OrderInv' /\ BelowTarget /\ [Next]_planVars => [PlanDescent]_planVars
<1> SUFFICES ASSUME OrderInv, OrderInv', BelowTarget, Next PROVE PlanDescent
  OBVIOUS
<1>1. ASSUME NEW ts \in Requests, Plan(ts) PROVE PlanDescent
  <2>1. (OrderInv => PlanRank \in Ranks)'
    BY PlanRanked, PTL
  <2>2. PlanRank \in Ranks /\ PlanRank' \in Ranks
    BY <2>1, PlanRanked DEF Ranks
  <2>3. PlanRank'[1] = 2 /\ PlanRank[1] = 3
    BY <1>1 DEF Plan, PlanStage, PlanRank
  <2>4. QED BY <2>2, <2>3, RankBelow DEF PlanDescent
<1>2. QED BY <1>1, PlanStepDescends DEF Next

LEMMA PlanGuards == OrderInv => phase \in {"idle", "ready"} \/ PlanGoesOn
<1> SUFFICES ASSUME OrderInv, phase \notin {"idle", "ready"} PROVE PlanGoesOn
  OBVIOUS
<1>1. /\ phase \in {"target", "walk", "expand", "retain"}
      /\ target \in 0..Len(requested) /\ Len(requested) \in Nat
      /\ scanned \in 0..Len(execution) /\ Len(execution) \in Nat /\ edge \in Nat
  BY DEF OrderInv, WalkInv, PlanInv, TypeOK, Phases
<1>2. QED BY <1>1 DEF PlanGoesOn

LEMMA PlanBelowTarget == Spec => []BelowTarget
<1>1. Init => BelowTarget
  BY DEF Init, BelowTarget, Walking
<1>2. QED BY <1>1, OrderInvariant, BelowTargetStep, PTL DEF Spec

\* The planner comes to an end whatever the graph and the requests: each of its steps makes its
\* rank smaller in an order without infinite descents, and until the plan is ready it has a
\* step to do.  (A walk ends because every dependency has a smaller id than its task.)
THEOREM PlanDescends ==
  /\ IsWellFoundedOn(RankOrder, Ranks)
  /\ Spec => /\ [](PlanRank \in Ranks /\ (phase \in {"idle", "ready"} \/ PlanGoesOn))
             /\ [][PlanDescent]_planVars
<1>1. Spec => /\ [](PlanRank \in Ranks /\ (phase \in {"idle", "ready"} \/ PlanGoesOn))
              /\ [][PlanDescent]_planVars
  BY OrderInvariant, PlanBelowTarget, PlanRanked, PlanGuards, PlanStepOrPlanDescends, PTL DEF Spec
<1>2. QED BY <1>1, RankOrderWellFounded

-----------------------------------------------------------------------------

RunStage == CASE mode = "start" -> 3 [] mode = "planning" -> 2 [] mode = "done" -> 0 [] OTHER -> 1
LoopLeft == 2 * (Len(ordering) - next) + (IF mode = "running" THEN 1 ELSE 0)

\* execute() resolves the names, plans, runs the loop, and has returned.
RunDescent ==
    \/ RunStage' < RunStage
    \/ RunStage' = RunStage /\ mode = "planning" /\ PlanDescent
    \/ RunStage' = RunStage /\ mode # "planning" /\ LoopLeft' < LoopLeft

\* execute() has a step to do: the disjunction of the guards of RunNext once it has its names.
RunGoesOn ==
    \/ mode = "planning" /\ (phase = "ready" \/ PlanGoesOn)
    \/ mode = "running" /\ (next < Len(ordering) \/ next = Len(ordering))
    \/ mode = "task" /\ (ParentIncomplete \/ ParentsSucceeded)

LEMMA RunRanked == RunInv /\ RunTypeOK => RunStage \in Nat /\ LoopLeft \in Nat
<1> SUFFICES ASSUME RunInv, RunTypeOK PROVE RunStage \in Nat /\ LoopLeft \in Nat
  OBVIOUS
<1>1. RunStage \in Nat
  BY DEF RunStage
<1>2. next \in 0..Len(ordering) /\ ordering \in Seq(Tasks)
  BY DEF RunTypeOK, TypeOK
<1>3. PICK n : n = Len(ordering)
  OBVIOUS
<1>4. n \in Nat /\ next \in 0..n
  BY <1>2, <1>3
<1>5. 2 * (n - next) \in Nat
  BY <1>4
<1>6. QED BY <1>1, <1>3, <1>5 DEF LoopLeft

LEMMA RunStepDescends ==
  ASSUME RunInv, OrderInv, OrderInv', BelowTarget, RunNext
  PROVE  RunDescent
<1>1. CASE Planning
  <2>1. RunStage' = RunStage /\ mode = "planning"
    BY <1>1 DEF Planning, runVars, RunStage
  <2>2. QED BY <1>1, <2>1, PlanStepDescends DEF Planning, RunDescent
<1>2. CASE Resolve \/ UnknownTarget \/ ShowPlan \/ StartRun
  <2>1. \/ mode = "start" /\ mode' \in {"planning", "done"}
        \/ mode = "planning" /\ mode' \in {"running", "done"}
    BY <1>2 DEF Resolve, UnknownTarget, ShowPlan, StartRun, Return
  <2>2. RunStage' < RunStage
    BY <2>1 DEF RunStage
  <2>3. QED BY <2>2 DEF RunDescent
<1>3. CASE FinishIncomplete \/ FinishSuccess \/ BodyFails \/ BodyErrors \/ Unreadable
  <2>1. mode \in {"start", "planning", "running", "task"} /\ mode' = "done"
    BY <1>3, UnreadableStep DEF FinishIncomplete, FinishSuccess, BodyFails, BodyErrors, Call, Return
  <2>2. RunStage' < RunStage
    BY <2>1 DEF RunStage
  <2>3. QED BY <2>2 DEF RunDescent
<1>4. CASE StartTask \/ Recording
  <2>1. /\ mode \in {"running", "task"} /\ mode' \in {"running", "task"} /\ UNCHANGED planVars
        /\ \/ mode = "running" /\ mode' = "task" /\ next' = next
           \/ mode = "task" /\ mode' = "running" /\ next' = next + 1
    BY <1>4 DEF StartTask, Recording, SkipDownstream, NoBody, BodyReturns, BodyReturnsUserData,
                BodyCancels, Call, Record
  <2>2. RunStage' = RunStage /\ mode # "planning"
    BY <2>1 DEF RunStage
  <2>3. LoopLeft' < LoopLeft
    <3>1. PICK n \in Nat, k \in Nat : n = Len(ordering) /\ k = next
      BY DEF RunInv, ModeInv, PlanInv, TypeOK
    <3>2. Len(ordering)' = n
      BY <2>1, <3>1 DEF planVars, retainVars
    <3>3. CASE mode = "running"
      <4>1. LoopLeft = 2 * (n - k) + 1 /\ LoopLeft' = 2 * (n - k) + 0
        BY <2>1, <3>1, <3>2, <3>3 DEF LoopLeft
      <4>2. QED BY <4>1
    <3>4. CASE mode = "task"
      <4>1. LoopLeft = 2 * (n - k) + 0 /\ LoopLeft' = 2 * (n - (k + 1)) + 1
        BY <2>1, <3>1, <3>2, <3>4 DEF LoopLeft
      <4>2. QED BY <4>1
    <3>5. QED BY <2>1, <3>3, <3>4
  <2>4. QED BY <2>2, <2>3 DEF RunDescent
<1>5. QED BY <1>1, <1>2, <1>3, <1>4, RunNextCases DEF Quiet

\* Of the parents that have not succeeded the loop meets the last one first, and it is one
\* with a result.
LEMMA TaskGoesOn ==
  ASSUME RunInv, mode = "task", ~ ParentsSucceeded
  PROVE  ParentIncomplete
<1> DEFINE parents == deps[Current]
           bad == {k \in DOMAIN parents : results[parents[k]] # "success"}
           back == {Len(parents) - k : k \in bad}
           Less == OpToRel(<, Nat)
<1>1. parents \in Seq(Tasks)
  BY CurrentFacts, GraphFacts DEF RunInv, PlanInv
<1>2. bad # {}
  BY <1>1 DEF ParentsSucceeded, Range
<1>3. back # {} /\ back \subseteq Nat
  BY <1>1, <1>2
<1>4. \A i, j \in Nat : <<i, j>> \in Less <=> i < j
  BY DEF OpToRel
<1>5. IsWellFoundedOn(Less, Nat)
  BY NatLessThanWellFounded
<1> HIDE DEF Less, back, bad
<1>6. PICK m \in back : \A j \in back : ~ (<<j, m>> \in Less)
  BY <1>3, <1>5, WFMin
<1>7. PICK k \in bad : m = Len(parents) - k
  BY <1>6 DEF back
<1>8. ASSUME NEW l \in bad PROVE ~ (l > k)
  <2>1. Len(parents) - l \in back
    BY DEF back
  <2>2. ~ (Len(parents) - l < m) /\ Len(parents) - l \in Nat /\ m \in Nat
    BY <1>3, <1>4, <1>6, <2>1
  <2>3. k \in 1..Len(parents) /\ l \in 1..Len(parents) /\ Len(parents) \in Nat
    BY <1>1 DEF bad
  <2>4. PICK n : n = Len(parents)
    OBVIOUS
  <2>5. QED BY <1>7, <2>2, <2>3, <2>4
<1>9. ParentLookedAt(k)
  BY <1>1, <1>8 DEF ParentLookedAt, bad
<1>10. Incomplete(results[parents[k]])
  <2>1. k \in DOMAIN parents /\ results[parents[k]] # "success"
    BY DEF bad
  <2>2. parents[k] \in Range(parents)
    BY <2>1 DEF Range
  <2>3. results[parents[k]] # "none" /\ results[parents[k]] \in Results
    BY <2>2, CurrentFacts DEF RunInv, ModeInv
  <2>4. QED BY <2>1, <2>3 DEF Incomplete, Results
<1>11. QED BY <1>9, <1>10 DEF ParentIncomplete, bad

\* The planner is called before it is asked to go on.
Called == mode = "planning" => phase # "idle"

LEMMA CalledStep == Called /\ [RunNext]_vars => Called'
<1> SUFFICES ASSUME Called, [RunNext]_vars PROVE Called'
  OBVIOUS
<1>1. CASE Resolve
  BY <1>1 DEF Resolve, Plan, Called
<1>2. CASE Planning
  BY <1>2 DEF Planning, runVars, PlanStep, StartWalk, Discover, PushNeighbour, ExpandDone, Emit,
              Discard, Pop, EndWalk, StartRetain, Retain, PlanReady, Called
<1>3. CASE Quiet \/ Recording \/ BodyFails \/ BodyErrors
  BY <1>3, UnreadableStep DEF Quiet, ShowPlan, StartRun, StartTask, FinishIncomplete, FinishSuccess, UnknownTarget,
              Return, Recording, SkipDownstream, NoBody, BodyReturns, BodyReturnsUserData,
              BodyCancels, Record, BodyFails, BodyErrors, Called
<1>4. CASE UNCHANGED vars
  BY <1>4 DEF vars, planVars, runVars, Called
<1>5. QED BY <1>1, <1>2, <1>3, <1>4, RunNextCases

LEMMA RunGuards == RunInv /\ OrderInv /\ Called => mode \in {"start", "done"} \/ RunGoesOn
<1> SUFFICES ASSUME RunInv, OrderInv, Called, mode \notin {"start", "done"} PROVE RunGoesOn
  OBVIOUS
<1>1. mode \in {"planning", "running", "task"}
  BY DEF RunInv, ModeInv, Modes
<1>2. CASE mode = "planning"
  BY <1>2, PlanGuards DEF RunGoesOn, Called
<1>3. CASE mode = "running"
  BY <1>3 DEF RunGoesOn, RunInv, ModeInv, PlanInv, TypeOK
<1>4. CASE mode = "task"
  BY <1>4, TaskGoesOn DEF RunGoesOn
<1>5. QED BY <1>1, <1>2, <1>3, <1>4

\* execute() returns if the bodies do: every step brings it closer to its end, and from the
\* planning on it has a step to do.  In the loop that means that whatever the results of the
\* parents, the task is either run or skipped.
THEOREM RunDescends ==
  RunSpec => /\ [](RunStage \in Nat /\ PlanRank \in Ranks /\ LoopLeft \in Nat)
             /\ [](mode \in {"start", "done"} \/ RunGoesOn)
             /\ [][RunDescent]_vars
<1>1. RunInit => Called
  BY DEF RunInit, Called
<1>2. RunInv /\ OrderInv /\ OrderInv' /\ BelowTarget /\ [RunNext]_vars => [RunDescent]_vars
  BY RunStepDescends
<1>3. RunSpec => [](OrderInv /\ BelowTarget)
  BY RunPlans, OrderInvariant, PlanBelowTarget, PTL
<1>4. RunSpec => []Called
  BY <1>1, CalledStep, PTL DEF RunSpec
<1>5. QED
  BY <1>2, <1>3, <1>4, RunInvariant, RunTypeCorrect, PlanRanked, RunRanked, RunGuards, PTL
  DEF RunSpec
=============================================================================
