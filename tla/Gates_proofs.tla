------------------------------ MODULE Gates_proofs ------------------------------
(***************************************************************************)
(* The two gates an action passes, for any number of threads.  First the      *)
(* budgets alone: the overshoot of the action budget is bounded by the number *)
(* of threads, and no action escapes the count.  Then the pipeline: it keeps  *)
(* what the budgets promise, because every step of it is a step of the        *)
(* budgets or none; caused_by is the newest input call; and every step id is  *)
(* accounted for once.  Then confirmation tokens are single-use grants: the   *)
(* store and the gate implement OneTimeGrants, and a guarded element is acted *)
(* on only under its grant.  Last, the way a call takes to the gates: it       *)
(* reaches the tool it names with what it was given.                          *)
(***************************************************************************)
EXTENDS Pipeline, ConfirmTokens, Surfaces, FiniteSetTheorems, TLAPS

Noting == {p \in InFlight : pc[p] = "note"}

Types ==
    /\ actions \in Nat
    /\ succeeded \in Nat /\ late \in Nat /\ hasty \in Nat
    /\ pc \in [Workers -> {"idle", "gate", "run", "note"}]
    /\ kind \in [Workers -> Kinds \cup {NoCall}]

(* The part of the state the counts depend on, and how a step moves it. *)
LEMMA SetsAreFinite ==
    /\ IsFiniteSet(Passed) /\ Cardinality(Passed) \in Nat
    /\ IsFiniteSet(Noting) /\ Cardinality(Noting) \in Nat
    /\ Cardinality(Workers) \in Nat
    /\ Passed \subseteq Workers
  <1>1. Passed \in SUBSET Workers /\ Noting \in SUBSET Workers
    BY DEF Passed, InFlight, Noting
  <1>2. IsFiniteSet(Workers)
    BY BudgetAssumption
  <1>3. QED
    BY <1>1, <1>2, FS_Subset, FS_CardinalityType

(* A set of other threads is smaller than the set of threads. *)
LEMMA OthersAreFewer ==
    ASSUME NEW p \in Workers, NEW S, S \subseteq Workers \ {p}
    PROVE  Cardinality(S) \in Nat /\ Cardinality(S) < Cardinality(Workers)
  <1>1. /\ IsFiniteSet(Workers) /\ IsFiniteSet(Workers \ {p})
        /\ Cardinality(Workers \ {p}) = Cardinality(Workers) - 1
        /\ Cardinality(Workers) \in Nat
    BY BudgetAssumption, FS_RemoveElement, FS_CardinalityType
  <1>2. IsFiniteSet(S) /\ Cardinality(S) <= Cardinality(Workers \ {p})
    BY <1>1, FS_Subset
  <1>3. QED
    BY <1>1, <1>2, FS_CardinalityType

LEMMA InitTypes == Init => Types
  BY DEF Init, Types

LEMMA HurryIsNat ==
    ASSUME hasty \in Nat, NEW n \in Nat, Hurry(n)
    PROVE  hasty' \in Nat
  BY DEF Hurry

LEMMA NextTypes == Types /\ [Next]_vars => Types'
  <1> SUFFICES ASSUME Types, [Next]_vars PROVE Types'
    OBVIOUS
  <1>1. ASSUME NEW p \in Workers, Begin(p) PROVE Types'
    BY <1>1 DEF Types, Begin, storeVars, bookVars
  <1>2. ASSUME NEW p \in Workers, Gate(p) PROVE Types'
    <2>1. hasty' \in Nat
      BY <1>2, HurryIsNat DEF Types, Gate
    <2>2. QED  BY <1>2, <2>1 DEF Types, Gate, Ends
  <1>3. ASSUME NEW p \in Workers, Succeed(p) PROVE Types'
    BY <1>3 DEF Types, Succeed, storeVars
  <1>4. ASSUME NEW p \in Workers, Fail(p) PROVE Types'
    BY <1>4 DEF Types, Fail, Ends, storeVars, bookVars
  <1>5. ASSUME NEW p \in Workers, NoteAction(p) PROVE Types'
    <2>1. hasty' \in Nat
      BY <1>5, HurryIsNat DEF Types, NoteAction
    <2>2. QED  BY <1>5, <2>1 DEF Types, NoteAction, Ends
  <1>6. ASSUME NEW p \in Workers, NoteCapture(p) PROVE Types'
    BY <1>6 DEF Types, NoteCapture, Ends, bookVars
  <1>7. CASE Tick
    <2>1. hasty' \in Nat
      BY <1>7, HurryIsNat DEF Types, Tick
    <2>2. QED  BY <1>7, <2>1 DEF Types, Tick
  <1>8. CASE UNCHANGED vars
    BY <1>8 DEF Types, vars, storeVars, bookVars
  <1>9. QED
    BY <1>1, <1>2, <1>3, <1>4, <1>5, <1>6, <1>7, <1>8 DEF Next

(* How each step of a thread changes the two sets of calls in progress.      *)
LEMMA BeginSets ==
    ASSUME Types, NEW p \in Workers, Begin(p)
    PROVE  /\ Noting' = Noting /\ Passed' = Passed
           /\ kind'[p] \in Kinds
  <1>1. /\ pc[p] = "idle" /\ pc'[p] \in {"gate", "run"}
        /\ pc'[p] = "run" => kind'[p] # "element"
        /\ kind'[p] \in Kinds
        /\ \A q \in Workers \ {p} : pc'[q] = pc[q] /\ kind'[q] = kind[q]
    BY DEF Begin, Types
  <1>2. QED
    BY <1>1 DEF Passed, InFlight, Noting

LEMMA GateSets ==
    ASSUME Types, NEW p \in Workers, Gate(p)
    PROVE  /\ Noting' = Noting
           /\ Blocked => Passed' = Passed
  <1>1. /\ pc[p] = "gate" /\ pc'[p] = IF Blocked THEN "idle" ELSE "run"
        /\ \A q \in Workers \ {p} : pc'[q] = pc[q] /\ kind'[q] = kind[q]
    BY DEF Gate, Ends, Types
  <1>2. QED
    BY <1>1 DEF Passed, InFlight, Noting

LEMMA SucceedSets ==
    ASSUME Types, NEW p \in Workers, Succeed(p)
    PROVE  /\ Passed' = Passed
           /\ p \notin Noting
           /\ Noting' = IF kind[p] = "capture" THEN Noting ELSE Noting \cup {p}
  <1>1. /\ pc[p] = "run" /\ pc'[p] = "note" /\ kind' = kind
        /\ \A q \in Workers \ {p} : pc'[q] = pc[q]
    BY DEF Succeed, Types
  <1>2. QED
    BY <1>1 DEF Passed, InFlight, Noting

LEMMA FailSets ==
    ASSUME Types, NEW p \in Workers, Fail(p)
    PROVE  Noting' = Noting /\ Passed' \subseteq Passed
  <1>1. /\ pc[p] = "run" /\ pc'[p] = "idle"
        /\ \A q \in Workers \ {p} : pc'[q] = pc[q] /\ kind'[q] = kind[q]
    BY DEF Fail, Ends, Types
  <1>2. QED
    BY <1>1 DEF Passed, InFlight, Noting

LEMMA NoteActionSets ==
    ASSUME Types, NEW p \in Workers, NoteAction(p)
    PROVE  /\ p \in Noting /\ Noting' = Noting \ {p}
           /\ Passed' = Passed \ {p}
           /\ p \in Passed <=> kind[p] = "element"
  <1>1. /\ pc[p] = "note" /\ pc'[p] = "idle"
        /\ kind[p] # "capture"
        /\ \A q \in Workers \ {p} : pc'[q] = pc[q] /\ kind'[q] = kind[q]
    BY DEF NoteAction, Ends, Types
  <1>2. QED
    BY <1>1 DEF Passed, InFlight, Noting

LEMMA NoteCaptureSets ==
    ASSUME Types, NEW p \in Workers, NoteCapture(p)
    PROVE  Noting' = Noting /\ Passed' = Passed
  <1>1. /\ pc[p] = "note" /\ pc'[p] = "idle"
        /\ kind[p] = "capture"
        /\ \A q \in Workers \ {p} : pc'[q] = pc[q] /\ kind'[q] = kind[q]
    BY DEF NoteCapture, Ends, Types
  <1>2. QED
    BY <1>1 DEF Passed, InFlight, Noting
-------------------------------------------------------------------------------
Counted == succeeded = actions + Cardinality(Noting)

LEMMA InitCounted == Init => Counted
  <1> SUFFICES ASSUME Init PROVE Counted
    OBVIOUS
  <1>1. Noting = {} /\ actions = 0 /\ succeeded = 0
    BY DEF Init, Noting, InFlight
  <1>2. Cardinality({}) = 0
    BY FS_EmptySet
  <1>3. QED  BY <1>1, <1>2 DEF Counted

LEMMA NextCounted == Types /\ Counted /\ [Next]_vars => Counted'
  <1> SUFFICES ASSUME Types, Counted, [Next]_vars PROVE Counted'
    OBVIOUS
  <1>0. /\ actions \in Nat /\ succeeded \in Nat
        /\ IsFiniteSet(Noting) /\ Cardinality(Noting) \in Nat
    BY SetsAreFinite DEF Types
  <1>1. ASSUME NEW p \in Workers, Begin(p) PROVE Counted'
    BY <1>1, BeginSets DEF Counted, Begin, storeVars, bookVars
  <1>2. ASSUME NEW p \in Workers, Gate(p) PROVE Counted'
    BY <1>2, GateSets DEF Counted, Gate
  <1>3. ASSUME NEW p \in Workers, Succeed(p) PROVE Counted'
    <2>1. CASE kind[p] = "capture"
      BY <1>3, <2>1, SucceedSets DEF Counted, Succeed, storeVars
    <2>2. CASE kind[p] # "capture"
      <3>1. Noting' = Noting \cup {p} /\ p \notin Noting
        BY <1>3, <2>2, SucceedSets
      <3>2. Cardinality(Noting') = Cardinality(Noting) + 1
        BY <3>1, <1>0, FS_AddElement
      <3>3. succeeded' = succeeded + 1 /\ actions' = actions
        BY <1>3, <2>2 DEF Succeed, storeVars
      <3>4. QED  BY <3>2, <3>3, <1>0 DEF Counted
    <2>3. QED  BY <2>1, <2>2
  <1>4. ASSUME NEW p \in Workers, Fail(p) PROVE Counted'
    BY <1>4, FailSets DEF Counted, Fail, storeVars, bookVars
  <1>5. ASSUME NEW p \in Workers, NoteAction(p) PROVE Counted'
    <2>1. Noting' = Noting \ {p} /\ p \in Noting
      BY <1>5, NoteActionSets
    <2>2. Cardinality(Noting') = Cardinality(Noting) - 1
      BY <2>1, <1>0, FS_RemoveElement
    <2>3. succeeded' = succeeded /\ actions' = actions + 1
      BY <1>5 DEF NoteAction
    <2>4. QED  BY <2>2, <2>3, <1>0 DEF Counted
  <1>6. ASSUME NEW p \in Workers, NoteCapture(p) PROVE Counted'
    BY <1>6, NoteCaptureSets DEF Counted, NoteCapture, bookVars
  <1>7. CASE Tick
    BY <1>7 DEF Tick, Counted, Noting, InFlight
  <1>8. CASE UNCHANGED vars
    BY <1>8 DEF vars, storeVars, bookVars, Counted, Noting, InFlight
  <1>9. QED
    BY <1>1, <1>2, <1>3, <1>4, <1>5, <1>6, <1>7, <1>8 DEF Next

(* Every input call that succeeded is counted once, or is about to be.       *)
THEOREM AllActionsCounted == Spec => []EveryActionCounted
  <1>1. Counted => EveryActionCounted
    BY DEF Counted, EveryActionCounted, Noting
  <1>2. QED
    BY <1>1, InitTypes, NextTypes, InitCounted, NextCounted, PTL DEF Spec
-------------------------------------------------------------------------------
(* The late actions are counted from the moment the cap is reached.           *)
CapReached == Trips(actions, MaxActions)

Over ==
    /\ CapReached => late + Cardinality(Passed) < Cardinality(Workers)
    /\ ~ CapReached => late = 0

LEMMA InitOver == Init => Over
  <1> SUFFICES ASSUME Init PROVE Over
    OBVIOUS
  <1>1. Passed = {} /\ late = 0
    BY DEF Init, Passed, InFlight
  <1>2. Cardinality({}) = 0 /\ Cardinality(Workers) # 0
    BY FS_EmptySet, BudgetAssumption
  <1>3. QED  BY <1>1, <1>2, SetsAreFinite DEF Over

LEMMA NextOver == Types /\ Over /\ [Next]_vars => Over'
  <1> SUFFICES ASSUME Types, Over, [Next]_vars PROVE Over'
    OBVIOUS
  <1> DEFINE n == Cardinality(Passed)
             N == Cardinality(Workers)
  <1>0. /\ IsFiniteSet(Passed) /\ n \in Nat /\ N \in Nat /\ late \in Nat
        /\ CapReached => late + n < N
        /\ ~ CapReached => late = 0
    BY SetsAreFinite DEF Types, Over
  <1>s. ASSUME actions' = actions, late' = late, Passed' \subseteq Passed
        PROVE  Over'
    <2>1. n' <= n /\ n' \in Nat
      BY <1>s, <1>0, FS_Subset, FS_CardinalityType
    <2>2. CapReached' = CapReached
      BY <1>s DEF CapReached, Trips
    <2>3. QED  BY <1>s, <2>1, <2>2, <1>0 DEF Over
  <1>1. ASSUME NEW p \in Workers, Begin(p) PROVE Over'
    BY <1>1, <1>s, BeginSets DEF Begin, storeVars, bookVars
  <1>2. ASSUME NEW p \in Workers, Gate(p) PROVE Over'
    <2>1. actions' = actions /\ late' = late
      BY <1>2 DEF Gate
    <2>2. CASE Blocked
      BY <1>2, <2>1, <2>2, <1>s, GateSets
    <2>3. CASE ~ Blocked
      <3>1. ~ CapReached /\ CapReached' = CapReached
        BY <2>1, <2>3 DEF Blocked, CapReached, Trips
      <3>2. QED  BY <2>1, <3>1, <1>0 DEF Over
    <2>4. QED  BY <2>2, <2>3
  <1>3. ASSUME NEW p \in Workers, Succeed(p) PROVE Over'
    BY <1>3, <1>s, SucceedSets DEF Succeed, storeVars
  <1>4. ASSUME NEW p \in Workers, Fail(p) PROVE Over'
    BY <1>4, <1>s, FailSets DEF Fail, storeVars, bookVars
  <1>5. ASSUME NEW p \in Workers, NoteAction(p) PROVE Over'
    <2>1. /\ Passed' = Passed \ {p} /\ (p \in Passed <=> kind[p] = "element")
          /\ actions' = actions + 1 /\ actions \in Nat
          /\ late' = IF kind[p] = "element" /\ CapReached THEN late + 1 ELSE late
      BY <1>5, NoteActionSets DEF NoteAction, CapReached, Types
    <2>2. CASE CapReached
      <3>1. CapReached'
        BY <2>1, <2>2, BudgetAssumption DEF CapReached, Trips, Limit
      <3>2. CASE kind[p] = "element"
        <4>1. n' = n - 1
          BY <2>1, <3>2, <1>0, FS_RemoveElement
        <4>2. QED  BY <2>1, <2>2, <3>1, <3>2, <4>1, <1>0 DEF Over
      <3>3. CASE kind[p] # "element"
        <4>1. Passed' = Passed
          BY <2>1, <3>3
        <4>2. QED  BY <2>1, <2>2, <3>1, <3>3, <4>1, <1>0 DEF Over
      <3>4. QED  BY <3>2, <3>3
    <2>3. CASE ~ CapReached
      <3>1. late' = 0
        BY <2>1, <2>3, <1>0
      <3>2. n' \in Nat /\ n' < N
        BY <2>1, OthersAreFewer, SetsAreFinite
      <3>3. QED  BY <3>1, <3>2, <1>0 DEF Over
    <2>4. QED  BY <2>2, <2>3
  <1>6. ASSUME NEW p \in Workers, NoteCapture(p) PROVE Over'
    BY <1>6, <1>s, NoteCaptureSets DEF NoteCapture, bookVars
  <1>7. CASE Tick
    BY <1>7, <1>s DEF Tick, Passed, InFlight
  <1>8. CASE UNCHANGED vars
    BY <1>8, <1>s DEF vars, storeVars, bookVars, Passed, InFlight
  <1>9. QED
    BY <1>1, <1>2, <1>3, <1>4, <1>5, <1>6, <1>7, <1>8 DEF Next

(* Once the cap is reached, by whichever tools, fewer actions that asked the  *)
(* gate are counted than there are threads; none with a single thread.        *)
THEOREM Overshoot == Spec => []OvershootBounded
  <1>1. Over => OvershootBounded
    BY DEF Over, OvershootBounded, CapReached
  <1>2. QED
    BY <1>1, InitTypes, NextTypes, InitOver, NextOver, PTL DEF Spec
-------------------------------------------------------------------------------
LEMMA PipeInitIsInit == PipeInit => Init
  BY DEF PipeInit

LEMMA PipeStepIsStep == [PipeNext]_pipeVars => [Next]_vars
  <1> SUFFICES ASSUME [PipeNext]_pipeVars PROVE [Next]_vars
    OBVIOUS
  <1>1. ASSUME NEW p \in Workers, Deny(p) PROVE UNCHANGED vars
    BY <1>1 DEF Deny
  <1>2. ASSUME NEW p \in Workers, Call(p) PROVE Next
    BY <1>2 DEF Call, Next
  <1>3. ASSUME NEW p \in Workers, PassGate(p) PROVE Next
    BY <1>3 DEF PassGate, Next
  <1>4. ASSUME NEW p \in Workers, Done(p) PROVE Next
    BY <1>4 DEF Done, Next
  <1>5. ASSUME NEW p \in Workers, Observe(p) PROVE UNCHANGED vars
    BY <1>5 DEF Observe
  <1>6. ASSUME NEW p \in Workers, Break(p) \/ Raise(p) PROVE Next
    BY <1>6 DEF Break, Raise, Next
  <1>7. ASSUME NEW p \in Workers, Note(p) PROVE Next
    BY <1>7 DEF Note, Next
  <1>8. ASSUME NEW p \in Workers, Audit(p) \/ CallStumbles(p) PROVE UNCHANGED vars
    BY <1>8 DEF Audit, CallStumbles
  <1>9. CASE Passes
    BY <1>9 DEF Passes, Next
  <1>10. CASE UNCHANGED pipeVars
    BY <1>10 DEF pipeVars
  <1>11. QED
    BY <1>1, <1>2, <1>3, <1>4, <1>5, <1>6, <1>7, <1>8, <1>9, <1>10 DEF PipeNext

(* What dispatch does around the budgets leaves them as they are specified: the *)
(* pipeline implements Budgets (tools/dispatch.py, budgets.py).                *)
THEOREM PipelineKeepsBudgets == PipeSpec => Spec
  BY PipeInitIsInit, PipeStepIsStep, PTL DEF PipeSpec, Spec

(* So the cap on actions holds in the pipeline as well: from the moment it is   *)
(* reached, fewer gated actions than threads are counted.                     *)
THEOREM OvershootInPipeline == PipeSpec => []OvershootBounded
  BY PipelineKeepsBudgets, Overshoot, PTL
-------------------------------------------------------------------------------
(* The step counter: what was drawn, the input calls among it, the last of them *)
(* and, for each thread, the last one up to its own step.                      *)
LatestUpTo(n, cause) ==
    /\ cause \in {0} \cup inputs /\ cause <= n
    /\ \A i \in inputs : i <= n => i <= cause

Counter ==
    /\ drawn \in Nat /\ lastInput \in Nat
    /\ inputs \subseteq 1 .. drawn
    /\ LatestUpTo(drawn, lastInput)

Causes ==
    /\ step \in [Workers -> [own : Nat, cause : Nat]]
    /\ \A p \in Workers : step[p].own <= drawn
    /\ \A p \in Workers : step[p].own # 0 => LatestUpTo(step[p].own, step[p].cause)

LEMMA MaxIs ==
    ASSUME NEW S \in SUBSET Nat, NEW m \in S, \A i \in S : i <= m
    PROVE  Max(S) = m
  <1>1. \A i \in S : m >= i
    OBVIOUS
  <1>2. \A i \in S : (\A j \in S : i >= j) => i = m
    OBVIOUS
  <1>3. QED
    BY <1>1, <1>2 DEF Max

LEMMA InitCounter == PipeInit => Counter /\ Causes
  BY DEF PipeInit, Counter, Causes, LatestUpTo, NoStep, NoId

LEMMA DrawnCounter ==
    ASSUME Counter, Causes, NEW p \in Workers, NEW input \in BOOLEAN,
           NewStepId(p, input)
    PROVE  Counter' /\ Causes'
  <1> USE DEF NewStepId, Counter, Causes, LatestUpTo
  <1>1. /\ drawn' = drawn + 1 /\ drawn \in Nat /\ lastInput \in Nat
        /\ lastInput <= drawn /\ inputs \subseteq 1 .. drawn
    OBVIOUS
  <1>2. Counter'
    <2>1. CASE input
      BY <1>1, <2>1
    <2>2. CASE ~ input
      BY <1>1, <2>2
    <2>3. QED  BY <2>1, <2>2
  <1>3. step' \in [Workers -> [own : Nat, cause : Nat]]
    BY <1>1
  <1>4. step'[p].own = drawn + 1 /\ LatestUpTo(step[p].own, step[p].cause)'
    <2>1. CASE input
      BY <1>1, <2>1
    <2>2. CASE ~ input
      BY <1>1, <2>2
    <2>3. QED  BY <2>1, <2>2
  <1>5. ASSUME NEW q \in Workers, q # p
        PROVE  /\ step'[q].own <= drawn'
               /\ step'[q].own # 0 => LatestUpTo(step[q].own, step[q].cause)'
    <2>1. step'[q] = step[q] /\ step[q].own \in Nat /\ step[q].own <= drawn
      BY <1>5
    <2>2. step'[q].own <= drawn'
      BY <2>1, <1>1
    <2>3. ASSUME step[q].own # 0
          PROVE  LatestUpTo(step[q].own, step[q].cause)'
      <3>1. LatestUpTo(step[q].own, step[q].cause)
        BY <2>3
      <3>2. \A i \in inputs' : i \in inputs \/ i = drawn + 1
        OBVIOUS
      <3>3. inputs \subseteq inputs'
        OBVIOUS
      <3>4. QED
        BY <3>1, <3>2, <3>3, <2>1, <1>1
    <2>4. QED  BY <2>1, <2>2, <2>3
  <1>6. QED
    BY <1>1, <1>2, <1>3, <1>4, <1>5

LEMMA NextCounter == Counter /\ Causes /\ [PipeNext]_pipeVars => (Counter /\ Causes)'
  <1> SUFFICES ASSUME Counter, Causes, [PipeNext]_pipeVars
               PROVE  (Counter /\ Causes)'
    OBVIOUS
  <1>1. ASSUME UNCHANGED stepVars PROVE (Counter /\ Causes)'
    BY <1>1 DEF stepVars, Counter, Causes, LatestUpTo
  <1>2. ASSUME NEW p \in Workers, Deny(p) PROVE (Counter /\ Causes)'
    BY <1>2, DrawnCounter DEF Deny, IsInput
  <1>3. ASSUME NEW p \in Workers, Call(p) PROVE (Counter /\ Causes)'
    BY <1>3, DrawnCounter DEF Call, IsInput
  <1>4. ASSUME NEW p \in Workers, Observe(p) PROVE (Counter /\ Causes)'
    BY <1>4, DrawnCounter DEF Observe
  <1>5. ASSUME NEW p \in Workers,
               \/ CallStumbles(p) \/ PassGate(p) \/ Done(p)
               \/ Break(p) \/ Raise(p) \/ Note(p)
        PROVE  UNCHANGED stepVars
    BY <1>5 DEF CallStumbles, PassGate, Done, Break, Raise, Note, auditVars, stepVars
  <1>a. ASSUME NEW p \in Workers, Audit(p) PROVE (Counter /\ Causes)'
    BY <1>a DEF Audit, Forget, NoStep, NoId, Counter, Causes, LatestUpTo
  <1>6. CASE Passes
    BY <1>6, <1>1 DEF Passes
  <1>7. CASE UNCHANGED pipeVars
    BY <1>7, <1>1 DEF pipeVars
  <1>8. QED
    BY <1>1, <1>2, <1>3, <1>4, <1>5, <1>a, <1>6, <1>7 DEF PipeNext

LEMMA CounterGivesCauses == Counter /\ Causes => CausedByNewestInput
  <1> SUFFICES ASSUME Counter, Causes, NEW p \in Workers, step[p].own # 0
               PROVE  step[p].cause
                         = Max({0} \cup {i \in inputs : i <= step[p].own})
    BY DEF CausedByNewestInput
  <1> DEFINE S == {0} \cup {i \in inputs : i <= step[p].own}
  <1>1. S \in SUBSET Nat
    <2>1. inputs \subseteq 1 .. drawn /\ drawn \in Nat
      BY DEF Counter
    <2>2. \A i \in inputs : i \in Nat
      BY <2>1
    <2>3. QED  BY <2>2
  <1>2. step[p].cause \in S /\ \A i \in S : i <= step[p].cause
    BY DEF Counter, Causes, LatestUpTo
  <1> HIDE DEF S
  <1>3. Max(S) = step[p].cause
    BY <1>1, <1>2, MaxIs
  <1>4. QED  BY <1>3 DEF S

(* caused_by_step_id names the newest input call drawn no later than the call   *)
(* itself, whichever thread made it (session._StepCounter.next_id).            *)
THEOREM CausedByIsNewest == PipeSpec => []CausedByNewestInput
  BY InitCounter, NextCounter, CounterGivesCauses, PTL DEF PipeSpec
-------------------------------------------------------------------------------
(* The ledger.  A thread's call is open from its step id to its audit line, and *)
(* it waits for that line only once its handler has returned or raised.        *)
Lined == {lines[k].step : k \in DOMAIN lines} \ {NoId}
Nameless == {k \in DOMAIN lines : lines[k].step = NoId}
Owned == {OwnStep(p) : p \in Open \ Raising}
Good  == {k \in DOMAIN lines : lines[k].ok /\ lines[k].input}
Noted == {p \in Workers : due[p] = "ok" /\ OwnStep(p) \in inputs}
Lines == [step : Nat, input : BOOLEAN, ok : BOOLEAN]
Due == {"none", "ok", "failed", "raised"}
Busy == {"gate", "run", "note"}

Dues ==
    /\ due \in [Workers -> Due]
    /\ seen \in [Workers -> Nat]
    /\ lines \in Seq(Lines)
    /\ \A p \in Workers : pc[p] \in Busy => due[p] = "none"
    /\ \A p \in Workers : pc[p] \in Busy => (OwnStep(p) \in inputs <=> IsInput(kind[p]))
    /\ \A p \in Open \ Raising : OwnStep(p) \in 1 .. drawn

Books ==
    /\ 1 .. drawn = Lined \cup Owned \cup denied \cup composed \cup lost
    /\ IsFiniteSet(denied) /\ IsFiniteSet(composed) /\ IsFiniteSet(lost)
    /\ drawn + stumbled = Len(lines) + Cardinality(Open) + Cardinality(denied)
                            + Cardinality(composed)
    /\ Cardinality(lost) + stumbled = Cardinality(Nameless) + Cardinality(Raising)
    /\ actions = Cardinality(Good) + Cardinality(Noted)

(* No id stands in two books: what a raised call takes out of the open calls    *)
(* was not lost before.                                                       *)
Apart ==
    /\ stumbled \in Nat
    /\ \A p, q \in Open \ Raising : OwnStep(p) = OwnStep(q) => p = q
    /\ \A p \in Open \ Raising : OwnStep(p) \notin lost

Ledger == Types /\ Counter /\ Causes /\ Dues /\ Apart /\ Books

LEMMA FiniteBooks ==
    ASSUME Dues
    PROVE  /\ IsFiniteSet(Open) /\ IsFiniteSet(Noted) /\ IsFiniteSet(Good)
           /\ IsFiniteSet(Nameless) /\ IsFiniteSet(Raising)
           /\ Cardinality(Open) \in Nat /\ Cardinality(Noted) \in Nat
           /\ Cardinality(Good) \in Nat /\ Cardinality(Nameless) \in Nat
           /\ Cardinality(Raising) \in Nat
  <1>1. /\ Open \in SUBSET Workers /\ Noted \in SUBSET Workers
        /\ Raising \in SUBSET Workers
    BY DEF Open, Noted, Raising
  <1>2. IsFiniteSet(Workers)
    BY BudgetAssumption
  <1>3. /\ Good \in SUBSET (1 .. Len(lines)) /\ Nameless \in SUBSET (1 .. Len(lines))
        /\ Len(lines) \in Nat
    BY DEF Dues, Good, Nameless
  <1>4. IsFiniteSet(1 .. Len(lines))
    BY <1>3, FS_Interval
  <1>5. /\ IsFiniteSet(Open) /\ IsFiniteSet(Noted) /\ IsFiniteSet(Raising)
        /\ IsFiniteSet(Good) /\ IsFiniteSet(Nameless)
    BY <1>1, <1>2, <1>3, <1>4, FS_Subset
  <1>6. QED
    BY <1>5, FS_CardinalityType

(* The numbers the books add up. *)
LEMMA BookNumbers ==
    ASSUME Ledger
    PROVE  /\ drawn \in Nat /\ stumbled \in Nat /\ Len(lines) \in Nat /\ actions \in Nat
           /\ Cardinality(denied) \in Nat /\ Cardinality(composed) \in Nat
           /\ Cardinality(lost) \in Nat
  <1>1. IsFiniteSet(denied) /\ IsFiniteSet(composed) /\ IsFiniteSet(lost)
    BY DEF Ledger, Books
  <1>2. drawn \in Nat /\ stumbled \in Nat /\ Len(lines) \in Nat /\ actions \in Nat
    BY DEF Ledger, Counter, Apart, Dues, Types
  <1>3. QED
    BY <1>1, <1>2, FS_CardinalityType

LEMMA InitLedger == PipeInit => Ledger
  <1> SUFFICES ASSUME PipeInit PROVE Ledger
    OBVIOUS
  <1>1. Types /\ Counter /\ Causes
    BY PipeInitIsInit, InitTypes, InitCounter
  <1>2. /\ Open = {} /\ Noted = {} /\ Good = {} /\ Lined = {} /\ Owned = {}
        /\ Nameless = {} /\ Raising = {}
    <2>1. Open = {} /\ Noted = {} /\ Raising = {}
      BY DEF PipeInit, Init, Open, Noted, Raising
    <2>2. lines = <<>>
      BY DEF PipeInit
    <2>3. QED  BY <2>1, <2>2 DEF Good, Lined, Owned, Nameless
  <1>3. Dues /\ Apart
    <2>1. Dues
      BY <1>2 DEF PipeInit, Init, Dues, Due, Busy, NoId
    <2>2. Apart
      BY <1>2 DEF PipeInit, Apart
    <2>3. QED  BY <2>1, <2>2
  <1>4. /\ drawn = 0 /\ actions = 0 /\ Len(lines) = 0 /\ denied = {} /\ composed = {}
        /\ lost = {} /\ stumbled = 0
    BY DEF PipeInit, Init
  <1>5. 1 .. 0 = {}
    OBVIOUS
  <1>6. Books
    BY <1>2, <1>4, <1>5, FS_EmptySet DEF Books
  <1>7. QED
    BY <1>1, <1>3, <1>6 DEF Ledger

(* A step that opens no call, draws no id and closes none.                    *)
LEMMA SameBooks ==
    ASSUME Ledger, Open' = Open, Raising' = Raising,
           UNCHANGED <<stepVars, seen, lines, bookedVars>>,
           actions' - Cardinality(Noted)' = actions - Cardinality(Noted),
           actions' \in Nat, Cardinality(Noted)' \in Nat
    PROVE  Books' /\ Apart'
  <1>1. /\ Owned' = Owned /\ Lined' = Lined /\ Good' = Good /\ drawn' = drawn
        /\ Nameless' = Nameless
        /\ \A p \in Workers : OwnStep(p)' = OwnStep(p)
    BY DEF Owned, Lined, Good, OwnStep, Nameless, stepVars
  <1>2. Cardinality(Good) \in Nat /\ Cardinality(Noted) \in Nat
    BY FiniteBooks DEF Ledger
  <1>3. actions \in Nat
    BY DEF Ledger, Types
  <1>4. actions' = Cardinality(Good)' + Cardinality(Noted)'
    BY <1>1, <1>2, <1>3 DEF Ledger, Books
  <1>5. Books'
    BY <1>1, <1>4 DEF Ledger, Books, bookedVars
  <1>6. Apart'
    BY <1>1 DEF Ledger, Apart, bookedVars, Open
  <1>7. QED
    BY <1>5, <1>6

(* A step that draws an id enters it in exactly one of the books.             *)
LEMMA DrawnBooks ==
    ASSUME Ledger, drawn' = drawn + 1, Raising' = Raising,
           UNCHANGED <<lines, actions, lost, stumbled>>, Noted' = Noted,
           \/ /\ \E p \in Workers : p \notin Open /\ Open' = Open \cup {p}
              /\ Owned' = Owned \cup {drawn + 1} /\ UNCHANGED <<denied, composed>>
           \/ /\ Open' = Open /\ Owned' = Owned
              /\ denied' = denied \cup {drawn + 1} /\ composed' = composed
           \/ /\ Open' = Open /\ Owned' = Owned
              /\ composed' = composed \cup {drawn + 1} /\ denied' = denied
    PROVE  Books'
  <1>1. /\ drawn \in Nat /\ Len(lines) \in Nat /\ stumbled \in Nat
        /\ IsFiniteSet(Open) /\ Cardinality(Open) \in Nat
        /\ IsFiniteSet(denied) /\ IsFiniteSet(composed) /\ IsFiniteSet(lost)
        /\ Cardinality(denied) \in Nat /\ Cardinality(composed) \in Nat
    <2>1. IsFiniteSet(denied) /\ IsFiniteSet(composed) /\ IsFiniteSet(lost)
      BY DEF Ledger, Books
    <2>2. IsFiniteSet(Open) /\ Cardinality(Open) \in Nat
      BY FiniteBooks DEF Ledger
    <2>3. QED  BY <2>1, <2>2, BookNumbers
  <1>2. 1 .. drawn + 1 = 1 .. drawn \cup {drawn + 1} /\ drawn + 1 \notin 1 .. drawn
    BY <1>1
  <1>3. Lined' = Lined /\ Good' = Good /\ Len(lines)' = Len(lines) /\ Nameless' = Nameless
    BY DEF Lined, Good, Nameless
  <1>4. /\ actions' = Cardinality(Good)' + Cardinality(Noted)'
        /\ Cardinality(lost)' + stumbled' = Cardinality(Nameless)' + Cardinality(Raising)'
    BY <1>3 DEF Ledger, Books
  <1>5. /\ 1 .. drawn = Lined \cup Owned \cup denied \cup composed \cup lost
        /\ drawn + stumbled = Len(lines) + Cardinality(Open) + Cardinality(denied)
                                + Cardinality(composed)
    BY DEF Ledger, Books
  <1>6. drawn + 1 \notin denied /\ drawn + 1 \notin composed
    BY <1>2, <1>5
  <1>7. (1 .. drawn)' = Lined' \cup Owned' \cup denied' \cup composed' \cup lost'
    BY <1>2, <1>3, <1>5
  <1>8. CASE /\ \E p \in Workers : p \notin Open /\ Open' = Open \cup {p}
             /\ UNCHANGED <<denied, composed>>
    <2>1. Cardinality(Open)' = Cardinality(Open) + 1
      BY <1>8, <1>1, FS_AddElement
    <2>2. drawn' + stumbled' = Len(lines') + Cardinality(Open)' + Cardinality(denied')
                                  + Cardinality(composed')
      <3>1. /\ Cardinality(denied') = Cardinality(denied)
            /\ Cardinality(composed') = Cardinality(composed)
            /\ Len(lines') = Len(lines) /\ stumbled' = stumbled
        BY <1>3, <1>8
      <3>2. QED  BY <1>1, <1>5, <2>1, <3>1
    <2>3. IsFiniteSet(denied') /\ IsFiniteSet(composed') /\ IsFiniteSet(lost')
      BY <1>1, <1>8
    <2>4. QED  BY <1>4, <1>7, <2>2, <2>3 DEF Books
  <1>9. CASE Open' = Open /\ denied' = denied \cup {drawn + 1} /\ composed' = composed
    <2>1. IsFiniteSet(denied') /\ Cardinality(denied') = Cardinality(denied) + 1
      BY <1>9, <1>1, <1>6, FS_AddElement
    <2>2. drawn' + stumbled' = Len(lines') + Cardinality(Open)' + Cardinality(denied')
                                  + Cardinality(composed')
      <3>1. /\ Cardinality(Open)' = Cardinality(Open)
            /\ Cardinality(composed') = Cardinality(composed)
            /\ Len(lines') = Len(lines) /\ stumbled' = stumbled
        BY <1>3, <1>9
      <3>2. (drawn + 1) + stumbled = Len(lines) + Cardinality(Open)
                                       + (Cardinality(denied) + 1) + Cardinality(composed)
        <4>1. drawn + stumbled = Len(lines) + Cardinality(Open) + Cardinality(denied)
                                   + Cardinality(composed)
          BY <1>5
        <4>2. QED  BY <1>1, <4>1
      <3>3. QED  BY <2>1, <3>1, <3>2
    <2>3. IsFiniteSet(denied') /\ IsFiniteSet(composed') /\ IsFiniteSet(lost')
      BY <1>1, <1>9, <2>1
    <2>4. QED  BY <1>4, <1>7, <2>2, <2>3 DEF Books
  <1>10. CASE Open' = Open /\ composed' = composed \cup {drawn + 1} /\ denied' = denied
    <2>1. IsFiniteSet(composed') /\ Cardinality(composed') = Cardinality(composed) + 1
      BY <1>10, <1>1, <1>6, FS_AddElement
    <2>2. drawn' + stumbled' = Len(lines') + Cardinality(Open)' + Cardinality(denied')
                                  + Cardinality(composed')
      <3>1. /\ Cardinality(Open)' = Cardinality(Open)
            /\ Cardinality(denied') = Cardinality(denied)
            /\ Len(lines') = Len(lines) /\ stumbled' = stumbled
        BY <1>3, <1>10
      <3>2. QED  BY <1>1, <1>5, <2>1, <3>1
    <2>3. IsFiniteSet(denied') /\ IsFiniteSet(composed') /\ IsFiniteSet(lost')
      BY <1>1, <1>10, <2>1
    <2>4. QED  BY <1>4, <1>7, <2>2, <2>3 DEF Books
  <1>11. QED
    BY <1>8, <1>9, <1>10

(* What draws an id keeps the ids of the open calls, and makes no input of them. *)
LEMMA OldInputs ==
    ASSUME Ledger, NEW input \in BOOLEAN, NEW p \in Workers, NewStepId(p, input),
           NEW i \in 1 .. drawn
    PROVE  i \in inputs' <=> i \in inputs
  <1>1. drawn \in Nat
    BY DEF Ledger, Counter
  <1>2. QED
    BY <1>1 DEF NewStepId

LEMMA LostAreOld == Ledger => lost \subseteq 1 .. drawn
  BY DEF Ledger, Books

LEMMA DenyLedger ==
    ASSUME Ledger, NEW p \in Workers, Deny(p)
    PROVE  Dues' /\ Books' /\ Apart'
  <1>1. /\ due[p] = "none" /\ pc[p] = "idle"
        /\ drawn' = drawn + 1 /\ denied' = denied \cup {drawn + 1}
        /\ UNCHANGED <<vars, seen, due, lines, composed, lost, stumbled>>
        /\ \A q \in Workers \ {p} : step'[q] = step[q]
        /\ \E input \in BOOLEAN : NewStepId(p, input)
    BY DEF Deny, NewStepId, Ledger, Causes, IsInput
  <1>2. Open' = Open /\ Raising' = Raising /\ p \notin Open
    BY <1>1 DEF vars, Open, Raising, Busy
  <1>3. \A q \in Workers \ {p} : OwnStep(q)' = OwnStep(q)
    BY <1>1 DEF OwnStep
  <1>4. Owned' = Owned
    BY <1>2, <1>3 DEF Owned, Open
  <1>5. \A q \in Open \ Raising : OwnStep(q) \in inputs' <=> OwnStep(q) \in inputs
    BY <1>1, OldInputs DEF Ledger, Dues
  <1>6. Noted' = Noted
    BY <1>1, <1>3, <1>5 DEF Noted, Open, Raising
  <1>7. Dues'
    <2>1. \A q \in (Open \ Raising)' : OwnStep(q)' \in 1 .. drawn'
      <3>1. drawn \in Nat
        BY DEF Ledger, Counter
      <3>2. QED  BY <1>1, <1>2, <1>3, <3>1 DEF Ledger, Dues, Open
    <2>2. ASSUME NEW q \in Workers, pc[q] \in Busy
          PROVE  q # p /\ q \in Open \ Raising
      BY <1>1, <2>2 DEF Open, Raising, Busy, Ledger, Dues
    <2>3. \A q \in Workers : pc[q] \in Busy =>
             (OwnStep(q)' \in inputs' <=> IsInput(kind[q]))
      BY <1>3, <1>5, <2>2 DEF Ledger, Dues
    <2>4. QED  BY <1>1, <2>1, <2>3 DEF Ledger, Dues, vars
  <1>8. Apart'
    BY <1>1, <1>2, <1>3 DEF Ledger, Apart, Open
  <1>9. QED
    BY <1>1, <1>2, <1>4, <1>6, <1>7, <1>8, DrawnBooks DEF vars, storeVars

LEMMA CallLedger ==
    ASSUME Ledger, NEW p \in Workers, Call(p)
    PROVE  Dues' /\ Books' /\ Apart'
  <1>1. /\ due[p] = "none" /\ pc[p] = "idle"
        /\ drawn' = drawn + 1 /\ step'[p].own = drawn + 1 /\ seen'[p] = NoId
        /\ pc'[p] \in {"gate", "run"}
        /\ inputs' = IF IsInput(kind'[p]) THEN inputs \cup {drawn + 1} ELSE inputs
        /\ NewStepId(p, IsInput(kind'[p])) /\ IsInput(kind'[p]) \in BOOLEAN
        /\ UNCHANGED <<actions, due, lines, bookedVars>>
    BY DEF Call, Begin, NewStepId, Ledger, Types, Causes, Dues, storeVars, IsInput
  <1>2. \A q \in Workers \ {p} :
           /\ pc'[q] = pc[q] /\ kind'[q] = kind[q]
           /\ step'[q] = step[q] /\ seen'[q] = seen[q]
    BY DEF Call, Begin, NewStepId, Ledger, Types, Causes, Dues
  <1>3. p \notin Open /\ Open' = Open \cup {p} /\ Raising' = Raising /\ p \notin Raising
    BY <1>1, <1>2 DEF Open, Raising
  <1>4. /\ OwnStep(p)' = drawn + 1
        /\ \A q \in Workers \ {p} : OwnStep(q)' = OwnStep(q)
    BY <1>1, <1>2 DEF OwnStep
  <1>5. Owned' = Owned \cup {drawn + 1}
    <2>1. (Open \ Raising)' = (Open \ Raising) \cup {p}
      BY <1>3
    <2>2. QED  BY <1>3, <1>4, <2>1 DEF Owned, Open
  <1>6. drawn \in Nat /\ inputs \subseteq 1 .. drawn
    BY DEF Ledger, Counter
  <1>7. \A q \in Open \ Raising : OwnStep(q) \in inputs' <=> OwnStep(q) \in inputs
    BY <1>1, OldInputs DEF Ledger, Dues
  <1>8. Noted' = Noted
    BY <1>1, <1>4, <1>7 DEF Noted, Open, Raising
  <1>9. Dues'
    <2>1. \A q \in (Open \ Raising)' : OwnStep(q)' \in 1 .. drawn'
      BY <1>1, <1>3, <1>4, <1>6 DEF Ledger, Dues, Open
    <2>2. seen' \in [Workers -> Nat]
      BY DEF Call, Ledger, Dues, NoId
    <2>3. \A q \in Workers : pc'[q] \in Busy => due'[q] = "none"
      BY <1>1, <1>2 DEF Ledger, Dues
    <2>4. OwnStep(p)' \in inputs' <=> IsInput(kind'[p])
      BY <1>1, <1>4, <1>6
    <2>5. ASSUME NEW q \in Workers \ {p}, pc'[q] \in Busy
          PROVE  OwnStep(q)' \in inputs' <=> IsInput(kind'[q])
      <3>1. q \in Open \ Raising /\ pc[q] \in Busy
        BY <1>2, <2>5 DEF Open, Raising, Busy, Ledger, Dues
      <3>2. QED  BY <1>2, <1>4, <1>7, <3>1 DEF Ledger, Dues
    <2>6. \A q \in Workers : pc'[q] \in Busy => (OwnStep(q)' \in inputs' <=> IsInput(kind'[q]))
      BY <2>4, <2>5
    <2>7. QED
      BY <1>1, <2>1, <2>2, <2>3, <2>6 DEF Ledger, Dues
  <1>10. Apart'
    <2>1. \A q \in Open \ Raising : OwnStep(q) # drawn + 1
      BY <1>6 DEF Ledger, Dues
    <2>2. drawn + 1 \notin lost
      BY <1>6, LostAreOld
    <2>3. QED  BY <1>1, <1>3, <1>4, <2>1, <2>2 DEF Ledger, Apart, Open, bookedVars
  <1>11. QED
    BY <1>1, <1>3, <1>5, <1>8, <1>9, <1>10, DrawnBooks DEF bookedVars

LEMMA ObserveLedger ==
    ASSUME Ledger, NEW p \in Workers, Observe(p)
    PROVE  Dues' /\ Books' /\ Apart'
  <1>1. /\ pc[p] = "run" /\ seen[p] = NoId /\ seen'[p] = step[p].own
        /\ drawn' = drawn + 1 /\ composed' = composed \cup {drawn + 1}
        /\ inputs' = inputs
        /\ UNCHANGED <<vars, due, lines, denied, lost, stumbled>>
        /\ \A q \in Workers \ {p} : step'[q] = step[q] /\ seen'[q] = seen[q]
    BY DEF Observe, NewStepId, Ledger, Causes, Dues
  <1>2. Open' = Open /\ Raising' = Raising /\ p \in Open \ Raising
    BY <1>1 DEF vars, Open, Raising, Busy, Ledger, Dues
  <1>3. step[p].own \in 1 .. drawn /\ drawn \in Nat
    BY <1>1, <1>2 DEF OwnStep, Ledger, Dues, Counter
  <1>4. \A q \in Workers : OwnStep(q)' = OwnStep(q)
    BY <1>1, <1>3 DEF OwnStep, NoId
  <1>5. Owned' = Owned
    BY <1>2, <1>4 DEF Owned, Open
  <1>6. Noted' = Noted
    BY <1>1, <1>4 DEF Noted
  <1>7. Dues'
    <2>1. \A q \in (Open \ Raising)' : OwnStep(q)' \in 1 .. drawn'
      BY <1>1, <1>2, <1>3, <1>4 DEF Ledger, Dues, Open
    <2>2. seen' \in [Workers -> Nat]
      BY <1>3 DEF Observe, Ledger, Dues
    <2>3. \A q \in Workers : pc'[q] \in Busy => (OwnStep(q)' \in inputs' <=> IsInput(kind'[q]))
      BY <1>1, <1>4 DEF vars, Ledger, Dues
    <2>4. QED  BY <1>1, <2>1, <2>2, <2>3 DEF Ledger, Dues, vars
  <1>8. Apart'
    BY <1>1, <1>2, <1>4 DEF Ledger, Apart, Open
  <1>9. QED
    BY <1>1, <1>2, <1>5, <1>6, <1>7, <1>8, DrawnBooks DEF vars, storeVars

(* The steps between the first and the last of a call: it stays open.         *)
LEMMA MiddleDues ==
    ASSUME Ledger, NEW p \in Workers, pc[p] \in Busy,
           UNCHANGED <<stepVars, seen, lines>>,
           \A q \in Workers \ {p} : pc'[q] = pc[q] /\ due'[q] = due[q] /\ kind'[q] = kind[q],
           due' \in [Workers -> Due],
           \/ pc'[p] \in Busy /\ due'[p] = "none" /\ kind'[p] = kind[p]
           \/ pc'[p] = "idle" /\ due'[p] # "none"
    PROVE  /\ Open' = Open /\ Dues'
           /\ Raising' = IF due'[p] = "raised" THEN Raising \cup {p} ELSE Raising
           /\ p \in Open \ Raising
  <1>1. /\ Open' = Open
        /\ Raising' = IF due'[p] = "raised" THEN Raising \cup {p} ELSE Raising
        /\ p \in Open \ Raising
    BY DEF Open, Raising, Busy, Ledger, Dues
  <1>2. \A q \in Workers : OwnStep(q)' = OwnStep(q)
    BY DEF OwnStep, stepVars
  <1>3. \A q \in (Open \ Raising)' : OwnStep(q)' \in 1 .. drawn'
    BY <1>1, <1>2 DEF stepVars, Ledger, Dues, Open
  <1>4. \A q \in Workers : pc'[q] \in Busy => due'[q] = "none"
    BY DEF Ledger, Dues, Busy
  <1>5. \A q \in Workers : pc'[q] \in Busy => (OwnStep(q)' \in inputs' <=> IsInput(kind'[q]))
    BY <1>2 DEF Ledger, Dues, Busy, stepVars
  <1>6. QED
    BY <1>1, <1>3, <1>4, <1>5 DEF Ledger, Dues

LEMMA PassGateLedger ==
    ASSUME Ledger, NEW p \in Workers, PassGate(p)
    PROVE  Dues' /\ Books' /\ Apart'
  <1>1. /\ pc[p] = "gate" /\ due[p] = "none"
        /\ \/ pc'[p] = "run" /\ due'[p] = "none" /\ kind'[p] = kind[p]
           \/ pc'[p] = "idle" /\ due'[p] = "failed"
        /\ due' \in [Workers -> Due]
        /\ \A q \in Workers \ {p} : pc'[q] = pc[q] /\ due'[q] = due[q] /\ kind'[q] = kind[q]
        /\ UNCHANGED <<stepVars, seen, lines, bookedVars, actions>>
    BY DEF PassGate, Gate, Ends, Ledger, Dues, Types, Due, Busy
  <1>2. Open' = Open /\ Dues' /\ Raising' = Raising
    BY <1>1, MiddleDues DEF Busy
  <1>3. Noted' = Noted
    BY <1>1 DEF Noted, OwnStep, stepVars
  <1>4. QED
    BY <1>1, <1>2, <1>3, SameBooks, FiniteBooks DEF Ledger, Types

LEMMA DoneLedger ==
    ASSUME Ledger, NEW p \in Workers, Done(p)
    PROVE  Dues' /\ Books' /\ Apart'
  <1>1. /\ pc[p] = "run" /\ pc'[p] = "note" /\ due[p] = "none"
        /\ due' = due /\ due' \in [Workers -> Due]
        /\ \A q \in Workers \ {p} : pc'[q] = pc[q]
        /\ UNCHANGED <<stepVars, seen, lines, bookedVars, actions, kind>>
    BY DEF Done, Succeed, Ledger, Dues, Types, auditVars, storeVars, Busy
  <1>2. Open' = Open /\ Dues' /\ Raising' = Raising
    BY <1>1, MiddleDues DEF Busy
  <1>3. Noted' = Noted
    BY <1>1 DEF Noted, OwnStep, stepVars
  <1>4. QED
    BY <1>1, <1>2, <1>3, SameBooks, FiniteBooks DEF Ledger, Types

LEMMA BreakLedger ==
    ASSUME Ledger, NEW p \in Workers, Break(p)
    PROVE  Dues' /\ Books' /\ Apart'
  <1>1. /\ pc[p] = "run" /\ pc'[p] = "idle"
        /\ due[p] = "none" /\ due'[p] = "failed"
        /\ due' \in [Workers -> Due]
        /\ \A q \in Workers \ {p} : pc'[q] = pc[q] /\ due'[q] = due[q] /\ kind'[q] = kind[q]
        /\ UNCHANGED <<stepVars, seen, lines, bookedVars, actions>>
    BY DEF Break, Fail, Ends, Ledger, Dues, Types, storeVars, Due, Busy
  <1>2. Open' = Open /\ Dues' /\ Raising' = Raising
    BY <1>1, MiddleDues DEF Busy
  <1>3. Noted' = Noted
    BY <1>1 DEF Noted, OwnStep, stepVars
  <1>4. QED
    BY <1>1, <1>2, <1>3, SameBooks, FiniteBooks DEF Ledger, Types

(* A call that raises moves from the open calls to the lost ids, and its line   *)
(* to come will have none.                                                    *)
LEMMA RaiseLedger ==
    ASSUME Ledger, NEW p \in Workers, Raise(p)
    PROVE  Dues' /\ Books' /\ Apart'
  <1>1. /\ pc[p] = "run" /\ pc'[p] = "idle"
        /\ due[p] = "none" /\ due'[p] = "raised"
        /\ due' \in [Workers -> Due]
        /\ \A q \in Workers \ {p} : pc'[q] = pc[q] /\ due'[q] = due[q] /\ kind'[q] = kind[q]
        /\ UNCHANGED <<stepVars, seen, lines, denied, composed, stumbled, actions>>
        /\ lost' = lost \cup {OwnStep(p)}
    BY DEF Raise, Fail, Ends, Ledger, Dues, Types, storeVars, Due, Busy
  <1>2. Open' = Open /\ Dues' /\ Raising' = Raising \cup {p} /\ p \in Open \ Raising
    BY <1>1, MiddleDues DEF Busy
  <1>3. \A q \in Workers : OwnStep(q)' = OwnStep(q)
    BY <1>1 DEF OwnStep, stepVars
  <1>4. Noted' = Noted /\ Good' = Good /\ Lined' = Lined /\ Nameless' = Nameless
    BY <1>1, <1>3 DEF Noted, Good, Lined, Nameless, stepVars
  <1>5. OwnStep(p) \notin lost
    BY <1>2 DEF Ledger, Apart
  <1>6. /\ IsFiniteSet(lost') /\ Cardinality(lost') = Cardinality(lost) + 1
        /\ Cardinality(Raising)' = Cardinality(Raising) + 1
        /\ Cardinality(lost) \in Nat /\ Cardinality(Raising) \in Nat
        /\ Cardinality(Nameless) \in Nat /\ stumbled \in Nat
    <2>1. IsFiniteSet(lost) /\ IsFiniteSet(Raising)
      BY FiniteBooks DEF Ledger, Books
    <2>2. QED
      BY <1>1, <1>2, <1>5, <2>1, FiniteBooks, BookNumbers, FS_AddElement DEF Ledger
  <1>7. Owned \cup lost = Owned' \cup lost'
    <2>1. Owned' = {OwnStep(q) : q \in (Open \ Raising) \ {p}}
      BY <1>2, <1>3 DEF Owned, Open
    <2>2. Owned = {OwnStep(q) : q \in (Open \ Raising) \ {p}} \cup {OwnStep(p)}
      BY <1>2 DEF Owned
    <2>3. QED  BY <1>1, <2>1, <2>2
  <1>8. Books'
    <2>1. /\ 1 .. drawn = Lined \cup Owned \cup denied \cup composed \cup lost
          /\ IsFiniteSet(denied) /\ IsFiniteSet(composed)
          /\ drawn + stumbled = Len(lines) + Cardinality(Open) + Cardinality(denied)
                                  + Cardinality(composed)
          /\ Cardinality(lost) + stumbled = Cardinality(Nameless) + Cardinality(Raising)
          /\ actions = Cardinality(Good) + Cardinality(Noted)
      BY DEF Ledger, Books
    <2>2. (1 .. drawn)' = Lined' \cup Owned' \cup denied' \cup composed' \cup lost'
      BY <1>1, <1>4, <1>7, <2>1 DEF stepVars
    <2>3. Cardinality(lost)' + stumbled' = Cardinality(Nameless)' + Cardinality(Raising)'
      BY <1>1, <1>4, <1>6, <2>1
    <2>4. QED  BY <1>1, <1>2, <1>4, <1>6, <2>1, <2>2, <2>3 DEF Books, stepVars
  <1>9. Apart'
    BY <1>1, <1>2, <1>3 DEF Ledger, Apart, Open
  <1>10. QED
    BY <1>2, <1>8, <1>9

(* A call that raises before its id is drawn will have a line without one. *)
LEMMA StumbleLedger ==
    ASSUME Ledger, NEW p \in Workers, CallStumbles(p)
    PROVE  Dues' /\ Books' /\ Apart'
  <1>1. /\ pc[p] = "idle" /\ due[p] = "none" /\ due'[p] = "raised"
        /\ due' \in [Workers -> Due]
        /\ \A q \in Workers \ {p} : due'[q] = due[q]
        /\ stumbled' = stumbled + 1
        /\ UNCHANGED <<vars, stepVars, seen, lines, denied, composed, lost>>
    BY DEF CallStumbles, Ledger, Dues, Due
  <1>2. /\ p \notin Open /\ p \notin Raising
        /\ Open' = Open \cup {p} /\ Raising' = Raising \cup {p}
        /\ (Open \ Raising)' = Open \ Raising
    BY <1>1 DEF Open, Raising, vars
  <1>3. \A q \in Workers : OwnStep(q)' = OwnStep(q)
    BY <1>1 DEF OwnStep, stepVars
  <1>4. /\ Noted' = Noted /\ Good' = Good /\ Lined' = Lined /\ Nameless' = Nameless
        /\ Owned' = Owned
    BY <1>1, <1>2, <1>3 DEF Noted, Good, Lined, Nameless, Owned, stepVars, Open
  <1>5. /\ Cardinality(Open)' = Cardinality(Open) + 1
        /\ Cardinality(Raising)' = Cardinality(Raising) + 1
        /\ Cardinality(Open) \in Nat /\ Cardinality(Raising) \in Nat
        /\ Cardinality(Nameless) \in Nat
    BY <1>2, FiniteBooks, FS_AddElement DEF Ledger
  <1>6. Books'
    <2>1. /\ drawn + stumbled = Len(lines) + Cardinality(Open) + Cardinality(denied)
                                  + Cardinality(composed)
          /\ Cardinality(lost) + stumbled = Cardinality(Nameless) + Cardinality(Raising)
      BY DEF Ledger, Books
    <2>2. UNCHANGED <<drawn, lines, denied, composed, lost, actions>>
      BY <1>1 DEF vars, storeVars, stepVars
    <2>3. /\ drawn' + stumbled' = Len(lines') + Cardinality(Open)' + Cardinality(denied')
                                    + Cardinality(composed')
          /\ Cardinality(lost)' + stumbled' = Cardinality(Nameless)' + Cardinality(Raising)'
      <3>1. /\ drawn' = drawn /\ Len(lines') = Len(lines) /\ stumbled' = stumbled + 1
            /\ Cardinality(denied') = Cardinality(denied)
            /\ Cardinality(composed') = Cardinality(composed)
            /\ Cardinality(lost') = Cardinality(lost)
            /\ Cardinality(Nameless)' = Cardinality(Nameless)
        BY <1>1, <1>4, <2>2
      <3>2. /\ drawn \in Nat /\ stumbled \in Nat /\ Len(lines) \in Nat
            /\ Cardinality(denied) \in Nat /\ Cardinality(composed) \in Nat
            /\ Cardinality(lost) \in Nat
        BY BookNumbers
      <3>3. drawn' + stumbled' = Len(lines') + Cardinality(Open)' + Cardinality(denied')
                                    + Cardinality(composed')
        <4>1. drawn + (stumbled + 1) = Len(lines) + (Cardinality(Open) + 1)
                                         + Cardinality(denied) + Cardinality(composed)
          <5>1. drawn + stumbled = Len(lines) + Cardinality(Open) + Cardinality(denied)
                                     + Cardinality(composed)
            BY <2>1
          <5>2. Cardinality(Open) \in Nat
            BY <1>5
          <5>3. QED  BY <3>2, <5>1, <5>2
        <4>2. Cardinality(Open)' = Cardinality(Open) + 1
          BY <1>5
        <4>3. QED  BY <3>1, <4>1, <4>2
      <3>4. Cardinality(lost) + (stumbled + 1) = Cardinality(Nameless) + (Cardinality(Raising) + 1)
        <4>1. Cardinality(lost) + stumbled = Cardinality(Nameless) + Cardinality(Raising)
          BY <2>1
        <4>2. Cardinality(Nameless) \in Nat /\ Cardinality(Raising) \in Nat
          BY <1>5
        <4>3. QED  BY <3>2, <4>1, <4>2
      <3>5. Cardinality(lost)' + stumbled' = Cardinality(Nameless)' + Cardinality(Raising)'
        <4>1. Cardinality(Raising)' = Cardinality(Raising) + 1
          BY <1>5
        <4>2. QED  BY <3>1, <3>4, <4>1
      <3>6. QED  BY <3>3, <3>5
    <2>4. QED  BY <1>4, <2>2, <2>3 DEF Ledger, Books
  <1>7. Dues'
    <2>1. \A q \in (Open \ Raising)' : OwnStep(q)' \in 1 .. drawn'
      BY <1>1, <1>2, <1>3 DEF stepVars, Ledger, Dues, Open
    <2>2. \A q \in Workers : pc'[q] \in Busy => due'[q] = "none"
      BY <1>1 DEF vars, Ledger, Dues, Busy
    <2>3. \A q \in Workers : pc'[q] \in Busy => (OwnStep(q)' \in inputs' <=> IsInput(kind'[q]))
      BY <1>1, <1>3 DEF vars, stepVars, Ledger, Dues
    <2>4. QED  BY <1>1, <2>1, <2>2, <2>3 DEF Ledger, Dues
  <1>8. Apart'
    BY <1>1, <1>2, <1>3 DEF Ledger, Apart, Open
  <1>9. QED
    BY <1>6, <1>7, <1>8

LEMMA NoteLedger ==
    ASSUME Ledger, NEW p \in Workers, Note(p)
    PROVE  Dues' /\ Books' /\ Apart'
  <1>1. /\ pc[p] = "note" /\ pc'[p] = "idle"
        /\ due[p] = "none" /\ due'[p] = "ok"
        /\ due' \in [Workers -> Due]
        /\ \A q \in Workers \ {p} : pc'[q] = pc[q] /\ due'[q] = due[q] /\ kind'[q] = kind[q]
        /\ UNCHANGED <<stepVars, seen, lines, bookedVars>>
        /\ actions' = IF kind[p] = "capture" THEN actions ELSE actions + 1
    BY DEF Note, NoteAction, NoteCapture, Ends, Ledger, Dues, Types, Due, Busy
  <1>2. Open' = Open /\ Dues' /\ Raising' = Raising
    BY <1>1, MiddleDues DEF Busy
  <1>3. IsFiniteSet(Noted) /\ Cardinality(Noted) \in Nat /\ actions \in Nat
    BY FiniteBooks DEF Ledger, Types
  <1>4. \A q \in Workers : OwnStep(q)' = OwnStep(q) /\ inputs' = inputs
    BY <1>1 DEF OwnStep, stepVars
  <1>5. OwnStep(p) \in inputs <=> kind[p] # "capture"
    BY <1>1 DEF Ledger, Dues, Busy, IsInput
  <1>6. CASE kind[p] = "capture"
    <2>1. Noted' = Noted /\ actions' = actions
      BY <1>1, <1>4, <1>5, <1>6 DEF Noted
    <2>2. QED  BY <1>1, <1>2, <1>3, <2>1, SameBooks
  <1>7. CASE kind[p] # "capture"
    <2>1. p \notin Noted /\ Noted' = Noted \cup {p} /\ actions' = actions + 1
      BY <1>1, <1>4, <1>5, <1>7 DEF Noted
    <2>2. Cardinality(Noted)' = Cardinality(Noted) + 1
      BY <2>1, <1>3, FS_AddElement
    <2>3. QED  BY <1>1, <1>2, <1>3, <2>1, <2>2, SameBooks
  <1>8. QED
    BY <1>6, <1>7

(* The audit line closes the call and, for an input that was ok, moves it from *)
(* the calls just noted to the lines; of a call that raised it has no id.      *)
LEMMA AuditLedger ==
    ASSUME Ledger, NEW p \in Workers, Audit(p)
    PROVE  Dues' /\ Books' /\ Apart'
  <1> DEFINE l == Line(p)
             n == Len(lines)
  <1>1. /\ due[p] # "none" /\ due'[p] = "none" /\ lines' = Append(lines, l)
        /\ due' \in [Workers -> Due]
        /\ \A q \in Workers \ {p} : due'[q] = due[q]
        /\ UNCHANGED <<vars, drawn, inputs, bookedVars>>
        /\ seen' \in [Workers -> Nat]
        /\ \A q \in Workers \ {p} : seen'[q] = seen[q] /\ step'[q] = step[q]
    BY DEF Audit, Forget, Ledger, Dues, Causes, Due, NoId
  <1>2. p \in Open /\ pc[p] \notin Busy
    BY <1>1 DEF Open, Ledger, Dues
  <1>3. Open' = Open \ {p} /\ Raising' = Raising \ {p}
    BY <1>1, <1>2 DEF Open, Raising, Busy, vars
  <1>4. drawn \in Nat /\ OwnStep(p) \in Nat
    BY DEF Ledger, Dues, Counter, Causes, OwnStep
  <1>5. \A q \in Workers \ {p} : OwnStep(q)' = OwnStep(q)
    BY <1>1 DEF OwnStep
  <1>6. l \in Lines
    BY <1>4 DEF Line, Lines, NoId
  <1>7. /\ lines' \in Seq(Lines)
        /\ n \in Nat /\ Len(lines') = n + 1 /\ DOMAIN lines' = 1 .. n + 1
        /\ DOMAIN lines = 1 .. n
        /\ lines'[n + 1] = l /\ \A k \in 1 .. n : lines'[k] = lines[k]
    <2>1. lines \in Seq(Lines)
      BY DEF Ledger, Dues
    <2> HIDE DEF l
    <2>2. QED  BY <1>1, <1>6, <2>1
  <1>8. /\ due[p] = "raised" => l.step = NoId
        /\ due[p] # "raised" => l.step = OwnStep(p) /\ p \in Open \ Raising
        /\ l.input = (OwnStep(p) \in inputs) /\ l.ok = (due[p] = "ok")
    BY <1>2 DEF Line, Raising
  <1> HIDE DEF l
  <1>9. Dues'
    <2>1. \A q \in (Open \ Raising)' : OwnStep(q)' \in 1 .. drawn'
      BY <1>1, <1>3, <1>5 DEF Ledger, Dues, Open
    <2>2. \A q \in Workers : pc'[q] \in Busy => due'[q] = "none"
      BY <1>1 DEF vars, Ledger, Dues
    <2>3. \A q \in Workers : pc'[q] \in Busy => (OwnStep(q)' \in inputs' <=> IsInput(kind'[q]))
      BY <1>1, <1>2, <1>5 DEF vars, Ledger, Dues
    <2>4. QED  BY <1>1, <1>7, <2>1, <2>2, <2>3 DEF Dues
  <1>10. Apart'
    BY <1>1, <1>3, <1>5 DEF Ledger, Apart, Open, bookedVars
  <1>11. Lined \cup Owned = Lined' \cup Owned'
    <2>1. Owned' = {OwnStep(q) : q \in (Open \ Raising) \ {p}}
      <3>1. (Open \ Raising)' = (Open \ Raising) \ {p}
        BY <1>3
      <3>2. QED  BY <1>5, <3>1 DEF Owned, Open
    <2>2. Lined' = (Lined \cup {l.step}) \ {NoId}
      BY <1>7 DEF Lined
    <2>3. CASE due[p] = "raised"
      <3>1. p \notin Open \ Raising
        BY <2>3 DEF Raising, Open
      <3>2. Owned' = Owned /\ Lined' = Lined
        BY <1>8, <2>1, <2>2, <2>3, <3>1 DEF Owned, Lined
      <3>3. QED  BY <3>2
    <2>4. CASE due[p] # "raised"
      <3>1. Owned = {OwnStep(q) : q \in (Open \ Raising) \ {p}} \cup {OwnStep(p)}
        BY <1>8, <2>4 DEF Owned
      <3>2. OwnStep(p) # NoId
        BY <1>4, <1>8, <2>4 DEF Ledger, Dues, NoId
      <3>3. Lined' = Lined \cup {OwnStep(p)}
        BY <1>8, <2>2, <2>4, <3>2 DEF Lined
      <3>4. QED  BY <2>1, <3>1, <3>3
    <2>5. QED  BY <2>3, <2>4
  <1>12. /\ Cardinality(Open)' = Cardinality(Open) - 1 /\ Cardinality(Open) \in Nat
         /\ IsFiniteSet(Good) /\ IsFiniteSet(Noted) /\ IsFiniteSet(Nameless)
         /\ IsFiniteSet(Raising)
         /\ Cardinality(Good) \in Nat /\ Cardinality(Noted) \in Nat
         /\ Cardinality(Nameless) \in Nat /\ Cardinality(Raising) \in Nat
    BY <1>2, <1>3, FiniteBooks, FS_RemoveElement DEF Ledger
  <1>13. Cardinality(Good)' + Cardinality(Noted)' = Cardinality(Good) + Cardinality(Noted)
    <2>1. CASE due[p] = "ok" /\ OwnStep(p) \in inputs
      <3>0. lines'[n + 1].ok /\ lines'[n + 1].input
        BY <1>7, <1>8, <2>1
      <3>1. Good' = Good \cup {n + 1} /\ n + 1 \notin Good
        BY <1>7, <3>0 DEF Good
      <3>2. p \in Noted /\ Noted' = Noted \ {p}
        BY <1>1, <1>5, <2>1 DEF Noted
      <3>3. Cardinality(Good)' = Cardinality(Good) + 1
        BY <3>1, <1>12, FS_AddElement
      <3>4. Cardinality(Noted)' = Cardinality(Noted) - 1
        BY <3>2, <1>12, FS_RemoveElement
      <3>5. QED  BY <1>12, <3>3, <3>4
    <2>2. CASE ~ (due[p] = "ok" /\ OwnStep(p) \in inputs)
      <3>0. ~ (lines'[n + 1].ok /\ lines'[n + 1].input)
        BY <1>7, <1>8, <2>2
      <3>1. Good' = Good
        BY <1>7, <3>0 DEF Good
      <3>2. Noted' = Noted
        BY <1>1, <1>5, <2>2 DEF Noted
      <3>3. QED  BY <3>1, <3>2
    <2>3. QED  BY <2>1, <2>2
  <1>14. Cardinality(Nameless)' + Cardinality(Raising)'
            = Cardinality(Nameless) + Cardinality(Raising)
    <2>1. CASE due[p] = "raised"
      <3>1. Nameless' = Nameless \cup {n + 1} /\ n + 1 \notin Nameless
        BY <1>7, <1>8, <2>1 DEF Nameless
      <3>2. p \in Raising
        BY <2>1 DEF Raising
      <3>3. Cardinality(Nameless)' = Cardinality(Nameless) + 1
        BY <3>1, <1>12, FS_AddElement
      <3>4. Cardinality(Raising)' = Cardinality(Raising) - 1
        BY <3>2, <1>3, <1>12, FS_RemoveElement
      <3>5. QED  BY <1>12, <3>3, <3>4
    <2>2. CASE due[p] # "raised"
      <3>1. l.step # NoId
        BY <1>4, <1>8, <2>2 DEF Ledger, Dues, NoId
      <3>2. Nameless' = Nameless
        BY <1>7, <3>1 DEF Nameless
      <3>3. Raising' = Raising
        BY <1>3, <2>2 DEF Raising
      <3>4. QED  BY <3>2, <3>3
    <2>3. QED  BY <2>1, <2>2
  <1>15. Books'
    <2>1. /\ IsFiniteSet(denied) /\ IsFiniteSet(composed) /\ IsFiniteSet(lost)
          /\ 1 .. drawn = Lined \cup Owned \cup denied \cup composed \cup lost
          /\ drawn + stumbled = n + Cardinality(Open) + Cardinality(denied)
                                  + Cardinality(composed)
          /\ Cardinality(lost) + stumbled = Cardinality(Nameless) + Cardinality(Raising)
          /\ actions = Cardinality(Good) + Cardinality(Noted)
      BY DEF Ledger, Books
    <2>2. UNCHANGED <<drawn, actions, denied, composed, lost, stumbled>>
      BY <1>1 DEF vars, storeVars, bookedVars
    <2>3. (1 .. drawn)' = Lined' \cup Owned' \cup denied' \cup composed' \cup lost'
      BY <1>11, <2>1, <2>2
    <2>4. drawn' + stumbled' = Len(lines') + Cardinality(Open)' + Cardinality(denied')
                                 + Cardinality(composed')
      BY <1>7, <1>12, <2>1, <2>2, BookNumbers
    <2>5. /\ actions' = Cardinality(Good)' + Cardinality(Noted)'
          /\ Cardinality(lost)' + stumbled' = Cardinality(Nameless)' + Cardinality(Raising)'
      BY <1>13, <1>14, <2>1, <2>2
    <2> HIDE DEF n
    <2>6. QED
      BY <2>1, <2>2, <2>3, <2>4, <2>5 DEF Books
  <1>16. QED
    BY <1>9, <1>10, <1>15

LEMMA NextLedger == Ledger /\ [PipeNext]_pipeVars => Ledger'
  <1> SUFFICES ASSUME Ledger, [PipeNext]_pipeVars PROVE Ledger'
    OBVIOUS
  <1>1. Types' /\ Counter' /\ Causes'
    BY PipeStepIsStep, NextTypes, NextCounter DEF Ledger
  <1>2. ASSUME NEW p \in Workers,
               \/ Deny(p) \/ Call(p) \/ CallStumbles(p) \/ PassGate(p)
               \/ Observe(p) \/ Done(p) \/ Break(p) \/ Raise(p)
               \/ Note(p) \/ Audit(p)
        PROVE  Dues' /\ Books' /\ Apart'
    BY <1>2, DenyLedger, CallLedger, StumbleLedger, PassGateLedger, DoneLedger,
       ObserveLedger, BreakLedger, RaiseLedger, NoteLedger, AuditLedger
  <1>3. ASSUME Passes \/ UNCHANGED pipeVars PROVE Dues' /\ Books' /\ Apart'
    <2>1. UNCHANGED <<stepVars, auditVars, actions, pc, kind>>
      BY <1>3 DEF Passes, Tick, pipeVars, vars, storeVars
    <2>2. Open' = Open /\ Noted' = Noted /\ Raising' = Raising
      BY <2>1 DEF Open, Noted, Raising, OwnStep, auditVars, stepVars
    <2>3. Dues'
      <3>1. \A q \in Workers : OwnStep(q)' = OwnStep(q)
        BY <2>1 DEF stepVars, auditVars, OwnStep
      <3>2. \A q \in (Open \ Raising)' : OwnStep(q)' \in 1 .. drawn'
        BY <2>1, <2>2, <3>1 DEF stepVars, Ledger, Dues, Open
      <3>3. QED  BY <2>1, <3>1, <3>2 DEF Ledger, Dues, auditVars, stepVars
    <2>4. Books' /\ Apart'
      BY <2>1, <2>2, SameBooks, FiniteBooks DEF auditVars, Ledger, Types
    <2>5. QED  BY <2>3, <2>4
  <1>4. Dues' /\ Books' /\ Apart'
    BY <1>2, <1>3 DEF PipeNext
  <1>5. QED
    BY <1>1, <1>4 DEF Ledger

(* No step id is used twice in the accounts, and none is lost but by a handler  *)
(* that raises: every id is in an audit line, a call under way, a refusal, an   *)
(* observation inside a call or a call that raised; every call has one line;    *)
(* and the budget's action count agrees with the lines (tools/dispatch.py,     *)
(* audit.py).                                                                 *)
THEOREM LedgerAlwaysBalances == PipeSpec => []LedgerBalances
  <1>1. Ledger => LedgerBalances
    BY DEF Ledger, Books, LedgerBalances, Lined, Nameless, Owned, Good, Noted
  <1>2. QED
    BY <1>1, InitLedger, NextLedger, PTL DEF PipeSpec
-------------------------------------------------------------------------------
(* The sliding window.  It ages and is trimmed, and only a note adds to the   *)
(* actions of the last minute.                                                *)
Ages == window \in Seq(Nat)

YoungCounted ==
    /\ IsFiniteSet(Young) /\ Cardinality(Young) \in Nat
    /\ Cardinality(Young) <= Len(window)
    /\ Recent \in Seq(Nat) /\ Len(Recent) = Cardinality(Young)

LEMMA YoungIsFinite == Ages => YoungCounted
  <1> SUFFICES ASSUME Ages PROVE YoungCounted
    OBVIOUS
  <1>1. Young \subseteq 1 .. Len(window) /\ Len(window) \in Nat
    BY DEF Young, Ages
  <1>2. /\ IsFiniteSet(1 .. Len(window))
        /\ Cardinality(1 .. Len(window)) = Len(window)
    BY <1>1, FS_Interval
  <1>3. /\ IsFiniteSet(Young) /\ Cardinality(Young) \in Nat
        /\ Cardinality(Young) <= Len(window)
    BY <1>1, <1>2, FS_Subset, FS_CardinalityType
  <1> DEFINE c == Cardinality(Young)
  <1>4. c \in Nat /\ c <= Len(window)
    BY <1>3
  <1> HIDE DEF c
  <1>5. /\ SubSeq(window, Len(window) - c + 1, Len(window)) \in Seq(Nat)
        /\ Len(SubSeq(window, Len(window) - c + 1, Len(window))) = c
    BY <1>1, <1>4 DEF Ages
  <1> QED BY <1>3, <1>5 DEF YoungCounted, Recent, c

LEMMA YoungStaysFinite == Ages' => YoungCounted'
  BY YoungIsFinite, PTL

(* A store that is trimmed or grows older has no more recent actions. *)
LEMMA NoYounger ==
    ASSUME Ages, Ages', Young' \subseteq Young \/ Len(window') <= Cardinality(Young)
    PROVE  Len(Recent)' <= Len(Recent)
  <1>1. /\ IsFiniteSet(Young)' /\ Cardinality(Young)' \in Nat
        /\ Cardinality(Young)' <= Len(window') /\ Len(Recent)' = Cardinality(Young)'
    BY YoungStaysFinite DEF YoungCounted
  <1>2. CASE Young' \subseteq Young
    BY <1>1, <1>2, YoungIsFinite, FS_Subset DEF YoungCounted
  <1>3. CASE Len(window') <= Cardinality(Young)
    <2>1. Len(window') \in Nat
      BY DEF Ages
    <2> QED BY <1>1, <1>3, <2>1, YoungIsFinite DEF YoungCounted
  <1> QED BY <1>2, <1>3

LEMMA TickAges ==
    ASSUME Ages, Tick
    PROVE  Ages' /\ Young' \subseteq Young
  <1>1. /\ DOMAIN window = 1 .. Len(window) /\ Len(window) \in Nat
        /\ \A i \in DOMAIN window : window[i] \in Nat
    BY DEF Ages
  <1>2. Minute \in Nat
    BY BudgetAssumption
  <1>3. window' = [i \in 1 .. Len(window) |->
                     IF window[i] <= Minute THEN window[i] + 1 ELSE window[i]]
    BY <1>1 DEF Tick
  <1>4. \A i \in 1 .. Len(window) : window'[i] \in Nat /\ window'[i] >= window[i]
    BY <1>1, <1>3
  <1>5. Ages'
    BY <1>1, <1>3, <1>4 DEF Ages
  <1>6. Young' \subseteq Young
    BY <1>1, <1>2, <1>3 DEF Young
  <1> QED BY <1>5, <1>6

LEMMA NoteAges ==
    ASSUME Ages, window' = Append(window, 0)
    PROVE  Ages' /\ Len(Recent)' = Len(Recent) + 1
  <1>1. Ages'
    BY DEF Ages
  <1>2. Minute \in Nat
    BY BudgetAssumption
  <1>3. /\ DOMAIN window = 1 .. Len(window) /\ Len(window) \in Nat
        /\ DOMAIN window' = 1 .. Len(window) + 1
        /\ \A i \in 1 .. Len(window) : window'[i] = window[i]
        /\ window'[Len(window) + 1] = 0
    BY DEF Ages
  <1>4. Young' = Young \cup {Len(window) + 1} /\ Len(window) + 1 \notin Young
    BY <1>2, <1>3 DEF Young
  <1>5. Cardinality(Young') = Cardinality(Young) + 1
    BY <1>4, YoungIsFinite, FS_AddElement DEF YoungCounted
  <1>6. Len(Recent)' = Cardinality(Young)'
    BY <1>1, YoungStaysFinite DEF YoungCounted
  <1> QED BY <1>1, <1>5, <1>6, YoungIsFinite DEF YoungCounted

(* The minute is full while it has as many actions as it may. *)
Full == Trips(Len(Recent), PerMinute)

Rated ==
    /\ Ages
    /\ Full => hasty + Cardinality(Passed) < Cardinality(Workers)
    /\ ~ Full => hasty = 0

LEMMA InitRated == Init => Rated
  <1> SUFFICES ASSUME Init PROVE Rated
    OBVIOUS
  <1>1. Ages /\ hasty = 0
    BY DEF Init, Ages
  <1>2. Passed = {}
    BY DEF Init, Passed, InFlight
  <1>3. Cardinality({}) = 0 /\ Cardinality(Workers) # 0
    BY FS_EmptySet, BudgetAssumption
  <1> QED BY <1>1, <1>2, <1>3, SetsAreFinite DEF Rated

(* A window with no more recent actions is full only if it was. *)
LEMMA FullStays ==
    ASSUME Ages, Ages', Len(Recent)' <= Len(Recent)
    PROVE  Full' => Full
  <1>1. Len(Recent) \in Nat /\ Len(Recent)' \in Nat
    BY YoungIsFinite, YoungStaysFinite DEF YoungCounted
  <1>2. PerMinute # Unlimited => PerMinute \in Nat
    BY BudgetAssumption DEF Limit
  <1> QED BY <1>1, <1>2 DEF Full, Trips

LEMMA NextRated == Types /\ Rated /\ [Next]_vars => Rated'
  <1> SUFFICES ASSUME Types, Rated, [Next]_vars PROVE Rated'
    OBVIOUS
  <1> DEFINE n == Cardinality(Passed)
             N == Cardinality(Workers)
             r == Len(Recent)
  <1>0. /\ Ages /\ IsFiniteSet(Passed) /\ n \in Nat /\ N \in Nat /\ r \in Nat
        /\ hasty \in Nat
        /\ Full => hasty + n < N
        /\ ~ Full => hasty = 0
    BY SetsAreFinite, YoungIsFinite DEF Rated, YoungCounted, Types
  <1>h. ASSUME NEW k \in Nat, Hurry(k)
        PROVE  hasty' = IF Full' THEN hasty + k ELSE 0
    BY <1>h DEF Hurry, Full
  <1>s. ASSUME Ages', Full' => Full, Passed' \subseteq Passed,
               hasty' = IF Full' THEN hasty ELSE 0
        PROVE  Rated'
    <2>1. n' <= n /\ n' \in Nat
      BY <1>s, <1>0, FS_Subset, FS_CardinalityType
    <2> QED BY <1>s, <2>1, <1>0 DEF Rated
  <1>u. ASSUME window' = window, hasty' = hasty, Passed' \subseteq Passed
        PROVE  Rated'
    <2>1. Ages' /\ Full' = Full
      BY <1>u, <1>0 DEF Ages, Full, Trips, Recent, Young
    <2> QED BY <1>s, <1>u, <2>1, <1>0
  <1>1. ASSUME NEW p \in Workers, Begin(p) PROVE Rated'
    BY <1>1, <1>u, BeginSets DEF Begin, storeVars, bookVars
  <1>2. ASSUME NEW p \in Workers, Gate(p) PROVE Rated'
    <2>1. Ages' /\ r' <= r
      <3>1. CASE window' = window
        <4>1. Ages' /\ r' = r
          BY <3>1, <1>0 DEF Ages, Recent, Young
        <4> QED BY <4>1, <1>0
      <3>2. CASE window' = Recent
        <4>1. Ages' /\ Len(window') <= Cardinality(Young)
          BY <3>2, <1>0, YoungIsFinite DEF Ages, YoungCounted
        <4> QED BY <4>1, <1>0, NoYounger
      <3> QED BY <1>2, <3>1, <3>2 DEF Gate, Trimmed
    <2>2. (Full' => Full) /\ hasty' = IF Full' THEN hasty ELSE 0
      <3>1. Hurry(0)
        BY <1>2 DEF Gate
      <3> QED BY <2>1, <3>1, <1>0, <1>h, FullStays
    <2>3. CASE Blocked
      BY <1>2, <2>1, <2>2, <2>3, <1>s, GateSets
    <2>4. CASE ~ Blocked
      <3>1. ~ Full
        BY <2>4 DEF Blocked, Full
      <3> QED BY <2>1, <2>2, <3>1 DEF Rated
    <2> QED BY <2>3, <2>4
  <1>3. ASSUME NEW p \in Workers, Succeed(p) PROVE Rated'
    BY <1>3, <1>u, SucceedSets DEF Succeed, storeVars
  <1>4. ASSUME NEW p \in Workers, Fail(p) PROVE Rated'
    BY <1>4, <1>u, FailSets DEF Fail, storeVars, bookVars
  <1>5. ASSUME NEW p \in Workers, NoteAction(p) PROVE Rated'
    <2> DEFINE k == IF kind[p] = "element" /\ Full THEN 1 ELSE 0
    <2>1. Passed' = Passed \ {p} /\ (p \in Passed <=> kind[p] = "element")
      BY <1>5, NoteActionSets
    <2>2. hasty' = IF Full' THEN hasty + k ELSE 0
      <3>1. Hurry(k)
        BY <1>5 DEF NoteAction, Full
      <3> QED BY <3>1, <1>h
    <2>3. Ages'
      BY <1>5, <1>0, NoteAges DEF NoteAction, Ages
    <2>4. CASE Full
      <3>1. CASE kind[p] = "element"
        <4>1. n' = n - 1
          BY <2>1, <3>1, <1>0, FS_RemoveElement
        <4> QED BY <2>2, <2>3, <2>4, <3>1, <4>1, <1>0 DEF Rated
      <3>2. CASE kind[p] # "element"
        <4>1. Passed' = Passed
          BY <2>1, <3>2
        <4> QED BY <2>2, <2>3, <2>4, <3>2, <4>1, <1>0 DEF Rated
      <3> QED BY <3>1, <3>2
    <2>5. CASE ~ Full
      <3>1. hasty' = 0
        BY <2>2, <2>5, <1>0
      <3>2. n' \in Nat /\ n' < N
        BY <2>1, OthersAreFewer, SetsAreFinite
      <3> QED BY <2>3, <3>1, <3>2, <1>0 DEF Rated
    <2> QED BY <2>4, <2>5
  <1>6. ASSUME NEW p \in Workers, NoteCapture(p) PROVE Rated'
    BY <1>6, <1>u, NoteCaptureSets DEF NoteCapture, bookVars
  <1>7. CASE Tick
    <2>1. Ages' /\ r' <= r
      BY <1>7, <1>0, TickAges, NoYounger
    <2>2. Passed' = Passed
      BY <1>7 DEF Tick, Passed, InFlight
    <2>3. Hurry(0)
      BY <1>7 DEF Tick
    <2> QED BY <2>1, <2>2, <2>3, <1>0, <1>h, <1>s, FullStays
  <1>8. CASE UNCHANGED vars
    BY <1>8, <1>u DEF vars, storeVars, bookVars, Passed, InFlight
  <1> QED BY <1>1, <1>2, <1>3, <1>4, <1>5, <1>6, <1>7, <1>8 DEF Next

(* The same of the rate, at every moment: between two gates the window only   *)
(* grows older, and what is noted in it passed an earlier gate or none        *)
(* (budgets.gate).                                                            *)
THEOREM RateOvershootInPipeline == PipeSpec => []RateOvershootBounded
  <1>1. Rated => RateOvershootBounded
    BY DEF Rated, RateOvershootBounded, Full
  <1> QED BY <1>1, NextRated, InitTypes, NextTypes, InitRated, PipelineKeepsBudgets, PTL
          DEF Spec
-------------------------------------------------------------------------------
(* Confirmation tokens.                                                      *)

(* What the control state of a thread says of the call it serves.           *)
ThreadInv(w) ==
    /\ at[w] # "idle" => call[w] \in Calls /\ resolved[w] \in [Elements -> Places]
    /\ at[w] = "propose" => call[w].ends \in Single
    /\ at[w] = "gate" => call[w].token \in issued \cup {None}
    /\ at[w] \in {"perform", "done"} /\ HasGuarded(call[w]) =>
          LET t == call[w].token
              e == FirstGuarded(call[w])
          IN  /\ t \in issued /\ passes[t] > 0
              /\ grant[t].verb = call[w].verb /\ grant[t].elem = e
              /\ Near(resolved[w][e], grant[t].place)

(* A token is in the store only if it was issued, and is unused there only  *)
(* if no gate has seen it: this makes SingleUse inductive.                  *)
TokenInv(t) ==
    /\ items[t] # "absent" => t \in issued
    /\ t \in presented => items[t] # "unused"
    /\ passes[t] > 0 => t \in presented
    /\ passes[t] <= 1
    /\ t \in issued => grant[t] \in Grant
    /\ t \notin issued => age[t] = 0

ConfirmInv ==
    /\ ConfirmTypeOK
    /\ \A t \in Tokens : TokenInv(t)
    /\ \A w \in Threads : ThreadInv(w)

LEMMA InitConfirmInv == ConfirmInit => ConfirmInv
  <1> SUFFICES ASSUME ConfirmInit PROVE ConfirmInv
    OBVIOUS
  <1>1. ConfirmTypeOK
    BY ConfirmAssumption DEF ConfirmInit, ConfirmTypeOK, Expired
  <1>2. \A t \in Tokens : TokenInv(t)
    BY DEF ConfirmInit, TokenInv
  <1>3. \A w \in Threads : ThreadInv(w)
    BY DEF ConfirmInit, ThreadInv
  <1>4. QED  BY <1>1, <1>2, <1>3 DEF ConfirmInv

LEMMA NextConfirmInv == ConfirmInv /\ [ConfirmNext]_confirmVars => ConfirmInv'
  <1> SUFFICES ASSUME ConfirmInv, [ConfirmNext]_confirmVars PROVE ConfirmInv'
    OBVIOUS
  <1>0. ConfirmTypeOK /\ (\A t \in Tokens : TokenInv(t))
        /\ (\A w \in Threads : ThreadInv(w))
    BY DEF ConfirmInv
  <1>00. UNCHANGED grantVars => \A t \in Tokens : TokenInv(t)'
    BY <1>0 DEF grantVars, TokenInv
  <1>1. ASSUME NEW w \in Threads, NEW c \in Calls, NEW door \in {"propose", "gate"},
               door = "propose" => c.ends \in Single,
               c.token \in issued \cup {None}, Resolve(w, door, c)
        PROVE  ConfirmInv'
    <2>1. ConfirmTypeOK'
      BY <1>1, <1>0 DEF Resolve, ConfirmTypeOK, grantVars
    <2>2. ASSUME NEW v \in Threads PROVE ThreadInv(v)'
      <3>1. CASE v = w
        BY <3>1, <1>1, <1>0 DEF Resolve, ThreadInv, ConfirmTypeOK, grantVars
      <3>2. CASE v # w
        BY <3>2, <1>1, <1>0
           DEF Resolve, ThreadInv, ConfirmTypeOK, grantVars, HasGuarded, FirstGuarded
      <3>3. QED  BY <3>1, <3>2
    <2>3. QED  BY <1>00, <1>1, <2>1, <2>2 DEF Resolve, ConfirmInv
  <1>2. ASSUME NEW w \in Threads, BeginPropose(w) PROVE ConfirmInv'
    <2>1. PICK v \in Verbs, e \in Elements :
             Resolve(w, "propose", [verb |-> v, ends |-> <<e>>, token |-> None,
                                  dry |-> FALSE])
      BY <1>2 DEF BeginPropose
    <2> DEFINE c == [verb |-> v, ends |-> <<e>>, token |-> None, dry |-> FALSE]
    <2>2. c \in Calls /\ c.ends \in Single /\ c.token = None
      BY DEF Calls, Single
    <2> HIDE DEF c
    <2>3. QED  BY <2>1, <2>2, <1>1 DEF c
  <1>3. ASSUME NEW w \in Threads, BeginAct(w) PROVE ConfirmInv'
    <2>1. PICK v \in Verbs, t \in issued \cup {None}, dry \in BOOLEAN,
               ends \in Single \cup Pair :
             Resolve(w, "gate", [verb |-> v, ends |-> ends, token |-> t,
                               dry |-> dry])
      BY <1>3 DEF BeginAct
    <2> DEFINE c == [verb |-> v, ends |-> ends, token |-> t, dry |-> dry]
    <2>2. c \in Calls /\ c.token = t
      BY <1>0 DEF Calls, ConfirmTypeOK
    <2> HIDE DEF c
    <2>3. QED  BY <2>1, <2>2, <1>1 DEF c
  <1>4. ASSUME NEW w \in Threads, Issue(w) PROVE ConfirmInv'
    <2> DEFINE g == [verb |-> call[w].verb, elem |-> call[w].ends[1],
                     place |-> resolved[w][call[w].ends[1]]]
    <2>1. PICK t \in Tokens \ issued :
             /\ items' = [u \in Tokens |-> IF u = t THEN "unused"
                                           ELSE IF Usable(u) THEN items[u]
                                           ELSE "absent"]
             /\ grant' = [grant EXCEPT ![t] = g]
             /\ issued' = issued \cup {t}
      BY <1>4 DEF Issue
    <2>2. g \in Grant
      BY <1>4, <1>0 DEF Issue, ThreadInv, Calls, Single, Grant, ConfirmTypeOK
    <2> HIDE DEF g
    <2>3. /\ Return(w)
          /\ UNCHANGED <<place, age, presented, passes>>
      BY <1>4 DEF Issue
    <2>4. ConfirmTypeOK'
      BY <2>1, <2>2, <2>3, <1>0 DEF ConfirmTypeOK, Usable, Return
    <2>5. ASSUME NEW u \in Tokens PROVE TokenInv(u)'
      BY <2>1, <2>2, <2>3, <1>0 DEF TokenInv, ConfirmTypeOK, Usable
    <2>6. ASSUME NEW v \in Threads PROVE ThreadInv(v)'
      <3>1. \A u \in issued : grant'[u] = grant[u]
        BY <2>1, <1>0 DEF ConfirmTypeOK
      <3>2. QED
        BY <2>1, <2>3, <3>1, <1>0
           DEF ThreadInv, ConfirmTypeOK, HasGuarded, FirstGuarded, Return
    <2>7. QED  BY <2>4, <2>5, <2>6 DEF ConfirmInv
  <1>5. ASSUME NEW w \in Threads, PassUngated(w) PROVE ConfirmInv'
    <2>1. ConfirmTypeOK'
      BY <1>5, <1>0 DEF PassUngated, ConfirmTypeOK, grantVars
    <2>2. ASSUME NEW v \in Threads PROVE ThreadInv(v)'
      BY <1>5, <1>0 DEF PassUngated, ThreadInv, ConfirmTypeOK, grantVars,
                        HasGuarded, FirstGuarded
    <2>3. QED  BY <1>5, <1>00, <2>1, <2>2 DEF PassUngated, ConfirmInv
  <1>6. ASSUME NEW w \in Threads, RefuseBare(w) PROVE ConfirmInv'
    <2>1. ConfirmTypeOK'
      BY <1>6, <1>0 DEF RefuseBare, ConfirmTypeOK, grantVars, Return
    <2>2. ASSUME NEW v \in Threads PROVE ThreadInv(v)'
      BY <1>6, <1>0 DEF RefuseBare, ThreadInv, ConfirmTypeOK, grantVars,
                        HasGuarded, FirstGuarded, Return
    <2>3. QED  BY <1>6, <1>00, <2>1, <2>2 DEF RefuseBare, ConfirmInv
  <1>16. ASSUME NEW w \in Threads, GiveUp(w) PROVE ConfirmInv'
    <2>1. ConfirmTypeOK'
      BY <1>16, <1>0 DEF GiveUp, ConfirmTypeOK, grantVars, Return
    <2>2. ASSUME NEW v \in Threads PROVE ThreadInv(v)'
      BY <1>16, <1>0 DEF GiveUp, ThreadInv, ConfirmTypeOK, grantVars,
                        HasGuarded, FirstGuarded, Return
    <2>3. QED  BY <1>16, <1>00, <2>1, <2>2 DEF GiveUp, ConfirmInv
  <1>7. ASSUME NEW w \in Threads, PresentToken(w) PROVE ConfirmInv'
    <2> DEFINE t == call[w].token
               opens == Usable(t) /\ Matches(w, t)
    <2>1. /\ at[w] = "gate" /\ t \in issued /\ t \in Tokens
          /\ items' = Consumed(t)
          /\ presented' = presented \cup {t}
          /\ passes' = IF opens THEN [passes EXCEPT ![t] = passes[t] + 1]
                       ELSE passes
          /\ IF opens
               THEN at' = [at EXCEPT ![w] = "perform"] /\ UNCHANGED <<call, resolved>>
               ELSE Return(w)
          /\ UNCHANGED <<place, grant, age, issued>>
      BY <1>7, <1>0 DEF PresentToken, ThreadInv, ConfirmTypeOK
    <2>2. /\ items' \in [Tokens -> {"absent", "unused", "used"}]
          /\ items'[t] \in {"absent", "used"}
          /\ \A u \in Tokens \ {t} : items'[u] = items[u]
      BY <2>1, <1>0 DEF Consumed, ConfirmTypeOK
    <2>3. opens => items[t] = "unused" /\ passes[t] = 0 /\ Matches(w, t)
      BY <2>1, <1>0 DEF Usable, TokenInv, ConfirmTypeOK
    <2>4. ConfirmTypeOK'
      <3>1. passes' \in [Tokens -> Nat]
        BY <2>1, <1>0 DEF ConfirmTypeOK
      <3>2. at' \in [Threads -> {"idle", "propose", "gate", "perform", "done"}]
        BY <2>1, <1>0 DEF ConfirmTypeOK, Return
      <3>3. /\ call' \in [Threads -> Calls \cup {None}]
            /\ resolved' \in [Threads -> [Elements -> Places] \cup {None}]
        BY <2>1, <1>0 DEF ConfirmTypeOK, Return
      <3>4. QED  BY <2>1, <2>2, <3>1, <3>2, <3>3, <1>0 DEF ConfirmTypeOK
    <2>5. ASSUME NEW u \in Tokens PROVE TokenInv(u)'
      <3>1. passes'[u] = IF u = t /\ opens THEN 1 ELSE passes[u]
        BY <2>1, <2>3, <1>0 DEF ConfirmTypeOK
      <3> HIDE DEF opens
      <3>2. QED
        BY <2>1, <2>2, <3>1, <1>0 DEF TokenInv
    <2>6. \A u \in Tokens : passes[u] > 0 => passes'[u] > 0
      BY <2>1, <1>0 DEF ConfirmTypeOK
    <2>7. ASSUME NEW v \in Threads PROVE ThreadInv(v)'
      <3>1. CASE v # w
        <4>1. at'[v] = at[v] /\ call'[v] = call[v] /\ issued' = issued
              /\ grant' = grant /\ resolved'[v] = resolved[v]
          BY <2>1, <3>1, <1>0 DEF ConfirmTypeOK, Return
        <4>2. \A u \in issued : passes[u] > 0 => passes'[u] > 0
          BY <2>6, <1>0 DEF ConfirmTypeOK
        <4>3. QED
          BY <4>1, <4>2, <1>0 DEF ThreadInv, HasGuarded, FirstGuarded
      <3>2. CASE v = w /\ opens
        <4>1. at'[w] = "perform" /\ call' = call /\ resolved' = resolved
              /\ grant' = grant /\ issued' = issued /\ passes'[t] = 1
          BY <2>1, <2>3, <3>2, <1>0 DEF ConfirmTypeOK
        <4>2. call[w] \in Calls /\ resolved[w] \in [Elements -> Places]
          BY <2>1, <1>0 DEF ThreadInv
        <4> DEFINE e == FirstGuarded(call[w])
        <4>3. /\ grant[t].verb = call[w].verb /\ grant[t].elem = e
              /\ Near(resolved[w][e], grant[t].place)
          BY <3>2 DEF Matches
        <4>4. FirstGuarded(call'[w]) = e /\ call'[w].token = t
          BY <4>1 DEF FirstGuarded
        <4> HIDE DEF e, opens
        <4>5. t \in issued' /\ passes'[t] > 0
          BY <4>1, <2>1
        <4>6. QED
          BY <3>2, <4>1, <4>2, <4>3, <4>4, <4>5 DEF ThreadInv
      <3>3. CASE v = w /\ ~ opens
        <4>1. at'[w] = "idle"
          BY <2>1, <3>3, <1>0 DEF ConfirmTypeOK, Return
        <4>2. QED  BY <3>3, <4>1 DEF ThreadInv
      <3>4. QED  BY <3>1, <3>2, <3>3
    <2>8. QED  BY <2>4, <2>5, <2>7 DEF ConfirmInv
  <1>8. ASSUME NEW w \in Threads, Perform(w) PROVE ConfirmInv'
    <2>1. ConfirmTypeOK'
      BY <1>8, <1>0 DEF Perform, ConfirmTypeOK, grantVars, Return
    <2>2. ASSUME NEW v \in Threads PROVE ThreadInv(v)'
      BY <1>8, <1>0 DEF Perform, ThreadInv, ConfirmTypeOK, grantVars,
                        HasGuarded, FirstGuarded, Return
    <2>3. QED  BY <1>8, <1>00, <2>1, <2>2 DEF Perform, ConfirmInv
  <1>9. ASSUME NEW e \in Elements, Move(e) PROVE ConfirmInv'
    <2>1. ConfirmTypeOK'
      BY <1>9, <1>0 DEF Move, ConfirmTypeOK, grantVars
    <2>2. ASSUME NEW v \in Threads PROVE ThreadInv(v)'
      BY <1>9, <1>0 DEF Move, ThreadInv, grantVars, HasGuarded, FirstGuarded
    <2>3. QED  BY <1>9, <1>00, <2>1, <2>2 DEF Move, ConfirmInv
  <1>10. ASSUME TokensAge PROVE ConfirmInv'
    <2>1. ConfirmTypeOK'
      BY <1>10, <1>0, ConfirmAssumption DEF TokensAge, ConfirmTypeOK, Expired
    <2>2. \A t \in Tokens : TokenInv(t)'
      BY <1>10, <1>0 DEF TokensAge, TokenInv
    <2>3. ASSUME NEW v \in Threads PROVE ThreadInv(v)'
      BY <1>10, <1>0 DEF TokensAge, ThreadInv, HasGuarded, FirstGuarded
    <2>4. QED  BY <2>1, <2>2, <2>3 DEF ConfirmInv
  <1>11. CASE UNCHANGED confirmVars
    <2>1. ConfirmTypeOK'
      BY <1>11, <1>0 DEF confirmVars, grantVars, ConfirmTypeOK
    <2>2. ASSUME NEW v \in Threads PROVE ThreadInv(v)'
      BY <1>11, <1>0 DEF confirmVars, grantVars, ThreadInv, HasGuarded, FirstGuarded
    <2>3. QED  BY <1>11, <1>00, <2>1, <2>2 DEF confirmVars, ConfirmInv
  <1>12. QED
    BY <1>2, <1>3, <1>4, <1>5, <1>6, <1>7, <1>8, <1>9, <1>10, <1>11,
       <1>16 DEF ConfirmNext

LEMMA ConfirmInvariance == ConfirmSpec => []ConfirmInv
  <1>1. QED  BY InitConfirmInv, NextConfirmInv, PTL DEF ConfirmSpec
-------------------------------------------------------------------------------
(* Tokens, records and threads keep their types.                            *)
THEOREM ConfirmTypeCorrect == ConfirmSpec => []ConfirmTypeOK
  <1>1. ConfirmInv => ConfirmTypeOK
    BY DEF ConfirmInv
  <1>2. QED  BY <1>1, ConfirmInvariance, PTL

(* No token opens a second gate, however many threads present it.           *)
THEOREM TokensAreSingleUse == ConfirmSpec => []SingleUse
  <1>1. ConfirmInv => SingleUse
    BY DEF ConfirmInv, SingleUse, TokenInv
  <1>2. QED  BY <1>1, ConfirmInvariance, PTL

(* Nothing guarded is acted on without its own grant.                       *)
THEOREM GuardedNeedsGrant == ConfirmSpec => []GuardedActsAreGranted
  <1>1. ConfirmInv => GuardedActsAreGranted
    BY DEF ConfirmInv, GuardedActsAreGranted, ThreadInv
  <1>2. QED  BY <1>1, ConfirmInvariance, PTL

(* A token that was presented once, or whose time is over, opens no gate.    *)
THEOREM PresentedIsSpent == ConfirmSpec => SpentStaysSpent
  <1>1. ConfirmInv /\ [ConfirmNext]_confirmVars =>
           [\A t \in Tokens :
               passes'[t] # passes[t] => t \notin presented /\ age[t] <= TTL]_confirmVars
    <2> SUFFICES ASSUME ConfirmInv, ConfirmNext, NEW t \in Tokens, passes'[t] # passes[t]
                 PROVE  t \notin presented /\ age[t] <= TTL
      BY DEF confirmVars
    <2>1. PICK w \in Threads : PresentToken(w)
      BY DEF ConfirmNext, BeginPropose, Issue, BeginAct, Resolve, PassUngated,
             RefuseBare, GiveUp, Perform, Move, TokensAge, grantVars
    <2>2. t = call[w].token /\ Usable(t)
      BY <2>1 DEF PresentToken, ConfirmInv, ConfirmTypeOK
    <2>3. QED
      BY <2>2 DEF ConfirmInv, TokenInv, Usable
  <1>2. QED  BY <1>1, ConfirmInvariance, PTL DEF ConfirmSpec, SpentStaysSpent

(* The store with its gate implements one-time grants.                      *)
THEOREM StoreGrantsOnce == ConfirmSpec => ImplementsGrants
  <1> DEFINE st == [t \in Tokens |-> TokenState(t)]
  <1>1. ConfirmInit => Grants!Init
    BY DEF ConfirmInit, Grants!Init, TokenState
  <1>2. ConfirmInv /\ [ConfirmNext]_confirmVars => [Grants!Next]_<<st, passes>>
    <2> SUFFICES ASSUME ConfirmInv, [ConfirmNext]_confirmVars
                 PROVE  Grants!Next \/ (st' = st /\ passes' = passes)
      OBVIOUS
    <2>0. ConfirmTypeOK /\ (\A t \in Tokens : TokenInv(t))
      BY DEF ConfirmInv
    <2>1. ASSUME UNCHANGED grantVars PROVE st' = st /\ passes' = passes
      BY <2>1 DEF grantVars, TokenState, Usable
    <2>2. ASSUME NEW w \in Threads, Issue(w) PROVE Grants!Next
      <3>1. PICK t \in Tokens \ issued :
               /\ items' = [u \in Tokens |-> IF u = t THEN "unused"
                                             ELSE IF Usable(u) THEN items[u]
                                             ELSE "absent"]
               /\ issued' = issued \cup {t}
               /\ UNCHANGED <<age, passes>>
        BY <2>2 DEF Issue
      <3>2. passes[t] = 0
        BY <2>0 DEF TokenInv, ConfirmTypeOK
      <3>3. \A u \in Tokens \ {t} : TokenState(u)' = TokenState(u)
        BY <3>1, <2>0 DEF TokenState, Usable, ConfirmTypeOK
      <3>4. TokenState(t) = "fresh"
        BY DEF TokenState
      <3>5. Usable(t)'
        BY <3>1, <2>0, ConfirmAssumption DEF TokenInv, Usable
      <3>6. TokenState(t)' = "live"
        BY <3>1, <3>2, <3>5 DEF TokenState
      <3>7. st' = [st EXCEPT ![t] = "live"]
        BY <3>3, <3>6
      <3>8. QED
        BY <3>1, <3>4, <3>7 DEF Grants!Next, Grants!Issue
    <2>3. ASSUME NEW w \in Threads, PresentToken(w) PROVE Grants!Next
      <3>0. PICK t \in Tokens : t = call[w].token /\ t \in issued
        BY <2>3, <2>0 DEF PresentToken, ConfirmInv, ThreadInv, ConfirmTypeOK
      <3> DEFINE opens == Usable(t) /\ Matches(w, t)
      <3>1. /\ t \in issued /\ issued' = issued /\ age' = age
            /\ items' = Consumed(t)
            /\ passes' = IF opens THEN [passes EXCEPT ![t] = passes[t] + 1]
                         ELSE passes
        BY <3>0, <2>3 DEF PresentToken
      <3>2. /\ items'[t] # "unused"
            /\ \A u \in Tokens \ {t} : items'[u] = items[u]
        BY <3>1, <2>0 DEF Consumed, ConfirmTypeOK
      <3>3. \A u \in Tokens \ {t} : passes'[u] = passes[u]
        BY <3>1, <2>0 DEF ConfirmTypeOK
      <3>4. \A u \in Tokens \ {t} : TokenState(u)' = TokenState(u)
        BY <3>1, <3>2, <3>3 DEF TokenState, Usable
      <3>5. CASE opens
        <4>1. passes[t] = 0 /\ Usable(t)
          BY <3>1, <3>5, <2>0 DEF TokenInv, Usable, ConfirmTypeOK
        <4>2. TokenState(t) = "live"
          BY <4>1, <3>1 DEF TokenState
        <4>3. passes' = [passes EXCEPT ![t] = 1]
          BY <3>1, <3>5, <4>1
        <4>4. passes'[t] = 1
          BY <4>3, <3>1, <2>0 DEF ConfirmTypeOK
        <4>5. TokenState(t)' = "spent"
          BY <4>4, <3>1 DEF TokenState
        <4>6. st' = [st EXCEPT ![t] = "spent"]
          BY <3>4, <4>5
        <4>7. QED
          BY <3>1, <4>2, <4>3, <4>6 DEF Grants!Next, Grants!Spend
      <3>6. CASE ~ opens
        <4>1. passes' = passes
          BY <3>1, <3>6
        <4>2. TokenState(t)' = IF passes[t] > 0 THEN "spent" ELSE "void"
          BY <3>1, <3>2, <4>1 DEF TokenState, Usable
        <4>3. TokenState(t) \in {"spent", "live", "void"}
              /\ (TokenState(t) = "spent" <=> passes[t] > 0)
          BY <3>1 DEF TokenState
        <4>4. \A u \in Tokens : \/ st'[u] = st[u]
                                \/ st[u] = "live" /\ st'[u] = "void"
          BY <3>4, <4>2, <4>3
        <4>5. st' \in [Tokens -> Grants!States]
          BY DEF Grants!States, TokenState
        <4>6. QED
          BY <4>1, <4>4, <4>5 DEF Grants!Next, Grants!Lapse
      <3>7. QED  BY <3>5, <3>6
    <2>4. ASSUME TokensAge PROVE Grants!Next
      <3>1. /\ \A t \in Tokens : age'[t] >= age[t] \/ age'[t] = age[t]
            /\ UNCHANGED <<items, issued, passes>>
        BY <2>4, <2>0, ConfirmAssumption DEF TokensAge, ConfirmTypeOK, Expired
      <3>2. \A t \in Tokens : Usable(t)' => Usable(t)
        <4> SUFFICES ASSUME NEW t \in Tokens, Usable(t)' PROVE Usable(t)
          OBVIOUS
        <4>1. age[t] \in Nat /\ (age'[t] = age[t] \/ age'[t] = age[t] + 1)
          BY <2>4, <2>0, ConfirmAssumption DEF TokensAge, ConfirmTypeOK, Expired
        <4>2. QED  BY <3>1, <4>1, ConfirmAssumption DEF Usable
      <3>3. \A t \in Tokens : \/ st'[t] = st[t]
                              \/ st[t] = "live" /\ st'[t] = "void"
        BY <3>1, <3>2 DEF TokenState
      <3>4. st' \in [Tokens -> Grants!States]
        BY DEF Grants!States, TokenState
      <3>5. QED
        BY <3>1, <3>3, <3>4 DEF Grants!Next, Grants!Lapse
    <2>5. ASSUME ConfirmNext PROVE \/ UNCHANGED grantVars \/ TokensAge
                            \/ \E w \in Threads : Issue(w) \/ PresentToken(w)
      BY <2>5 DEF ConfirmNext, BeginPropose, BeginAct, Resolve, PassUngated, RefuseBare,
                  GiveUp, Perform, Move
    <2>6. CASE UNCHANGED confirmVars
      BY <2>1, <2>6 DEF confirmVars
    <2>7. QED  BY <2>1, <2>2, <2>3, <2>4, <2>5, <2>6
  <1>3. QED  BY <1>1, <1>2, ConfirmInvariance, PTL DEF ConfirmSpec, ImplementsGrants, Grants!Spec
-------------------------------------------------------------------------------
(* The tables are put together of parts that share no name, so each part can  *)
(* be looked up by itself.                                                    *)
LEMMA AgentTables ==
    /\ DOMAIN AgentOffers =
          DOMAIN AgentReads \cup DOMAIN AgentPointer \cup DOMAIN AgentComposites
          \cup DOMAIN AgentVerbs \cup DOMAIN AgentMotions \cup DOMAIN AgentWaits
          \cup DOMAIN AgentRecords \cup DOMAIN AgentOthers
    /\ \A t \in DOMAIN AgentReads : AgentOffers[t] = AgentReads[t]
    /\ \A t \in DOMAIN AgentPointer : AgentOffers[t] = AgentPointer[t]
    /\ \A t \in DOMAIN AgentComposites : AgentOffers[t] = AgentComposites[t]
    /\ \A t \in DOMAIN AgentVerbs : AgentOffers[t] = AgentVerbs[t]
    /\ \A t \in DOMAIN AgentMotions : AgentOffers[t] = AgentMotions[t]
    /\ \A t \in DOMAIN AgentWaits : AgentOffers[t] = AgentWaits[t]
    /\ \A t \in DOMAIN AgentRecords : AgentOffers[t] = AgentRecords[t]
    /\ \A t \in DOMAIN AgentOthers : AgentOffers[t] = AgentOthers[t]
  <1>1. DOMAIN AgentOffers =
            DOMAIN AgentReads \cup DOMAIN AgentPointer \cup DOMAIN AgentComposites
            \cup DOMAIN AgentVerbs \cup DOMAIN AgentMotions \cup DOMAIN AgentWaits
            \cup DOMAIN AgentRecords \cup DOMAIN AgentOthers
    BY DEF AgentOffers, ++
  <1>2. \A t \in DOMAIN AgentReads : AgentOffers[t] = AgentReads[t]
    BY DEF AgentOffers, ++
  <1>3. \A t \in DOMAIN AgentPointer : t \notin DOMAIN AgentReads
    BY DEF AgentReads, AgentPointer
  <1>4. \A t \in DOMAIN AgentComposites : t \notin DOMAIN AgentReads \cup DOMAIN AgentPointer
    BY DEF AgentReads, AgentPointer, AgentComposites
  <1>5. \A t \in DOMAIN AgentVerbs :
          t \notin DOMAIN AgentReads \cup DOMAIN AgentPointer \cup DOMAIN AgentComposites
    BY DEF AgentReads, AgentPointer, AgentComposites, AgentVerbs
  <1>6. \A t \in DOMAIN AgentMotions :
          t \notin DOMAIN AgentReads \cup DOMAIN AgentPointer \cup DOMAIN AgentComposites
                   \cup DOMAIN AgentVerbs
    BY DEF AgentReads, AgentPointer, AgentComposites, AgentVerbs, AgentMotions
  <1>7. \A t \in DOMAIN AgentWaits :
          t \notin DOMAIN AgentReads \cup DOMAIN AgentPointer \cup DOMAIN AgentComposites
                   \cup DOMAIN AgentVerbs \cup DOMAIN AgentMotions
    BY DEF AgentReads, AgentPointer, AgentComposites, AgentVerbs, AgentMotions, AgentWaits
  <1>8. \A t \in DOMAIN AgentRecords :
          t \notin DOMAIN AgentReads \cup DOMAIN AgentPointer \cup DOMAIN AgentComposites
                   \cup DOMAIN AgentVerbs \cup DOMAIN AgentMotions \cup DOMAIN AgentWaits
    BY DEF AgentReads, AgentPointer, AgentComposites, AgentVerbs, AgentMotions, AgentWaits,
           AgentRecords
  <1>9. \A t \in DOMAIN AgentOthers :
          t \notin DOMAIN AgentReads \cup DOMAIN AgentPointer \cup DOMAIN AgentComposites
                   \cup DOMAIN AgentVerbs \cup DOMAIN AgentMotions \cup DOMAIN AgentWaits
                   \cup DOMAIN AgentRecords
    BY DEF AgentReads, AgentPointer, AgentComposites, AgentVerbs, AgentMotions, AgentWaits,
           AgentRecords, AgentOthers
  <1>10. \A t \in DOMAIN AgentPointer : AgentOffers[t] = AgentPointer[t]
    BY <1>3 DEF AgentOffers, ++
  <1>11. \A t \in DOMAIN AgentComposites : AgentOffers[t] = AgentComposites[t]
    BY <1>4 DEF AgentOffers, ++
  <1>12. \A t \in DOMAIN AgentVerbs : AgentOffers[t] = AgentVerbs[t]
    BY <1>5 DEF AgentOffers, ++
  <1>13. \A t \in DOMAIN AgentMotions : AgentOffers[t] = AgentMotions[t]
    BY <1>6 DEF AgentOffers, ++
  <1>14. \A t \in DOMAIN AgentWaits : AgentOffers[t] = AgentWaits[t]
    BY <1>7 DEF AgentOffers, ++
  <1>15. \A t \in DOMAIN AgentRecords : AgentOffers[t] = AgentRecords[t]
    BY <1>8 DEF AgentOffers, ++
  <1>16. \A t \in DOMAIN AgentOthers : AgentOffers[t] = AgentOthers[t]
    BY <1>9 DEF AgentOffers, ++
  <1>17. QED
    BY <1>1, <1>2, <1>10, <1>11, <1>12, <1>13, <1>14, <1>15, <1>16

LEMMA RegistryTables ==
    /\ DOMAIN Registry = DOMAIN ReadReads \cup DOMAIN VerbReads \cup DOMAIN PointReads
                         \cup DOMAIN OtherReads
    /\ \A t \in DOMAIN ReadReads : Registry[t] = ReadReads[t]
    /\ \A t \in DOMAIN VerbReads : Registry[t] = VerbReads[t]
    /\ \A t \in DOMAIN PointReads : Registry[t] = PointReads[t]
    /\ \A t \in DOMAIN OtherReads : Registry[t] = OtherReads[t]
  <1>1. \A t \in DOMAIN VerbReads : t \notin DOMAIN ReadReads
    BY DEF ReadReads, VerbReads
  <1>2. \A t \in DOMAIN PointReads : t \notin DOMAIN ReadReads \cup DOMAIN VerbReads
    BY DEF ReadReads, VerbReads, PointReads
  <1>3. \A t \in DOMAIN OtherReads :
          t \notin DOMAIN ReadReads \cup DOMAIN VerbReads \cup DOMAIN PointReads
    BY DEF ReadReads, VerbReads, PointReads, OtherReads
  <1>4. QED
    BY <1>1, <1>2, <1>3 DEF Registry, ++

LEMMA McpTables ==
    /\ DOMAIN McpOffers =
          DOMAIN McpLegacy \cup DOMAIN McpPointer \cup DOMAIN McpElements
          \cup DOMAIN McpObserve \cup DOMAIN McpComposites \cup DOMAIN McpRecords
          \cup DOMAIN McpVerbs
    /\ \A t \in DOMAIN McpLegacy : McpOffers[t] = McpLegacy[t]
    /\ \A t \in DOMAIN McpPointer : McpOffers[t] = McpPointer[t]
    /\ \A t \in DOMAIN McpElements : McpOffers[t] = McpElements[t]
    /\ \A t \in DOMAIN McpObserve : McpOffers[t] = McpObserve[t]
    /\ \A t \in DOMAIN McpComposites : McpOffers[t] = McpComposites[t]
    /\ \A t \in DOMAIN McpRecords : McpOffers[t] = McpRecords[t]
    /\ \A t \in DOMAIN McpVerbs : McpOffers[t] = McpVerbs[t]
  <1>1. \A t \in DOMAIN McpPointer : t \notin DOMAIN McpLegacy
    BY DEF McpLegacy, McpPointer
  <1>2. \A t \in DOMAIN McpElements : t \notin DOMAIN McpLegacy \cup DOMAIN McpPointer
    BY DEF McpLegacy, McpPointer, McpElements
  <1>3. \A t \in DOMAIN McpObserve :
          t \notin DOMAIN McpLegacy \cup DOMAIN McpPointer \cup DOMAIN McpElements
    BY DEF McpLegacy, McpPointer, McpElements, McpObserve
  <1>4. \A t \in DOMAIN McpComposites :
          t \notin DOMAIN McpLegacy \cup DOMAIN McpPointer \cup DOMAIN McpElements
                   \cup DOMAIN McpObserve
    BY DEF McpLegacy, McpPointer, McpElements, McpObserve, McpComposites
  <1>5. \A t \in DOMAIN McpRecords :
          t \notin DOMAIN McpLegacy \cup DOMAIN McpPointer \cup DOMAIN McpElements
                   \cup DOMAIN McpObserve \cup DOMAIN McpComposites
    BY DEF McpLegacy, McpPointer, McpElements, McpObserve, McpComposites, McpRecords
  <1>6. \A t \in DOMAIN McpVerbs :
          t \notin DOMAIN McpLegacy \cup DOMAIN McpPointer \cup DOMAIN McpElements
                   \cup DOMAIN McpObserve \cup DOMAIN McpComposites \cup DOMAIN McpRecords
    BY DEF McpLegacy, McpPointer, McpElements, McpObserve, McpComposites, McpRecords,
           McpVerbs
  <1>7. DOMAIN McpOffers =
            DOMAIN McpLegacy \cup DOMAIN McpPointer \cup DOMAIN McpElements
            \cup DOMAIN McpObserve \cup DOMAIN McpComposites \cup DOMAIN McpRecords
            \cup DOMAIN McpVerbs
    BY DEF McpOffers, ++
  <1>8. \A t \in DOMAIN McpLegacy : McpOffers[t] = McpLegacy[t]
    BY DEF McpOffers, ++
  <1>9. \A t \in DOMAIN McpPointer : McpOffers[t] = McpPointer[t]
    BY <1>1 DEF McpOffers, ++
  <1>10. \A t \in DOMAIN McpElements : McpOffers[t] = McpElements[t]
    BY <1>2 DEF McpOffers, ++
  <1>11. \A t \in DOMAIN McpObserve : McpOffers[t] = McpObserve[t]
    BY <1>3 DEF McpOffers, ++
  <1>12. \A t \in DOMAIN McpComposites : McpOffers[t] = McpComposites[t]
    BY <1>4 DEF McpOffers, ++
  <1>13. \A t \in DOMAIN McpRecords : McpOffers[t] = McpRecords[t]
    BY <1>5 DEF McpOffers, ++
  <1>14. \A t \in DOMAIN McpVerbs : McpOffers[t] = McpVerbs[t]
    BY <1>6 DEF McpOffers, ++
  <1>15. QED
    BY <1>7, <1>8, <1>9, <1>10, <1>11, <1>12, <1>13, <1>14

(* What each route hands on, and to whom. *)
LEMMA RouteTables ==
    ASSUME NEW p
    PROVE  /\ \A r \in DOMAIN QueryRoutes :
                 Routed(Request(r, p)) = Arrival(QueryRoutes[r], p, FALSE)
           /\ \A r \in DOMAIN BodyRoutes :
                 Routed(Request(r, p)) = Arrival(BodyRoutes[r], p, FALSE)
           /\ \A r \in DOMAIN LaterRoutes :
                 Routed(Request(r, p)) = Arrival(LaterRoutes[r], p, FALSE)
           /\ \A r \in DOMAIN BareRoutes :
                 Routed(Request(r, p)) = Arrival(BareRoutes[r], <<>>, FALSE)
           /\ \A r \in DOMAIN DirectRoutes :
                 Routed(Request(r, p)) = Arrival(DirectRoutes[r], p, TRUE)
           /\ Routed(Request("hover", p)) = Arrival(HoverTool(p), p, FALSE)
           /\ Routed(Request("action", p)) = Arrival(p["action"], ActionArrives(p), FALSE)
  <1> DEFINE Known == DOMAIN QueryRoutes \cup DOMAIN BodyRoutes \cup DOMAIN LaterRoutes
  <1>1. DOMAIN Forwarding = Known
    BY DEF Forwarding, ++
  <1>2. \A r \in DOMAIN BodyRoutes : r \notin DOMAIN QueryRoutes
    BY DEF QueryRoutes, BodyRoutes
  <1>3. \A r \in DOMAIN LaterRoutes : r \notin DOMAIN QueryRoutes \cup DOMAIN BodyRoutes
    BY DEF QueryRoutes, BodyRoutes, LaterRoutes
  <1>4. \A r \in DOMAIN BareRoutes : r \notin Known
    BY DEF QueryRoutes, BodyRoutes, LaterRoutes, BareRoutes
  <1>5. \A r \in DOMAIN DirectRoutes : r \notin Known \cup DOMAIN BareRoutes
    BY DEF QueryRoutes, BodyRoutes, LaterRoutes, BareRoutes, DirectRoutes
  <1>6. \A r \in {"hover", "action"} : r \notin Known \cup DOMAIN BareRoutes \cup DOMAIN DirectRoutes
    BY DEF QueryRoutes, BodyRoutes, LaterRoutes, BareRoutes, DirectRoutes
  <1>7. /\ \A r \in DOMAIN QueryRoutes : Forwarding[r] = QueryRoutes[r]
        /\ \A r \in DOMAIN BodyRoutes : Forwarding[r] = BodyRoutes[r]
        /\ \A r \in DOMAIN LaterRoutes : Forwarding[r] = LaterRoutes[r]
    BY <1>2, <1>3 DEF Forwarding, ++
  <1>8. \A r : Request(r, p).route = r /\ Request(r, p).params = p
    BY DEF Request
  <1> HIDE DEF Known
  <1>9. \A r \in DOMAIN Forwarding : Routed(Request(r, p)) = Arrival(Forwarding[r], p, FALSE)
    BY <1>8 DEF Routed
  <1>10. \A r \in DOMAIN BareRoutes : Routed(Request(r, p)) = Arrival(BareRoutes[r], <<>>, FALSE)
    BY <1>1, <1>4, <1>8 DEF Routed
  <1>11. \A r \in DOMAIN DirectRoutes : Routed(Request(r, p)) = Arrival(DirectRoutes[r], p, TRUE)
    BY <1>1, <1>5, <1>8 DEF Routed
  <1>12. /\ Routed(Request("hover", p)) = Arrival(HoverTool(p), p, FALSE)
         /\ Routed(Request("action", p)) = Arrival(p["action"], ActionArrives(p), FALSE)
    BY <1>1, <1>6, <1>8 DEF Routed
  <1>13. QED
    BY <1>1, <1>7, <1>9, <1>10, <1>11, <1>12 DEF Known

Takes(offer) == offer.needs \cup offer.may
Useful(s, t, names) == {g \in names : <<s, t, g>> \notin Unread}
MeantFor(t) == IF t \in DOMAIN Alias THEN Alias[t] ELSE {t}

ServedBy(r) ==
    IF r \in DOMAIN QueryRoutes THEN QueryRoutes[r] ELSE DirectRoutes[r]
ReadAt(r) ==
    IF r \in DOMAIN QueryRoutes THEN Registry[QueryRoutes[r]]
    ELSE RestDirect[DirectRoutes[r]]

(* Read off the tables, one part of the catalogue after the other: the route   *)
(* of a tool serves that tool or its alias, and whatever the catalogue offers   *)
(* is put on the way and read by the handler, but for what is in Unread.       *)
LEMMA GetsServe ==
    ASSUME NEW t \in DOMAIN Gets
    PROVE  /\ Gets[t].route \in DOMAIN QueryRoutes \cup DOMAIN DirectRoutes
           /\ MeantFor(t) = {ServedBy(Gets[t].route)}
           /\ Gets[t].extra \cap Names = {}
           /\ Takes(AgentOffers[t]) \subseteq Names \cup Gets[t].extra
           /\ Takes(AgentOffers[t]) \subseteq ReadAt(Gets[t].route)
  <1> DEFINE Fits(names) == /\ names \subseteq Names \cup Gets[t].extra
                            /\ names \subseteq ReadAt(Gets[t].route)
  <1>1. Gets[t].route \in DOMAIN QueryRoutes \cup DOMAIN DirectRoutes
    BY DEF Gets, QueryRoutes, DirectRoutes
  <1>2. MeantFor(t) = {ServedBy(Gets[t].route)}
    BY DEF Gets, QueryRoutes, DirectRoutes, MeantFor, ServedBy, Alias
  <1>3. Gets[t].extra \cap Names = {}
    BY DEF Gets, Names, Win
  <1>4. CASE t \in DOMAIN AgentReads
    <2>1. Takes(AgentReads[t]) \subseteq Names \cup Gets[t].extra
      BY <1>4 DEF Gets, Names, Win, Grid, AgentReads, Takes, Tool
    <2>2. Takes(AgentReads[t]) \subseteq ReadAt(Gets[t].route)
      BY <1>4, RegistryTables
         DEF Gets, Names, Win, Grid, AgentReads, Takes, Tool, ReadAt, ReadReads,
             RestDirect, QueryRoutes, DirectRoutes
    <2>3. QED
      BY <1>1, <1>2, <1>3, <1>4, <2>1, <2>2, AgentTables
  <1>5. CASE t \in DOMAIN AgentPointer
    <2>1. Takes(AgentPointer[t]) \subseteq Names \cup Gets[t].extra
      BY <1>5 DEF Gets, Names, Win, AgentPointer, Takes, Tool
    <2>2. Takes(AgentPointer[t]) \subseteq ReadAt(Gets[t].route)
      BY <1>5 DEF Gets, Names, Win, AgentPointer, Takes, Tool, ReadAt, RestDirect,
                  QueryRoutes, DirectRoutes
    <2>3. QED
      BY <1>1, <1>2, <1>3, <1>5, <2>1, <2>2, AgentTables
  <1>6. CASE t \in DOMAIN AgentComposites
    <2>1. Takes(AgentComposites[t]) \subseteq Names \cup Gets[t].extra
      BY <1>6 DEF Gets, Names, Win, AgentComposites, Takes, Tool
    <2>2. Takes(AgentComposites[t]) \subseteq ReadAt(Gets[t].route)
      BY <1>6, RegistryTables
         DEF Gets, Names, Win, AgentComposites, Takes, Tool, ReadAt, ReadReads, QueryRoutes
    <2>3. QED
      BY <1>1, <1>2, <1>3, <1>6, <2>1, <2>2, AgentTables
  <1>7. CASE t \in DOMAIN AgentWaits
    <2>1. Takes(AgentWaits[t]) \subseteq Names \cup Gets[t].extra
      BY <1>7 DEF Gets, Names, Win, AgentWaits, Takes, Tool
    <2>2. Takes(AgentWaits[t]) \subseteq ReadAt(Gets[t].route)
      BY <1>7, RegistryTables
         DEF Gets, Names, Win, AgentWaits, Takes, Tool, ReadAt, ReadReads, QueryRoutes
    <2>3. QED
      BY <1>1, <1>2, <1>3, <1>7, <2>1, <2>2, AgentTables
  <1>8. CASE t \in DOMAIN AgentOthers
    <2>1. Takes(AgentOthers[t]) \subseteq Names \cup Gets[t].extra
      BY <1>8 DEF Gets, Names, Win, AgentOthers, Takes, Tool
    <2>2. Takes(AgentOthers[t]) \subseteq ReadAt(Gets[t].route)
      BY <1>8, RegistryTables
         DEF Gets, Names, Win, AgentOthers, Takes, Tool, ReadAt, ReadReads, QueryRoutes
    <2>3. QED
      BY <1>1, <1>2, <1>3, <1>8, <2>1, <2>2, AgentTables
  <1>9. t \in DOMAIN AgentReads \cup DOMAIN AgentPointer \cup DOMAIN AgentComposites
              \cup DOMAIN AgentWaits \cup DOMAIN AgentOthers
    BY DEF Gets, AgentReads, AgentPointer, AgentComposites, AgentWaits, AgentOthers
  <1>10. QED
    BY <1>4, <1>5, <1>6, <1>7, <1>8, <1>9

Handed(r) ==
    IF r \in DOMAIN BodyRoutes THEN BodyRoutes[r] ELSE LaterRoutes[r]

LEMMA PostsServe ==
    ASSUME NEW t \in DOMAIN Posts
    PROVE  /\ \/ /\ Posts[t] \in DOMAIN BodyRoutes \cup DOMAIN LaterRoutes
                 /\ Handed(Posts[t]) = t
              \/ Posts[t] = "hover" /\ t = "hover_element"
           /\ MeantFor(t) = {t}
           /\ Takes(AgentOffers[t]) \cap {"x", "y"} = {}
           /\ Useful("agent", t, Takes(AgentOffers[t])) \subseteq Registry[t]
  <1>1. \/ /\ Posts[t] \in DOMAIN BodyRoutes \cup DOMAIN LaterRoutes
           /\ Handed(Posts[t]) = t
        \/ Posts[t] = "hover" /\ t = "hover_element"
    BY DEF Posts, BodyRoutes, LaterRoutes, Handed
  <1>2. MeantFor(t) = {t}
    BY DEF Posts, MeantFor, Alias
  <1>3. CASE t \in DOMAIN AgentComposites
    <2>1. Takes(AgentComposites[t]) \cap {"x", "y"} = {}
      BY <1>3 DEF Win, Elem, AgentComposites, Takes, Tool
    <2>2. CASE t \in {"type_and_observe", "press_key_and_observe"}
      <3>1. Useful("agent", t, Takes(AgentComposites[t])) \subseteq PointReads[t]
        BY <2>2 DEF AgentComposites, Takes, Tool, Useful, Unread, PointReads
      <3>2. t \in DOMAIN PointReads
        BY <2>2 DEF PointReads
      <3>3. QED
        BY <1>1, <1>2, <1>3, <2>1, <3>1, <3>2, AgentTables, RegistryTables
    <2>3. CASE t \in {"click_element", "click_element_and_observe"}
      <3>1. Takes(AgentComposites[t]) \subseteq VerbReads[t]
        BY <2>3 DEF Win, Elem, Names, Acts, AgentComposites, Takes, Tool, VerbReads
      <3>2. t \in DOMAIN VerbReads
        BY <2>3 DEF VerbReads
      <3>3. QED
        BY <1>1, <1>2, <1>3, <2>1, <3>1, <3>2, AgentTables, RegistryTables DEF Useful
    <2>4. QED
      BY <1>3, <2>2, <2>3 DEF Posts, AgentComposites
  <1>4. CASE t \in DOMAIN AgentVerbs
    <2>1. Takes(AgentVerbs[t]) \cap {"x", "y"} = {}
      BY <1>4 DEF Win, Elem, AgentVerbs, Takes, Tool
    <2>2. t \in DOMAIN VerbReads
      BY <1>4 DEF AgentVerbs, VerbReads
    <2>3. Takes(AgentVerbs[t]) \subseteq VerbReads[t]
      BY <1>4 DEF Win, Elem, Acts, AgentVerbs, Takes, Tool, VerbReads
    <2>4. QED
      BY <1>1, <1>2, <1>4, <2>1, <2>2, <2>3, AgentTables, RegistryTables DEF Useful
  <1>5. CASE t \in DOMAIN AgentMotions
    <2>1. t \in DOMAIN VerbReads /\ t # "hover_at"
      BY <1>5 DEF Posts, AgentMotions, VerbReads
    <2>2. Takes(AgentMotions[t]) \cap {"x", "y"} = {}
      BY <1>5, <2>1 DEF Win, Elem, AgentMotions, Takes, Tool
    <2>3. Takes(AgentMotions[t]) \subseteq VerbReads[t]
      BY <1>5, <2>1 DEF Win, Elem, Names, Acts, AgentMotions, Takes, Tool, VerbReads
    <2>4. QED
      BY <1>1, <1>2, <1>5, <2>1, <2>2, <2>3, AgentTables, RegistryTables DEF Useful
  <1>6. CASE t \in DOMAIN AgentWaits
    <2>1. t = "wait_idle"
      BY <1>6 DEF Posts, AgentWaits
    <2>2. /\ t \in DOMAIN OtherReads
          /\ Takes(AgentWaits[t]) \cap {"x", "y"} = {}
          /\ Takes(AgentWaits[t]) \subseteq OtherReads[t]
      BY <2>1 DEF Win, Names, AgentWaits, Takes, Tool, OtherReads
    <2>3. QED
      BY <1>1, <1>2, <1>6, <2>2, AgentTables, RegistryTables DEF Useful
  <1>7. t \in DOMAIN AgentComposites \cup DOMAIN AgentVerbs \cup DOMAIN AgentMotions
              \cup DOMAIN AgentWaits
    BY DEF Posts, AgentComposites, AgentVerbs, AgentMotions, AgentWaits
  <1>8. QED
    BY <1>3, <1>4, <1>5, <1>6, <1>7

LEMMA PicksServe ==
    ASSUME NEW t \in DOMAIN Picks
    PROVE  /\ \/ /\ Picks[t].route \in DOMAIN BodyRoutes \cup DOMAIN LaterRoutes
                 /\ Handed(Picks[t].route) = t
              \/ /\ Picks[t].route \in DOMAIN BareRoutes
                 /\ BareRoutes[Picks[t].route] = t
                 /\ Takes(AgentOffers[t]) = {}
              \/ /\ Picks[t].route = "hover" /\ t = "hover_at"
                 /\ AgentOffers[t].needs = {"x", "y"}
                 /\ Picks[t].keep = {"x", "y", "hover_ms"}
           /\ MeantFor(t) = {t}
           /\ Takes(AgentOffers[t]) \subseteq Picks[t].keep
           /\ Takes(AgentOffers[t]) \subseteq Registry[t]
  <1>1. MeantFor(t) = {t}
    BY DEF Picks, MeantFor, Alias
  <1>2. CASE t \in {"list_windows", "get_capabilities", "get_monitors", "trace_stop",
                    "trace_status", "get_budget_status", "get_redaction_status"}
    <2>1. Picks[t].route \in DOMAIN BareRoutes /\ BareRoutes[Picks[t].route] = t
      BY <1>2 DEF Picks, BareRoutes
    <2>2. Takes(AgentOffers[t]) = {}
      BY <1>2, AgentTables DEF AgentReads, AgentRecords, AgentOthers, Takes, Tool, Bare
    <2>3. QED
      BY <1>1, <2>1, <2>2
  <1>3. CASE t = "hover_at"
    <2>1. Picks[t].route = "hover" /\ Picks[t].keep = {"x", "y", "hover_ms"}
      BY <1>3 DEF Picks
    <2>2. AgentOffers[t] = Tool({"x", "y"}, {"hover_ms"})
      BY <1>3, AgentTables DEF AgentMotions
    <2>3. t \in DOMAIN PointReads /\ PointReads[t] = {"x", "y", "hover_ms"}
      BY <1>3 DEF PointReads
    <2>4. Registry[t] = {"x", "y", "hover_ms"}
      BY <2>3, RegistryTables
    <2>5. AgentOffers[t].needs = {"x", "y"} /\ Takes(AgentOffers[t]) = {"x", "y", "hover_ms"}
      BY <2>2 DEF Tool, Takes
    <2>6. QED
      BY <1>1, <1>3, <2>1, <2>4, <2>5
  <1>4. CASE t \in {"wait_for", "snapshot", "snapshot_get", "snapshot_diff", "snapshot_drop"}
    <2>1. /\ Picks[t].route \in DOMAIN BodyRoutes \cup DOMAIN LaterRoutes
          /\ Handed(Picks[t].route) = t
      BY <1>4 DEF Picks, BodyRoutes, LaterRoutes, Handed
    <2>2. t \in DOMAIN AgentWaits /\ t \in DOMAIN OtherReads
      BY <1>4 DEF AgentWaits, OtherReads
    <2>3. Takes(AgentWaits[t]) \subseteq Picks[t].keep
      BY <1>4 DEF AgentWaits, Picks, Takes, Tool, Bare
    <2>4. Takes(AgentWaits[t]) \subseteq OtherReads[t]
      BY <1>4 DEF AgentWaits, OtherReads, Takes, Tool, Bare
    <2>5. QED
      BY <1>1, <2>1, <2>2, <2>3, <2>4, AgentTables, RegistryTables
  <1>5. CASE t \in {"trace_start", "replay_start", "replay_step", "replay_status",
                    "replay_stop", "load_scenario"}
    <2>1. /\ Picks[t].route \in DOMAIN BodyRoutes \cup DOMAIN LaterRoutes
          /\ Handed(Picks[t].route) = t
      BY <1>5 DEF Picks, BodyRoutes, LaterRoutes, Handed
    <2>2. t \in DOMAIN AgentRecords /\ t \in DOMAIN OtherReads
      BY <1>5 DEF AgentRecords, OtherReads
    <2>3. Takes(AgentRecords[t]) \subseteq Picks[t].keep
      BY <1>5 DEF AgentRecords, Picks, Takes, Tool
    <2>4. Takes(AgentRecords[t]) \subseteq OtherReads[t]
      BY <1>5 DEF AgentRecords, OtherReads, Takes, Tool
    <2>5. QED
      BY <1>1, <2>1, <2>2, <2>3, <2>4, AgentTables, RegistryTables
  <1>6. CASE t = "propose_action"
    <2>1. /\ Picks[t].route \in DOMAIN BodyRoutes \cup DOMAIN LaterRoutes
          /\ Handed(Picks[t].route) = t
      BY <1>6 DEF Picks, BodyRoutes, LaterRoutes, Handed
    <2>2. t \in DOMAIN AgentOthers /\ t \in DOMAIN OtherReads
      BY <1>6 DEF AgentOthers, OtherReads
    <2>3. Takes(AgentOthers[t]) \subseteq Picks[t].keep
      BY <1>6 DEF AgentOthers, Picks, Takes, Tool
    <2>4. Takes(AgentOthers[t]) \subseteq OtherReads[t]
      BY <1>6 DEF AgentOthers, OtherReads, Takes, Tool
    <2>5. QED
      BY <1>1, <2>1, <2>2, <2>3, <2>4, AgentTables, RegistryTables
  <1>7. QED
    BY <1>2, <1>3, <1>4, <1>5, <1>6 DEF Picks

LEMMA OthersServe ==
    /\ AgentOffers["click_at"] = Tool({"x", "y"}, {"button", "double"})
    /\ AgentOffers["type_text"] = Tool({"text"}, {})
    /\ AgentOffers["press_key"] = Tool({"keys"}, {})
    /\ AgentOffers["scroll"] = Tool({}, {"clicks", "x", "y", "window_index"})
    /\ AgentOffers["observe_window"] = Tool({}, {"window_index"})
    /\ AgentOffers["assert_state"] = Tool({}, {"predicate", "predicates"})
    /\ Registry["click_at"] = {"x", "y", "button", "double"}
    /\ Registry["type_text"] = {"text"}
    /\ Registry["press_key"] = {"keys"}
    /\ Registry["scroll"] = {"clicks", "x", "y"}
    /\ Registry["get_screen_description"] = Names \cup {"max_tokens", "focus_element"}
    /\ RestDirect["get_screen_sketch"] = Names \cup Grid \cup {"ocr", "structured"}
    /\ Registry["assert_state"] = {"predicate", "predicates"}
    /\ MeantFor("observe_window") = {"get_screen_sketch", "get_screen_description"}
    /\ \A t \in {"click_at", "type_text", "press_key", "scroll", "assert_state"} :
          MeantFor(t) = {t}
  <1>1. /\ AgentOffers["click_at"] = Tool({"x", "y"}, {"button", "double"})
        /\ AgentOffers["type_text"] = Tool({"text"}, {})
        /\ AgentOffers["press_key"] = Tool({"keys"}, {})
        /\ AgentOffers["scroll"] = Tool({}, {"clicks", "x", "y", "window_index"})
    BY AgentTables DEF AgentPointer
  <1>2. /\ AgentOffers["observe_window"] = Tool({}, {"window_index"})
        /\ AgentOffers["assert_state"] = Tool({}, {"predicate", "predicates"})
    BY AgentTables DEF AgentReads, AgentRecords
  <1>3. /\ Registry["click_at"] = {"x", "y", "button", "double"}
        /\ Registry["type_text"] = {"text"}
        /\ Registry["press_key"] = {"keys"}
        /\ Registry["scroll"] = {"clicks", "x", "y"}
    BY RegistryTables DEF PointReads
  <1>4. /\ Registry["get_screen_description"] = Names \cup {"max_tokens", "focus_element"}
        /\ Registry["assert_state"] = {"predicate", "predicates"}
    BY RegistryTables DEF ReadReads, OtherReads
  <1>5. RestDirect["get_screen_sketch"] = Names \cup Grid \cup {"ocr", "structured"}
    BY DEF RestDirect
  <1>6. /\ MeantFor("observe_window") = {"get_screen_sketch", "get_screen_description"}
        /\ \A t \in {"click_at", "type_text", "press_key", "scroll", "assert_state"} :
              MeantFor(t) = {t}
    BY DEF MeantFor, Alias
  <1>7. QED
    BY <1>1, <1>2, <1>3, <1>4, <1>5, <1>6

(* Every tool of the agent is sent in one of these ways, and in one only. *)
LEMMA OffersSplit ==
    ASSUME NEW t \in DOMAIN AgentOffers, t # "call_tool"
    PROVE  \/ t \in DOMAIN Gets \/ t \in DOMAIN Posts \/ t \in DOMAIN Picks
           \/ t \in {"observe_window", "assert_state", "click_at", "type_text",
                     "press_key", "scroll"}
  <1>1. CASE t \in DOMAIN AgentReads
    BY <1>1 DEF AgentReads, Gets, Picks
  <1>2. CASE t \in DOMAIN AgentPointer
    BY <1>2 DEF AgentPointer, Gets
  <1>3. CASE t \in DOMAIN AgentComposites
    BY <1>3 DEF AgentComposites, Gets, Posts
  <1>4. CASE t \in DOMAIN AgentVerbs
    BY <1>4 DEF AgentVerbs, Posts
  <1>5. CASE t \in DOMAIN AgentMotions
    BY <1>5 DEF AgentMotions, Posts, Picks
  <1>6. CASE t \in DOMAIN AgentWaits
    BY <1>6 DEF AgentWaits, Gets, Posts, Picks
  <1>7. CASE t \in DOMAIN AgentRecords
    BY <1>7 DEF AgentRecords, Picks
  <1>8. CASE t \in DOMAIN AgentOthers
    BY <1>8 DEF AgentOthers, Gets, Picks
  <1>9. QED
    BY <1>1, <1>2, <1>3, <1>4, <1>5, <1>6, <1>7, <1>8, AgentTables

LEMMA KindsApart ==
    /\ \A t \in DOMAIN Posts : t \notin DOMAIN Gets
    /\ \A t \in DOMAIN Picks : t \notin DOMAIN Gets \cup DOMAIN Posts
    /\ \A t \in {"observe_window", "assert_state", "click_at", "type_text",
                 "press_key", "scroll"} :
          t \notin DOMAIN Gets \cup DOMAIN Posts \cup DOMAIN Picks
    /\ \A t \in DOMAIN Posts \cup DOMAIN Picks :
          t \notin {"observe_window", "get_visible_areas", "bring_to_foreground"}
  BY DEF Gets, Posts, Picks

(* The same of the MCP catalogue and the registry. *)
LEMMA McpServe ==
    ASSUME NEW t \in DOMAIN McpOffers
    PROVE  Useful("mcp", t, Takes(McpOffers[t])) \subseteq
              (IF t \in DOMAIN Registry THEN Registry[t] ELSE McpDirect[t])
  <1>1. CASE t \in DOMAIN McpLegacy
    <2>1. CASE t = "get_screen_sketch"
      <3>1. t \notin DOMAIN Registry
        BY <2>1, RegistryTables DEF ReadReads, VerbReads, PointReads, OtherReads
      <3>2. Takes(McpLegacy[t]) \subseteq McpDirect[t]
        BY <2>1 DEF McpLegacy, McpDirect, Takes, Tool, Grid
      <3>3. QED
        BY <1>1, <3>1, <3>2, McpTables DEF Useful
    <2>2. CASE t # "get_screen_sketch"
      <3>1. t \in DOMAIN ReadReads
        BY <1>1, <2>2 DEF McpLegacy, ReadReads
      <3>2. Useful("mcp", t, Takes(McpLegacy[t])) \subseteq ReadReads[t]
        BY <1>1, <2>2 DEF McpLegacy, ReadReads, Takes, Tool, Bare, Win, Names, Useful, Unread
      <3>3. QED
        BY <1>1, <3>1, <3>2, McpTables, RegistryTables
    <2>3. QED
      BY <2>1, <2>2
  <1>2. CASE t \in DOMAIN McpPointer
    <2>1. CASE t = "get_full_screenshot"
      <3>1. t \notin DOMAIN Registry
        BY <2>1, RegistryTables DEF ReadReads, VerbReads, PointReads, OtherReads
      <3>2. Takes(McpPointer[t]) \subseteq McpDirect[t]
        BY <2>1 DEF McpPointer, McpDirect, Takes, Tool, Grid
      <3>3. QED
        BY <1>2, <3>1, <3>2, McpTables DEF Useful
    <2>2. CASE t = "get_visible_areas"
      <3>1. t \in DOMAIN ReadReads /\ Takes(McpPointer[t]) \subseteq ReadReads[t]
        BY <2>2 DEF McpPointer, ReadReads, Takes, Tool, Names, Win
      <3>2. QED
        BY <1>2, <3>1, McpTables, RegistryTables DEF Useful
    <2>3. CASE t \notin {"get_full_screenshot", "get_visible_areas"}
      <3>1. t \in DOMAIN PointReads
        BY <1>2, <2>3 DEF McpPointer, PointReads
      <3>2. Takes(McpPointer[t]) \subseteq PointReads[t]
        BY <1>2, <2>3 DEF McpPointer, PointReads, Takes, Tool, Names, Win
      <3>3. QED
        BY <1>2, <3>1, <3>2, McpTables, RegistryTables DEF Useful
    <2>4. QED
      BY <2>1, <2>2, <2>3
  <1>3. CASE t \in DOMAIN McpElements
    <2>1. CASE t \in {"get_capabilities", "get_monitors", "find_element"}
      <3>1. t \in DOMAIN ReadReads /\ Takes(McpElements[t]) \subseteq ReadReads[t]
        BY <2>1 DEF McpElements, ReadReads, Takes, Tool, Bare, Names, Win
      <3>2. QED
        BY <1>3, <3>1, McpTables, RegistryTables DEF Useful
    <2>2. CASE t \notin {"get_capabilities", "get_monitors", "find_element"}
      <3>1. t \in DOMAIN VerbReads
        BY <1>3, <2>2 DEF McpElements, VerbReads
      <3>2. Takes(McpElements[t]) \subseteq VerbReads[t]
        BY <1>3, <2>2 DEF McpElements, VerbReads, Takes, Tool, Acts, Elem, Win
      <3>3. QED
        BY <1>3, <3>1, <3>2, McpTables, RegistryTables DEF Useful
    <2>3. QED
      BY <2>1, <2>2
  <1>4. CASE t \in DOMAIN McpObserve
    <2>1. CASE t = "observe_window"
      <3>1. t \in DOMAIN ReadReads /\ Takes(McpObserve[t]) \subseteq ReadReads[t]
        BY <2>1 DEF McpObserve, ReadReads, Takes, Tool, Names, Win
      <3>2. QED
        BY <1>4, <3>1, McpTables, RegistryTables DEF Useful
    <2>2. CASE t # "observe_window"
      <3>1. t \in DOMAIN OtherReads
        BY <1>4, <2>2 DEF McpObserve, OtherReads
      <3>2. Takes(McpObserve[t]) \subseteq OtherReads[t]
        BY <1>4, <2>2 DEF McpObserve, OtherReads, Takes, Tool, Bare, Names, Win
      <3>3. QED
        BY <1>4, <3>1, <3>2, McpTables, RegistryTables DEF Useful
    <2>3. QED
      BY <2>1, <2>2
  <1>5. CASE t \in DOMAIN McpComposites
    <2>1. CASE t = "click_element_and_observe"
      <3>1. t \in DOMAIN VerbReads /\ Takes(McpComposites[t]) \subseteq VerbReads[t]
        BY <2>1 DEF McpComposites, VerbReads, Takes, Tool, Acts, Elem, Win
      <3>2. QED
        BY <1>5, <3>1, McpTables, RegistryTables DEF Useful
    <2>2. CASE t = "get_screenshot_cropped"
      <3>1. t \in DOMAIN ReadReads /\ Takes(McpComposites[t]) \subseteq ReadReads[t]
        BY <2>2 DEF McpComposites, ReadReads, Takes, Tool, Names, Win
      <3>2. QED
        BY <1>5, <3>1, McpTables, RegistryTables DEF Useful
    <2>3. CASE t \in {"type_and_observe", "press_key_and_observe"}
      <3>1. /\ t \in DOMAIN PointReads
            /\ Useful("mcp", t, Takes(McpComposites[t])) \subseteq PointReads[t]
        BY <2>3 DEF McpComposites, PointReads, Takes, Tool, Useful, Unread
      <3>2. QED
        BY <1>5, <3>1, McpTables, RegistryTables
    <2>4. QED
      BY <1>5, <2>1, <2>2, <2>3 DEF McpComposites
  <1>6. CASE t \in DOMAIN McpRecords
    <2>1. t \in DOMAIN OtherReads
      BY <1>6 DEF McpRecords, OtherReads
    <2>2. Takes(McpRecords[t]) \subseteq OtherReads[t]
      BY <1>6 DEF McpRecords, OtherReads, Takes, Tool, Bare
    <2>3. QED
      BY <1>6, <2>1, <2>2, McpTables, RegistryTables DEF Useful
  <1>7. CASE t \in DOMAIN McpVerbs
    <2>1. CASE t = "get_ocr"
      <3>1. t \in DOMAIN ReadReads /\ Takes(McpVerbs[t]) \subseteq ReadReads[t]
        BY <2>1 DEF McpVerbs, ReadReads, Takes, Tool, Names, Win
      <3>2. QED
        BY <1>7, <3>1, McpTables, RegistryTables DEF Useful
    <2>2. CASE t = "hover_at"
      <3>1. t \in DOMAIN PointReads /\ Takes(McpVerbs[t]) \subseteq PointReads[t]
        BY <2>2 DEF McpVerbs, PointReads, Takes, Tool
      <3>2. QED
        BY <1>7, <3>1, McpTables, RegistryTables DEF Useful
    <2>3. CASE t \notin {"get_ocr", "hover_at"}
      <3>1. t \in DOMAIN VerbReads
        BY <1>7, <2>3 DEF McpVerbs, VerbReads
      <3>2. Takes(McpVerbs[t]) \subseteq VerbReads[t]
        BY <1>7, <2>3 DEF McpVerbs, VerbReads, Takes, Tool, Acts, Elem, Win, Names
      <3>3. QED
        BY <1>7, <3>1, <3>2, McpTables, RegistryTables DEF Useful
    <2>4. QED
      BY <2>1, <2>2, <2>3
  <1>8. QED
    BY <1>1, <1>2, <1>3, <1>4, <1>5, <1>6, <1>7, McpTables

(* A handler that acts is an input tool; no word of a task promises a tool      *)
(* that does not exist.                                                       *)
LEMMA ActsAreKnown == DOMAIN VerbReads \cup DOMAIN PointReads \subseteq InputTools
  BY DEF VerbReads, PointReads, InputTools

LEMMA PromisesHeld ==
    LET promised == Basic \cup UNION {Keywords[k] : k \in DOMAIN Keywords}
    IN  Sendable(promised) = promised
  <1>1. Basic \subseteq DOMAIN AgentOffers
    BY AgentTables DEF Basic, AgentReads, AgentPointer, AgentComposites, AgentVerbs, AgentWaits
  <1>2. ASSUME NEW k \in DOMAIN Keywords
        PROVE  Keywords[k] \subseteq DOMAIN AgentOffers
    BY AgentTables DEF Keywords, AgentReads, AgentPointer, AgentComposites, AgentVerbs,
       AgentMotions, AgentWaits, AgentRecords, AgentOthers
  <1>3. QED
    BY <1>1, <1>2 DEF Sendable

(* What CallsArriveWhole says of the calls as that a call s of tool t with    *)
(* the arguments g has become.                                               *)
ReaderOf(s, a) ==
    IF ~ a.direct THEN Registry[a.tool]
    ELSE IF s = "mcp" THEN McpDirect[a.tool] ELSE RestDirect[a.tool]
Kept(s, g, as) ==
    \E a \in as : \E n \in DOMAIN a.args \cap ReaderOf(s, a) :
        a.args[n] = g /\ (n = g \/ {n, g} = {"predicate", "predicates"})
Whole(s, t, g, as) ==
    /\ {a.tool : a \in as} = IF s = "agent" THEN MeantFor(t) ELSE {t}
    /\ \A x \in g : <<s, t, x>> \notin Unread => Kept(s, x, as)
OneName(g) == \A a, b \in g \cap Names : a = b

LEMMA ArrivalIs ==
    ASSUME NEW m, NEW p, NEW d
    PROVE  /\ Arrival(m, p, d).tool = m
           /\ Arrival(m, p, d).args = p
           /\ Arrival(m, p, d).direct = d
  BY DEF Arrival

LEMMA OneCallWhole ==
    ASSUME NEW s, NEW t, NEW g, NEW m, NEW p, NEW d \in BOOLEAN,
           {m} = IF s = "agent" THEN MeantFor(t) ELSE {t},
           \A x \in Useful(s, t, g) :
              /\ x \in DOMAIN p /\ p[x] = x
              /\ x \in ReaderOf(s, Arrival(m, p, d))
    PROVE  Whole(s, t, g, {Arrival(m, p, d)})
  <1>1. {a.tool : a \in {Arrival(m, p, d)}} = {m}
    BY ArrivalIs
  <1>2. ASSUME NEW x \in g, <<s, t, x>> \notin Unread
        PROVE  Kept(s, x, {Arrival(m, p, d)})
    <2>1. x \in DOMAIN p /\ p[x] = x /\ x \in ReaderOf(s, Arrival(m, p, d))
      BY <1>2 DEF Useful
    <2>2. QED
      BY <2>1, ArrivalIs DEF Kept
  <1>3. QED
    BY <1>1, <1>2 DEF Whole

(* What the two ways to name the window leave of the arguments. *)
LEMMA WindowArrives ==
    ASSUME NEW g, OneName(g), NEW c
    PROVE  /\ DOMAIN WinParams(g, c) \subseteq Names
           /\ \A n \in g \cap Names :
                 n \in DOMAIN WinParams(g, c) /\ WinParams(g, c)[n] = n
  BY DEF OneName, WinParams, Same, Arg, Names, Win

LEMMA BodyArrives ==
    ASSUME NEW g, NEW c
    PROVE  /\ DOMAIN Body(g, c) \subseteq g \cup {"window_index"}
           /\ \A n \in g : n \in DOMAIN Body(g, c) /\ Body(g, c)[n] = n
  BY DEF Body, Same, Arg, ++

LEMMA OneRequest ==
    ASSUME NEW S, NEW q, S = {q}, NEW a, Routed(q) = a
    PROVE  {Routed(r) : r \in S} = {a}
  OBVIOUS

LEMMA ReaderIs ==
    ASSUME NEW s, NEW m, NEW p
    PROVE  /\ ReaderOf(s, Arrival(m, p, FALSE)) = Registry[m]
           /\ ReaderOf("agent", Arrival(m, p, TRUE)) = RestDirect[m]
           /\ ReaderOf("mcp", Arrival(m, p, TRUE)) = McpDirect[m]
  BY DEF ReaderOf, Arrival

(* The stray arguments are none that the tool takes. *)
Given(t, g, stray) ==
    /\ AgentOffers[t].needs \subseteq g /\ g \subseteq Takes(AgentOffers[t])
    /\ OneName(g)
    /\ ~ {"predicate", "predicates"} \subseteq g
    /\ stray \subseteq {"x", "y"}
    /\ stray # {} => t = "hover_element" /\ g \cap {"selector", "element_id"} # {}

LEMMA GetArrives ==
    ASSUME NEW t \in DOMAIN Gets, NEW g, NEW stray, NEW c, Given(t, g, stray),
           t # "observe_window",
           AgentSends(t, g \cup stray, c) # {}
    PROVE  Whole("agent", t, g, {Routed(r) : r \in AgentSends(t, g \cup stray, c)})
  <1> DEFINE named == WinParams(g, c)
             p == named ++ Keep(g, Gets[t].extra)
             route == Gets[t].route
             d == route \notin DOMAIN QueryRoutes
  <1> HIDE DEF named, p, route, d
  <1>1. t # "hover_element"
    BY DEF Gets
  <1>2. g \cup stray = g
    BY <1>1 DEF Given
  <1>3. AgentSends(t, g \cup stray, c) = {Request(route, p)}
    BY <1>2 DEF AgentSends, p, route, named
  <1>4. Routed(Request(route, p)) = Arrival(ServedBy(route), p, d)
    <2>1. CASE route \in DOMAIN QueryRoutes
      BY <2>1, RouteTables DEF ServedBy, d
    <2>2. CASE route \notin DOMAIN QueryRoutes
      <3>1. route \in DOMAIN DirectRoutes
        BY <2>2, GetsServe DEF route
      <3>2. QED
        BY <2>2, <3>1, RouteTables DEF ServedBy, d
    <2>3. QED
      BY <2>1, <2>2
  <1>5. {Routed(r) : r \in AgentSends(t, g \cup stray, c)} = {Arrival(ServedBy(route), p, d)}
    BY <1>3, <1>4, OneRequest
  <1>6. ASSUME NEW x \in g
        PROVE  x \in DOMAIN p /\ p[x] = x /\ x \in ReaderOf("agent", Arrival(ServedBy(route), p, d))
    <2>1. x \in Names \cup Gets[t].extra /\ x \in ReadAt(route)
      BY GetsServe DEF Given, route
    <2>2. DOMAIN named \subseteq Names
      BY WindowArrives DEF Given, named
    <2>3. x \in Names => x \in DOMAIN named /\ named[x] = x
      BY WindowArrives DEF Given, named
    <2>4. x \in Gets[t].extra =>
            /\ x \notin DOMAIN named
            /\ x \in DOMAIN Keep(g, Gets[t].extra) /\ Keep(g, Gets[t].extra)[x] = x
      BY <2>2, GetsServe DEF Keep, Same
    <2>5. x \in DOMAIN p /\ p[x] = x
      <3>1. CASE x \in Names
        BY <2>3, <3>1 DEF p, ++
      <3>2. CASE x \in Gets[t].extra
        BY <2>4, <3>2 DEF p, ++
      <3>3. QED
        BY <2>1, <3>1, <3>2
    <2>6. ReaderOf("agent", Arrival(ServedBy(route), p, d)) = ReadAt(route)
      BY DEF ReaderOf, Arrival, ServedBy, ReadAt, d
    <2>7. QED
      BY <2>1, <2>5, <2>6
  <1>7. MeantFor(t) = {ServedBy(route)}
    BY GetsServe DEF route
  <1>8. d \in BOOLEAN
    BY DEF d
  <1>9. Whole("agent", t, g, {Arrival(ServedBy(route), p, d)})
    BY <1>6, <1>7, <1>8, OneCallWhole DEF Useful
  <1>10. QED
    BY <1>5, <1>9

LEMMA PostArrives ==
    ASSUME NEW t \in DOMAIN Posts, NEW g, NEW stray, NEW c, Given(t, g, stray)
    PROVE  Whole("agent", t, g, {Routed(r) : r \in AgentSends(t, g \cup stray, c)})
  <1> DEFINE p == Body(g \cup stray, c)
  <1> HIDE DEF p
  <1>1. AgentSends(t, g \cup stray, c) = {Request(Posts[t], p)}
    BY KindsApart DEF AgentSends, p
  <1>2. Routed(Request(Posts[t], p)) = Arrival(t, p, FALSE)
    <2>1. CASE Posts[t] \in DOMAIN BodyRoutes
      <3>1. Handed(Posts[t]) = t
        BY <2>1, PostsServe DEF BodyRoutes
      <3>2. QED
        BY <2>1, <3>1, RouteTables DEF Handed
    <2>2. CASE Posts[t] \in DOMAIN LaterRoutes /\ Posts[t] \notin DOMAIN BodyRoutes
      <3>1. Handed(Posts[t]) = t
        BY <2>2, PostsServe DEF LaterRoutes
      <3>2. QED
        BY <2>2, <3>1, RouteTables DEF Handed
    <2>3. CASE Posts[t] = "hover" /\ t = "hover_element"
      <3>1. DOMAIN p \subseteq g \cup stray \cup {"window_index"} /\ g \subseteq DOMAIN p
        BY BodyArrives DEF p
      <3>2. CASE stray = {}
        <4>1. "x" \notin DOMAIN p
          BY <3>1, <3>2, PostsServe DEF Given
        <4>2. QED
          BY <2>3, <4>1, RouteTables DEF HoverTool
      <3>3. CASE stray # {}
        <4>1. DOMAIN p \cap {"selector", "element_id"} # {}
          BY <3>1, <3>3 DEF Given
        <4>2. QED
          BY <2>3, <4>1, RouteTables DEF HoverTool
      <3>4. QED
        BY <3>2, <3>3
    <2>4. QED
      BY <2>1, <2>2, <2>3, PostsServe
  <1>3. {Routed(r) : r \in AgentSends(t, g \cup stray, c)} = {Arrival(t, p, FALSE)}
    BY <1>1, <1>2, OneRequest
  <1>4. ASSUME NEW x \in Useful("agent", t, g)
        PROVE  x \in DOMAIN p /\ p[x] = x /\ x \in ReaderOf("agent", Arrival(t, p, FALSE))
    <2>1. x \in g \cup stray /\ x \in Useful("agent", t, Takes(AgentOffers[t]))
      BY DEF Useful, Given
    <2>2. x \in DOMAIN p /\ p[x] = x
      BY <2>1, BodyArrives DEF p
    <2>3. ReaderOf("agent", Arrival(t, p, FALSE)) = Registry[t]
      BY ReaderIs
    <2>4. x \in Registry[t]
      BY <2>1, PostsServe
    <2>5. QED
      BY <2>2, <2>3, <2>4
  <1>5. Whole("agent", t, g, {Arrival(t, p, FALSE)})
    BY <1>4, PostsServe, OneCallWhole
  <1>6. QED
    BY <1>3, <1>5

LEMMA PickArrives ==
    ASSUME NEW t \in DOMAIN Picks, NEW g, NEW stray, NEW c, Given(t, g, stray)
    PROVE  Whole("agent", t, g, {Routed(r) : r \in AgentSends(t, g \cup stray, c)})
  <1> DEFINE p == Keep(g, Picks[t].keep)
             route == Picks[t].route
  <1> HIDE DEF p, route
  <1>1. g \cup stray = g
    BY DEF Given, Picks
  <1>2. AgentSends(t, g \cup stray, c) = {Request(route, p)}
    BY <1>1, KindsApart DEF AgentSends, p, route
  <1>3. g \subseteq Picks[t].keep /\ g \subseteq Registry[t]
    BY PicksServe DEF Given
  <1>4. ReaderOf("agent", Arrival(t, p, FALSE)) = Registry[t]
    BY ReaderIs
  <1>5. \A x \in g : x \in DOMAIN p /\ p[x] = x
    BY <1>3 DEF p, Keep, Same
  <1>6. CASE Routed(Request(route, p)) = Arrival(t, p, FALSE)
    <2> DEFINE read == ReaderOf("agent", Arrival(t, p, FALSE))
    <2>1. \A x \in Useful("agent", t, g) : x \in DOMAIN p /\ p[x] = x /\ x \in read
      BY <1>3, <1>4, <1>5 DEF Useful
    <2>2. MeantFor(t) = {t}
      BY PicksServe
    <2>3. Whole("agent", t, g, {Arrival(t, p, FALSE)})
      BY <2>1, <2>2, OneCallWhole
    <2>4. QED
      BY <1>2, <1>6, <2>3, OneRequest
  <1>7. CASE /\ route \in DOMAIN BareRoutes /\ BareRoutes[route] = t
             /\ Takes(AgentOffers[t]) = {}
    <2>1. Routed(Request(route, p)) = Arrival(t, <<>>, FALSE)
      BY <1>7, RouteTables
    <2>2. g = {}
      BY <1>7 DEF Given
    <2>3. Whole("agent", t, g, {Arrival(t, <<>>, FALSE)})
      BY <2>2, PicksServe, OneCallWhole DEF Useful
    <2>4. QED
      BY <1>2, <2>1, <2>3, OneRequest
  <1>8. CASE route \in DOMAIN BodyRoutes \cup DOMAIN LaterRoutes /\ Handed(route) = t
    BY <1>6, <1>8, RouteTables DEF Handed
  <1>9. CASE /\ route = "hover" /\ t = "hover_at" /\ AgentOffers[t].needs = {"x", "y"}
             /\ Picks[t].keep = {"x", "y", "hover_ms"}
    <2>1. {"x", "y"} \subseteq DOMAIN p
      BY <1>5, <1>9 DEF Given
    <2>2. DOMAIN p \cap {"selector", "element_id"} = {}
      BY <1>9 DEF p, Keep, Same
    <2>3. HoverTool(p) = t
      BY <1>9, <2>1, <2>2 DEF HoverTool
    <2>4. QED
      BY <1>6, <1>9, <2>3, RouteTables
  <1>10. QED
    BY <1>7, <1>8, <1>9, PicksServe DEF route

LEMMA ActionArrivesWhole ==
    ASSUME NEW t \in {"click_at", "type_text", "press_key", "scroll"},
           NEW g, NEW stray, NEW c, Given(t, g, stray)
    PROVE  Whole("agent", t, g, {Routed(r) : r \in AgentSends(t, g \cup stray, c)})
  <1> DEFINE p == ActionParams(t, g)
             q == ActionArrives(p)
             read == ReaderOf("agent", Arrival(t, q, FALSE))
  <1> HIDE DEF p, q
  <1>1. g \cup stray = g
    BY DEF Given
  <1>2. AgentSends(t, g \cup stray, c) = {Request("action", p)}
    BY <1>1, KindsApart DEF AgentSends, p
  <1>3. p["action"] = t
    BY DEF p, ActionParams, Arg, ++
  <1>4. Routed(Request("action", p)) = Arrival(t, q, FALSE)
    BY <1>3, RouteTables DEF q
  <1>5. read = Registry[t]
    BY ReaderIs
  <1>6. \A x \in Useful("agent", t, g) : x \in DOMAIN q /\ q[x] = x /\ x \in Registry[t]
    <2>1. CASE t = "click_at"
      <3>1. g \subseteq {"x", "y", "button", "double"}
        BY <2>1, OthersServe DEF Given, Takes, Tool
      <3>2. p = Arg("action", t) ++ Keep(g, {"x", "y", "button", "double"})
        BY <2>1 DEF p, ActionParams
      <3>3. \A x \in g : x \in DOMAIN p /\ p[x] = x
        BY <3>1, <3>2 DEF Arg, ++, Keep, Same
      <3>4. q = [a \in DOMAIN p \cap {"x", "y", "button", "double"} |-> p[a]]
        BY <2>1, <1>3 DEF q, ActionArrives
      <3>5. QED
        BY <2>1, <3>1, <3>3, <3>4, OthersServe DEF Useful
    <2>2. CASE t = "scroll"
      <3>1. Useful("agent", t, g) \subseteq {"clicks", "x", "y"}
        BY <2>2, OthersServe DEF Given, Takes, Tool, Useful, Unread
      <3>2. p = Arg("action", t) ++ Keep(g, {"x", "y", "clicks"})
        BY <2>2 DEF p, ActionParams
      <3>3. \A x \in Useful("agent", t, g) : x \in DOMAIN p /\ p[x] = x
        BY <3>1, <3>2 DEF Arg, ++, Keep, Same, Useful
      <3>4. q = [a \in DOMAIN p \cap DOMAIN p |-> p[a]]
        BY <2>2, <1>3 DEF q, ActionArrives
      <3>5. QED
        BY <2>2, <3>1, <3>3, <3>4, OthersServe
    <2>3. CASE t = "type_text"
      <3>1. g \subseteq {"text"}
        BY <2>3, OthersServe DEF Given, Takes, Tool
      <3>2. p["value"] = "text"
        BY <2>3 DEF p, ActionParams, Arg, ++
      <3>3. q = Arg("text", "text")
        BY <2>3, <1>3, <3>2 DEF q, ActionArrives
      <3>4. QED
        BY <2>3, <3>1, <3>3, OthersServe DEF Arg, Useful
    <2>4. CASE t = "press_key"
      <3>1. g \subseteq {"keys"}
        BY <2>4, OthersServe DEF Given, Takes, Tool
      <3>2. p["value"] = "keys"
        BY <2>4 DEF p, ActionParams, Arg, ++
      <3>3. q = Arg("keys", "keys")
        BY <2>4, <1>3, <3>2 DEF q, ActionArrives
      <3>4. QED
        BY <2>4, <3>1, <3>3, OthersServe DEF Arg, Useful
    <2>5. QED
      BY <2>1, <2>2, <2>3, <2>4
  <1>7. MeantFor(t) = {t}
    BY OthersServe
  <1>8. \A x \in Useful("agent", t, g) : x \in DOMAIN q /\ q[x] = x /\ x \in read
    BY <1>5, <1>6
  <1>9. Whole("agent", t, g, {Arrival(t, q, FALSE)})
    BY <1>7, <1>8, OneCallWhole
  <1>10. QED
    BY <1>2, <1>4, <1>9, OneRequest

LEMMA AssertArrives ==
    ASSUME NEW g, NEW stray, NEW c, Given("assert_state", g, stray)
    PROVE  Whole("agent", "assert_state", g,
                 {Routed(r) : r \in AgentSends("assert_state", g \cup stray, c)})
  <1> DEFINE p == Predicate(g)
             a == Arrival("assert_state", p, FALSE)
  <1> HIDE DEF p
  <1>1. g \cup stray = g
    BY DEF Given
  <1>2. AgentSends("assert_state", g \cup stray, c) = {Request("assert_state", p)}
    BY <1>1, KindsApart DEF AgentSends, p
  <1>3. Routed(Request("assert_state", p)) = a
    BY RouteTables DEF LaterRoutes
  <1>4. ReaderOf("agent", a) = {"predicate", "predicates"}
    <2>1. ReaderOf("agent", a) = Registry["assert_state"]
      BY ReaderIs
    <2>2. QED
      BY <2>1, OthersServe
  <1>5. g \subseteq {"predicate", "predicates"} /\ ~ {"predicate", "predicates"} \subseteq g
    BY OthersServe DEF Given, Takes, Tool
  <1>6. ASSUME NEW x \in g PROVE "predicate" \in DOMAIN p /\ p["predicate"] = x
    BY <1>5 DEF p, Predicate, Arg
  <1>7. ASSUME NEW x \in g PROVE Kept("agent", x, {a})
    <2>1. a.args = p
      BY DEF Arrival
    <2>2. "predicate" = x \/ {"predicate", x} = {"predicate", "predicates"}
      BY <1>5
    <2>3. QED
      BY <1>4, <1>6, <2>1, <2>2 DEF Kept
  <1>8. a.tool = "assert_state"
    BY DEF Arrival
  <1> HIDE DEF a
  <1>9. {z.tool : z \in {a}} = {"assert_state"}
    BY <1>8
  <1>10. Whole("agent", "assert_state", g, {a})
    BY <1>7, <1>9, OthersServe DEF Whole
  <1>11. QED
    BY <1>2, <1>3, <1>10, OneRequest

LEMMA ObserveArrives ==
    ASSUME NEW g, NEW stray, NEW c, Given("observe_window", g, stray)
    PROVE  Whole("agent", "observe_window", g,
                 {Routed(r) : r \in AgentSends("observe_window", g \cup stray, c)})
  <1> DEFINE p == WinParams(g, c)
             a == Arrival("get_screen_sketch", p, TRUE)
             b == Arrival("get_screen_description", p, FALSE)
  <1> HIDE DEF p
  <1>1. g \cup stray = g
    BY DEF Given
  <1>2. AgentSends("observe_window", g \cup stray, c)
           = {Request("sketch", p), Request("description", p)}
    BY <1>1 DEF AgentSends, p
  <1>3. Routed(Request("sketch", p)) = a /\ Routed(Request("description", p)) = b
    BY RouteTables DEF QueryRoutes, DirectRoutes
  <1>4. {Routed(r) : r \in AgentSends("observe_window", g \cup stray, c)} = {a, b}
    BY <1>2, <1>3
  <1>5. a.tool = "get_screen_sketch" /\ b.tool = "get_screen_description" /\ b.args = p
    BY DEF Arrival
  <1>6. ReaderOf("agent", b) = Names \cup {"max_tokens", "focus_element"}
    <2>1. ReaderOf("agent", b) = Registry["get_screen_description"]
      BY ReaderIs
    <2>2. QED
      BY <2>1, OthersServe
  <1>7. ASSUME NEW x \in g PROVE Kept("agent", x, {a, b})
    <2>1. x \in Names
      BY OthersServe DEF Given, Takes, Tool, Names, Win
    <2>2. x \in DOMAIN p /\ p[x] = x
      BY <2>1, WindowArrives DEF Given, p
    <2>3. QED
      BY <1>5, <1>6, <2>1, <2>2 DEF Kept
  <1> HIDE DEF a, b
  <1>8. {z.tool : z \in {a, b}} = {"get_screen_sketch", "get_screen_description"}
    BY <1>5
  <1>9. Whole("agent", "observe_window", g, {a, b})
    BY <1>7, <1>8, OthersServe DEF Whole
  <1>10. QED
    BY <1>4, <1>9

LEMMA AgentArrives ==
    ASSUME NEW t \in DOMAIN AgentOffers \ {"call_tool"}, NEW g, NEW stray, NEW c,
           Given(t, g, stray), AgentSends(t, g \cup stray, c) # {}
    PROVE  Whole("agent", t, g, {Routed(r) : r \in AgentSends(t, g \cup stray, c)})
  <1>1. CASE t \in DOMAIN Gets
    BY <1>1, GetArrives, KindsApart
  <1>2. CASE t \in DOMAIN Posts
    BY <1>2, PostArrives
  <1>3. CASE t \in DOMAIN Picks
    BY <1>3, PickArrives
  <1>4. CASE t \in {"click_at", "type_text", "press_key", "scroll"}
    BY <1>4, ActionArrivesWhole
  <1>5. CASE t = "assert_state"
    BY <1>5, AssertArrives
  <1>6. CASE t = "observe_window"
    BY <1>6, ObserveArrives
  <1>7. QED
    BY <1>1, <1>2, <1>3, <1>4, <1>5, <1>6, OffersSplit

LEMMA McpArrivesWhole ==
    ASSUME NEW t \in DOMAIN McpOffers, NEW g, g \subseteq Takes(McpOffers[t])
    PROVE  Whole("mcp", t, g, {McpArrives(t, g)})
  <1> DEFINE p == Same(g)
             d == t \notin DOMAIN Registry
             read == ReaderOf("mcp", Arrival(t, p, d))
  <1> HIDE DEF p, d
  <1>1. McpArrives(t, g) = Arrival(t, p, d)
    BY DEF McpArrives, p, d
  <1>2. read = IF t \in DOMAIN Registry THEN Registry[t] ELSE McpDirect[t]
    BY DEF d, ReaderOf, Arrival
  <1>3. ASSUME NEW x \in Useful("mcp", t, g)
        PROVE  x \in DOMAIN p /\ p[x] = x /\ x \in read
    <2>1. x \in Useful("mcp", t, Takes(McpOffers[t])) /\ x \in g
      BY DEF Useful
    <2>2. x \in read
      BY <1>2, <2>1, McpServe
    <2>3. x \in DOMAIN p /\ p[x] = x
      BY <2>1 DEF p, Same
    <2>4. QED
      BY <2>2, <2>3
  <1>4. d \in BOOLEAN
    BY DEF d
  <1>5. Whole("mcp", t, g, {Arrival(t, p, d)})
    BY <1>3, <1>4, OneCallWhole
  <1>6. QED
    BY <1>1, <1>5

LEMMA ConsoleArrivesWhole ==
    ASSUME NEW t \in DOMAIN Registry, NEW g, g \subseteq Registry[t]
    PROVE  Whole("console", t, g, {Arrival(t, Same(g), FALSE)})
  <1> DEFINE p == Same(g)
             read == ReaderOf("console", Arrival(t, p, FALSE))
  <1>1. read = Registry[t]
    BY ReaderIs
  <1>2. \A x \in Useful("console", t, g) : x \in DOMAIN p /\ p[x] = x /\ x \in read
    BY <1>1 DEF Useful, Same
  <1> HIDE DEF p
  <1>3. Whole("console", t, g, {Arrival(t, p, FALSE)})
    BY <1>2, OneCallWhole
  <1>4. QED
    BY <1>3 DEF p

(* The requests on their way are those of the call that was made. *)
SentIsTheCall ==
    stage = "sent" =>
       /\ surface = "agent"
       /\ tool \in DOMAIN AgentOffers \ {"call_tool"}
       /\ \E chosen \in Chosen, stray \in SUBSET {"x", "y"} :
             /\ Given(tool, given, stray)
             /\ sent = AgentSends(tool, given \cup stray, chosen)
ArrivedWhole ==
    stage = "arrived" /\ arrived # {} => Whole(surface, tool, given, arrived)
SurfaceInv == SentIsTheCall /\ ArrivedWhole

(* What Givable allows, for any number of optional arguments. *)
LEMMA GivableIs ==
    ASSUME NEW offer, NEW g \in Givable(offer),
           offer.needs \cap Names = {} \/ offer.may \cap Names = {},
           \A a, b \in offer.needs \cap Names : a = b,
           offer.needs \cap {"predicate", "predicates"} = {}
    PROVE  /\ offer.needs \subseteq g /\ g \subseteq Takes(offer)
           /\ OneName(g)
           /\ ~ {"predicate", "predicates"} \subseteq g
  <1>1. PICK x \in SUBSET offer.may :
           /\ g = offer.needs \cup x
           /\ Cardinality(x \cap Names) <= 1
           /\ ~ {"predicate", "predicates"} \subseteq x
    BY DEF Givable
  <1>2. \A a, b \in x \cap Names : a = b
    <2>1. IsFiniteSet(Names)
      <3>1. Names = {"window_uid", "window_index", "window_title"}
        BY DEF Names, Win
      <3>2. IsFiniteSet({"window_uid"}) /\ IsFiniteSet({"window_index"})
            /\ IsFiniteSet({"window_title"})
        BY FS_Singleton
      <3>3. IsFiniteSet({"window_uid"} \cup {"window_index"} \cup {"window_title"})
        BY <3>2, FS_Union
      <3>4. {"window_uid"} \cup {"window_index"} \cup {"window_title"} = Names
        BY <3>1
      <3>5. QED
        BY <3>3, <3>4
    <2>2. IsFiniteSet(x \cap Names)
      BY <2>1, FS_Subset
    <2>3. SUFFICES ASSUME NEW a \in x \cap Names, NEW b \in x \cap Names, a # b PROVE FALSE
      OBVIOUS
    <2>4. IsFiniteSet({a, b}) /\ Cardinality({a, b}) = 2
      <3>1. IsFiniteSet({a}) /\ Cardinality({a}) = 1
        BY FS_Singleton
      <3>2. IsFiniteSet({a} \cup {b}) /\ Cardinality({a} \cup {b}) = 2
        <4>1. b \notin {a}
          BY <2>3
        <4>2. /\ IsFiniteSet({a} \cup {b})
              /\ Cardinality({a} \cup {b}) = Cardinality({a}) + 1
          BY Zenon, <3>1, <4>1, FS_AddElement
        <4>3. QED  BY <3>1, <4>2
      <3>3. {a} \cup {b} = {a, b}
        OBVIOUS
      <3>4. QED
        BY <3>2, <3>3
    <2>5. Cardinality({a, b}) <= Cardinality(x \cap Names)
      BY <2>2, FS_Subset
    <2>6. Cardinality(x \cap Names) \in Nat
      BY <2>2, FS_CardinalityType
    <2>7. QED
      BY <1>1, <2>4, <2>5, <2>6
  <1>3. OneName(g)
    BY <1>1, <1>2 DEF OneName
  <1>4. QED
    BY <1>1, <1>3 DEF Takes

LEMMA NeedsFit ==
    ASSUME NEW t \in DOMAIN AgentOffers
    PROVE  /\ AgentOffers[t].needs \cap Names = {} \/ AgentOffers[t].may \cap Names = {}
           /\ \A a, b \in AgentOffers[t].needs \cap Names : a = b
           /\ AgentOffers[t].needs \cap {"predicate", "predicates"} = {}
  <1> DEFINE Fits(o) ==
          /\ o.needs \cap Names = {} \/ o.may \cap Names = {}
          /\ \A a, b \in o.needs \cap Names : a = b
          /\ o.needs \cap {"predicate", "predicates"} = {}
  <1> USE DEF Names, Win, Elem, Grid, Tool, Bare
  <1>1. ASSUME t \in DOMAIN AgentReads PROVE Fits(AgentReads[t])
    BY <1>1 DEF AgentReads
  <1>2. ASSUME t \in DOMAIN AgentPointer PROVE Fits(AgentPointer[t])
    BY <1>2 DEF AgentPointer
  <1>3. ASSUME t \in DOMAIN AgentComposites PROVE Fits(AgentComposites[t])
    BY <1>3 DEF AgentComposites
  <1>4. ASSUME t \in DOMAIN AgentVerbs PROVE Fits(AgentVerbs[t])
    BY <1>4 DEF AgentVerbs
  <1>5. ASSUME t \in DOMAIN AgentMotions PROVE Fits(AgentMotions[t])
    BY <1>5 DEF AgentMotions
  <1>6. ASSUME t \in DOMAIN AgentWaits PROVE Fits(AgentWaits[t])
    BY <1>6 DEF AgentWaits
  <1>7. ASSUME t \in DOMAIN AgentRecords PROVE Fits(AgentRecords[t])
    BY <1>7 DEF AgentRecords
  <1>8. ASSUME t \in DOMAIN AgentOthers PROVE Fits(AgentOthers[t])
    BY <1>8 DEF AgentOthers
  <1> HIDE DEF Fits
  <1>9. Fits(AgentOffers[t])
    BY <1>1, <1>2, <1>3, <1>4, <1>5, <1>6, <1>7, <1>8, AgentTables
  <1>10. QED
    BY <1>9 DEF Fits

LEMMA WholeIsWhole ==
    ASSUME ArrivedWhole
    PROVE  CallsArriveWhole
  <1> DEFINE Promised == LET promised == Basic \cup UNION {Keywords[k] : k \in DOMAIN Keywords}
                         IN  Sendable(promised) = promised
  <1>1. Promised
    BY PromisesHeld
  <1>2. ASSUME stage = "arrived", arrived # {}
        PROVE  /\ {a.tool : a \in arrived} = Meant
               /\ \A a \in arrived :
                     a.tool \in DOMAIN VerbReads \cup DOMAIN PointReads => a.tool \in InputTools
               /\ \A g \in given : <<surface, tool, g>> \notin Unread =>
                     \E a \in arrived : \E n \in DOMAIN a.args \cap ReadBy(a) :
                        a.args[n] = g /\ (n = g \/ {n, g} = {"predicate", "predicates"})
    <2>1. Whole(surface, tool, given, arrived)
      BY <1>2 DEF ArrivedWhole
    <2>2. Meant = IF surface = "agent" THEN MeantFor(tool) ELSE {tool}
      BY DEF Meant, MeantFor
    <2>3. {a.tool : a \in arrived} = Meant
      BY <2>1, <2>2 DEF Whole
    <2>4. \A a : ReadBy(a) = ReaderOf(surface, a)
      BY DEF ReadBy, ReaderOf
    <2>5. \A g \in given : <<surface, tool, g>> \notin Unread => Kept(surface, g, arrived)
      BY <2>1 DEF Whole
    <2>6. \A g \in given : <<surface, tool, g>> \notin Unread =>
             \E a \in arrived : \E n \in DOMAIN a.args \cap ReadBy(a) :
                a.args[n] = g /\ (n = g \/ {n, g} = {"predicate", "predicates"})
      BY <2>4, <2>5 DEF Kept
    <2>7. QED
      BY <2>3, <2>6, ActsAreKnown
  <1> HIDE DEF Promised
  <1>3. QED
    BY <1>1, <1>2 DEF CallsArriveWhole, Promised

LEMMA SurfaceInvStep == SurfaceInv /\ [SurfaceNext]_surfaceVars => SurfaceInv'
  <1> SUFFICES ASSUME SurfaceInv, [SurfaceNext]_surfaceVars PROVE SurfaceInv'
    OBVIOUS
  <1>1. CASE AgentCalls
    <2>1. PICK t \in DOMAIN AgentOffers \ {"call_tool"}, chosen \in Chosen :
          \E g \in Givable(AgentOffers[t]), stray \in SUBSET {"x", "y"} :
            /\ stray # {} => t = "hover_element" /\ g \cap {"selector", "element_id"} # {}
            /\ tool' = t /\ given' = g
            /\ sent' = AgentSends(t, g \cup stray, chosen)
      BY <1>1 DEF AgentCalls
    <2>2. PICK g \in Givable(AgentOffers[t]), stray \in SUBSET {"x", "y"} :
            /\ stray # {} => t = "hover_element" /\ g \cap {"selector", "element_id"} # {}
            /\ tool' = t /\ given' = g
            /\ sent' = AgentSends(t, g \cup stray, chosen)
      BY <2>1
    <2>3. stage' = "sent" /\ surface' = "agent"
      BY <1>1 DEF AgentCalls
    <2>4. /\ AgentOffers[t].needs \subseteq g /\ g \subseteq Takes(AgentOffers[t])
          /\ OneName(g)
          /\ ~ {"predicate", "predicates"} \subseteq g
      BY NeedsFit, GivableIs
    <2>5. Given(t, g, stray)
      BY <2>2, <2>4 DEF Given
    <2>6. SentIsTheCall'
      BY <2>1, <2>2, <2>3, <2>5 DEF SentIsTheCall
    <2>7. ArrivedWhole'
      BY <2>3 DEF ArrivedWhole
    <2>8. QED
      BY <2>6, <2>7 DEF SurfaceInv
  <1>2. CASE ConsoleCalls
    <2>1. PICK t \in DOMAIN Registry : \E g \in Givable(Tool({}, Registry[t])) :
            /\ tool' = t /\ given' = g
            /\ arrived' = {Arrival(t, Same(g), FALSE)}
      BY <1>2 DEF ConsoleCalls
    <2>2. PICK g \in Givable(Tool({}, Registry[t])) :
            /\ tool' = t /\ given' = g
            /\ arrived' = {Arrival(t, Same(g), FALSE)}
      BY <2>1
    <2>3. stage' = "arrived" /\ surface' = "console"
      BY <1>2 DEF ConsoleCalls
    <2>4. g \subseteq Registry[t]
      BY DEF Givable, Tool
    <2>5. Whole("console", t, g, {Arrival(t, Same(g), FALSE)})
      BY <2>4, ConsoleArrivesWhole
    <2>6. QED
      BY <2>2, <2>3, <2>5 DEF SurfaceInv, SentIsTheCall, ArrivedWhole
  <1>3. CASE McpCalls
    <2>1. PICK t \in DOMAIN McpOffers : \E g \in Givable(McpOffers[t]) :
            /\ tool' = t /\ given' = g
            /\ arrived' = {McpArrives(t, g)}
      BY <1>3 DEF McpCalls
    <2>2. PICK g \in Givable(McpOffers[t]) :
            /\ tool' = t /\ given' = g
            /\ arrived' = {McpArrives(t, g)}
      BY <2>1
    <2>3. stage' = "arrived" /\ surface' = "mcp"
      BY <1>3 DEF McpCalls
    <2>4. g \subseteq Takes(McpOffers[t])
      BY DEF Givable, Takes
    <2>5. Whole("mcp", t, g, {McpArrives(t, g)})
      BY <2>4, McpArrivesWhole
    <2>6. QED
      BY <2>2, <2>3, <2>5 DEF SurfaceInv, SentIsTheCall, ArrivedWhole
  <1>4. CASE RestServes
    <2>1. /\ surface = "agent" /\ tool \in DOMAIN AgentOffers \ {"call_tool"}
          /\ stage' = "arrived" /\ surface' = surface /\ tool' = tool /\ given' = given
          /\ arrived' = {Routed(r) : r \in sent}
      BY <1>4 DEF RestServes, SurfaceInv, SentIsTheCall
    <2>2. PICK chosen \in Chosen, stray \in SUBSET {"x", "y"} :
            /\ Given(tool, given, stray)
            /\ sent = AgentSends(tool, given \cup stray, chosen)
      BY <1>4 DEF RestServes, SurfaceInv, SentIsTheCall
    <2>3. sent # {} => Whole("agent", tool, given, {Routed(r) : r \in sent})
      BY <2>1, <2>2, AgentArrives
    <2>4. sent = {} => arrived' = {}
      BY <2>1
    <2>5. QED
      BY <2>1, <2>3, <2>4 DEF SurfaceInv, SentIsTheCall, ArrivedWhole
  <1>5. CASE NextCall
    BY <1>5 DEF NextCall, SurfaceInv, SentIsTheCall, ArrivedWhole
  <1>6. CASE UNCHANGED surfaceVars
    BY <1>6 DEF surfaceVars, SurfaceInv, SentIsTheCall, ArrivedWhole
  <1>7. QED
    BY <1>1, <1>2, <1>3, <1>4, <1>5, <1>6 DEF SurfaceNext

(* Every call of the agent, of an MCP client and of the console reaches the   *)
(* tool it names with every argument it was given, however many optional ones  *)
(* are given at once and whether or not a window is chosen on the console.     *)
THEOREM CallsReachTheirTools == SurfaceSpec => []CallsArriveWhole
  <1>1. SurfaceInit => SurfaceInv
    BY DEF SurfaceInit, SurfaceInv, SentIsTheCall, ArrivedWhole
  <1>2. SurfaceInv /\ [SurfaceNext]_surfaceVars => SurfaceInv'
    BY SurfaceInvStep
  <1>3. SurfaceInv => CallsArriveWhole
    BY WholeIsWhole DEF SurfaceInv
  <1>4. QED
    BY <1>1, <1>2, <1>3, PTL DEF SurfaceSpec
===============================================================================
