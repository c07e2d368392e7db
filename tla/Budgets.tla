------------------------------- MODULE Budgets -------------------------------
(***************************************************************************)
(* budgets.BudgetStore between its two callers: _do_element_action asks the  *)
(* gate before it acts, tools.dispatch notes the result afterwards.  Each is *)
(* atomic under the store's lock, and nothing is reserved in between.        *)
(* Coordinate tools, drag and the screenshot tools never ask the gate.       *)
(***************************************************************************)
EXTENDS Naturals, Sequences, FiniteSets

CONSTANTS
    Workers,          \* threads that run tool calls
    Kinds,            \* "element", "coordinate", "capture": calls they make
    MaxActions,       \* max_actions; each limit may be Unlimited
    SessionTicks,     \* max_session_seconds
    PerMinute,        \* actions_per_minute
    Minute,           \* the 60 s of the sliding window, in ticks
    Unlimited,
    NoCall,
    MaxCalls          \* bound on the calls counted, for model checking

Limit == Nat \cup {Unlimited}

ASSUME BudgetAssumption ==
    /\ IsFiniteSet(Workers) /\ Workers # {}
    /\ Kinds \subseteq {"element", "coordinate", "capture"}
    /\ {MaxActions, SessionTicks, PerMinute} \subseteq Limit
    /\ Minute \in Nat
    /\ MaxCalls \in Nat
    /\ Unlimited \notin Nat
    /\ NoCall \notin Kinds

VARIABLES
    actions,       \* actions.used
    screenshots,   \* screenshots.used
    window,        \* action_window: the age of each action noted, oldest first
    elapsed,       \* ticks since started_at, up to SessionTicks
    pc, kind,      \* per thread; NoCall between calls
    succeeded,     \* history: input calls that reported ok, noted or not
    late,          \* history: gated actions noted with max_actions reached
    hasty          \* history: gated actions noted since the minute is full

storeVars == <<actions, screenshots, window, elapsed>>
bookVars == <<succeeded, late, hasty>>
vars == <<storeVars, bookVars, pc, kind>>

(* _Limit.trip. *)
Trips(used, limit) == limit # Unlimited /\ used >= limit

(* The actions of the last minute: popleft() while the oldest is older.  They  *)
(* were noted in this order, so the young ones come last.                     *)
Young == {i \in DOMAIN window : window[i] <= Minute}
Recent == SubSeq(window, Len(window) - Cardinality(Young) + 1, Len(window))

Init ==
    /\ actions = 0
    /\ screenshots = 0
    /\ window = <<>>
    /\ elapsed = 0
    /\ succeeded = 0 /\ late = 0 /\ hasty = 0
    /\ pc = [p \in Workers |-> "idle"]
    /\ kind = [p \in Workers |-> NoCall]

(* The call is over: the budgets know nothing of it any more. *)
Ends(p) ==
    /\ pc' = [pc EXCEPT ![p] = "idle"]
    /\ kind' = [kind EXCEPT ![p] = NoCall]

(* The next call: only the element verbs start at the gate. *)
Begin(p) ==
    /\ pc[p] = "idle"
    /\ actions + screenshots < MaxCalls
    /\ \E k \in Kinds :
          /\ kind' = [kind EXCEPT ![p] = k]
          /\ pc' = [pc EXCEPT ![p] = IF k = "element" THEN "gate" ELSE "run"]
    /\ UNCHANGED <<storeVars, bookVars>>

(* Mutant of Blocked: one action more than the cap still passes. *)
BlockedLate ==
    \/ Trips(elapsed, SessionTicks)
    \/ actions > 0 /\ Trips(actions - 1, MaxActions)
    \/ Trips(Len(Recent), PerMinute)

(* Mutant of Blocked: the sliding window is not asked. *)
BlockedByTotals == Trips(elapsed, SessionTicks) \/ Trips(actions, MaxActions)

(* gate(): session time, then the action count, then the sliding window. *)
Blocked ==
    \/ Trips(elapsed, SessionTicks)
    \/ Trips(actions, MaxActions)
    \/ Trips(Len(Recent), PerMinute)

(* The window is trimmed only once the first two checks have passed. *)
Trimmed ==
    IF \/ Trips(elapsed, SessionTicks) \/ Trips(actions, MaxActions)
       \/ PerMinute = Unlimited
    THEN window ELSE Recent

(* The history of hasty actions starts anew whenever the minute has room.     *)
Hurry(n) == hasty' = IF Trips(Len(Recent)', PerMinute) THEN hasty + n ELSE 0

Gate(p) ==
    /\ pc[p] = "gate"
    /\ \/ Blocked /\ Ends(p)
       \/ ~ Blocked /\ pc' = [pc EXCEPT ![p] = "run"] /\ UNCHANGED kind
    /\ window' = Trimmed
    /\ Hurry(0)
    /\ UNCHANGED <<actions, screenshots, elapsed, succeeded, late>>

(* The handler runs: its result is ok or not. *)
Succeed(p) ==
    /\ pc[p] = "run"
    /\ pc' = [pc EXCEPT ![p] = "note"]
    /\ succeeded' = IF kind[p] = "capture" THEN succeeded ELSE succeeded + 1
    /\ UNCHANGED <<storeVars, late, hasty, kind>>

Fail(p) ==
    /\ pc[p] = "run"
    /\ Ends(p)
    /\ UNCHANGED <<storeVars, bookVars>>

(* note() of a result that is ok; a failed one changes nothing. *)
NoteAction(p) ==
    /\ pc[p] = "note"
    /\ kind[p] # "capture"
    /\ actions' = actions + 1
    /\ window' = IF PerMinute = Unlimited THEN window ELSE Append(window, 0)
    /\ late' = IF kind[p] = "element" /\ Trips(actions, MaxActions)
               THEN late + 1 ELSE late
    /\ Hurry(IF kind[p] = "element" /\ Trips(Len(Recent), PerMinute)
             THEN 1 ELSE 0)
    /\ Ends(p)
    /\ UNCHANGED <<screenshots, elapsed, succeeded>>

NoteCapture(p) ==
    /\ pc[p] = "note"
    /\ kind[p] = "capture"
    /\ screenshots' = screenshots + 1
    /\ Ends(p)
    /\ UNCHANGED <<actions, window, elapsed, bookVars>>

Tick ==
    /\ elapsed' = IF SessionTicks = Unlimited \/ Trips(elapsed, SessionTicks)
                  THEN elapsed ELSE elapsed + 1
    /\ window' = [i \in DOMAIN window |->
                     IF window[i] <= Minute THEN window[i] + 1 ELSE window[i]]
    /\ Hurry(0)
    /\ UNCHANGED <<actions, screenshots, succeeded, late, pc, kind>>

Next ==
    \/ \E p \in Workers :
          \/ Begin(p) \/ Gate(p) \/ Succeed(p) \/ Fail(p)
          \/ NoteAction(p) \/ NoteCapture(p)
    \/ Tick

Spec == Init /\ [][Next]_vars
-------------------------------------------------------------------------------
TypeOK ==
    /\ actions \in Nat
    /\ screenshots \in Nat
    /\ window \in Seq(0..Minute + 1)
    /\ elapsed \in Nat
    /\ {succeeded, late, hasty} \subseteq Nat
    /\ pc \in [Workers -> {"idle", "gate", "run", "note"}]
    /\ kind \in [Workers -> Kinds \cup {NoCall}]

(* Calls whose action is not noted yet, and those of them that asked the gate. *)
InFlight == {p \in Workers : pc[p] \in {"run", "note"} /\ kind[p] # "capture"}
Passed   == {p \in InFlight : kind[p] = "element"}

(* Several threads can pass the gate on one last action.  However the cap is  *)
(* reached, by gated calls or by the coordinate tools that never ask, fewer    *)
(* gated actions than there are threads are counted from then on.             *)
OvershootBounded ==
    Trips(actions, MaxActions) =>
       late + Cardinality(Passed) < Cardinality(Workers)

(* The same holds of the sliding window, at every moment and not only when    *)
(* the gate looks at it: while the last minute has as many actions as it may,  *)
(* fewer gated ones than there are threads are added.                         *)
RateOvershootBounded ==
    Trips(Len(Recent), PerMinute) =>
       hasty + Cardinality(Passed) < Cardinality(Workers)

(* Every input call that succeeded is counted exactly once, and no failed one, *)
(* whoever interleaves.                                                       *)
EveryActionCounted ==
    succeeded =
       actions + Cardinality({p \in InFlight : pc[p] = "note"})
===============================================================================
