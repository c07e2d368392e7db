-------------------------------- MODULE Replays --------------------------------
(***************************************************************************)
(* Trace replay: the table of replays behind replay_start, replay_step and   *)
(* replay_stop, and replay.step, which reads a row, dispatches its tool call *)
(* and only then advances.  Neither the table nor a replay has a lock.       *)
(***************************************************************************)
EXTENDS Naturals, Sequences, FiniteSets

CONSTANTS
    Steppers,     \* threads that run tool calls
    Objects,      \* the Replay objects load() may make
    NoReplay,     \* the id is not in _REPLAYS
    Total,        \* the number of rows of a trace
    Modes,        \* among "execute" and "verify"
    OnDivergence  \* among "stop", "warn" and "resume"

ASSUME ReplayAssumption ==
    /\ NoReplay \notin Objects
    /\ Total \in Nat
    /\ IsFiniteSet(Steppers) /\ Steppers # {}
    /\ Modes \subseteq {"execute", "verify"}
    /\ OnDivergence \subseteq {"stop", "warn", "resume"}

VARIABLES
    table,       \* _REPLAYS: the replay of "rep:1", "rep:2", ...
    made,        \* the objects made so far
    mode, onDiv, \* per object, as given to replay_start
    position, finished,
    issued,      \* per object: the rows dispatched, in order
    diverged,    \* per object: the rows whose result differed
    crowded,     \* ghost: the objects two threads have stepped at once
    stage, held, row   \* per worker: next step, the object in hand, its row

replayVars == <<table, made, mode, onDiv, position, finished, issued, diverged,
                crowded>>
stepVars == <<replayVars, stage, held, row>>

Ids == 1..Cardinality(Objects)
Used == {i \in Ids : table[i] # NoReplay}

ReplayInit ==
    /\ table = [i \in Ids |-> NoReplay]
    /\ made = {}
    /\ mode = [o \in Objects |-> "execute"]
    /\ onDiv = [o \in Objects |-> "warn"]
    /\ position = [o \in Objects |-> 0]
    /\ finished = [o \in Objects |-> FALSE]
    /\ issued = [o \in Objects |-> <<>>]
    /\ diverged = [o \in Objects |-> {}]
    /\ crowded = {}
    /\ stage = [p \in Steppers |-> "idle"]
    /\ held = [p \in Steppers |-> NoReplay]
    /\ row = [p \in Steppers |-> 0]
-------------------------------------------------------------------------------
(* replay_start: the id is one more than the number of replays in the table.  *)
Start ==
    /\ \E o \in Objects \ made, m \in Modes, d \in OnDivergence :
          /\ table' = [table EXCEPT ![Cardinality(Used) + 1] = o]
          /\ made' = made \cup {o}
          /\ mode' = [mode EXCEPT ![o] = m]
          /\ onDiv' = [onDiv EXCEPT ![o] = d]
    /\ UNCHANGED <<position, finished, issued, diverged, crowded, stage,
                   held, row>>

(* replay_stop: the id leaves the table; a step under way keeps its object.   *)
Stop(i) ==
    /\ i \in Used
    /\ table' = [table EXCEPT ![i] = NoReplay]
    /\ UNCHANGED <<made, mode, onDiv, position, finished, issued, diverged,
                   crowded, stage, held, row>>

(* replay_step, replay_stop and replay_status of an unknown id: an error.     *)
UnknownId(i) == i \notin Used /\ UNCHANGED stepVars

(* replay.step on a replay with nothing left. *)
StepEnd(i) ==
    LET o == table[i]
    IN  /\ i \in Used
        /\ finished[o] \/ position[o] >= Total
        /\ finished' = [finished EXCEPT ![o] = TRUE]
        /\ UNCHANGED <<table, made, mode, onDiv, position, issued, diverged,
                       crowded, stage, held, row>>

Holding(o) == {p \in Steppers : held[p] = o}
Crowding(o) == IF Holding(o) = {} THEN crowded ELSE crowded \cup {o}

(* Mutant of StepRead: the end of the rows is all that is looked at. *)
StepReadOn(p, i) ==
    LET o == table[i]
    IN  /\ stage[p] = "idle"
        /\ i \in Used
        /\ position[o] < Total
        /\ held' = [held EXCEPT ![p] = o]
        /\ row' = [row EXCEPT ![p] = position[o] + 1]
        /\ stage' = [stage EXCEPT ![p] = "read"]
        /\ crowded' = Crowding(o)
        /\ UNCHANGED <<table, made, mode, onDiv, position, finished, issued,
                       diverged>>

(* replay.step looks the object up and reads the row at the position. *)
StepRead(p, i) ==
    LET o == table[i]
    IN  /\ stage[p] = "idle"
        /\ i \in Used
        /\ ~ finished[o] /\ position[o] < Total
        /\ held' = [held EXCEPT ![p] = o]
        /\ row' = [row EXCEPT ![p] = position[o] + 1]
        /\ stage' = [stage EXCEPT ![p] = "read"]
        /\ crowded' = Crowding(o)
        /\ UNCHANGED <<table, made, mode, onDiv, position, finished, issued,
                       diverged>>

(* The row is re-issued through tools.dispatch. *)
StepIssue(p) ==
    /\ stage[p] = "read"
    /\ issued' = [issued EXCEPT ![held[p]] = Append(@, row[p])]
    /\ stage' = [stage EXCEPT ![p] = "dispatched"]
    /\ UNCHANGED <<table, made, mode, onDiv, position, finished, diverged,
                   crowded, held, row>>

(* What verify mode finds: whether the fields compared differ. *)
Comparisons(o) == IF mode[o] = "verify" THEN BOOLEAN ELSE {FALSE}

(* Mutant of StepAdvance: only a row that matched advances the replay. *)
StepAdvanceMatched(p) ==
    LET o == held[p]
    IN  /\ stage[p] = "dispatched"
        /\ \E differs \in Comparisons(o) :
              /\ diverged' = [diverged EXCEPT ![o] =
                                @ \cup (IF differs THEN {row[p]} ELSE {})]
              /\ position' = [position EXCEPT ![o] =
                                IF differs THEN @ ELSE @ + 1]
              /\ finished' = [finished EXCEPT ![o] =
                                \/ @
                                \/ differs /\ onDiv[o] = "stop"
                                \/ position'[o] >= Total]
        /\ stage' = [stage EXCEPT ![p] = "idle"]
        /\ held' = [held EXCEPT ![p] = NoReplay]
        /\ row' = [row EXCEPT ![p] = 0]
        /\ UNCHANGED <<table, made, mode, onDiv, issued, crowded>>

(* The call is back: compare in verify mode, advance, finish at the end or on *)
(* a divergence that stops.                                                   *)
StepAdvance(p) ==
    LET o == held[p]
    IN  /\ stage[p] = "dispatched"
        /\ \E differs \in Comparisons(o) :
              /\ diverged' = [diverged EXCEPT ![o] =
                                @ \cup (IF differs THEN {row[p]} ELSE {})]
              /\ position' = [position EXCEPT ![o] = @ + 1]
              /\ finished' = [finished EXCEPT ![o] =
                                \/ @
                                \/ differs /\ onDiv[o] = "stop"
                                \/ position'[o] >= Total]
        /\ stage' = [stage EXCEPT ![p] = "idle"]
        /\ held' = [held EXCEPT ![p] = NoReplay]
        /\ row' = [row EXCEPT ![p] = 0]
        /\ UNCHANGED <<table, made, mode, onDiv, issued, crowded>>

ReplayNext ==
    \/ Start
    \/ \E i \in Ids : Stop(i) \/ StepEnd(i) \/ UnknownId(i)
    \/ \E p \in Steppers :
          \/ \E i \in Ids : StepRead(p, i)
          \/ StepIssue(p) \/ StepAdvance(p)

ReplaySpec == ReplayInit /\ [][ReplayNext]_stepVars
-------------------------------------------------------------------------------
UnderWay(o) == {p \in Holding(o) : stage[p] = "dispatched"}

(* Every dispatched row moves the position by one, however many threads step  *)
(* the same replay, so a replay never runs on for ever: the calls dispatched  *)
(* pass the length of the trace by less than one call per thread.             *)
PositionCountsCalls ==
    \A o \in Objects :
       /\ Len(issued[o]) = position[o] + Cardinality(UnderWay(o))
       /\ position[o] + Cardinality(Holding(o)) < Total + Cardinality(Steppers)

(* A replay that no two threads step at once re-issues every row once and in  *)
(* the order recorded ...                                                     *)
EachRowOnce ==
    \A o \in Objects \ crowded : issued[o] = [n \in 1..Len(issued[o]) |-> n]

(* ... and with on_divergence = "stop" issues none once a divergence is       *)
(* recorded, under whatever id it is reached.                                 *)
StopsOnDivergence ==
    [][\A o \in Objects \ crowded' :
          onDiv[o] = "stop" /\ diverged[o] # {} => issued'[o] = issued[o]]_stepVars
===============================================================================
