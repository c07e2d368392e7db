------------------------------- MODULE Pipeline -------------------------------
(***************************************************************************)
(* tools.dispatch around the budgets: the allowlist, the step ids that the     *)
(* handlers draw from the session, and the audit line a call leaves when it    *)
(* returns.  Each is under a lock of its own, so the calls of several threads  *)
(* pass one another anywhere between two of them.                             *)
(*                                                                          *)
(* A call to a tool that is not registered is answered at once and changes     *)
(* nothing; it is left out.                                                  *)
(***************************************************************************)
EXTENDS Budgets, FiniteSetsExt

CONSTANTS
    Denied,     \* the kinds of the tools that the allowlist refuses
    MaxSteps,   \* bounds on the step ids drawn and on the calls that raise
    MaxStumbles \* before they draw one, for model checking

ASSUME PipelineAssumption ==
    /\ Denied \subseteq {"element", "coordinate", "capture"}
    /\ {MaxSteps, MaxStumbles} \subseteq Nat

VARIABLES
    drawn,      \* _next - 1: the step ids drawn so far
    lastInput,  \* _last_input_step; 0 for None
    step,       \* per thread: the call's step id and what it is caused by
    seen,       \* per thread: the step of the observation it composed, or 0
    due,        \* per thread: the result still to be audited, or "none"
    lines,      \* the audit lines: [step, input, ok]; step NoId for "?"
    inputs,     \* history: the step ids drawn for input calls,
    denied,     \* for calls the allowlist refused,
    composed,   \* for observations inside another call,
    lost,       \* and for calls whose handler raised
    stumbled    \* history: the calls that raised before they drew an id

stepVars == <<drawn, lastInput, step, inputs>>
bookedVars == <<denied, composed, lost, stumbled>>
auditVars == <<seen, due, lines, bookedVars>>
pipeVars == <<vars, stepVars, auditVars>>

NoId == 0
NoStep == [own |-> NoId, cause |-> 0]
IsInput(k) == k # "capture"

PipeInit ==
    /\ Init
    /\ drawn = 0 /\ lastInput = 0
    /\ step = [p \in Workers |-> NoStep]
    /\ seen = [p \in Workers |-> NoId]
    /\ due = [p \in Workers |-> "none"]
    /\ lines = <<>>
    /\ inputs = {} /\ denied = {} /\ composed = {} /\ lost = {}
    /\ stumbled = 0

(* Mutant of NewStepId: the id is remembered before it is counted up. *)
NewStepIdEarly(p, input) ==
    /\ drawn < MaxSteps
    /\ drawn' = drawn + 1
    /\ lastInput' = IF input THEN drawn ELSE lastInput
    /\ inputs' = IF input THEN inputs \cup {drawn + 1} ELSE inputs
    /\ step' = [step EXCEPT ![p] =
          [own |-> drawn + 1, cause |-> IF input THEN drawn + 1 ELSE lastInput]]

(* _new_step_id: an input call causes itself, any other what came last. *)
NewStepId(p, input) ==
    /\ drawn < MaxSteps
    /\ drawn' = drawn + 1
    /\ lastInput' = IF input THEN drawn + 1 ELSE lastInput
    /\ inputs' = IF input THEN inputs \cup {drawn + 1} ELSE inputs
    /\ step' = [step EXCEPT ![p] =
          [own |-> drawn + 1, cause |-> IF input THEN drawn + 1 ELSE lastInput]]

(* A call the allowlist refuses draws a step id, as an input call if it names an *)
(* input tool, and returns: no budget, no trace, no audit line.                *)
Deny(p) ==
    /\ due[p] = "none" /\ pc[p] = "idle"
    /\ \E k \in Denied : NewStepId(p, IsInput(k))
    /\ denied' = denied \cup {drawn'}
    /\ UNCHANGED <<vars, seen, due, lines, composed, lost, stumbled>>

(* Any other call: its handler draws the id before it asks the gate. *)
Call(p) ==
    /\ due[p] = "none"
    /\ Begin(p)
    /\ NewStepId(p, IsInput(kind'[p]))
    /\ seen' = [seen EXCEPT ![p] = NoId]
    /\ UNCHANGED <<due, lines, bookedVars>>

(* ... unless it raises even before that: a wait_after_ms that is no number. *)
CallStumbles(p) ==
    /\ due[p] = "none" /\ pc[p] = "idle" /\ stumbled < MaxStumbles
    /\ due' = [due EXCEPT ![p] = "raised"]
    /\ stumbled' = stumbled + 1
    /\ UNCHANGED <<vars, stepVars, seen, lines, denied, composed, lost>>

PassGate(p) ==
    /\ Gate(p)
    /\ due' = [due EXCEPT ![p] = IF pc'[p] = "idle" THEN "failed" ELSE @]
    /\ UNCHANGED <<stepVars, seen, lines, bookedVars>>

(* _compose_observe: after its action a composite tool calls observe_window,     *)
(* which draws a step id like any call; dispatch sees none of it.              *)
Observe(p) ==
    /\ pc[p] = "run" /\ IsInput(kind[p]) /\ seen[p] = NoId
    /\ LET own == step[p] IN
          /\ NewStepId(p, FALSE)
          /\ seen' = [seen EXCEPT ![p] = own.own]
    /\ composed' = composed \cup {drawn'}
    /\ UNCHANGED <<vars, due, lines, denied, lost, stumbled>>

(* The handler returns ok. *)
Done(p) ==
    /\ Succeed(p)
    /\ UNCHANGED <<stepVars, auditVars>>

(* It returns an error, with its step id; a composite does not observe then. *)
Break(p) ==
    /\ Fail(p)
    /\ seen[p] = NoId
    /\ due' = [due EXCEPT ![p] = "failed"]
    /\ UNCHANGED <<stepVars, seen, lines, bookedVars>>

(* The step id in a call's own result, whatever it observed since. *)
OwnStep(p) == IF seen[p] = NoId THEN step[p].own ELSE seen[p]

(* It raises, before its action or after: dispatch answers INTERNAL, a result   *)
(* without a step id.                                                        *)
Raise(p) ==
    /\ Fail(p)
    /\ due' = [due EXCEPT ![p] = "raised"]
    /\ lost' = lost \cup {OwnStep(p)}
    /\ UNCHANGED <<stepVars, seen, lines, denied, composed, stumbled>>

Note(p) ==
    /\ NoteAction(p) \/ NoteCapture(p)
    /\ due' = [due EXCEPT ![p] = "ok"]
    /\ UNCHANGED <<stepVars, seen, lines, bookedVars>>

(* The line of a call: its step id is the one its result carries. *)
Line(p) == [step  |-> IF due[p] = "raised" THEN NoId ELSE OwnStep(p),
            input |-> OwnStep(p) \in inputs,
            ok    |-> due[p] = "ok"]

(* The call returns: its step id was a local of its handler. *)
Forget(p) ==
    /\ step' = [step EXCEPT ![p] = NoStep]
    /\ seen' = [seen EXCEPT ![p] = NoId]

(* Mutant of Audit: only results that are ok leave a line. *)
AuditSuccesses(p) ==
    /\ due[p] # "none"
    /\ due' = [due EXCEPT ![p] = "none"]
    /\ lines' = IF due[p] = "ok" THEN Append(lines, Line(p)) ELSE lines
    /\ Forget(p)
    /\ UNCHANGED <<vars, drawn, lastInput, inputs, bookedVars>>

(* AuditLogger.record. *)
Audit(p) ==
    /\ due[p] # "none"
    /\ due' = [due EXCEPT ![p] = "none"]
    /\ lines' = Append(lines, Line(p))
    /\ Forget(p)
    /\ UNCHANGED <<vars, drawn, lastInput, inputs, bookedVars>>

Passes == Tick /\ UNCHANGED <<stepVars, auditVars>>

PipeNext ==
    \/ \E p \in Workers :
          \/ Deny(p) \/ Call(p) \/ CallStumbles(p) \/ PassGate(p)
          \/ Observe(p) \/ Done(p) \/ Break(p) \/ Raise(p)
          \/ Note(p) \/ Audit(p)
    \/ Passes

PipeSpec == PipeInit /\ [][PipeNext]_pipeVars
-------------------------------------------------------------------------------
(* What a result says it is caused by is the newest input call whose step was   *)
(* drawn no later than its own, whichever thread made that call and although    *)
(* it may have been refused since (_StepCounter.next_id).                      *)
CausedByNewestInput ==
    \A p \in Workers : step[p].own # 0 =>
       step[p].cause = Max({0} \cup {i \in inputs : i <= step[p].own})

(* Calls between their first step and their audit line, and those of them that *)
(* have raised.                                                              *)
Open == {p \in Workers : pc[p] \in {"gate", "run", "note"} \/ due[p] # "none"}
Raising == {p \in Workers : due[p] = "raised"}

(* Every step id is accounted for once: in one audit line, in a call under way,  *)
(* in a refusal of the allowlist, in an observation inside another call, or in   *)
(* a call that raised; every call that the allowlist lets through has one line,  *)
(* the raised ones each one without an id; and the lines agree with the budget:  *)
(* its action count is the input calls with a line that says ok and those just   *)
(* noted whose line is still to come.                                         *)
LedgerBalances ==
    LET Lined == {lines[k].step : k \in DOMAIN lines} \ {NoId}
        Nameless == {k \in DOMAIN lines : lines[k].step = NoId}
        Good == {k \in DOMAIN lines : lines[k].ok /\ lines[k].input}
        Noted == {p \in Workers : due[p] = "ok" /\ OwnStep(p) \in inputs}
        own == {OwnStep(p) : p \in Open \ Raising}
    IN  /\ 1 .. drawn = Lined \cup own \cup denied \cup composed \cup lost
        /\ drawn + stumbled = Len(lines) + Cardinality(Open)
                                + Cardinality(denied) + Cardinality(composed)
        /\ Cardinality(lost) + stumbled = Cardinality(Nameless) + Cardinality(Raising)
        /\ actions = Cardinality(Good) + Cardinality(Noted)
===============================================================================
