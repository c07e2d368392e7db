-------------------------------- MODULE Traces --------------------------------
(***************************************************************************)
(* Trace recording: the tools trace_start and trace_stop, and the hook of    *)
(* tools.dispatch that appends a row for every other tool call.              *)
(* session.active_trace is read and written with no lock; the handle has one *)
(* lock for its counter and one for its file, and a plain flag "closed".     *)
(***************************************************************************)
EXTENDS Naturals, Sequences, FiniteSets

CONSTANTS
    Workers,     \* threads that run tool calls
    Traces,      \* the trace ids start() may produce, never twice
    NoTrace,     \* active_trace is None
    MaxRows      \* bound on the rows of a trace, for model checking

ASSUME TraceAssumption ==
    /\ NoTrace \notin Traces
    /\ MaxRows \in Nat

VARIABLES
    active,      \* session.active_trace
    closed,      \* TraceHandle.closed
    counter,     \* TraceHandle.counter.value
    file,        \* trace.jsonl: header, rows and footers in the order written
    promised,    \* ghost: the trace started last, until somebody stops one;
                 \* none when a trace_stop was under way as it started
    rivals,      \* ghost: the other calls of trace_start and trace_stop that were
                 \* under way as the session was given its trace
    pc, hold, seq  \* per worker: next step, the handle in hand, its trace_seq

vars == <<active, closed, counter, file, promised, rivals, pc, hold, seq>>

Open(h) == h # NoTrace /\ ~ closed[h]

Header    == [kind |-> "header", n |-> 0]
Row(n)    == [kind |-> "row", n |-> n]
Footer(n) == [kind |-> "footer", n |-> n]
Write(h, r) == file' = [file EXCEPT ![h] = Append(@, r)]

Init ==
    /\ active = NoTrace
    /\ closed = [h \in Traces |-> FALSE]
    /\ counter = [h \in Traces |-> 0]
    /\ file = [h \in Traces |-> <<>>]
    /\ promised = NoTrace
    /\ rivals = {}
    /\ pc = [p \in Workers |-> "idle"]
    /\ hold = [p \in Workers |-> NoTrace]
    /\ seq = [p \in Workers |-> 0]

Changing == {"open", "assign", "footer", "close", "clear"}

At(step) == {q \in Workers : pc[q] = step}
Promise(h) == IF At("footer") \cup At("close") \cup At("clear") = {}
              THEN h ELSE NoTrace

(* Bounds: an id is left for every start under way, and a number for every    *)
(* row under way.                                                             *)
IdLeft  == Cardinality(At("open")) < Cardinality({h \in Traces : file[h] = <<>>})
RowLeft ==
    counter[active] + Cardinality(At("count") \cup At("number")) < MaxRows

Go(p, from, to) == pc[p] = from /\ pc' = [pc EXCEPT ![p] = to]
-------------------------------------------------------------------------------
(* Mutant of StartCheck: a trace may be started whatever is open. *)
StartUnchecked(p) ==
    /\ IdLeft
    /\ Go(p, "idle", "open")
    /\ UNCHANGED <<active, closed, counter, file, promised, rivals, hold, seq>>

(* trace_start: refused while the active trace is open. *)
StartCheck(p) ==
    /\ ~ Open(active)
    /\ IdLeft
    /\ Go(p, "idle", "open")
    /\ UNCHANGED <<active, closed, counter, file, promised, rivals, hold, seq>>

(* tracing.start makes the directory and writes the header; only then is the *)
(* handle put into the session.                                              *)
StartOpen(p) ==
    /\ Go(p, "open", "assign")
    /\ \E h \in Traces :
          /\ file[h] = <<>>
          /\ Write(h, Header)
          /\ hold' = [hold EXCEPT ![p] = h]
    /\ UNCHANGED <<active, closed, counter, promised, rivals, seq>>

(* Mutant of StartAssign: the session is not told of the new handle. *)
StartUnassigned(p) ==
    /\ Go(p, "assign", "idle")
    /\ promised' = Promise(hold[p])
    /\ rivals' = rivals \ {p}
    /\ UNCHANGED <<active, closed, counter, file, hold, seq>>

StartAssign(p) ==
    /\ Go(p, "assign", "idle")
    /\ active' = hold[p]
    /\ promised' = Promise(hold[p])
    /\ rivals' = {q \in Workers \ {p} : pc[q] \in Changing}
    /\ UNCHANGED <<closed, counter, file, hold, seq>>

(* trace_stop: the handle is read from the session; a closed one is reported *)
(* as already closed and still cleared.                                      *)
StopRead(p) ==
    /\ active # NoTrace
    /\ Go(p, "idle", IF closed[active] THEN "clear" ELSE "footer")
    /\ hold' = [hold EXCEPT ![p] = active]
    /\ promised' = NoTrace
    /\ UNCHANGED <<active, closed, counter, file, rivals, seq>>

(* "no active trace". *)
StopNothing(p) ==
    /\ pc[p] = "idle"
    /\ active = NoTrace
    /\ promised' = NoTrace
    /\ UNCHANGED <<active, closed, counter, file, rivals, pc, hold, seq>>

StopFooter(p) ==
    /\ Go(p, "footer", "close")
    /\ Write(hold[p], Footer(counter[hold[p]]))
    /\ UNCHANGED <<active, closed, counter, promised, rivals, hold, seq>>

StopClose(p) ==
    /\ Go(p, "close", "clear")
    /\ closed' = [closed EXCEPT ![hold[p]] = TRUE]
    /\ UNCHANGED <<active, counter, file, promised, rivals, hold, seq>>

(* Mutant of StopClear: the session keeps the handle. *)
StopKept(p) ==
    /\ Go(p, "clear", "idle")
    /\ rivals' = rivals \ {p}
    /\ UNCHANGED <<active, closed, counter, file, promised, hold, seq>>

(* sess.active_trace = None, whatever it is by now. *)
StopClear(p) ==
    /\ Go(p, "clear", "idle")
    /\ active' = NoTrace
    /\ rivals' = rivals \ {p}
    /\ UNCHANGED <<closed, counter, file, promised, hold, seq>>

(* dispatch, after the handler: look whether a trace is open, then take       *)
(* screenshots and walk the focused window ...                                *)
HookCheck(p) ==
    /\ Open(active)
    /\ RowLeft
    /\ Go(p, "idle", "count")
    /\ UNCHANGED <<active, closed, counter, file, promised, rivals, hold, seq>>

(* ... then record() on the trace that is active by then.  Without one it     *)
(* raises, which the hook swallows, and a closed one takes no row.            *)
HookMissed(p) ==
    /\ ~ Open(active)
    /\ Go(p, "count", "idle")
    /\ UNCHANGED <<active, closed, counter, file, promised, rivals, hold, seq>>

(* Mutant of HookTake: the trace that was open at the check is taken to be    *)
(* open still.                                                                *)
HookTakeClosed(p) ==
    /\ active # NoTrace
    /\ Go(p, "count", "number")
    /\ hold' = [hold EXCEPT ![p] = active]
    /\ UNCHANGED <<active, closed, counter, file, promised, rivals, seq>>

(* record() finds the trace open ... *)
HookTake(p) ==
    /\ Open(active)
    /\ Go(p, "count", "number")
    /\ hold' = [hold EXCEPT ![p] = active]
    /\ UNCHANGED <<active, closed, counter, file, promised, rivals, seq>>

(* Mutant of HookNumber: the row is numbered before the counter moves. *)
HookNumberLate(p) ==
    LET h == hold[p]
    IN  /\ Go(p, "number", "row")
        /\ counter' = [counter EXCEPT ![h] = @ + 1]
        /\ seq' = [seq EXCEPT ![p] = counter[h]]
        /\ UNCHANGED <<active, closed, file, promised, rivals, hold>>

(* ... numbers its row, although the trace may be closed by now ... *)
HookNumber(p) ==
    LET h == hold[p]
    IN  /\ Go(p, "number", "row")
        /\ counter' = [counter EXCEPT ![h] = @ + 1]
        /\ seq' = [seq EXCEPT ![p] = counter'[h]]
        /\ UNCHANGED <<active, closed, file, promised, rivals, hold>>

(* ... and appends it. *)
HookWrite(p) ==
    /\ Go(p, "row", "idle")
    /\ Write(hold[p], Row(seq[p]))
    /\ UNCHANGED <<active, closed, counter, promised, rivals, hold, seq>>

Next == \E p \in Workers :
    \/ StartCheck(p) \/ StartOpen(p) \/ StartAssign(p)
    \/ StopRead(p) \/ StopNothing(p) \/ StopFooter(p) \/ StopClose(p)
    \/ StopClear(p)
    \/ HookCheck(p) \/ HookMissed(p) \/ HookTake(p) \/ HookNumber(p)
    \/ HookWrite(p)

Spec == Init /\ [][Next]_vars
-------------------------------------------------------------------------------
TypeOK ==
    /\ active \in Traces \cup {NoTrace}
    /\ closed \in [Traces -> BOOLEAN]
    /\ counter \in [Traces -> Nat]
    /\ file \in [Traces -> Seq([kind : {"header", "row", "footer"}, n : Nat])]
    /\ promised \in Traces \cup {NoTrace}
    /\ rivals \subseteq Workers
    /\ pc \in [Workers -> {"idle", "open", "assign", "footer", "close", "clear",
                           "count", "number", "row"}]
    /\ hold \in [Workers -> Traces \cup {NoTrace}]
    /\ seq \in [Workers -> Nat]

Rows(h) == {i \in DOMAIN file[h] : file[h][i].kind = "row"}
Written(h) == {file[h][i].n : i \in Rows(h)}
Pending(h) == {p \in Workers : pc[p] = "row" /\ hold[p] = h}

(* Whatever threads record, stop and start at once, a row that was numbered  *)
(* is written exactly once and no two rows of a trace share a number: the    *)
(* numbers written and the numbers under way are 1..counter.                 *)
EveryRowWritten ==
    \A h \in Traces :
       /\ Written(h) \cup {seq[p] : p \in Pending(h)}
             = 1..counter[h]
       /\ Cardinality(Rows(h)) + Cardinality(Pending(h)) = counter[h]

(* Once a trace is closed it stays so, and no call starts to record in it:    *)
(* only the calls that had found it open may still add their one row.         *)
Recording(h) == {p \in Workers : pc[p] \in {"number", "row"} /\ hold[p] = h}
ClosedTracesRest ==
    [][\A h \in Traces :
          closed[h] => closed'[h] /\ Recording(h)' \subseteq Recording(h)]_vars

(* The session never keeps a closed trace once the stop that closed it is    *)
(* over, so recording can always be started again.                           *)
ClosedIsCleared ==
    active # NoTrace /\ closed[active] => \E p \in Workers : pc[p] = "clear"

(* A trace started while no trace_stop was under way is the session's, and   *)
(* open, until somebody stops or starts one: no call that records, and no    *)
(* start that lost the race, takes it away.                                  *)
StartedTraceRecords == promised # NoTrace => active = promised /\ Open(active)

(* An open trace is taken from the session only by a trace_start or a trace_stop  *)
(* that was under way already as the session was given that trace: two starts    *)
(* at once, or a stop of the trace before.  Nothing may close such a trace any   *)
(* more; a call that begins later can orphan none.                                   *)
OnlyRivalsReplace ==
    [][Open(active) /\ active' # active =>
          \E p \in rivals : pc[p] \in {"assign", "clear"} /\ pc'[p] = "idle"]_vars
===============================================================================
