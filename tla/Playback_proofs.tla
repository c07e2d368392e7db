---------------------------- MODULE Playback_proofs ----------------------------
(***************************************************************************)
(* What is recorded and what is played back: traces, their replay, and the    *)
(* desktop that a scenario scripts, with the waits of its clients.            *)
(*                                                                          *)
(* Traces, for any number of threads: a closed trace takes on no new          *)
(* recorder, the session does not stay with a closed trace, a trace started   *)
(* in peace is the one that records, an open one is taken from the session only  *)
(* by a call that was under way before, and every row numbered is written once.  *)
(* Replays: the position counts the calls, and a replay no two threads step   *)
(* at once issues its rows once and in order, and none after a divergence     *)
(* that stops it.  The scripted desktop: what wait_for, wait_idle and         *)
(* assert_state promise while it moves under them, for every script, every    *)
(* list of conditions and every timeout, poll, quiet time and duration of a   *)
(* read, and what a script of a login lets through.                          *)
(***************************************************************************)
EXTENDS Traces, Replays, MockDesk, DataLemmas, FiniteSetTheorems, TLAPS

-------------------------------------------------------------------------------
(* Traces. *)

Line == [kind : {"header", "row", "footer"}, n : Nat]

LEMMA LinesWritten ==
    /\ Header \in Line
    /\ \A n \in Nat : Row(n) \in Line /\ Footer(n) \in Line
  BY DEF Header, Row, Footer, Line

(* A write keeps the type of the files and leaves no file it met empty.      *)
LEMMA WriteProperties ==
    ASSUME file \in [Traces -> Seq(Line)], NEW h \in Traces, NEW r \in Line,
           Write(h, r)
    PROVE  /\ file' \in [Traces -> Seq(Line)]
           /\ \A g \in Traces : file[g] # <<>> \/ g = h => file'[g] # <<>>
  <1>1. file' = [file EXCEPT ![h] = Append(file[h], r)]
    BY DEF Write
  <1>2. Append(file[h], r) \in Seq(Line) /\ Len(Append(file[h], r)) > 0
    <2>1. file[h] \in Seq(Line)
      OBVIOUS
    <2>2. Len(Append(file[h], r)) = Len(file[h]) + 1 /\ Len(file[h]) \in Nat
      BY <2>1
    <2>3. QED  BY <2>1, <2>2
  <1>3. Append(file[h], r) # <<>>
    <2> DEFINE longer == Append(file[h], r)
    <2>1. Len(longer) > 0 /\ Len(<<>>) = 0
      BY <1>2
    <2> HIDE DEF longer
    <2>2. longer # <<>>
      BY <2>1
    <2>3. QED  BY <2>2 DEF longer
  <1>4. file' \in [Traces -> Seq(Line)]
    BY <1>1, <1>2
  <1>5. ASSUME NEW g \in Traces, file[g] # <<>> \/ g = h
        PROVE  file'[g] # <<>>
    BY <1>1, <1>3, <1>5
  <1>6. QED  BY <1>4, <1>5

Stopping == At("footer") \cup At("close") \cup At("clear")

(* What a thread's place says of the handle it holds: between trace_start's   *)
(* two assignments the new handle is open and nobody else knows of it.        *)
ThreadInv(p) ==
    /\ pc[p] \in {"assign", "footer", "close", "clear", "number", "row"} =>
          hold[p] \in Traces
    /\ hold[p] # NoTrace => file[hold[p]] # <<>>
    /\ pc[p] = "assign" =>
          /\ ~ closed[hold[p]]
          /\ active # hold[p]
          /\ \A q \in Workers \ {p} : hold[q] # hold[p]

SessionInv ==
    /\ active # NoTrace => file[active] # <<>>
    /\ \A h \in Traces : closed[h] => file[h] # <<>>
    /\ ClosedIsCleared
    /\ promised # NoTrace => /\ active = promised /\ ~ closed[promised]
                             /\ Stopping = {}

IInv == TypeOK /\ SessionInv /\ \A p \in Workers : ThreadInv(p)

LEMMA InitIInv == Init => IInv
  <1> SUFFICES ASSUME Init PROVE IInv
    OBVIOUS
  <1>1. TypeOK
    BY DEF Init, TypeOK
  <1>2. SessionInv
    BY TraceAssumption DEF Init, SessionInv, ClosedIsCleared
  <1>3. \A p \in Workers : ThreadInv(p)
    BY TraceAssumption DEF Init, ThreadInv
  <1>4. QED  BY <1>1, <1>2, <1>3 DEF IInv
LEMMA NextIInv == IInv /\ [Next]_vars => IInv'
  <1> SUFFICES ASSUME IInv, [Next]_vars PROVE IInv'
    OBVIOUS
  <1>0. TypeOK /\ SessionInv /\ (\A p \in Workers : ThreadInv(p))
    BY DEF IInv
  <1>1. ASSUME NEW p \in Workers, StartCheck(p) PROVE IInv'
    <2>1. TypeOK'
      BY <1>1, <1>0 DEF StartCheck, Go, TypeOK
    <2>2. SessionInv'
      BY <1>1, <1>0 DEF StartCheck, Go, TypeOK, SessionInv, ClosedIsCleared,
                        Stopping, At
    <2>3. ASSUME NEW q \in Workers PROVE ThreadInv(q)'
      BY <1>1, <1>0 DEF StartCheck, Go, TypeOK, ThreadInv
    <2>4. QED  BY <2>1, <2>2, <2>3 DEF IInv
  <1>2. ASSUME NEW p \in Workers, StartOpen(p) PROVE IInv'
    <2>1. PICK h \in Traces : /\ file[h] = <<>> /\ Write(h, Header)
                              /\ hold' = [hold EXCEPT ![p] = h]
      BY <1>2 DEF StartOpen
    <2>2. /\ pc[p] = "open" /\ pc' = [pc EXCEPT ![p] = "assign"]
          /\ UNCHANGED <<active, closed, counter, promised, rivals, seq>>
      BY <1>2 DEF StartOpen, Go
    <2>3. /\ file' \in [Traces -> Seq(Line)]
          /\ \A g \in Traces : file[g] # <<>> \/ g = h => file'[g] # <<>>
      BY <2>1, <1>0, LinesWritten, WriteProperties DEF TypeOK, Line
    <2>4. TypeOK'
      BY <2>1, <2>2, <2>3, <1>0 DEF TypeOK, Line
    <2>5. SessionInv'
      BY <2>2, <2>3, <1>0 DEF TypeOK, SessionInv, ClosedIsCleared, Stopping, At
    <2>6. ASSUME NEW q \in Workers PROVE ThreadInv(q)'
      <3>1. \A r \in Workers : hold[r] # h
        BY <2>1, <1>0, TraceAssumption DEF ThreadInv
      <3>2. active # h /\ ~ closed[h]
        BY <2>1, <1>0, TraceAssumption DEF SessionInv
      <3>3. CASE q = p
        BY <3>1, <3>2, <3>3, <2>1, <2>2, <2>3, <1>0 DEF TypeOK, ThreadInv
      <3>4. CASE q # p
        BY <3>1, <3>2, <3>4, <2>1, <2>2, <2>3, <1>0 DEF TypeOK, ThreadInv
      <3>5. QED  BY <3>3, <3>4
    <2>7. QED  BY <2>4, <2>5, <2>6 DEF IInv
  <1>3. ASSUME NEW p \in Workers, StartAssign(p) PROVE IInv'
    <2>1. /\ pc[p] = "assign" /\ pc' = [pc EXCEPT ![p] = "idle"]
          /\ active' = hold[p] /\ promised' = Promise(hold[p])
          /\ rivals' \subseteq Workers
          /\ UNCHANGED <<closed, counter, file, hold, seq>>
      BY <1>3 DEF StartAssign, Go
    <2>2. hold[p] \in Traces /\ ~ closed[hold[p]] /\ file[hold[p]] # <<>>
          /\ \A q \in Workers \ {p} : hold[q] # hold[p]
      BY <2>1, <1>0, TraceAssumption DEF ThreadInv
    <2>3. TypeOK'
      BY <2>1, <2>2, <1>0 DEF TypeOK, Promise
    <2>4. Stopping' = Stopping
      BY <2>1, <1>0 DEF TypeOK, Stopping, At
    <2>5. promised' # NoTrace => promised' = hold[p] /\ Stopping = {}
      BY <2>1 DEF Promise, Stopping
    <2>6. SessionInv'
      BY <2>1, <2>2, <2>4, <2>5, <1>0 DEF TypeOK, SessionInv, ClosedIsCleared
    <2>7. ASSUME NEW q \in Workers PROVE ThreadInv(q)'
      BY <2>1, <2>2, <1>0 DEF TypeOK, ThreadInv
    <2>8. QED  BY <2>3, <2>6, <2>7 DEF IInv
  <1>4. ASSUME NEW p \in Workers, StopRead(p) PROVE IInv'
    <2>1. /\ active # NoTrace /\ pc[p] = "idle"
          /\ pc' = [pc EXCEPT ![p] = IF closed[active] THEN "clear" ELSE "footer"]
          /\ hold' = [hold EXCEPT ![p] = active]
          /\ promised' = NoTrace
          /\ UNCHANGED <<active, closed, counter, file, rivals, seq>>
      BY <1>4 DEF StopRead, Go
    <2>2. TypeOK'
      BY <2>1, <1>0 DEF TypeOK
    <2>3. SessionInv'
      BY <2>1, <1>0 DEF TypeOK, SessionInv, ClosedIsCleared
    <2>4. ASSUME NEW q \in Workers PROVE ThreadInv(q)'
      BY <2>1, <1>0 DEF TypeOK, ThreadInv, SessionInv
    <2>5. QED  BY <2>2, <2>3, <2>4 DEF IInv
  <1>5. ASSUME NEW p \in Workers, StopNothing(p) PROVE IInv'
    <2>1. TypeOK'
      BY <1>5, <1>0 DEF StopNothing, TypeOK
    <2>2. SessionInv'
      BY <1>5, <1>0 DEF StopNothing, SessionInv, ClosedIsCleared
    <2>3. ASSUME NEW q \in Workers PROVE ThreadInv(q)'
      BY <1>5, <1>0 DEF StopNothing, ThreadInv
    <2>4. QED  BY <2>1, <2>2, <2>3 DEF IInv
  <1>6. ASSUME NEW p \in Workers, NEW h \in Traces, NEW r \in Line,
               NEW from \in {"footer", "row"}, NEW to \in {"close", "idle"},
               from = "footer" => to = "close",
               from = "row" => to = "idle",
               h = hold[p], Write(h, r), Go(p, from, to),
               UNCHANGED <<active, closed, counter, promised, rivals, hold, seq>>
        PROVE  IInv'
    <2>1. /\ file' \in [Traces -> Seq(Line)]
          /\ \A g \in Traces : file[g] # <<>> \/ g = h => file'[g] # <<>>
      BY <1>6, <1>0, WriteProperties DEF TypeOK, Line
    <2>2. TypeOK'
      BY <1>6, <2>1, <1>0 DEF Go, TypeOK, Line
    <2>3. Stopping = {} => Stopping' = {}
      BY <1>6, <1>0 DEF Go, TypeOK, Stopping, At
    <2>4. SessionInv'
      BY <1>6, <2>1, <2>3, <1>0 DEF Go, TypeOK, SessionInv, ClosedIsCleared
    <2>5. ASSUME NEW q \in Workers PROVE ThreadInv(q)'
      BY <1>6, <2>1, <1>0 DEF Go, TypeOK, ThreadInv
    <2>6. QED  BY <2>2, <2>4, <2>5 DEF IInv
  <1>7. ASSUME NEW p \in Workers, StopFooter(p) PROVE IInv'
    <2>1. hold[p] \in Traces /\ counter[hold[p]] \in Nat
      BY <1>7, <1>0 DEF StopFooter, Go, ThreadInv, TypeOK
    <2>2. QED  BY <1>7, <2>1, <1>6, LinesWritten DEF StopFooter
  <1>8. ASSUME NEW p \in Workers, HookWrite(p) PROVE IInv'
    <2>1. hold[p] \in Traces /\ seq[p] \in Nat
      BY <1>8, <1>0 DEF HookWrite, Go, ThreadInv, TypeOK
    <2>2. QED  BY <1>8, <2>1, <1>6, LinesWritten DEF HookWrite
  <1>9. ASSUME NEW p \in Workers, StopClose(p) PROVE IInv'
    <2>1. /\ pc[p] = "close" /\ pc' = [pc EXCEPT ![p] = "clear"]
          /\ closed' = [closed EXCEPT ![hold[p]] = TRUE]
          /\ UNCHANGED <<active, counter, file, promised, rivals, hold, seq>>
      BY <1>9 DEF StopClose, Go
    <2>2. hold[p] \in Traces /\ file[hold[p]] # <<>>
      BY <2>1, <1>0, TraceAssumption DEF ThreadInv
    <2>3. TypeOK'
      BY <2>1, <1>0 DEF TypeOK
    <2>4. p \in Stopping /\ pc'[p] = "clear"
      BY <2>1, <1>0 DEF TypeOK, Stopping, At
    <2>5. SessionInv'
      BY <2>1, <2>2, <2>4, <1>0 DEF TypeOK, SessionInv, ClosedIsCleared
    <2>6. ASSUME NEW q \in Workers PROVE ThreadInv(q)'
      BY <2>1, <2>2, <1>0 DEF TypeOK, ThreadInv
    <2>7. QED  BY <2>3, <2>5, <2>6 DEF IInv
  <1>10. ASSUME NEW p \in Workers, StopClear(p) PROVE IInv'
    <2>1. /\ pc[p] = "clear" /\ pc' = [pc EXCEPT ![p] = "idle"]
          /\ active' = NoTrace /\ rivals' = rivals \ {p}
          /\ UNCHANGED <<closed, counter, file, promised, hold, seq>>
      BY <1>10 DEF StopClear, Go
    <2>2. promised = NoTrace
      BY <2>1, <1>0 DEF SessionInv, Stopping, At
    <2>3. TypeOK'
      BY <2>1, <1>0 DEF TypeOK
    <2>4. SessionInv'
      BY <2>1, <2>2, <1>0 DEF SessionInv, ClosedIsCleared
    <2>5. ASSUME NEW q \in Workers PROVE ThreadInv(q)'
      BY <2>1, <1>0, TraceAssumption DEF TypeOK, ThreadInv
    <2>6. QED  BY <2>3, <2>4, <2>5 DEF IInv
  <1>11. ASSUME NEW p \in Workers, HookCheck(p) \/ HookMissed(p) PROVE IInv'
    <2>1. TypeOK'
      BY <1>11, <1>0 DEF HookCheck, HookMissed, Go, TypeOK
    <2>2. SessionInv'
      BY <1>11, <1>0 DEF HookCheck, HookMissed, Go, TypeOK, SessionInv,
                         ClosedIsCleared, Stopping, At
    <2>3. ASSUME NEW q \in Workers PROVE ThreadInv(q)'
      BY <1>11, <1>0 DEF HookCheck, HookMissed, Go, TypeOK, ThreadInv
    <2>4. QED  BY <2>1, <2>2, <2>3 DEF IInv
  <1>12. ASSUME NEW p \in Workers, HookTake(p) PROVE IInv'
    <2>1. /\ Open(active) /\ pc[p] = "count"
          /\ pc' = [pc EXCEPT ![p] = "number"]
          /\ hold' = [hold EXCEPT ![p] = active]
          /\ UNCHANGED <<active, closed, counter, file, promised, rivals, seq>>
      BY <1>12 DEF HookTake, Go
    <2>2. TypeOK'
      BY <2>1, <1>0 DEF TypeOK
    <2>3. SessionInv'
      BY <2>1, <1>0 DEF TypeOK, SessionInv, ClosedIsCleared, Stopping, At
    <2>4. ASSUME NEW q \in Workers PROVE ThreadInv(q)'
      BY <2>1, <1>0 DEF TypeOK, ThreadInv, SessionInv, Open
    <2>5. QED  BY <2>2, <2>3, <2>4 DEF IInv
  <1>13. ASSUME NEW p \in Workers, HookNumber(p) PROVE IInv'
    <2>1. /\ pc[p] = "number" /\ pc' = [pc EXCEPT ![p] = "row"]
          /\ counter' = [counter EXCEPT ![hold[p]] = counter[hold[p]] + 1]
          /\ seq' = [seq EXCEPT ![p] = counter'[hold[p]]]
          /\ UNCHANGED <<active, closed, file, promised, rivals, hold>>
      BY <1>13 DEF HookNumber, Go
    <2>2. hold[p] \in Traces
      BY <2>1, <1>0 DEF ThreadInv
    <2>3. counter' \in [Traces -> Nat]
      BY <2>1, <2>2, <1>0 DEF TypeOK
    <2>4. TypeOK'
      BY <2>1, <2>2, <2>3, <1>0 DEF TypeOK
    <2>5. SessionInv'
      BY <2>1, <1>0 DEF TypeOK, SessionInv, ClosedIsCleared, Stopping, At
    <2>6. ASSUME NEW q \in Workers PROVE ThreadInv(q)'
      BY <2>1, <1>0 DEF TypeOK, ThreadInv
    <2>7. QED  BY <2>4, <2>5, <2>6 DEF IInv
  <1>14. CASE UNCHANGED vars
    <2>1. TypeOK'
      BY <1>14, <1>0 DEF vars, TypeOK
    <2>2. SessionInv'
      BY <1>14, <1>0 DEF vars, SessionInv, ClosedIsCleared, Stopping, At
    <2>3. ASSUME NEW q \in Workers PROVE ThreadInv(q)'
      BY <1>14, <1>0 DEF vars, ThreadInv
    <2>4. QED  BY <2>1, <2>2, <2>3 DEF IInv
  <1>15. QED
    BY <1>1, <1>2, <1>3, <1>4, <1>5, <1>7, <1>8, <1>9, <1>10, <1>11, <1>12,
       <1>13, <1>14 DEF Next

LEMMA Invariance == Spec => []IInv
  <1>1. QED  BY InitIInv, NextIInv, PTL DEF Spec
-------------------------------------------------------------------------------
(* Handles, files and threads keep their types.                              *)
THEOREM TypeCorrect == Spec => []TypeOK
  <1>1. IInv => TypeOK
    BY DEF IInv
  <1>2. QED  BY <1>1, Invariance, PTL

(* A closed trace leaves the session with the stop that closed it.            *)
THEOREM ClosedTracesLeave == Spec => []ClosedIsCleared
  <1>1. IInv => ClosedIsCleared
    BY DEF IInv, SessionInv
  <1>2. QED  BY <1>1, Invariance, PTL

(* A trace started while no stop was under way records until it is stopped.   *)
THEOREM StartedTracesRecord == Spec => []StartedTraceRecords
  <1>1. IInv => StartedTraceRecords
    BY DEF IInv, SessionInv, StartedTraceRecords, Open
  <1>2. QED  BY <1>1, Invariance, PTL

(* A closed trace stays closed and takes on no new recorder.                  *)
THEOREM ClosedTracesStay == Spec => ClosedTracesRest
  <1>1. IInv /\ [Next]_vars =>
           [\A h \in Traces :
               closed[h] => closed'[h] /\ Recording(h)' \subseteq Recording(h)]_vars
    <2> SUFFICES ASSUME IInv, Next, NEW h \in Traces, closed[h]
                 PROVE  closed'[h] /\ Recording(h)' \subseteq Recording(h)
      BY DEF vars
    <2>0. TypeOK
      BY DEF IInv
    <2>1. closed'[h]
      BY <2>0 DEF Next, StartCheck, StartOpen, StartAssign, StopRead, StopNothing,
                  StopFooter, StopClose, StopClear, HookCheck, HookMissed,
                  HookTake, HookNumber, HookWrite, TypeOK
    <2>2. ASSUME NEW q \in Workers, q \in Recording(h)' PROVE q \in Recording(h)
      <3>1. pc'[q] \in {"number", "row"} /\ hold'[q] = h
        BY <2>2 DEF Recording
      <3>2. pc[q] \in {"number", "row"} /\ hold[q] = h
        BY <3>1, <2>0 DEF Next, StartCheck, StartOpen, StartAssign, StopRead,
                  StopNothing, StopFooter, StopClose, StopClear, HookCheck,
                  HookMissed, HookTake, HookNumber, HookWrite, TypeOK, Go, Open
      <3>3. QED  BY <3>2 DEF Recording
    <2>3. Recording(h)' \subseteq Workers
      BY DEF Recording
    <2>4. QED  BY <2>1, <2>2, <2>3
  <1>2. QED  BY <1>1, Invariance, PTL DEF Spec, ClosedTracesRest
-------------------------------------------------------------------------------
(* The numbers in the file of a trace, and those of the rows under way.       *)
Due(h) == {seq[p] : p \in Pending(h)}

Numbered(h) ==
    /\ IsFiniteSet(Rows(h)) /\ IsFiniteSet(Pending(h))
    /\ Written(h) \cup Due(h) = 1..counter[h]
    /\ Cardinality(Rows(h)) + Cardinality(Pending(h)) = counter[h]

(* A line appended to one trace adds itself to its rows, if it is one.        *)
LEMMA LineAdded ==
    ASSUME file \in [Traces -> Seq(Line)], NEW h \in Traces, NEW r \in Line,
           Write(h, r)
    PROVE  /\ \A g \in Traces \ {h} : Rows(g)' = Rows(g) /\ Written(g)' = Written(g)
           /\ r.kind # "row" => Rows(h)' = Rows(h) /\ Written(h)' = Written(h)
           /\ r.kind = "row" =>
                 \E new : /\ new \notin Rows(h)
                          /\ Rows(h)' = Rows(h) \cup {new}
                          /\ Written(h)' = Written(h) \cup {r.n}
  <1> DEFINE f == file[h]
             new == Len(f) + 1
  <1>1. file' = [file EXCEPT ![h] = Append(f, r)]
    BY DEF Write
  <1>2. \A g \in Traces \ {h} : file'[g] = file[g]
    BY <1>1
  <1>3. /\ f \in Seq(Line) /\ file'[h] = Append(f, r) /\ Len(f) \in Nat
        /\ DOMAIN f = 1 .. Len(f)
    BY <1>1
  <1>4. /\ DOMAIN file'[h] = DOMAIN f \cup {new} /\ new \notin DOMAIN f
        /\ \A i \in DOMAIN f : file'[h][i] = f[i]
        /\ file'[h][new] = r
    BY <1>3
  <1>5. \A g \in Traces \ {h} : Rows(g)' = Rows(g) /\ Written(g)' = Written(g)
    BY <1>2 DEF Rows, Written
  <1>6. ASSUME r.kind # "row"
        PROVE  Rows(h)' = Rows(h) /\ Written(h)' = Written(h)
    <2>1. Rows(h)' = Rows(h)
      BY <1>4, <1>6 DEF Rows
    <2>2. \A i \in Rows(h) : file'[h][i].n = file[h][i].n
      BY <1>4 DEF Rows
    <2> QED BY <2>1, <2>2 DEF Written
  <1>7. ASSUME r.kind = "row"
        PROVE  /\ new \notin Rows(h) /\ Rows(h)' = Rows(h) \cup {new}
               /\ Written(h)' = Written(h) \cup {r.n}
    <2>1. new \notin Rows(h) /\ Rows(h)' = Rows(h) \cup {new}
      BY <1>4, <1>7 DEF Rows
    <2>2. \A i \in Rows(h) : file'[h][i].n = file[h][i].n
      BY <1>4 DEF Rows
    <2>3. file'[h][new].n = r.n
      BY <1>4
    <2>4. Written(h)' = {file'[h][i].n : i \in Rows(h) \cup {new}}
      BY <2>1 DEF Written
    <2>5. {file'[h][i].n : i \in Rows(h) \cup {new}}
             = {file[h][i].n : i \in Rows(h)} \cup {r.n}
      <3> HIDE DEF new
      <3> QED BY <2>2, <2>3
    <2> QED BY <2>1, <2>4, <2>5 DEF Written
  <1> HIDE DEF new
  <1> QED BY <1>5, <1>6, <1>7

(* Where neither the rows nor the numbers under way change, all is as before. *)
LEMMA NumberedSame ==
    ASSUME NEW h \in Traces, Numbered(h), counter'[h] = counter[h],
           Rows(h)' = Rows(h), Written(h)' = Written(h),
           Pending(h)' = Pending(h), \A q \in Pending(h) : seq'[q] = seq[q]
    PROVE  Numbered(h)'
  <1>1. Due(h)' = Due(h)
    BY DEF Due
  <1> QED BY <1>1 DEF Numbered

LEMMA NumberedInit == Init => \A h \in Traces : Numbered(h)
  <1> SUFFICES ASSUME Init, NEW h \in Traces PROVE Numbered(h)
    OBVIOUS
  <1>1. Rows(h) = {} /\ Pending(h) = {}
    BY DEF Init, Rows, Pending
  <1>2. Written(h) = {} /\ Due(h) = {}
    BY <1>1 DEF Written, Due
  <1>3. counter[h] = 0 /\ 1 .. counter[h] = {}
    BY DEF Init
  <1> QED BY <1>1, <1>2, <1>3, FS_EmptySet DEF Numbered

(* The lines that are no rows: trace_start's header and trace_stop's footer.  *)
LEMMA LineOfStep ==
    ASSUME TypeOK, NEW p \in Workers, ThreadInv(p), StartOpen(p) \/ StopFooter(p)
    PROVE  \E g \in Traces, r \in Line : r.kind # "row" /\ Write(g, r)
  <1>1. CASE StartOpen(p)
    BY <1>1, LinesWritten DEF StartOpen, Header
  <1>2. CASE StopFooter(p)
    <2>1. hold[p] \in Traces /\ counter[hold[p]] \in Nat
      BY <1>2 DEF StopFooter, Go, ThreadInv, TypeOK
    <2>2. QED  BY <1>2, <2>1, LinesWritten DEF StopFooter, Footer
  <1>3. QED  BY <1>1, <1>2

LEMMA NumberedNext ==
    IInv /\ (\A h \in Traces : Numbered(h)) /\ [Next]_vars
       => (\A h \in Traces : Numbered(h))'
  <1> SUFFICES ASSUME IInv, \A h \in Traces : Numbered(h), [Next]_vars,
                      NEW h \in Traces
               PROVE  Numbered(h)'
    OBVIOUS
  <1>0. TypeOK /\ (\A p \in Workers : ThreadInv(p)) /\ file \in [Traces -> Seq(Line)]
    BY DEF IInv, TypeOK, Line
  <1>1. ASSUME NEW p \in Workers,
               StartCheck(p) \/ StartAssign(p) \/ StopRead(p) \/ StopNothing(p)
                 \/ StopClose(p) \/ StopClear(p) \/ HookCheck(p) \/ HookMissed(p)
                 \/ HookTake(p)
        PROVE  Numbered(h)'
    <2>1. UNCHANGED <<file, counter, seq>>
      BY <1>1 DEF StartCheck, StartAssign, StopRead, StopNothing, StopClose, StopClear,
                  HookCheck, HookMissed, HookTake
    <2>2. Pending(h)' = Pending(h)
      BY <1>0, <1>1 DEF StartCheck, StartAssign, StopRead, StopNothing, StopClose,
                  StopClear, HookCheck, HookMissed, HookTake, Go, Pending, TypeOK
    <2>3. Rows(h)' = Rows(h) /\ Written(h)' = Written(h)
      BY <2>1 DEF Rows, Written
    <2> QED BY <2>1, <2>2, <2>3, NumberedSame
  <1>2. ASSUME NEW p \in Workers, StartOpen(p) \/ StopFooter(p) PROVE Numbered(h)'
    <2>1. PICK g \in Traces, r \in Line : r.kind # "row" /\ Write(g, r)
      BY <1>0, <1>2, LineOfStep
    <2>2. Rows(h)' = Rows(h) /\ Written(h)' = Written(h)
      BY <1>0, <2>1, LineAdded
    <2>3. UNCHANGED <<counter, seq>> /\ Pending(h)' = Pending(h)
      BY <1>0, <1>2 DEF StartOpen, StopFooter, Go, Pending, TypeOK
    <2> QED BY <2>2, <2>3, NumberedSame
  <1>3. ASSUME NEW p \in Workers, HookNumber(p) PROVE Numbered(h)'
    <2>1. /\ pc[p] = "number" /\ pc' = [pc EXCEPT ![p] = "row"]
          /\ hold[p] \in Traces /\ hold' = hold /\ file' = file
          /\ counter' = [counter EXCEPT ![hold[p]] = counter[hold[p]] + 1]
          /\ seq' = [seq EXCEPT ![p] = counter'[hold[p]]]
      BY <1>0, <1>3 DEF HookNumber, Go, ThreadInv
    <2>2. Rows(h)' = Rows(h) /\ Written(h)' = Written(h)
      BY <2>1 DEF Rows, Written
    <2>3. CASE h # hold[p]
      <3>1. Pending(h)' = Pending(h) /\ \A q \in Pending(h) : seq'[q] = seq[q]
        BY <1>0, <2>1, <2>3 DEF Pending, TypeOK
      <3>2. counter'[h] = counter[h]
        BY <1>0, <2>1, <2>3 DEF TypeOK
      <3> QED BY <2>2, <3>1, <3>2, NumberedSame
    <2>4. CASE h = hold[p]
      <3>1. /\ counter'[h] = counter[h] + 1 /\ seq'[p] = counter[h] + 1
            /\ counter[h] \in Nat
        BY <1>0, <2>1, <2>4 DEF TypeOK
      <3>2. /\ Pending(h)' = Pending(h) \cup {p} /\ p \notin Pending(h)
            /\ \A q \in Pending(h) : seq'[q] = seq[q]
        BY <1>0, <2>1, <2>4 DEF Pending, TypeOK
      <3>3. Due(h)' = Due(h) \cup {counter[h] + 1}
        BY <3>1, <3>2 DEF Due
      <3>4. 1 .. counter'[h] = (1 .. counter[h]) \cup {counter[h] + 1}
        BY <3>1
      <3>5. Written(h)' \cup Due(h)' = 1 .. counter'[h]
        BY <2>2, <3>3, <3>4 DEF Numbered
      <3>6. /\ IsFiniteSet(Pending(h)')
            /\ Cardinality(Pending(h)') = Cardinality(Pending(h)) + 1
        BY <3>2, FS_AddElement DEF Numbered
      <3>7. Cardinality(Rows(h)) \in Nat /\ Cardinality(Pending(h)) \in Nat
        BY FS_CardinalityType DEF Numbered
      <3> QED BY <2>2, <3>1, <3>5, <3>6, <3>7 DEF Numbered
    <2> QED BY <2>3, <2>4
  <1>4. ASSUME NEW p \in Workers, HookWrite(p) PROVE Numbered(h)'
    <2>1. /\ pc[p] = "row" /\ pc' = [pc EXCEPT ![p] = "idle"]
          /\ hold[p] \in Traces /\ UNCHANGED <<counter, hold, seq>>
          /\ Write(hold[p], Row(seq[p])) /\ seq[p] \in Nat
      BY <1>0, <1>4 DEF HookWrite, Go, ThreadInv, TypeOK
    <2>2. Row(seq[p]) \in Line /\ Row(seq[p]).kind = "row" /\ Row(seq[p]).n = seq[p]
      BY <2>1, LinesWritten DEF Row
    <2>3. CASE h # hold[p]
      <3>1. Rows(h)' = Rows(h) /\ Written(h)' = Written(h)
        BY <1>0, <2>1, <2>2, <2>3, LineAdded
      <3>2. Pending(h)' = Pending(h)
        BY <1>0, <2>1, <2>3 DEF Pending, TypeOK
      <3> QED BY <2>1, <3>1, <3>2, NumberedSame
    <2>4. CASE h = hold[p]
      <3>1. PICK new : /\ new \notin Rows(h) /\ Rows(h)' = Rows(h) \cup {new}
                       /\ Written(h)' = Written(h) \cup {seq[p]}
        BY <1>0, <2>1, <2>2, <2>4, LineAdded
      <3>2. Pending(h)' = Pending(h) \ {p} /\ p \in Pending(h)
        BY <1>0, <2>1, <2>4 DEF Pending, TypeOK
      <3>3. Due(h) = Due(h)' \cup {seq[p]}
        BY <2>1, <3>2 DEF Due
      <3>4. Written(h)' \cup Due(h)' = Written(h) \cup Due(h)
        BY <3>1, <3>3
      <3>5. /\ IsFiniteSet(Rows(h)')
            /\ Cardinality(Rows(h)') = Cardinality(Rows(h)) + 1
        BY <3>1, FS_AddElement DEF Numbered
      <3>6. /\ IsFiniteSet(Pending(h)')
            /\ Cardinality(Pending(h)') = Cardinality(Pending(h)) - 1
        BY <3>2, FS_RemoveElement DEF Numbered
      <3>7. Cardinality(Rows(h)) \in Nat /\ Cardinality(Pending(h)) \in Nat
        BY FS_CardinalityType DEF Numbered
      <3> QED BY <2>1, <3>4, <3>5, <3>6, <3>7 DEF Numbered
    <2> QED BY <2>3, <2>4
  <1>5. CASE UNCHANGED vars
    BY <1>5, NumberedSame DEF vars, Rows, Written, Pending
  <1> QED BY <1>1, <1>2, <1>3, <1>4, <1>5 DEF Next

(* No row is lost or doubled and no number given twice, however many threads  *)
(* record, start and stop at once (tracing.TraceHandle.record).               *)
THEOREM RowsAllWritten == Spec => []EveryRowWritten
  <1>1. Init => IInv /\ \A h \in Traces : Numbered(h)
    BY InitIInv, NumberedInit
  <1>2. IInv /\ (\A h \in Traces : Numbered(h)) /\ [Next]_vars
           => IInv' /\ (\A h \in Traces : Numbered(h))'
    BY NextIInv, NumberedNext
  <1>3. (\A h \in Traces : Numbered(h)) => EveryRowWritten
    BY DEF Numbered, EveryRowWritten, Written, Due
  <1> QED BY <1>1, <1>2, <1>3, PTL DEF Spec


(* Whoever is about to change the session's open trace, other than to close it, is  *)
(* a rival of it; and only a closed trace is about to be cleared.               *)
Late(p) == pc[p] \in Changing /\ (pc[p] \in {"open", "assign"} \/ hold[p] # active)
RivalInv(p) ==
    /\ pc[p] = "clear" => closed[hold[p]]
    /\ Open(active) /\ Late(p) => p \in rivals

LEMMA NextRivals ==
    ASSUME IInv, \A p \in Workers : RivalInv(p), [Next]_vars
    PROVE  (\A q \in Workers : RivalInv(q))'
  <1> SUFFICES ASSUME NEW q \in Workers PROVE RivalInv(q)'
    OBVIOUS
  <1>0. TypeOK /\ RivalInv(q) /\ ThreadInv(q)
    BY DEF IInv
  <1>1. ASSUME NEW p \in Workers, StartCheck(p) PROVE RivalInv(q)'
    BY <1>0, <1>1 DEF StartCheck, Go, TypeOK, RivalInv, Late, Open
  <1>2. ASSUME NEW p \in Workers, StartOpen(p) PROVE RivalInv(q)'
    <2>1. /\ pc[p] = "open" /\ pc' = [pc EXCEPT ![p] = "assign"]
          /\ UNCHANGED <<active, closed, rivals>> /\ \A r \in Workers \ {p} : hold'[r] = hold[r]
      BY <1>0, <1>2 DEF StartOpen, Go, TypeOK
    <2>2. CASE q = p
      BY <1>0, <2>1, <2>2 DEF TypeOK, RivalInv, Late, Open, Changing
    <2>3. CASE q # p
      BY <1>0, <2>1, <2>3 DEF TypeOK, RivalInv, Late, Open
    <2>4. QED  BY <2>2, <2>3
  <1>3. ASSUME NEW p \in Workers, StartAssign(p) PROVE RivalInv(q)'
    <2>1. /\ pc' = [pc EXCEPT ![p] = "idle"] /\ UNCHANGED <<closed, hold>>
          /\ rivals' = {r \in Workers \ {p} : pc[r] \in Changing}
      BY <1>3 DEF StartAssign, Go
    <2>2. CASE q = p
      <3>1. pc'[q] = "idle"
        BY <1>0, <2>1, <2>2 DEF TypeOK
      <3>2. QED  BY <3>1 DEF RivalInv, Late, Changing
    <2>3. CASE q # p
      <3>1. pc'[q] = pc[q] /\ (pc[q] \in Changing => q \in rivals')
        BY <1>0, <2>1, <2>3 DEF TypeOK
      <3>2. QED  BY <1>0, <2>1, <3>1 DEF RivalInv, Late
    <2>4. QED  BY <2>2, <2>3
  <1>4. ASSUME NEW p \in Workers, StopRead(p) PROVE RivalInv(q)'
    BY <1>0, <1>4 DEF StopRead, Go, TypeOK, RivalInv, Late, Open
  <1>5. ASSUME NEW p \in Workers, StopFooter(p) PROVE RivalInv(q)'
    BY <1>0, <1>5 DEF StopFooter, Go, TypeOK, RivalInv, Late, Open, Changing
  <1>6. ASSUME NEW p \in Workers, StopClose(p) PROVE RivalInv(q)'
    <2>1. /\ pc[p] = "close" /\ pc' = [pc EXCEPT ![p] = "clear"]
          /\ closed' = [closed EXCEPT ![hold[p]] = TRUE]
          /\ UNCHANGED <<active, hold, rivals>>
      BY <1>6 DEF StopClose, Go
    <2>2. hold[p] \in Traces /\ (pc[q] = "clear" => hold[q] \in Traces)
      BY <1>0, <2>1 DEF IInv, ThreadInv
    <2>3. \A h \in Traces : ~ closed'[h] => ~ closed[h]
      BY <1>0, <2>1, <2>2 DEF TypeOK
    <2>4. closed'[hold[p]] /\ (pc[q] = "clear" => closed'[hold[q]])
      BY <1>0, <2>1, <2>2 DEF TypeOK, RivalInv, Late
    <2>5. Open(active)' => Open(active)
      BY <1>0, <2>1, <2>3 DEF TypeOK, Open
    <2>6. CASE q = p
      BY <1>0, <2>1, <2>4, <2>5, <2>6 DEF TypeOK, RivalInv, Late, Changing
    <2>7. CASE q # p
      BY <1>0, <2>1, <2>4, <2>5, <2>7 DEF TypeOK, RivalInv, Late
    <2>8. QED  BY <2>6, <2>7
  <1>7. ASSUME NEW p \in Workers, StopClear(p) PROVE RivalInv(q)'
    BY <1>0, <1>7 DEF StopClear, Go, TypeOK, RivalInv, Late, Open
  <1>8. ASSUME NEW p \in Workers,
               HookCheck(p) \/ HookMissed(p) \/ HookTake(p) \/ HookNumber(p) \/ HookWrite(p)
        PROVE  RivalInv(q)'
    BY <1>0, <1>8 DEF HookCheck, HookMissed, HookTake, HookNumber, HookWrite, Go, TypeOK,
                      RivalInv, Late, Open, Changing
  <1>9. ASSUME NEW p \in Workers, StopNothing(p) PROVE RivalInv(q)'
    BY <1>0, <1>9 DEF StopNothing, RivalInv, Late, Open
  <1>10. CASE UNCHANGED vars
    BY <1>0, <1>10 DEF vars, RivalInv, Late, Open
  <1>11. QED
    BY <1>1, <1>2, <1>3, <1>4, <1>5, <1>6, <1>7, <1>8, <1>9, <1>10 DEF Next

(* Only a start or a stop that was under way as an open trace was put into the   *)
(* session takes it out (trace_start, trace_stop).                            *)
THEOREM OpenTracesKept == Spec => OnlyRivalsReplace
  <1> DEFINE Rivals == \A p \in Workers : RivalInv(p)
  <1>1. Init => Rivals
    <2> SUFFICES ASSUME Init, NEW p \in Workers PROVE RivalInv(p)
      OBVIOUS
    <2>1. pc[p] = "idle"
      BY DEF Init
    <2>2. QED  BY <2>1 DEF RivalInv, Late, Changing
  <1>2. IInv /\ Rivals /\ [Next]_vars => Rivals'
    BY NextRivals
  <1>3. IInv /\ Rivals /\ [Next]_vars =>
           [Open(active) /\ active' # active =>
               \E p \in rivals : pc[p] \in {"assign", "clear"} /\ pc'[p] = "idle"]_vars
    <2> SUFFICES ASSUME IInv, Rivals, Next, Open(active), active' # active
                 PROVE  \E p \in rivals : pc[p] \in {"assign", "clear"} /\ pc'[p] = "idle"
      BY DEF vars
    <2>0. TypeOK
      BY DEF IInv
    <2>1. PICK p \in Workers : StartAssign(p) \/ StopClear(p)
      BY DEF Next, StartCheck, StartOpen, StopRead, StopNothing, StopFooter, StopClose,
             HookCheck, HookMissed, HookTake, HookNumber, HookWrite
    <2>2. pc[p] \in {"assign", "clear"} /\ pc'[p] = "idle"
      BY <2>0, <2>1 DEF StartAssign, StopClear, Go, TypeOK
    <2>3. RivalInv(p)
      OBVIOUS
    <2>4. p \in rivals
      BY <2>2, <2>3 DEF RivalInv, Late, Changing, Open
    <2>5. QED  BY <2>2, <2>4
  <1> HIDE DEF Rivals
  <1>4. QED  BY <1>1, <1>2, <1>3, InitIInv, NextIInv, PTL DEF Spec, OnlyRivalsReplace
-------------------------------------------------------------------------------
(* Replays. *)

Upto(n) == [k \in 1..n |-> k]

LEMMA UptoAppend ==
    ASSUME NEW n \in Nat
    PROVE  /\ Upto(n) \in Seq(Nat)
           /\ Len(Upto(n)) = n
           /\ Append(Upto(n), n + 1) = Upto(n + 1)
  <1>1. Upto(n) \in Seq(Nat) /\ Len(Upto(n)) = n
    BY DEF Upto
  <1>2. Upto(n + 1) \in Seq(Nat) /\ Len(Upto(n + 1)) = n + 1
    BY DEF Upto
  <1> DEFINE longer == Append(Upto(n), n + 1)
  <1>3. /\ longer \in Seq(Nat) /\ Len(longer) = n + 1
        /\ \A k \in 1..(n + 1) : longer[k] = IF k <= n THEN Upto(n)[k] ELSE n + 1
    BY <1>1
  <1>4. \A k \in 1..(n + 1) : longer[k] = Upto(n + 1)[k]
    BY <1>3 DEF Upto
  <1> HIDE DEF longer
  <1>5. longer = Upto(n + 1)
    BY <1>2, <1>3, <1>4
  <1>6. QED  BY <1>1, <1>5 DEF longer

ReplayTypes ==
    /\ table \in [Ids -> Objects \cup {NoReplay}]
    /\ made \in SUBSET Objects
    /\ position \in [Objects -> Nat]
    /\ issued \in [Objects -> Seq(Nat)]
    /\ finished \in [Objects -> BOOLEAN]
    /\ diverged \in [Objects -> SUBSET Nat]
    /\ crowded \in SUBSET Objects
    /\ onDiv \in [Objects -> OnDivergence \cup {"warn"}]
    /\ stage \in [Steppers -> {"idle", "read", "dispatched"}]
    /\ held \in [Steppers -> Objects \cup {NoReplay}]
    /\ row \in [Steppers -> Nat]

(* A thread holds a replay, one that was made, from the read to the advance.  *)
StepperInv(p) ==
    /\ stage[p] = "idle" <=> held[p] = NoReplay
    /\ held[p] # NoReplay => held[p] \in made

Counted(o) ==
    /\ Len(issued[o]) = position[o] + Cardinality(UnderWay(o))
    /\ position[o] + Cardinality(Holding(o)) < Total + Cardinality(Steppers)

(* An uncrowded replay has at most one row in hand, the next; its calls are  *)
(* the rows before the position and, once dispatched, the row in hand; and a *)
(* divergence that stops leaves it finished with nobody in it.               *)
Orderly(o) ==
    /\ \A p, q \in Holding(o) : p = q
    /\ \A p \in Holding(o) : row[p] = position[o] + 1
    /\ issued[o] = Upto(IF UnderWay(o) = {} THEN position[o] ELSE position[o] + 1)
    /\ onDiv[o] = "stop" /\ diverged[o] # {} => finished[o] /\ Holding(o) = {}

ObjectInv(o) ==
    /\ Counted(o)
    /\ o \notin crowded => Orderly(o)
    /\ o \notin made => diverged[o] = {}

ReplayInv ==
    /\ ReplayTypes
    /\ \A i \in Ids : table[i] # NoReplay => table[i] \in made
    /\ \A p \in Steppers : StepperInv(p)
    /\ \A o \in Objects : ObjectInv(o)

LEMMA Cardinalities ==
    /\ Cardinality(Steppers) \in Nat /\ Cardinality(Steppers) > 0
    /\ \A o : /\ Holding(o) \subseteq Steppers /\ UnderWay(o) \subseteq Steppers
              /\ IsFiniteSet(Holding(o)) /\ IsFiniteSet(UnderWay(o))
              /\ Cardinality(Holding(o)) \in Nat
              /\ Cardinality(UnderWay(o)) \in Nat
  <1>1. IsFiniteSet(Steppers) /\ Steppers # {}
    BY ReplayAssumption
  <1>2. Cardinality(Steppers) \in Nat /\ Cardinality(Steppers) # 0
    BY <1>1, FS_CardinalityType, FS_EmptySet
  <1>3. ASSUME NEW o
        PROVE  Holding(o) \in SUBSET Steppers /\ UnderWay(o) \in SUBSET Steppers
    BY DEF Holding, UnderWay
  <1>4. QED  BY <1>1, <1>2, <1>3, FS_Subset, FS_CardinalityType

LEMMA ReplayInitInv == ReplayInit => ReplayInv
  <1> SUFFICES ASSUME ReplayInit PROVE ReplayInv
    OBVIOUS
  <1>1. ReplayTypes
    BY ReplayAssumption DEF ReplayInit, ReplayTypes
  <1>2. \A p \in Steppers : StepperInv(p)
    BY DEF ReplayInit, StepperInv
  <1>3. ASSUME NEW o \in Objects PROVE ObjectInv(o)
    <2>1. Holding(o) = {} /\ UnderWay(o) = {}
      BY ReplayAssumption DEF ReplayInit, Holding, UnderWay
    <2>2. Cardinality(Holding(o)) = 0 /\ Cardinality(UnderWay(o)) = 0
      BY <2>1, FS_EmptySet
    <2>3. Upto(0) = <<>>
      BY DEF Upto
    <2>4. position[o] = 0 /\ issued[o] = <<>> /\ diverged[o] = {}
      BY DEF ReplayInit
    <2>5. Counted(o)
      BY <2>2, <2>4, Cardinalities, ReplayAssumption DEF Counted
    <2>6. Orderly(o)
      BY <2>1, <2>3, <2>4 DEF Orderly
    <2>7. QED  BY <2>4, <2>5, <2>6 DEF ObjectInv
  <1>4. \A i \in Ids : table[i] = NoReplay
    BY DEF ReplayInit
  <1>5. QED  BY <1>1, <1>2, <1>3, <1>4 DEF ReplayInv

(* A replay that a step does not deal with stays as it was.                  *)
LEMMA Untouched ==
    ASSUME NEW o \in Objects, ObjectInv(o),
           position'[o] = position[o], issued'[o] = issued[o],
           finished'[o] = finished[o] \/ finished'[o],
           diverged'[o] = diverged[o],
           onDiv'[o] = onDiv[o] \/ diverged[o] = {},
           o \in crowded' <=> o \in crowded, o \in made => o \in made',
           Holding(o)' = Holding(o), UnderWay(o)' = UnderWay(o),
           \A p \in Holding(o) : row'[p] = row[p]
    PROVE  ObjectInv(o)'
  <1>1. Counted(o)'
    BY DEF ObjectInv, Counted
  <1>2. o \notin crowded => Orderly(o)'
    BY DEF ObjectInv, Orderly
  <1>3. QED  BY <1>1, <1>2 DEF ObjectInv

LEMMA ReadKeeps ==
    ASSUME ReplayInv, NEW p \in Steppers, NEW i \in Ids, StepRead(p, i)
    PROVE  ReplayInv'
  <1>0. ReplayTypes /\ StepperInv(p)
    BY DEF ReplayInv
  <1>1. PICK o \in Objects : o = table[i] /\ o \in made
    BY <1>0 DEF ReplayInv, StepRead, Used, ReplayTypes
  <1>2. /\ stage[p] = "idle" /\ stage' = [stage EXCEPT ![p] = "read"]
        /\ held' = [held EXCEPT ![p] = o]
        /\ row' = [row EXCEPT ![p] = position[o] + 1]
        /\ crowded' = Crowding(o)
        /\ ~ finished[o] /\ position[o] < Total
        /\ UNCHANGED <<table, made, onDiv, position, finished, issued, diverged>>
    BY <1>1 DEF StepRead
  <1>3. held[p] = NoReplay
    BY <1>0, <1>2 DEF StepperInv
  <1>4. /\ Holding(o)' = Holding(o) \cup {p} /\ p \notin Holding(o)
        /\ UnderWay(o)' = UnderWay(o)
    BY <1>0, <1>2, <1>3, ReplayAssumption DEF ReplayTypes, Holding, UnderWay
  <1>5. ASSUME NEW x \in Objects, x # o
        PROVE  Holding(x)' = Holding(x) /\ UnderWay(x)' = UnderWay(x)
    BY <1>0, <1>2, <1>3, <1>5, ReplayAssumption DEF ReplayTypes, Holding, UnderWay
  <1>6. ReplayTypes'
    BY <1>0, <1>1, <1>2 DEF ReplayTypes, Crowding
  <1>7. ASSUME NEW q \in Steppers PROVE StepperInv(q)'
    <2>1. StepperInv(q)
      BY DEF ReplayInv
    <2>2. o # NoReplay
      BY ReplayAssumption
    <2>3. QED  BY <2>1, <2>2, <1>0, <1>1, <1>2 DEF ReplayTypes, StepperInv
  <1>8. ObjectInv(o)'
    <2>1. ObjectInv(o)
      BY DEF ReplayInv
    <2>2. Counted(o)'
      <3>1. Holding(o)' \subseteq Steppers /\ IsFiniteSet(Steppers)
        BY <1>4, Cardinalities, ReplayAssumption
      <3>2. Cardinality(Holding(o)') <= Cardinality(Steppers)
        BY <3>1, FS_Subset
      <3>3. Cardinality(Holding(o)') \in Nat
        BY <3>1, FS_Subset, FS_CardinalityType
      <3>4. position[o] \in Nat
        BY <1>0 DEF ReplayTypes
      <3>5. position[o] + Cardinality(Holding(o)') < Total + Cardinality(Steppers)
        BY <1>2, <3>2, <3>3, <3>4, Cardinalities, ReplayAssumption
      <3>6. QED  BY <1>2, <1>4, <2>1, <3>5 DEF ObjectInv, Counted
    <2>3. ASSUME o \notin crowded' PROVE Orderly(o)'
      <3>1. Holding(o) = {} /\ o \notin crowded
        BY <2>3, <1>2 DEF Crowding
      <3>2. Orderly(o)
        BY <3>1, <2>1 DEF ObjectInv
      <3>3. Holding(o)' = {p} /\ row'[p] = position[o] + 1
        BY <3>1, <1>4, <1>2, <1>0 DEF ReplayTypes
      <3>4. QED  BY <3>2, <3>3, <1>2, <1>4 DEF Orderly
    <2>4. QED  BY <2>1, <2>2, <2>3, <1>2 DEF ObjectInv
  <1>9. ASSUME NEW x \in Objects, x # o PROVE ObjectInv(x)'
    <2>1. ObjectInv(x)
      BY DEF ReplayInv
    <2>2. \A q \in Holding(x) : row'[q] = row[q]
      BY <1>2, <1>3, <1>0, ReplayAssumption DEF Holding, ReplayTypes
    <2>3. x \in crowded' <=> x \in crowded
      BY <1>2, <1>9 DEF Crowding
    <2>4. QED  BY <2>1, <2>2, <2>3, <1>2, <1>5, <1>9, Untouched
  <1>10. \A j \in Ids : table'[j] # NoReplay => table'[j] \in made'
    BY <1>2 DEF ReplayInv
  <1>11. QED  BY <1>6, <1>7, <1>8, <1>9, <1>10 DEF ReplayInv

LEMMA IssueKeeps ==
    ASSUME ReplayInv, NEW p \in Steppers, StepIssue(p)
    PROVE  ReplayInv'
  <1>0. ReplayTypes /\ StepperInv(p)
    BY DEF ReplayInv
  <1>1. PICK o \in Objects : o = held[p] /\ o \in made
    BY <1>0 DEF StepIssue, StepperInv, ReplayTypes
  <1>2. /\ stage[p] = "read" /\ stage' = [stage EXCEPT ![p] = "dispatched"]
        /\ issued' = [issued EXCEPT ![o] = Append(issued[o], row[p])]
        /\ UNCHANGED <<table, made, onDiv, position, finished, diverged,
                       crowded, held, row>>
    BY <1>1 DEF StepIssue
  <1>3. /\ UnderWay(o)' = UnderWay(o) \cup {p} /\ p \notin UnderWay(o)
        /\ Holding(o)' = Holding(o) /\ p \in Holding(o)
    BY <1>0, <1>1, <1>2 DEF ReplayTypes, Holding, UnderWay
  <1>4. ASSUME NEW x \in Objects, x # o
        PROVE  Holding(x)' = Holding(x) /\ UnderWay(x)' = UnderWay(x)
    BY <1>0, <1>1, <1>2, <1>4 DEF ReplayTypes, Holding, UnderWay
  <1>5. issued[o] \in Seq(Nat) /\ row[p] \in Nat /\ position[o] \in Nat
    BY <1>0 DEF ReplayTypes
  <1>6. /\ issued'[o] = Append(issued[o], row[p])
        /\ issued'[o] \in Seq(Nat) /\ Len(issued'[o]) = Len(issued[o]) + 1
        /\ \A x \in Objects \ {o} : issued'[x] = issued[x]
    BY <1>0, <1>2, <1>5 DEF ReplayTypes
  <1>7. ReplayTypes'
    BY <1>0, <1>2, <1>5, <1>6 DEF ReplayTypes
  <1>8. ASSUME NEW q \in Steppers PROVE StepperInv(q)'
    <2>1. StepperInv(q) /\ held[p] # NoReplay
      BY <1>1, ReplayAssumption DEF ReplayInv
    <2>2. QED  BY <2>1, <1>0, <1>2 DEF ReplayTypes, StepperInv
  <1>9. ObjectInv(o)'
    <2>1. ObjectInv(o)
      BY DEF ReplayInv
    <2>2. Counted(o)'
      <3>1. Cardinality(UnderWay(o)') = Cardinality(UnderWay(o)) + 1
        BY <1>3, Cardinalities, FS_AddElement
      <3>2. Len(issued[o]) = position[o] + Cardinality(UnderWay(o))
        BY <2>1 DEF ObjectInv, Counted
      <3>3. Len(issued'[o]) = position'[o] + Cardinality(UnderWay(o)')
        BY <3>1, <3>2, <1>2, <1>5, <1>6, Cardinalities
      <3>4. position'[o] + Cardinality(Holding(o)')
               < Total + Cardinality(Steppers)
        BY <2>1, <1>2, <1>3 DEF ObjectInv, Counted
      <3>5. QED  BY <3>3, <3>4 DEF Counted
    <2>3. ASSUME o \notin crowded PROVE Orderly(o)'
      <3>1. Orderly(o)
        BY <2>1, <2>3 DEF ObjectInv
      <3>2. UnderWay(o) = {} /\ row[p] = position[o] + 1
        BY <3>1, <1>3 DEF Orderly, UnderWay
      <3>3. issued'[o] = Upto(position[o] + 1)
        BY <3>1, <3>2, <1>5, <1>6, UptoAppend DEF Orderly
      <3>4. UnderWay(o)' # {}
        BY <1>3
      <3>5. QED  BY <3>1, <3>3, <3>4, <1>2, <1>3 DEF Orderly
    <2>4. QED  BY <2>1, <2>2, <2>3, <1>2 DEF ObjectInv
  <1>10. ASSUME NEW x \in Objects, x # o PROVE ObjectInv(x)'
    <2>1. ObjectInv(x)
      BY DEF ReplayInv
    <2>2. QED  BY <2>1, <1>2, <1>4, <1>6, <1>10, Untouched
  <1>11. \A j \in Ids : table'[j] # NoReplay => table'[j] \in made'
    BY <1>2 DEF ReplayInv
  <1>12. QED  BY <1>7, <1>8, <1>9, <1>10, <1>11 DEF ReplayInv

LEMMA AdvanceKeeps ==
    ASSUME ReplayInv, NEW p \in Steppers, StepAdvance(p)
    PROVE  ReplayInv'
  <1>0. ReplayTypes /\ StepperInv(p)
    BY DEF ReplayInv
  <1>1. PICK o \in Objects : o = held[p] /\ o \in made
    BY <1>0 DEF StepAdvance, StepperInv, ReplayTypes
  <1>2. PICK differs \in Comparisons(o) :
           /\ diverged' = [diverged EXCEPT ![o] =
                              @ \cup (IF differs THEN {row[p]} ELSE {})]
           /\ position' = [position EXCEPT ![o] = @ + 1]
           /\ finished' = [finished EXCEPT ![o] =
                              \/ @
                              \/ differs /\ onDiv[o] = "stop"
                              \/ position'[o] >= Total]
    BY <1>1 DEF StepAdvance
  <1>3. /\ stage[p] = "dispatched" /\ stage' = [stage EXCEPT ![p] = "idle"]
        /\ held' = [held EXCEPT ![p] = NoReplay]
        /\ row' = [row EXCEPT ![p] = 0]
        /\ UNCHANGED <<table, made, onDiv, issued, crowded>>
    BY DEF StepAdvance
  <1>4. /\ Holding(o)' = Holding(o) \ {p} /\ p \in Holding(o)
        /\ UnderWay(o)' = UnderWay(o) \ {p} /\ p \in UnderWay(o)
    BY <1>0, <1>1, <1>3, ReplayAssumption DEF ReplayTypes, Holding, UnderWay
  <1>5. ASSUME NEW x \in Objects, x # o
        PROVE  Holding(x)' = Holding(x) /\ UnderWay(x)' = UnderWay(x)
    BY <1>0, <1>1, <1>3, <1>5, ReplayAssumption DEF ReplayTypes, Holding, UnderWay
  <1>6. /\ position[o] \in Nat /\ position'[o] = position[o] + 1
        /\ differs \in BOOLEAN /\ row[p] \in Nat
    BY <1>0, <1>2 DEF ReplayTypes, Comparisons
  <1>7. ReplayTypes'
    <2>1. position' \in [Objects -> Nat]
      BY <1>0, <1>2 DEF ReplayTypes
    <2>2. diverged' \in [Objects -> SUBSET Nat]
      BY <1>0, <1>2, <1>6 DEF ReplayTypes
    <2>3. finished' \in [Objects -> BOOLEAN]
      BY <1>0, <1>2, <1>6 DEF ReplayTypes
    <2>4. QED  BY <2>1, <2>2, <2>3, <1>0, <1>3 DEF ReplayTypes
  <1>8. ASSUME NEW q \in Steppers PROVE StepperInv(q)'
    <2>1. StepperInv(q)
      BY DEF ReplayInv
    <2>2. QED  BY <2>1, <1>0, <1>3 DEF ReplayTypes, StepperInv
  <1>9. ObjectInv(o)'
    <2>1. ObjectInv(o)
      BY DEF ReplayInv
    <2>2. Counted(o)'
      <3>1. /\ Cardinality(UnderWay(o)') = Cardinality(UnderWay(o)) - 1
            /\ Cardinality(Holding(o)') = Cardinality(Holding(o)) - 1
        BY <1>4, Cardinalities, FS_RemoveElement
      <3>2. /\ Len(issued[o]) = position[o] + Cardinality(UnderWay(o))
            /\ position[o] + Cardinality(Holding(o))
                  < Total + Cardinality(Steppers)
        BY <2>1 DEF ObjectInv, Counted
      <3>3. Len(issued'[o]) = position'[o] + Cardinality(UnderWay(o)')
        BY <3>1, <3>2, <1>3, <1>6, Cardinalities
      <3>4. position'[o] + Cardinality(Holding(o)')
               < Total + Cardinality(Steppers)
        BY <3>1, <3>2, <1>6, Cardinalities, ReplayAssumption
      <3>5. QED  BY <3>3, <3>4 DEF Counted
    <2>3. ASSUME o \notin crowded PROVE Orderly(o)'
      <3>1. Orderly(o)
        BY <2>1, <2>3 DEF ObjectInv
      <3>2. Holding(o)' = {} /\ UnderWay(o)' = {}
        BY <3>1, <1>4 DEF Orderly, UnderWay
      <3>3. issued'[o] = Upto(position'[o])
        BY <3>1, <1>3, <1>4, <1>6 DEF Orderly
      <3>4. ASSUME onDiv'[o] = "stop", diverged'[o] # {} PROVE finished'[o]
        <4>1. diverged[o] = {}
          BY <3>1, <3>4, <1>3, <1>4 DEF Orderly
        <4>2. differs
          BY <4>1, <3>4, <1>0, <1>2, <1>6 DEF ReplayTypes
        <4>3. QED  BY <4>2, <3>4, <1>0, <1>2, <1>3 DEF ReplayTypes
      <3>5. QED  BY <3>2, <3>3, <3>4 DEF Orderly
    <2>4. QED  BY <2>1, <2>2, <2>3, <1>1, <1>3 DEF ObjectInv
  <1>10. ASSUME NEW x \in Objects, x # o PROVE ObjectInv(x)'
    <2>1. ObjectInv(x)
      BY DEF ReplayInv
    <2>2. \A q \in Holding(x) : row'[q] = row[q]
      BY <1>0, <1>1, <1>3, <1>10 DEF Holding, ReplayTypes
    <2>3. /\ position'[x] = position[x] /\ diverged'[x] = diverged[x]
          /\ finished'[x] = finished[x]
      BY <1>0, <1>2, <1>10 DEF ReplayTypes
    <2>4. QED  BY <2>1, <2>2, <2>3, <1>3, <1>5, <1>10, Untouched
  <1>11. \A j \in Ids : table'[j] # NoReplay => table'[j] \in made'
    BY <1>3 DEF ReplayInv
  <1>12. QED  BY <1>7, <1>8, <1>9, <1>10, <1>11 DEF ReplayInv

LEMMA StartKeeps ==
    ASSUME ReplayInv, Start
    PROVE  ReplayInv'
  <1>0. ReplayTypes
    BY DEF ReplayInv
  <1>1. PICK o \in Objects \ made, d \in OnDivergence :
           /\ table' = [table EXCEPT ![Cardinality(Used) + 1] = o]
           /\ made' = made \cup {o}
           /\ onDiv' = [onDiv EXCEPT ![o] = d]
    BY DEF Start
  <1>2. UNCHANGED <<position, finished, issued, diverged, crowded, stage,
                    held, row>>
    BY DEF Start
  <1>3. ReplayTypes'
    BY <1>0, <1>1, <1>2 DEF ReplayTypes
  <1>4. ASSUME NEW q \in Steppers PROVE StepperInv(q)'
    BY <1>1, <1>2 DEF ReplayInv, StepperInv
  <1>5. ASSUME NEW x \in Objects PROVE ObjectInv(x)'
    <2>1. ObjectInv(x)
      BY DEF ReplayInv
    <2>2. onDiv'[x] = onDiv[x] \/ diverged[x] = {}
      <3>1. CASE x = o
        BY <3>1, <2>1 DEF ObjectInv
      <3>2. CASE x # o
        BY <3>2, <1>0, <1>1 DEF ReplayTypes
      <3>3. QED  BY <3>1, <3>2
    <2>3. Holding(x)' = Holding(x) /\ UnderWay(x)' = UnderWay(x)
      BY <1>2 DEF Holding, UnderWay
    <2>4. QED  BY <2>1, <2>2, <2>3, <1>1, <1>2, Untouched
  <1>6. ASSUME NEW j \in Ids, table'[j] # NoReplay PROVE table'[j] \in made'
    BY <1>0, <1>1, <1>6 DEF ReplayInv, ReplayTypes
  <1>7. QED  BY <1>3, <1>4, <1>5, <1>6 DEF ReplayInv

LEMMA StopKeeps ==
    ASSUME ReplayInv, NEW i \in Ids, Stop(i)
    PROVE  ReplayInv'
  <1>0. ReplayTypes
    BY DEF ReplayInv
  <1>1. /\ table' = [table EXCEPT ![i] = NoReplay]
        /\ UNCHANGED <<made, onDiv, position, finished, issued, diverged,
                       crowded, stage, held, row>>
    BY DEF Stop
  <1>2. ReplayTypes'
    BY <1>0, <1>1 DEF ReplayTypes
  <1>3. ASSUME NEW q \in Steppers PROVE StepperInv(q)'
    BY <1>1 DEF ReplayInv, StepperInv
  <1>4. ASSUME NEW x \in Objects PROVE ObjectInv(x)'
    <2>1. ObjectInv(x)
      BY DEF ReplayInv
    <2>2. Holding(x)' = Holding(x) /\ UnderWay(x)' = UnderWay(x)
      BY <1>1 DEF Holding, UnderWay
    <2>3. QED  BY <2>1, <2>2, <1>1, Untouched
  <1>5. ASSUME NEW j \in Ids, table'[j] # NoReplay PROVE table'[j] \in made'
    BY <1>0, <1>1, <1>5 DEF ReplayInv, ReplayTypes
  <1>6. QED  BY <1>2, <1>3, <1>4, <1>5 DEF ReplayInv

LEMMA EndKeeps ==
    ASSUME ReplayInv, NEW i \in Ids, StepEnd(i)
    PROVE  ReplayInv'
  <1>0. ReplayTypes
    BY DEF ReplayInv
  <1>1. PICK o \in Objects : o = table[i]
    BY <1>0 DEF StepEnd, Used, ReplayTypes
  <1>2. /\ finished' = [finished EXCEPT ![o] = TRUE]
        /\ UNCHANGED <<table, made, onDiv, position, issued, diverged,
                       crowded, stage, held, row>>
    BY <1>1 DEF StepEnd
  <1>3. ReplayTypes'
    BY <1>0, <1>2 DEF ReplayTypes
  <1>4. ASSUME NEW q \in Steppers PROVE StepperInv(q)'
    BY <1>2 DEF ReplayInv, StepperInv
  <1>5. ASSUME NEW x \in Objects PROVE ObjectInv(x)'
    <2>1. ObjectInv(x)
      BY DEF ReplayInv
    <2>2. finished'[x] = finished[x] \/ finished'[x]
      BY <1>0, <1>2 DEF ReplayTypes
    <2>3. Holding(x)' = Holding(x) /\ UnderWay(x)' = UnderWay(x)
      BY <1>2 DEF Holding, UnderWay
    <2>4. QED  BY <2>1, <2>2, <2>3, <1>2, Untouched
  <1>6. \A j \in Ids : table'[j] # NoReplay => table'[j] \in made'
    BY <1>2 DEF ReplayInv
  <1>7. QED  BY <1>3, <1>4, <1>5, <1>6 DEF ReplayInv

LEMMA IdleKeeps ==
    ASSUME ReplayInv, UNCHANGED stepVars
    PROVE  ReplayInv'
  <1>1. /\ UNCHANGED <<table, made, onDiv, position, finished, issued, diverged,
                       crowded, stage, held, row>>
    BY DEF stepVars, replayVars
  <1>2. ReplayTypes'
    BY <1>1 DEF ReplayInv, ReplayTypes
  <1>3. ASSUME NEW q \in Steppers PROVE StepperInv(q)'
    BY <1>1 DEF ReplayInv, StepperInv
  <1>4. ASSUME NEW x \in Objects PROVE ObjectInv(x)'
    <2>1. ObjectInv(x)
      BY DEF ReplayInv
    <2>2. Holding(x)' = Holding(x) /\ UnderWay(x)' = UnderWay(x)
      BY <1>1 DEF Holding, UnderWay
    <2>3. QED  BY <2>1, <2>2, <1>1, Untouched
  <1>5. \A j \in Ids : table'[j] # NoReplay => table'[j] \in made'
    BY <1>1 DEF ReplayInv
  <1>6. QED  BY <1>2, <1>3, <1>4, <1>5 DEF ReplayInv

LEMMA ReplayNextInv == ReplayInv /\ [ReplayNext]_stepVars => ReplayInv'
  <1> SUFFICES ASSUME ReplayInv, [ReplayNext]_stepVars PROVE ReplayInv'
    OBVIOUS
  <1>1. CASE Start
    BY <1>1, StartKeeps
  <1>2. CASE \E i \in Ids : Stop(i)
    BY <1>2, StopKeeps
  <1>3. CASE \E i \in Ids : StepEnd(i)
    BY <1>3, EndKeeps
  <1>4. CASE \E i \in Ids : UnknownId(i)
    BY <1>4, IdleKeeps DEF UnknownId
  <1>5. CASE \E p \in Steppers, i \in Ids : StepRead(p, i)
    BY <1>5, ReadKeeps
  <1>6. CASE \E p \in Steppers : StepIssue(p)
    BY <1>6, IssueKeeps
  <1>7. CASE \E p \in Steppers : StepAdvance(p)
    BY <1>7, AdvanceKeeps
  <1>8. CASE UNCHANGED stepVars
    BY <1>8, IdleKeeps
  <1>9. QED  BY <1>1, <1>2, <1>3, <1>4, <1>5, <1>6, <1>7, <1>8 DEF ReplayNext

LEMMA ReplayInvariance == ReplaySpec => []ReplayInv
  BY ReplayInitInv, ReplayNextInv, PTL DEF ReplaySpec

(* Every dispatched row moves the position of its replay by one, and the     *)
(* calls pass the length of the trace by less than one per thread: two steps *)
(* of one replay (replay.step has no lock) never lose a count.               *)
THEOREM PositionCounts == ReplaySpec => []PositionCountsCalls
  <1>1. ReplayInv => PositionCountsCalls
    BY DEF ReplayInv, ObjectInv, Counted, PositionCountsCalls
  <1>2. QED  BY <1>1, ReplayInvariance, PTL

(* A replay that no two threads step at once re-issues every row once and in *)
(* the order recorded, whatever else the threads do with the table.          *)
THEOREM RowsOnce == ReplaySpec => []EachRowOnce
  <1>1. ReplayInv => EachRowOnce
    <2> SUFFICES ASSUME ReplayInv, NEW o \in Objects \ crowded
                 PROVE  issued[o] = [n \in 1..Len(issued[o]) |-> n]
      BY DEF EachRowOnce
    <2>1. Orderly(o) /\ position[o] \in Nat
      BY DEF ReplayInv, ObjectInv, ReplayTypes
    <2>2. PICK n \in Nat : issued[o] = Upto(n)
      BY <2>1 DEF Orderly
    <2>3. Len(issued[o]) = n
      BY <2>2, UptoAppend
    <2>4. QED  BY <2>2, <2>3 DEF Upto
  <1>2. QED  BY <1>1, ReplayInvariance, PTL

(* With on_divergence = "stop", such a replay dispatches no row once a       *)
(* divergence is recorded: the divergence leaves it finished, with nobody    *)
(* holding it, and replay.step reads no row of a finished replay.            *)
THEOREM StopsForGood == ReplaySpec => StopsOnDivergence
  <1> DEFINE stops ==
        \A o \in Objects \ crowded' :
           onDiv[o] = "stop" /\ diverged[o] # {} => issued'[o] = issued[o]
  <1>1. ReplayInv /\ [ReplayNext]_stepVars => [stops]_stepVars
    <2> SUFFICES ASSUME ReplayInv, ReplayNext, NEW o \in Objects \ crowded',
                        onDiv[o] = "stop", diverged[o] # {}
                 PROVE  issued'[o] = issued[o]
      OBVIOUS
    <2>1. CASE \E p \in Steppers : StepIssue(p)
      <3>1. PICK p \in Steppers : StepIssue(p)
        BY <2>1
      <3>2. o \notin crowded
        BY <3>1 DEF StepIssue
      <3>3. Holding(o) = {}
        BY <3>2 DEF ReplayInv, ObjectInv, Orderly
      <3>4. held[p] # o
        BY <3>3 DEF Holding
      <3>5. issued' = [issued EXCEPT ![held[p]] = Append(@, row[p])]
        BY <3>1 DEF StepIssue
      <3>6. QED  BY <3>4, <3>5 DEF ReplayInv, ReplayTypes
    <2>2. CASE ~ \E p \in Steppers : StepIssue(p)
      <3>1. UNCHANGED issued
        BY <2>2 DEF ReplayNext, Start, Stop, StepEnd, UnknownId, StepRead,
                    StepAdvance, stepVars, replayVars
      <3>2. QED  BY <3>1
    <2>3. QED  BY <2>1, <2>2
  <1>2. QED  BY <1>1, ReplayInvariance, PTL DEF ReplaySpec, StopsOnDivergence

-------------------------------------------------------------------------------
(* The scripted desktop and the waits on it. *)

Seen == TreeOf(Watched)

(* The clocks never run backwards, and a round takes its bounded time. *)
Clocks ==
    /\ elapsed \in Nat /\ changedAt \in Nat /\ left \in Nat
    /\ spent \in Nat /\ spent <= MaxSlow
    /\ calm \in Nat /\ calmRead \in Nat
    /\ at \in Nat \ {0} /\ passed \in BOOLEAN /\ returned \in BOOLEAN

(* Between two calls nothing is left of the one before. *)
Fresh ==
    phase = "idle" =>
       /\ call = NoCall /\ answer = NoAnswer /\ last = None /\ at = 1
       /\ passed = TRUE /\ returned = FALSE
       /\ elapsed = 0 /\ changedAt = 0 /\ spent = 0 /\ calm = 0 /\ calmRead = 0

(* Which steps belong to which call. *)
Places ==
    /\ phase \in {"look", "deadline"} => call.kind = "for"
    /\ phase \in {"test", "same", "changed"} => call.kind = "idle"
    /\ phase = "evaluate" => call.kind = "assert"
    /\ phase \in {"read", "asleep"} => call.kind \in {"for", "idle"}
    /\ Len(call.conds) \in Nat /\ DOMAIN call.conds = 1 .. Len(call.conds)

(* wait_for: what was steady still holds, and has not been passed over. *)
Steady ==
    /\ phase \notin {"idle", "reply"} => steady \subseteq HeldNow
    /\ phase \in {"look", "read"} /\ call.kind = "for" => \A i \in steady : i >= at
    /\ phase = "deadline" => steady = {}
    /\ phase = "read" /\ call.kind = "for" =>
          /\ call.conds[at].kind \notin OfWindows
          /\ listed = Windows \/ steady = {}
    /\ LastingConditionsAreSeen

(* wait_idle: a tree that is the one it saw last has been so for as long as   *)
(* the call believes, or has come back.                                       *)
Calm ==
    /\ (/\ call.kind = "idle" /\ phase \notin {"idle", "reply", "changed"}
        /\ Seen = last /\ ~ returned)
       => calm >= elapsed - changedAt
    /\ phase = "same" /\ ~ returned => calmRead >= elapsed - changedAt - spent
    /\ IdleWasQuiet

(* assert_state: what holds, or held in the windows listed, is on record. *)
Recorded ==
    /\ phase = "evaluate" =>
          /\ HeldNow \subseteq truths
          /\ Windows = listed \/ DOMAIN call.conds \subseteq truths
          /\ \A i \in DOMAIN call.conds :
                /\ call.conds[i].kind \in OfWindows
                /\ WindowHolds(call.conds[i], listed)
                => i \in truths
          /\ passed => \A i \in DOMAIN call.conds : i < at => i \in truths
    /\ AllPassedHeld

Watching == Clocks /\ Fresh /\ Places /\ Steady /\ Calm /\ Recorded
-------------------------------------------------------------------------------
(* Where neither the desktop nor the call changes, the same conditions hold   *)
(* and the same tree is seen.                                                 *)
LEMMA Frame ==
    ASSUME UNCHANGED <<script, state, overrides>>
    PROVE  /\ Windows' = Windows
           /\ Screen' = Screen
           /\ UNCHANGED call => HeldNow' = HeldNow
           /\ UNCHANGED <<call, listed>> => Seen' = Seen
  <1>1. Screen' = Screen  BY DEF Screen
  <1>2. Windows' = Windows  BY <1>1 DEF Windows
  <1>3. \A p : TreeOf(p)' = TreeOf(p)
    BY <1>1 DEF TreeOf, Shown, Overridden
  <1>4. ASSUME UNCHANGED call PROVE HeldNow' = HeldNow
    <2>1. \A c : Holds(c)' = Holds(c)
      BY <1>2, <1>3, <1>4 DEF Holds
    <2> QED BY <2>1, <1>4 DEF HeldNow
  <1>5. ASSUME UNCHANGED <<call, listed>> PROVE Seen' = Seen
    <2>1. Watched' = Watched  BY <1>5 DEF Watched
    <2> QED BY <2>1, <1>3 DEF Seen
  <1> QED BY <1>1, <1>2, <1>4, <1>5

(* What it means that a condition of the call holds now. *)
LEMMA HoldsNow ==
    ASSUME NEW i \in DOMAIN call.conds
    PROVE  /\ call.conds[i].kind \in OfWindows =>
                 (i \in HeldNow <=> WindowHolds(call.conds[i], Windows))
           /\ call.conds[i].kind \notin OfWindows /\ Windows = listed =>
                 (i \in HeldNow <=> Watched # 0 /\ TreeHolds(call.conds[i], Seen))
  BY DEF HeldNow, Holds, Watched, Seen

(* A condition on a tree does not hold of a desktop without windows, nor      *)
(* does tree_changes with nothing to compare with.                            *)
LEMMA NothingToRead ==
    ASSUME NEW i \in HeldNow, call.conds[i].kind \notin OfWindows
    PROVE  /\ Screen # <<>>
           /\ ~ (call.conds[i].kind = "tree_changes" /\ call.conds[i].value = None)
  <1> DEFINE c == call.conds[i]
             p == Position(Windows, call.kind, call.hint)
  <1>1. p # 0 /\ TreeHolds(c, TreeOf(p))  BY DEF HeldNow, Holds
  <1>2. Screen # <<>>
    <2> SUFFICES ASSUME Screen = <<>> PROVE FALSE  OBVIOUS
    <2>1. DOMAIN Windows = {} /\ Windows = <<>>  BY DEF Windows
    <2> QED BY <1>1, <2>1 DEF Position
  <1>3. ~ (c.kind = "tree_changes" /\ c.value = None)
    BY <1>1 DEF TreeHolds
  <1> QED BY <1>2, <1>3
-------------------------------------------------------------------------------
(* A step of the module is a change of the desktop, or of the call only. *)
Asked == \E kind \in {"for", "idle", "assert"} :
            \E cs \in WaitLists \cup Asserts \cup {<<>>}, hint \in Hints :
               Ask(kind, cs, hint)

Moved ==
    /\ UNCHANGED <<script, state, overrides>>
    /\ Asked \/ ClientStep \/ WaitTick \/ UNCHANGED waitVars

LEMMA TwoKinds == [MockNext]_mockVars => DeskChanged \/ Moved
  BY DEF MockNext, mockVars, Act, GoOn, Perform, LoadScenario, Call, Client, Tick, Moved,
         Asked, deskVars

(* The parts that do not look at the desktop. *)
LEMMA ClocksKept == Clocks /\ Fresh /\ (DeskChanged \/ Moved) => Clocks'
  <1> SUFFICES ASSUME Clocks, Fresh, DeskChanged \/ Moved PROVE Clocks'
    OBVIOUS
  <1> USE WaitAssumption DEF Clocks, clockVars, ghosts
  <1>1. CASE DeskChanged
    <2>1. UNCHANGED <<at, passed, clockVars, calmRead>>
      BY <1>1 DEF DeskChanged
    <2>2. calm' \in {calm, 0}
      BY <1>1 DEF DeskChanged
    <2>3. returned' \in BOOLEAN
      BY <1>1, Zenon DEF DeskChanged
    <2> QED BY <2>1, <2>2, <2>3
  <1>2. CASE Asked
    BY <1>2 DEF Asked, Ask
  <1>3. CASE Look
    BY <1>3 DEF Look, Decide, Reply
  <1>4. CASE Read
    BY <1>4 DEF Read, Decide, Reply
  <1>5. CASE ReadFails
    BY <1>5 DEF ReadFails, Decide, Reply, Sleep
  <1>6. CASE Wake
    BY <1>6 DEF Wake
  <1>7. CASE Deadline
    BY <1>7 DEF Deadline, Reply, Sleep
  <1>8. CASE ReadIdle
    BY <1>8 DEF ReadIdle
  <1>9. CASE Judge
    BY <1>9 DEF Judge, Reply, Sleep
  <1>10. CASE Evaluate
    BY <1>10 DEF Evaluate, Reply
  <1>11. CASE Return
    <2>1. /\ elapsed' = 0 /\ changedAt' = 0 /\ left' = 0 /\ spent' = 0
          /\ calm' = 0 /\ calmRead' = 0 /\ at' = 1
      BY <1>11 DEF Return
    <2>2. passed' \in BOOLEAN /\ returned' \in BOOLEAN
      BY <1>11, Zenon DEF Return
    <2> QED BY <2>1, <2>2
  <1>12. CASE WaitTick
    BY <1>12 DEF WaitTick
  <1>13. CASE UNCHANGED waitVars
    BY <1>13 DEF waitVars
  <1> QED BY <1>1, <1>2, <1>3, <1>4, <1>5, <1>6, <1>7, <1>8, <1>9, <1>10, <1>11,
             <1>12, <1>13 DEF Moved, ClientStep

LEMMA PlacesKept ==
    Fresh /\ Places /\ (DeskChanged \/ Moved) => Fresh' /\ Places'
  <1> SUFFICES ASSUME Fresh, Places, DeskChanged \/ Moved PROVE Fresh' /\ Places'
    OBVIOUS
  <1> USE DEF Fresh, Places, clockVars, ghosts
  <1>1. CASE DeskChanged
    BY <1>1 DEF DeskChanged
  <1>2. CASE Asked
    <2>1. PICK kind \in {"for", "idle", "assert"}, hint \in Hints,
               cs \in WaitLists \cup Asserts \cup {<<>>} : Ask(kind, cs, hint)
      BY <1>2 DEF Asked
    <2>2. Len(cs) \in Nat /\ DOMAIN cs = 1 .. Len(cs)
      BY DeskAssumption
    <2>3. call'.conds = cs /\ call'.kind = kind
      BY <2>1 DEF Ask
    <2>4. phase' = "reply" \/ phase' = FirstStep(kind)
      BY <2>1 DEF Ask
    <2> QED BY <2>2, <2>3, <2>4 DEF FirstStep
  <1>3. CASE Look
    BY <1>3 DEF Look, Decide, Reply
  <1>4. CASE Read
    BY <1>4 DEF Read, Decide, Reply
  <1>5. CASE ReadFails
    BY <1>5 DEF ReadFails, Decide, Reply, Sleep
  <1>6. CASE Wake
    BY <1>6 DEF Wake, FirstStep
  <1>7. CASE Deadline
    BY <1>7 DEF Deadline, Reply, Sleep
  <1>8. CASE ReadIdle
    BY <1>8 DEF ReadIdle
  <1>9. CASE Judge
    BY <1>9 DEF Judge, Reply, Sleep
  <1>10. CASE Evaluate
    BY <1>10 DEF Evaluate, Reply
  <1>11. CASE Return
    BY <1>11 DEF Return, NoCall
  <1>12. CASE WaitTick
    BY <1>12 DEF WaitTick
  <1>13. CASE UNCHANGED waitVars
    BY <1>13 DEF waitVars
  <1> QED BY <1>1, <1>2, <1>3, <1>4, <1>5, <1>6, <1>7, <1>8, <1>9, <1>10, <1>11,
             <1>12, <1>13 DEF Moved, ClientStep
-------------------------------------------------------------------------------
(* wait_for.  A condition that held throughout is never decided to be false.  *)
LEMMA LookSteady ==
    ASSUME Clocks, Places, Steady, Moved, Look
    PROVE  Steady'
  <1> DEFINE c == call.conds[at]
  <1>1. /\ call' = call /\ steady' = steady /\ call.kind = "for" /\ phase = "look"
        /\ listed' = Windows /\ Windows' = Windows /\ HeldNow' = HeldNow
        /\ steady \subseteq HeldNow /\ \A i \in steady : i >= at
        /\ \A i \in steady : i \in 1 .. Len(call.conds)
    BY Frame DEF Look, Moved, Places, Steady, ghosts, HeldNow
  <1>2. ASSUME Decide(FALSE), at \notin steady PROVE Steady'
    <2>1. CASE at < Len(call.conds)
      BY <1>1, <1>2, <2>1 DEF Decide, Steady, Clocks, LastingConditionsAreSeen
    <2>2. CASE ~ (at < Len(call.conds))
      <3>1. steady = {}
        BY <1>1, <1>2, <2>2 DEF Clocks, Places
      <3> QED BY <1>1, <1>2, <2>2, <3>1 DEF Decide, Steady, LastingConditionsAreSeen
    <2> QED BY <2>1, <2>2
  <1>3. ASSUME Decide(TRUE) PROVE Steady'
    BY <1>1, <1>3 DEF Decide, Reply, Steady, LastingConditionsAreSeen
  <1>4. CASE c.kind \in OfWindows
    <2>1. Decide(WindowHolds(c, Windows))
      BY <1>4 DEF Look
    <2>2. CASE WindowHolds(c, Windows)
      BY <2>1, <2>2, <1>3 DEF Decide
    <2>3. CASE ~ WindowHolds(c, Windows)
      <3>1. at \notin steady
        BY <1>1, <1>4, <2>3, HoldsNow DEF HeldNow
      <3>2. Decide(FALSE)
        BY <2>1, <2>3 DEF Decide
      <3> QED BY <3>1, <3>2, <1>2
    <2> QED BY <2>2, <2>3
  <1>5. CASE /\ c.kind \notin OfWindows
             /\ Screen = <<>> \/ (c.kind = "tree_changes" /\ c.value = None)
    <2>1. Decide(FALSE)
      BY <1>5 DEF Look
    <2>2. at \notin steady
      BY <1>1, <1>5, NothingToRead
    <2> QED BY <2>1, <2>2, <1>2
  <1>6. CASE /\ c.kind \notin OfWindows
             /\ ~ (Screen = <<>> \/ (c.kind = "tree_changes" /\ c.value = None))
    <2>1. phase' = "read" /\ at' = at
      BY <1>6 DEF Look
    <2> QED BY <1>1, <1>6, <2>1 DEF Steady, LastingConditionsAreSeen
  <1> QED BY <1>4, <1>5, <1>6

LEMMA ReadSteady ==
    ASSUME Clocks, Places, Steady, Moved, Read
    PROVE  Steady'
  <1> DEFINE c == call.conds[at]
             ok == TreeHolds(c, Seen)
  <1>1. /\ call' = call /\ steady' = steady /\ call.kind = "for" /\ phase = "read"
        /\ listed' = listed /\ Windows' = Windows /\ HeldNow' = HeldNow
        /\ steady \subseteq HeldNow /\ \A i \in steady : i >= at
        /\ \A i \in steady : i \in 1 .. Len(call.conds)
        /\ c.kind \notin OfWindows /\ (listed = Windows \/ steady = {})
    BY Frame DEF Read, Moved, Places, Steady, ghosts, HeldNow
  <1>2. Decide(ok)
    BY DEF Read, Seen
  <1>3. CASE ok
    BY <1>1, <1>2, <1>3 DEF Decide, Reply, Steady, LastingConditionsAreSeen
  <1>4. CASE ~ ok
    <2>1. at \notin steady
      BY <1>1, <1>4, HoldsNow DEF HeldNow
    <2>2. CASE at < Len(call.conds)
      BY <1>1, <1>2, <1>4, <2>1, <2>2 DEF Decide, Steady, Clocks, LastingConditionsAreSeen
    <2>3. CASE ~ (at < Len(call.conds))
      <3>1. steady = {}
        BY <1>1, <2>1, <2>3 DEF Clocks, Places
      <3> QED BY <1>1, <1>2, <1>4, <2>3, <3>1
              DEF Decide, Steady, LastingConditionsAreSeen
    <2> QED BY <2>2, <2>3
  <1> QED BY <1>3, <1>4

(* A read that fails takes its condition out of the steady ones. *)
LEMMA ReadFailsSteady ==
    ASSUME Clocks, Places, Steady, Moved, ReadFails
    PROVE  Steady'
  <1>1. /\ call' = call /\ phase = "read" /\ call.kind \in {"for", "idle"}
        /\ listed' = listed /\ Windows' = Windows /\ HeldNow' = HeldNow
        /\ steady \subseteq HeldNow
        /\ \A i \in steady : i \in 1 .. Len(call.conds)
    BY Frame DEF ReadFails, Moved, Places, Steady, HeldNow
  <1>2. CASE call.kind = "idle"
    BY <1>1, <1>2 DEF ReadFails, Sleep, Steady, LastingConditionsAreSeen
  <1>3. CASE call.kind = "for"
    <2>1. steady' = steady \ {at} /\ Decide(FALSE)
      BY <1>3 DEF ReadFails
    <2>2. CASE at < Len(call.conds)
      BY <1>1, <1>3, <2>1, <2>2 DEF Decide, Steady, Clocks, LastingConditionsAreSeen
    <2>3. CASE ~ (at < Len(call.conds))
      <3>1. steady' = {}
        BY <1>1, <1>3, <2>1, <2>3 DEF Clocks, Places, Steady
      <3> QED BY <1>1, <2>1, <2>3, <3>1
              DEF Decide, Steady, LastingConditionsAreSeen
    <2> QED BY <2>2, <2>3
  <1> QED BY <1>1, <1>2, <1>3

LEMMA SteadyKept ==
    ASSUME Clocks, Fresh, Places, Steady, DeskChanged \/ Moved
    PROVE  Steady'
  <1>1. CASE DeskChanged
    <2>1. UNCHANGED <<phase, call, at, listed, answer>>
      BY <1>1 DEF DeskChanged
    <2>2. CASE phase \in {"idle", "reply"}
      BY <1>1, <2>1, <2>2 DEF DeskChanged, ghosts, Steady, LastingConditionsAreSeen
    <2>3. CASE phase \notin {"idle", "reply"} /\ UNCHANGED <<script, state, overrides>>
      <3>1. Windows' = Windows /\ HeldNow' = HeldNow /\ steady' = steady
        BY <1>1, <2>1, <2>3, Frame DEF DeskChanged, ghosts
      <3> QED BY <2>1, <2>3, <3>1 DEF Steady, LastingConditionsAreSeen
    <2>4. CASE phase \notin {"idle", "reply"} /\ ~ UNCHANGED <<script, state, overrides>>
      <3>1. steady' = IF Windows' = Windows THEN steady \cap HeldNow' ELSE {}
        BY <1>1, <2>4 DEF DeskChanged
      <3> QED BY <2>1, <2>4, <3>1 DEF Steady, LastingConditionsAreSeen
    <2> QED BY <2>2, <2>3, <2>4
  <1>2. CASE Moved /\ Asked
    <2>1. phase = "idle" /\ at' = 1 /\ at = 1 /\ steady' = HeldNow'
      BY <1>2 DEF Asked, Ask, Fresh
    <2>2. /\ phase' \in {"reply", "look", "test", "evaluate"}
          /\ phase' = "reply" => answer'.code = "window_gone"
      BY <1>2 DEF Asked, Ask, FirstStep
    <2>3. \A i \in HeldNow' : i \in 1 .. Len(call'.conds)
      BY PlacesKept DEF HeldNow, Places
    <2> QED BY <2>1, <2>2, <2>3 DEF Steady, LastingConditionsAreSeen
  <1>3. CASE Moved /\ Look  BY <1>3, LookSteady
  <1>4. CASE Moved /\ Read  BY <1>4, ReadSteady
  <1>5. CASE Moved /\ ReadFails  BY <1>5, ReadFailsSteady
  <1>6. CASE Moved /\ Wake
    <2>1. call' = call /\ HeldNow' = HeldNow /\ at' = 1 /\ steady' = HeldNow
      BY <1>6, Frame DEF Moved, Wake
    <2>2. phase' \in {"look", "test"}
      BY <1>6 DEF Wake, FirstStep, Places
    <2>3. \A i \in HeldNow : i \in 1 .. Len(call.conds)
      BY DEF HeldNow, Places
    <2> QED BY <2>1, <2>2, <2>3 DEF Steady, LastingConditionsAreSeen
  <1>7. CASE Moved /\ Deadline
    <2>1. /\ call' = call /\ HeldNow' = HeldNow /\ steady' = steady
          /\ Windows' = Windows /\ listed' = listed /\ at' = at
      BY <1>7, Frame DEF Moved, Deadline, ghosts
    <2>2. phase = "test" => call.kind = "idle"
      BY DEF Places
    <2> QED BY <1>7, <2>1, <2>2
            DEF Deadline, Reply, Sleep, Steady, LastingConditionsAreSeen
  <1>8. CASE Moved /\ (ReadIdle \/ Judge \/ Evaluate)
    <2>1. call' = call /\ HeldNow' = HeldNow /\ steady' = steady
      BY <1>8, Frame DEF Moved, ReadIdle, Judge, Evaluate, ghosts
    <2>2. call.kind \in {"idle", "assert"} /\ phase \in {"read", "same", "changed", "evaluate"}
      BY <1>8 DEF ReadIdle, Judge, Evaluate, Places
    <2>3. phase' \in {"same", "changed", "asleep", "evaluate", "reply"}
      BY <1>8, <2>2 DEF ReadIdle, Judge, Evaluate, Reply, Sleep
    <2> QED BY <2>1, <2>2, <2>3 DEF Steady, LastingConditionsAreSeen
  <1>9. CASE Moved /\ Return
    BY <1>9 DEF Return, Steady, LastingConditionsAreSeen
  <1>10. CASE Moved /\ (WaitTick \/ UNCHANGED waitVars)
    <2>1. /\ UNCHANGED <<phase, call, at, listed, answer, steady>>
          /\ Windows' = Windows /\ HeldNow' = HeldNow
      BY <1>10, Frame DEF Moved, WaitTick, waitVars, ghosts
    <2> QED BY <2>1 DEF Steady, LastingConditionsAreSeen
  <1> QED BY <1>1, <1>2, <1>3, <1>4, <1>5, <1>6, <1>7, <1>8, <1>9, <1>10
          DEF Moved, ClientStep
-------------------------------------------------------------------------------
(* wait_idle.  Only a change of the tree starts calm again, and one that      *)
(* leads back to the tree seen last is on record.                             *)
LEMMA CalmKept ==
    ASSUME Clocks, Fresh, Places, Calm, DeskChanged \/ Moved
    PROVE  Calm'
  <1> USE WaitAssumption
  <1>1. CASE DeskChanged
    <2>1. UNCHANGED <<phase, call, at, listed, last, answer, elapsed, changedAt, spent,
                      calmRead>>
      BY <1>1 DEF DeskChanged, clockVars
    <2>2. CASE phase \in {"idle", "reply"}
      <3>1. returned' = returned
        BY <1>1, <2>2 DEF DeskChanged, ghosts
      <3>2. phase' \in {"idle", "reply", "changed"} /\ phase' # "same"
        BY <2>1, <2>2
      <3>3. IdleWasQuiet'
        BY <2>1, <3>1 DEF Calm, IdleWasQuiet
      <3> QED BY <3>2, <3>3 DEF Calm
    <2>3. CASE phase \notin {"idle", "reply"} /\ UNCHANGED <<script, state, overrides>>
      <3>1. Seen' = Seen /\ returned' = returned /\ calm' = calm
        BY <1>1, <2>1, <2>3, Frame DEF DeskChanged, ghosts
      <3> QED BY <2>1, <2>3, <3>1 DEF Calm, IdleWasQuiet
    <2>4. CASE phase \notin {"idle", "reply"} /\ ~ UNCHANGED <<script, state, overrides>>
      <3>1. /\ calm' = IF Seen' = Seen THEN calm ELSE 0
            /\ returned' = (returned \/ (Seen' # Seen /\ Seen' = last))
        BY <1>1, <2>4 DEF DeskChanged, Seen
      <3>2. ~ returned' => ~ returned /\ (Seen' = last => Seen' = Seen /\ calm' = calm)
        BY <3>1
      <3> QED BY <2>1, <2>4, <3>2 DEF Calm, IdleWasQuiet
    <2> QED BY <2>2, <2>3, <2>4
  <1>2. CASE Moved /\ Asked
    <2>1. /\ UNCHANGED <<elapsed, changedAt, spent, calm, calmRead, returned>>
          /\ phase = "idle" /\ phase' \in {"reply", "look", "test", "evaluate"}
          /\ phase' = "reply" => answer'.code = "window_gone"
      BY <1>2 DEF Asked, Ask, FirstStep, clockVars
    <2> QED BY <2>1 DEF Calm, IdleWasQuiet, Fresh, Clocks
  <1>3. CASE Moved /\ (Look \/ Read)
    <2>1. /\ call' = call /\ call.kind = "for" /\ phase' \in {"look", "read", "deadline", "reply"}
          /\ phase' = "reply" => answer'.code = "matched"
      BY <1>3 DEF Look, Read, Decide, Reply, Places
    <2> QED BY <2>1 DEF Calm, IdleWasQuiet
  <1>4. CASE Moved /\ ReadFails
    <2>1. /\ UNCHANGED <<call, listed, last, elapsed, changedAt, spent, calm, calmRead,
                         returned>>
          /\ phase = "read" /\ Seen' = Seen
      BY <1>4, Frame DEF Moved, ReadFails
    <2>2. /\ phase' \in {"look", "deadline", "asleep"}
          /\ call.kind = "idle" => phase' = "asleep"
      BY <1>4, <2>1 DEF ReadFails, Decide, Sleep, Places
    <2> QED BY <2>1, <2>2 DEF Calm, IdleWasQuiet
  <1>5. CASE Moved /\ Wake
    <2>1. /\ UNCHANGED <<call, listed, last, elapsed, changedAt, calm, calmRead,
                         returned>>
          /\ phase = "asleep" /\ Seen' = Seen /\ phase' \in {"look", "test"}
      BY <1>5, Frame DEF Moved, Wake, FirstStep, Places
    <2> QED BY <2>1 DEF Calm, IdleWasQuiet
  <1>6. CASE Moved /\ Deadline
    <2>1. /\ UNCHANGED <<call, listed, last, elapsed, changedAt, spent, calm, calmRead,
                         returned>>
          /\ phase \in {"deadline", "test"} /\ Seen' = Seen
      BY <1>6, Frame DEF Moved, Deadline, ghosts
    <2>2. /\ phase' \in {"reply", "read", "asleep"}
          /\ phase' = "reply" => answer'.code = "timeout"
      BY <1>6 DEF Deadline, Reply, Sleep
    <2> QED BY <2>1, <2>2 DEF Calm, IdleWasQuiet
  <1>7. CASE Moved /\ ReadIdle
    <2>1. /\ UNCHANGED <<call, listed, elapsed, changedAt, spent, calm>>
          /\ phase = "read" /\ Seen' = Seen /\ calmRead' = calm /\ last' = Seen
          /\ phase' = IF Seen = last THEN "same" ELSE "changed"
          /\ returned' = (Seen = last /\ returned)
          /\ call.kind = "idle"
      BY <1>7, Frame DEF Moved, ReadIdle, clockVars, Seen
    <2>2. CASE Seen = last
      BY <2>1, <2>2 DEF Calm, IdleWasQuiet, Clocks
    <2>3. CASE Seen # last
      <3>1. phase' = "changed"
        BY <2>1, <2>3
      <3>2. phase' \in {"idle", "reply", "changed"} /\ phase' # "same" /\ phase' # "reply"
        BY <3>1
      <3> QED BY <3>2 DEF Calm, IdleWasQuiet
    <2> QED BY <2>2, <2>3
  <1>8. CASE Moved /\ Judge
    <2>1. /\ UNCHANGED <<call, listed, last, elapsed, spent, calm, calmRead, returned>>
          /\ phase \in {"same", "changed"} /\ Seen' = Seen
      BY <1>8, Frame DEF Moved, Judge, ghosts
    <2>2. CASE phase = "same" /\ elapsed - changedAt >= Quiet
      <3>1. phase' = "reply"
        BY <1>8, <2>2 DEF Judge, Reply
      <3>2. ~ returned => calmRead >= Quiet - MaxSlow
        BY <2>1, <2>2 DEF Calm, Clocks
      <3> QED BY <2>1, <3>1, <3>2 DEF Calm, IdleWasQuiet
    <2>3. CASE phase = "same" /\ ~ (elapsed - changedAt >= Quiet)
      BY <1>8, <2>1, <2>3 DEF Judge, Sleep, Calm, IdleWasQuiet
    <2>4. CASE phase = "changed"
      <3>1. phase' = "asleep" /\ changedAt' = elapsed
        BY <1>8, <2>4 DEF Judge, Sleep
      <3> QED BY <2>1, <3>1 DEF Calm, IdleWasQuiet, Clocks
    <2> QED BY <2>1, <2>2, <2>3, <2>4
  <1>9. CASE Moved /\ Evaluate
    <2>1. /\ call' = call /\ call.kind = "assert" /\ phase' \in {"evaluate", "reply"}
          /\ phase' = "reply" => answer'.code \in {"passed", "failed"}
      BY <1>9 DEF Evaluate, Reply, Places
    <2> QED BY <2>1 DEF Calm, IdleWasQuiet
  <1>10. CASE Moved /\ Return
    BY <1>10 DEF Return, Calm, IdleWasQuiet
  <1>11. CASE Moved /\ WaitTick
    <2>1. /\ UNCHANGED <<phase, call, listed, last, changedAt, answer, calmRead, returned>>
          /\ elapsed' = elapsed + 1 /\ calm' = calm + 1 /\ Seen' = Seen
          /\ phase = "same" => spent' = spent + 1
          /\ phase \notin {"idle", "reply"}
      BY <1>11, Frame DEF Moved, WaitTick
    <2> QED BY <2>1 DEF Calm, IdleWasQuiet, Clocks
  <1>12. CASE Moved /\ UNCHANGED waitVars
    <2>1. /\ UNCHANGED <<phase, call, listed, last, changedAt, answer, elapsed, spent, calm,
                         calmRead, returned>>
          /\ Seen' = Seen
      BY <1>12, Frame DEF Moved, waitVars, clockVars, ghosts
    <2> QED BY <2>1 DEF Calm, IdleWasQuiet
  <1> QED BY <1>1, <1>2, <1>3, <1>4, <1>5, <1>6, <1>7, <1>8, <1>9, <1>10, <1>11,
             <1>12 DEF Moved, ClientStep
-------------------------------------------------------------------------------
(* assert_state.  A predicate that passes is on record, as long as the        *)
(* windows are those it listed.                                               *)
LEMMA EvaluateRecorded ==
    ASSUME Clocks, Places, Recorded, Moved, Evaluate
    PROVE  Recorded'
  <1> DEFINE c == call.conds[at]
  <1>1. /\ UNCHANGED <<call, listed, truths>> /\ Windows' = Windows
        /\ HeldNow' = HeldNow /\ phase = "evaluate" /\ call.kind = "assert"
    BY Frame DEF Moved, Evaluate, ghosts, Places
  <1>2. PICK readable \in BOOLEAN : passed' = (passed /\ Passes(c, readable))
    BY DEF Evaluate
  <1>3. ASSUME Passes(c, readable), at \in DOMAIN call.conds PROVE at \in truths
    <2>1. CASE c.kind \in OfWindows
      BY <1>1, <1>3, <2>1 DEF Passes, Recorded
    <2>2. CASE c.kind \notin OfWindows
      <3>1. Watched # 0 /\ TreeHolds(c, Seen)
        BY <1>3, <2>2 DEF Passes, Seen
      <3>2. Windows = listed => at \in HeldNow
        BY <1>3, <2>2, <3>1, HoldsNow
      <3> QED BY <1>1, <1>3, <3>2 DEF Recorded
    <2> QED BY <2>1, <2>2
  <1>4. ASSUME passed' PROVE \A i \in DOMAIN call.conds : i <= at => i \in truths
    <2>1. passed /\ Passes(c, readable)
      BY <1>2, <1>4
    <2>2. SUFFICES ASSUME NEW i \in DOMAIN call.conds, i <= at PROVE i \in truths
      OBVIOUS
    <2>3. i < at \/ i = at
      BY <2>2 DEF Clocks, Places
    <2> QED BY <1>1, <1>3, <2>1, <2>2, <2>3 DEF Recorded
  <1>5. CASE at < Len(call.conds)
    <2>1. phase' = "evaluate" /\ at' = at + 1
      BY <1>1, <1>5 DEF Evaluate
    <2>2. passed' => \A i \in DOMAIN call.conds : i < at + 1 => i \in truths
      BY <1>4 DEF Clocks, Places
    <2> QED BY <1>1, <2>1, <2>2 DEF Recorded, AllPassedHeld
  <1>6. CASE ~ (at < Len(call.conds))
    <2>1. phase' = "reply" /\ (answer'.code = "passed" => passed')
      BY <1>6 DEF Evaluate, Reply
    <2>2. passed' => DOMAIN call.conds \subseteq truths
      BY <1>4, <1>6 DEF Clocks, Places
    <2> QED BY <1>1, <2>1, <2>2 DEF Recorded, AllPassedHeld
  <1> QED BY <1>5, <1>6

LEMMA RecordedKept ==
    ASSUME Clocks, Fresh, Places, Recorded, DeskChanged \/ Moved
    PROVE  Recorded'
  <1>1. CASE DeskChanged
    <2>1. UNCHANGED <<phase, call, at, listed, passed, answer>>
      BY <1>1 DEF DeskChanged
    <2>2. CASE phase \in {"idle", "reply"}
      BY <1>1, <2>1, <2>2 DEF DeskChanged, ghosts, Recorded, AllPassedHeld
    <2>3. CASE phase \notin {"idle", "reply"} /\ UNCHANGED <<script, state, overrides>>
      <3>1. Windows' = Windows /\ HeldNow' = HeldNow /\ truths' = truths
        BY <1>1, <2>1, <2>3, Frame DEF DeskChanged, ghosts
      <3> QED BY <2>1, <2>3, <3>1 DEF Recorded, AllPassedHeld
    <2>4. CASE phase \notin {"idle", "reply"} /\ ~ UNCHANGED <<script, state, overrides>>
      <3>1. truths' = IF Windows' = Windows THEN truths \cup HeldNow'
                      ELSE DOMAIN call.conds
        BY <1>1, <2>4 DEF DeskChanged
      <3>2. HeldNow' \subseteq DOMAIN call.conds
        BY <2>1 DEF HeldNow
      <3> QED BY <2>1, <2>4, <3>1, <3>2 DEF Recorded, AllPassedHeld
    <2> QED BY <2>2, <2>3, <2>4
  <1>2. CASE Moved /\ Asked
    <2>1. /\ listed' = Windows /\ Windows' = Windows /\ truths' = HeldNow'
          /\ at' = 1
          /\ phase' = "reply" => answer'.code = "window_gone"
      BY <1>2, Frame DEF Moved, Asked, Ask, Fresh, FirstStep
    <2>2. \A i \in DOMAIN call'.conds :
             /\ call'.conds[i].kind \in OfWindows
             /\ WindowHolds(call'.conds[i], Windows')
             => i \in HeldNow'
      BY DEF HeldNow, Holds
    <2>3. \A i \in DOMAIN call'.conds : ~ (i < 1)
      BY PlacesKept DEF Places
    <2> QED BY <2>1, <2>2, <2>3 DEF Recorded, AllPassedHeld
  <1>3. CASE Moved /\ Evaluate
    BY <1>3, EvaluateRecorded
  <1>4. CASE Moved /\ (Look \/ Read \/ ReadFails \/ Wake)
    <2>1. /\ phase' \in {"look", "read", "deadline", "asleep", "test", "reply"}
          /\ phase' = "reply" => answer'.code = "matched"
      BY <1>4 DEF Look, Read, ReadFails, Wake, Decide, Reply, Sleep, FirstStep, Places
    <2> QED BY <2>1 DEF Recorded, AllPassedHeld
  <1>5. CASE Moved /\ (Deadline \/ ReadIdle \/ Judge \/ Return)
    <2>1. /\ phase' \in {"idle", "read", "asleep", "same", "changed", "reply"}
          /\ phase' = "reply" => answer'.code \in {"timeout", "quiet"}
      BY <1>5 DEF Deadline, ReadIdle, Judge, Return, Reply, Sleep
    <2> QED BY <2>1 DEF Recorded, AllPassedHeld
  <1>6. CASE Moved /\ (WaitTick \/ UNCHANGED waitVars)
    <2>1. /\ UNCHANGED <<phase, call, at, listed, passed, answer, truths>>
          /\ Windows' = Windows /\ HeldNow' = HeldNow
      BY <1>6, Frame DEF Moved, WaitTick, waitVars, ghosts
    <2> QED BY <2>1 DEF Recorded, AllPassedHeld
  <1> QED BY <1>1, <1>2, <1>3, <1>4, <1>5, <1>6 DEF Moved, ClientStep
-------------------------------------------------------------------------------
(* The inductive invariant that the three promises follow from. *)
THEOREM ClientWatches == MockSpec => []Watching
  <1>1. MockInit => Watching
    <2> SUFFICES ASSUME MockInit PROVE Watching
      OBVIOUS
    <2> USE WaitAssumption DEF MockInit, WaitInit
    <2>1. Clocks /\ Fresh
      <3>1. passed \in BOOLEAN /\ returned \in BOOLEAN
        BY Zenon
      <3>2. Fresh
        BY Zenon DEF Fresh
      <3> QED BY <3>1, <3>2 DEF Clocks
    <2>2. Places
      BY DEF Places, NoCall
    <2>3. Steady
      BY DEF Steady, LastingConditionsAreSeen
    <2>4. Calm
      BY DEF Calm, IdleWasQuiet
    <2>5. Recorded
      BY DEF Recorded, AllPassedHeld
    <2> QED BY <2>1, <2>2, <2>3, <2>4, <2>5 DEF Watching
  <1>2. Watching /\ [MockNext]_mockVars => Watching'
    BY TwoKinds, ClocksKept, PlacesKept, SteadyKept, CalmKept, RecordedKept
       DEF Watching
  <1> QED BY <1>1, <1>2, PTL DEF MockSpec

(* A condition that lasts and can be read is seen by wait_for's last round,   *)
(* and by the first of its conditions to do so (snapshots.wait_for).          *)
THEOREM LastingIsSeen == MockSpec => []LastingConditionsAreSeen
  <1>1. Watching => LastingConditionsAreSeen
    BY DEF Watching, Steady
  <1> QED BY <1>1, ClientWatches, PTL

(* When wait_idle answers that the window is quiet, it was so for the quiet   *)
(* time, but for changes undone between two reads (snapshots.wait_idle).      *)
THEOREM QuietIsQuiet == MockSpec => []IdleWasQuiet
  <1>1. Watching => IdleWasQuiet
    BY DEF Watching, Calm
  <1> QED BY <1>1, ClientWatches, PTL

(* Predicates that assert_state says have passed held during the call, each   *)
(* at a moment of its own (oracles.evaluate).                                 *)
THEOREM PassedHeld == MockSpec => []AllPassedHeld
  <1>1. Watching => AllPassedHeld
    BY DEF Watching, Recorded
  <1> QED BY <1>1, ClientWatches, PTL
-------------------------------------------------------------------------------
(* The desktop is in a state of its script, and an input that waits to be made   *)
(* names an element only if it is a click.                                     *)
Inputs == {i \in [action : {"click_at", "type", "key"}, path : Paths \cup {None},
                  text : Texts \cup {"", "ctrl+a", "delete"}] :
              i.action # "click_at" => i.path = None}
Scripted ==
    /\ script \in DOMAIN Scripts
    /\ state \in DOMAIN Scripts[script].states
    /\ plan \in Seq(Inputs)

LEMMA ShortPlans ==
    ASSUME NEW S, NEW a \in S, NEW b \in S, NEW c \in S
    PROVE  /\ <<a>> \in Seq(S) \ {<<>>}
           /\ <<a, b>> \in Seq(S) \ {<<>>}
           /\ <<a, b, c>> \in Seq(S) \ {<<>>}
  <1>1. <<a>> \in Seq(S) /\ <<a, b>> \in Seq(S) /\ <<a, b, c>> \in Seq(S)
    OBVIOUS
  <1>2. Len(<<a>>) = 1 /\ Len(<<a, b>>) = 2 /\ Len(<<a, b, c>>) = 3 /\ Len(<<>>) = 0
    OBVIOUS
  <1>3. <<a>> # <<>> /\ <<a, b>> # <<>> /\ <<a, b, c>> # <<>>
    BY <1>2
  <1>4. QED  BY <1>1, <1>3

LEMMA ToolInputs ==
    ASSUME NEW verb \in Verbs, NEW path \in Paths, NEW text \in Texts
    PROVE  InputsOf(verb, path, text) \in Seq(Inputs) \ {<<>>}
  <1>1. /\ verb \in {"click_element", "type_text", "invoke_element", "set_value",
                     "clear_text"}
    BY DeskAssumption
  <1>2. /\ Input("click_at", path, "") \in Inputs
        /\ Input("click_at", None, "") \in Inputs
        /\ Input("type", None, text) \in Inputs
        /\ Input("key", None, "ctrl+a") \in Inputs
        /\ Input("key", None, "delete") \in Inputs
    BY DEF Input, Inputs
  <1>3. CASE verb = "click_element"
    <2>1. InputsOf(verb, path, text) = <<Input("click_at", path, "")>>
      BY <1>3 DEF InputsOf
    <2>2. QED  BY <1>2, <2>1, ShortPlans
  <1>4. CASE verb = "type_text"
    <2>1. InputsOf(verb, path, text) = <<Input("type", None, text)>>
      BY <1>4 DEF InputsOf
    <2>2. QED  BY <1>2, <2>1, ShortPlans
  <1>5. CASE verb = "invoke_element"
    <2>1. InputsOf(verb, path, text) = <<Input("click_at", None, "")>>
      BY <1>5 DEF InputsOf
    <2>2. QED  BY <1>2, <2>1, ShortPlans
  <1>6. CASE verb = "set_value"
    <2>1. InputsOf(verb, path, text) =
             <<Input("click_at", None, ""), Input("type", None, text)>>
      BY <1>6 DEF InputsOf
    <2>2. QED  BY <1>2, <2>1, ShortPlans
  <1>7. CASE verb = "clear_text"
    <2>1. InputsOf(verb, path, text) =
             <<Input("click_at", None, ""), Input("key", None, "ctrl+a"),
               Input("key", None, "delete")>>
      BY <1>7 DEF InputsOf
    <2>2. QED  BY <1>2, <2>1, ShortPlans
  <1>8. QED  BY <1>1, <1>3, <1>4, <1>5, <1>6, <1>7

(* Every input of a tool is handled alike. *)
LEMMA ActsHandle ==
    ASSUME Scripted, Act \/ GoOn
    PROVE  /\ \E input \in Inputs : Handle(input.action, input.path, input.text)
           /\ plan' \in Seq(Inputs)
  <1>1. PICK inputs \in Seq(Inputs) \ {<<>>} : Perform(inputs)
    BY ToolInputs DEF Act, GoOn, Scripted
  <1>2. Head(inputs) \in Inputs /\ Tail(inputs) \in Seq(Inputs)
    BY <1>1
  <1>3. QED  BY <1>1, <1>2 DEF Perform

LEMMA FirstIsOne ==
    ASSUME NEW s, NEW good \in SUBSET Nat, good # {}
    PROVE  \E i \in good : FirstOf(s, good) = s[i]
  <1>1. PICK i \in good : \A j \in good : i <= j
    BY LeastNatural
  <1>2. (CHOOSE k \in good : \A j \in good : k <= j) \in good
    BY <1>1
  <1>3. QED  BY <1>2 DEF FirstOf

(* What an input does: nothing, or what one reaction says that matches it. *)
Fires(r, tool, target, text) ==
    /\ Matches(r, tool, target, text)
    /\ overrides' = Over(overrides, Sets(r, text))
    /\ state' = IF r.to \in DOMAIN Scripts[script].states THEN r.to ELSE state

LEMMA HandleFires ==
    ASSUME LoginScripts, Scripted,
           NEW action, NEW path, NEW text, Handle(action, path, text)
    PROVE  /\ script' = script
           /\ \/ UNCHANGED <<state, overrides>>
              \/ \E i \in DOMAIN Scripts[script].reactions :
                    Fires(Scripts[script].reactions[i], ToolOf(action),
                          TargetOf(ToolOf(action), path), text)
  <1> DEFINE tool == ToolOf(action)
             target == TargetOf(tool, path)
             rs == Scripts[script].reactions
             fired == {i \in DOMAIN rs : Matches(rs[i], tool, target, text)}
  <1>1. DOMAIN rs \subseteq Nat
    BY DEF LoginScripts, Scripted, WellFormed
  <1>2. /\ script' = script
        /\ IF fired = {} THEN UNCHANGED <<state, overrides>>
           ELSE LET r == FirstOf(rs, fired)
                IN  /\ overrides' = Over(overrides, Sets(r, text))
                    /\ state' = IF r.to \in DOMAIN Scripts[script].states THEN r.to
                                ELSE state
    BY Zenon DEF Handle
  <1>3. CASE fired = {}
    BY <1>2, <1>3
  <1>4. CASE fired # {}
    <2>1. fired \in SUBSET Nat
      BY <1>1
    <2>2. PICK i \in fired : FirstOf(rs, fired) = rs[i]
      <3> HIDE DEF fired
      <3>1. QED  BY <1>4, <2>1, FirstIsOne
    <2>3. i \in DOMAIN rs /\ Matches(rs[i], tool, target, text)
      OBVIOUS
    <2> HIDE DEF fired, rs, tool, target
    <2>4. Fires(rs[i], tool, target, text)
      BY <1>2, <1>4, <2>2, <2>3 DEF Fires
    <2>5. QED  BY <1>2, <2>3, <2>4 DEF rs, tool, target
  <1>5. QED  BY <1>3, <1>4

LEMMA InitScripted == MockInit => Scripted
  BY ScriptAssumption DEF MockInit, DeskInit, Scripted

LEMMA NextScripted == LoginScripts /\ Scripted /\ [MockNext]_mockVars => Scripted'
  <1> SUFFICES ASSUME LoginScripts, Scripted, [MockNext]_mockVars PROVE Scripted'
    OBVIOUS
  <1>1. CASE Act \/ GoOn
    <2>1. plan' \in Seq(Inputs)
      BY <1>1, ActsHandle
    <2>2. PICK input \in Inputs : Handle(input.action, input.path, input.text)
      BY <1>1, ActsHandle
    <2>3. script' = script /\ state' \in DOMAIN Scripts[script].states
      BY <2>2, HandleFires DEF Fires, Scripted
    <2>4. QED  BY <2>1, <2>3 DEF Scripted
  <1>2. CASE LoadScenario
    BY <1>2, ScriptAssumption DEF LoadScenario, Load, Scripted
  <1>3. CASE Call \/ Client \/ Tick \/ UNCHANGED mockVars
    BY <1>3 DEF Call, Client, Tick, mockVars, deskVars, Scripted
  <1>4. QED  BY <1>1, <1>2, <1>3 DEF MockNext

(* A field that the first window has once: what an observer reads is what the    *)
(* conditions of a reaction go by.                                            *)
LEMMA ShownIsMeant ==
    ASSUME LoginScripts, Scripted, state = "start", NEW id \in {"u", "p"}
    PROVE  Screen # <<>> /\ Visible(id) = ValueUnder(id)
  <1> DEFINE w == Screen[1]
             with == {i \in DOMAIN w.elems : w.elems[i].id = id}
             given == {i \in DOMAIN w.elems :
                          w.elems[i].id = id /\ w.elems[i].value # None}
  <1>1. /\ Screen # <<>> /\ 1 \in DOMAIN Screen /\ DOMAIN w.elems \subseteq Nat
        /\ FieldOnce(Scripts[script], id)
    BY DEF LoginScripts, Scripted, AsksForBoth, WellFormed, Screen
  <1>2. PICK i \in DOMAIN w.elems :
           \A j \in DOMAIN w.elems : (w.elems[j].id = id) <=> (j = i)
    BY <1>1 DEF FieldOnce, Screen
  <1>3. with = {i} /\ i \in Nat /\ w.elems[i].id = id
    BY <1>1, <1>2
  <1>4. FirstOf(w.elems, with) = w.elems[i]
    <2> HIDE DEF with
    <2>1. with \in SUBSET Nat /\ with # {}
      BY <1>3
    <2>2. QED  BY <1>3, <2>1, FirstIsOne
  <1>5. Visible(id) = Shown(w, w.elems[i])
    BY <1>1, <1>3, <1>4 DEF Visible
  <1>6. SpecValue(w, id) = w.elems[i].value
    <2>1. CASE w.elems[i].value = None
      <3>1. given = {}
        BY <1>2, <2>1
      <3>2. SpecValue(w, id) = IF given = {} THEN None ELSE FirstOf(w.elems, given).value
        BY Zenon DEF SpecValue
      <3> HIDE DEF given
      <3>3. QED  BY <2>1, <3>1, <3>2
    <2>2. CASE w.elems[i].value # None
      <3>1. given = {i}
        BY <1>2, <2>2
      <3>2. SpecValue(w, id) = IF given = {} THEN None ELSE FirstOf(w.elems, given).value
        BY Zenon DEF SpecValue
      <3>3. QED
        <4> HIDE DEF given, w
        <4>1. given \in SUBSET Nat /\ given # {}
          BY <1>3, <3>1
        <4>2. FirstOf(w.elems, given) = w.elems[i]
          BY <3>1, <4>1, FirstIsOne
        <4>3. QED  BY <3>2, <4>1, <4>2
    <2>3. QED  BY <2>1, <2>2
  <1>7. id # None
    BY DEF LoginScripts
  <1>8. QED  BY <1>1, <1>3, <1>5, <1>6, <1>7 DEF Shown, ValueUnder

(* The scripted login, for every script of that kind: nobody gets in whose name   *)
(* and password were not on the screen (scenarios.py, _when_matches and          *)
(* handle_action).                                                            *)
THEOREM NobodyGetsInUnseen ==
    ASSUME LoginScripts
    PROVE  MockSpec => LoginNeedsBothFields
  <1> DEFINE LetIn == /\ state = "start" /\ state' = "welcome" /\ script' = script
             Filled == Visible("u") = "alice" /\ Visible("p") \notin Blank
  <1>1. Scripted /\ [MockNext]_mockVars => [LetIn => Filled]_mockVars
    <2> SUFFICES ASSUME Scripted, MockNext, LetIn PROVE Filled
      BY DEF mockVars, deskVars
    <2>1. CASE Act \/ GoOn
      <3>1. PICK input \in Inputs : Handle(input.action, input.path, input.text)
        BY <2>1, ActsHandle
      <3> DEFINE d == Scripts[script]
                 tool == ToolOf(input.action)
                 target == TargetOf(tool, input.path)
      <3>2. \/ UNCHANGED <<state, overrides>>
            \/ \E i \in DOMAIN d.reactions : Fires(d.reactions[i], tool, target, input.text)
        BY <3>1, HandleFires
      <3> HIDE DEF tool, target
      <3>3. PICK i \in DOMAIN d.reactions : Fires(d.reactions[i], tool, target, input.text)
        BY <3>2
      <3> DEFINE when == d.reactions[i].when
      <3>4. d.reactions[i].to = "welcome" /\ WhenMatches(when)
        BY <3>3 DEF Fires, Matches
      <3>5. PICK j, k \in DOMAIN when :
               /\ when[j].id = "u" /\ when[j].value = "alice"
               /\ when[k].id = "p" /\ when[k].filled
        BY <3>4 DEF LoginScripts, Scripted, AsksForBoth
      <3>6. when # <<>>
        BY <3>5
      <3> HIDE DEF when
      <3>7. ValueUnder("u") = "alice" /\ ValueUnder("p") \notin Blank
        BY <3>4, <3>5, <3>6 DEF WhenMatches, LoginScripts
      <3>8. QED  BY <3>7, ShownIsMeant
    <2>2. CASE LoadScenario
      BY <2>2 DEF LoadScenario, Load, LoginScripts, AsksForBoth, Scripted
    <2>3. CASE Call \/ Client \/ Tick
      BY <2>3 DEF Call, Client, Tick, deskVars
    <2>4. QED  BY <2>1, <2>2, <2>3 DEF MockNext
  <1>2. Scripted /\ [MockNext]_mockVars => Scripted'
    BY NextScripted
  <1>3. QED
    BY <1>1, <1>2, InitScripted, PTL DEF MockSpec, LoginNeedsBothFields

(* An input that names no element goes to the one clicked last. *)
LEMMA UnnamedGoesToTouched ==
    ASSUME LoginScripts, Scripted, NEW tool \in {"type_text", "press_key"}
    PROVE  TargetOf(tool, None) = touched
  <1>1. \A i \in DOMAIN Screen : AtPath(Screen[i], None) = {}
    BY DEF LoginScripts, Scripted, WellFormed, Screen, AtPath
  <1>2. SpecId(None) = None
    BY <1>1 DEF SpecId
  <1>3. QED  BY <1>2 DEF TargetOf

(* A reaction changes what is read under an id only if it sets it. *)
LEMMA ChangeIsSet ==
    ASSUME LoginScripts, Scripted, NEW id \in {"u", "p"}, NEW r, NEW text,
           script' = script, state' = state,
           overrides' = Over(overrides, Sets(r, text)), Visible(id)' # Visible(id)
    PROVE  \E k \in DOMAIN r.set : r.set[k].id = id
  <1> DEFINE w == Screen[1]
             with == {i \in DOMAIN w.elems : w.elems[i].id = id}
             e == FirstOf(w.elems, with)
             key == <<w.uid, id>>
             sets == Sets(r, text)
  <1>1. Screen' = Screen
    BY DEF Screen
  <1>2. Screen # <<>> /\ with # {}
    BY <1>1 DEF Visible
  <1>3. DOMAIN w.elems \subseteq Nat
    BY <1>2 DEF LoginScripts, Scripted, WellFormed, Screen
  <1>4. e.id = id
    <2>1. with \in SUBSET Nat
      BY <1>3
    <2>2. PICK i \in with : e = w.elems[i]
      <3> HIDE DEF with
      <3>1. QED  BY <1>2, <2>1, FirstIsOne
    <2>3. QED  BY <2>2
  <1>5. /\ Visible(id) = Shown(w, e)
        /\ Visible(id)' = Shown(w, e)'
    <2>1. Visible(id) = Shown(w, e)
      BY <1>2 DEF Visible
    <2>2. Visible(id)' = Shown(w, e)'
      BY <1>1, <1>2 DEF Visible
    <2>3. QED  BY <2>1, <2>2
  <1>6. w' = w /\ e' = e
    BY <1>1 DEF FirstOf
  <1> HIDE DEF w, e
  <1>7. key \in DOMAIN sets
    <2>1. /\ Shown(w, e) = IF key \in DOMAIN overrides THEN overrides[key] ELSE e.value
          /\ Shown(w, e)' = IF key \in DOMAIN overrides' THEN overrides'[key] ELSE e.value
      BY <1>4, <1>6 DEF Shown, Overridden, LoginScripts
    <2> HIDE DEF key
    <2>2. SUFFICES ASSUME key \notin DOMAIN sets PROVE FALSE
      OBVIOUS
    <2>3. /\ key \in DOMAIN overrides' <=> key \in DOMAIN overrides
          /\ key \in DOMAIN overrides => overrides'[key] = overrides[key]
      BY <2>2 DEF Over
    <2>4. QED  BY <1>5, <2>1, <2>3
  <1>8. DOMAIN sets = {<<w.uid, r.set[i].id>> : i \in DOMAIN r.set}
    BY <1>2 DEF Sets, w
  <1>9. QED  BY <1>7, <1>8

(* Whatever is typed goes to the element clicked last, for every script whose     *)
(* reactions set what was typed into (scenarios.py, handle_action; mock.py,      *)
(* last_focused_spec_id).                                                     *)
THEOREM TypingStaysInFocus ==
    ASSUME LoginScripts
    PROVE  MockSpec => TypedIntoFocused
  <1> DEFINE InPlace == state' = state /\ overrides' # <<>>
             Focused == \A id \in {"u", "p"} : Visible(id)' # Visible(id) => touched = id
  <1>1. Scripted /\ [MockNext]_mockVars => [InPlace => Focused]_mockVars
    <2> SUFFICES ASSUME Scripted, MockNext, InPlace,
                        NEW id \in {"u", "p"}, Visible(id)' # Visible(id)
                 PROVE  touched = id
      BY DEF mockVars
    <2>1. script' # script \/ overrides' # overrides
      <3> SUFFICES ASSUME script' = script, overrides' = overrides PROVE FALSE
        OBVIOUS
      <3>1. Screen' = Screen
        BY DEF Screen
      <3>2. Visible(id)' = Visible(id)
        BY <3>1 DEF Visible, Shown, Overridden, FirstOf
      <3>3. QED  BY <3>2
    <2>2. CASE Act \/ GoOn
      <3>1. PICK input \in Inputs : Handle(input.action, input.path, input.text)
        BY <2>2, ActsHandle
      <3> DEFINE d == Scripts[script]
                 tool == ToolOf(input.action)
                 target == TargetOf(tool, input.path)
      <3>2. /\ script' = script
            /\ \/ UNCHANGED <<state, overrides>>
               \/ \E i \in DOMAIN d.reactions :
                     Fires(d.reactions[i], tool, target, input.text)
        BY <3>1, HandleFires
      <3>3. PICK i \in DOMAIN d.reactions : Fires(d.reactions[i], tool, target, input.text)
        <4> HIDE DEF tool, target
        <4>1. QED  BY <2>1, <3>2
      <3> DEFINE r == d.reactions[i]
      <3>4. /\ Matches(r, tool, target, input.text)
            /\ overrides' = Over(overrides, Sets(r, input.text))
        <4> HIDE DEF tool, target
        <4>1. QED  BY <3>3 DEF Fires
      <3>5. PICK k \in DOMAIN r.set : r.set[k].id = id
        <4> HIDE DEF tool, target, r
        <4>1. QED  BY <3>2, <3>4, ChangeIsSet
      <3>6. r.tool \in {"type_text", "press_key"} /\ r.target = id
        BY <3>5 DEF LoginScripts, Scripted, SetsItsTarget
      <3>7. r.tool = tool /\ r.target \in {None, target}
        <4> HIDE DEF tool, target, r
        <4>1. QED  BY <3>4 DEF Matches
      <3>8. target = id /\ tool \in {"type_text", "press_key"}
        <4> HIDE DEF tool, target, r
        <4>1. QED  BY <3>6, <3>7 DEF LoginScripts
      <3>9. input.action # "click_at"
        BY <3>8 DEF ToolOf
      <3>10. input.path = None
        BY <3>9 DEF Inputs
      <3>11. QED
        <4> HIDE DEF tool
        <4>1. QED  BY <3>8, <3>10, UnnamedGoesToTouched
    <2>3. CASE LoadScenario
      BY <2>3 DEF LoadScenario, Load
    <2>4. CASE Call \/ Client \/ Tick
      BY <2>1, <2>4 DEF Call, Client, Tick, deskVars
    <2>5. QED  BY <2>2, <2>3, <2>4 DEF MockNext
  <1>2. Scripted /\ [MockNext]_mockVars => Scripted'
    BY NextScripted
  <1>3. QED
    BY <1>1, <1>2, InitScripted, PTL DEF MockSpec, TypedIntoFocused
===============================================================================
