---------------------------- MODULE AgentLoop_proofs ----------------------------
(***************************************************************************)
(* What the window agent keeps to whatever the model, the server and the      *)
(* desktop do, for any number of windows, turns, retries and tasks: it asks   *)
(* so often and no more, it sends no call twice, it answers every call in its *)
(* place, and a uid reaches the server as it was meant.  Then what holds of    *)
(* the window it is asked to bring forward, for all rectangles and margins:    *)
(* the strips left of a region by a window above, and where the click lands.   *)
(***************************************************************************)
EXTENDS AgentLoop, Visibility, DataLemmas

Msg == [role : {"user", "assistant", "tool"}, calls : Nat, asked : BOOLEAN]

Types ==
    /\ screen \in {"menu", "prompt", "agent", "gone"}
    /\ pc \in {"ask", "batch", "sent"}
    /\ tasks \in Nat /\ turn \in 1 .. MaxTurns /\ attempt \in 0 .. Retries
    /\ requests \in Nat /\ todo \in Nat
    /\ history \in Seq(Msg) /\ results \in Seq(Msg)
    /\ screen \in {"menu", "prompt"} => pc = "ask"
    /\ pc = "sent" => screen = "agent" /\ todo > 0
    /\ screen = "agent" => tasks >= 1
    /\ pc = "ask" => results = <<>>

LEMMA Messages ==
    /\ User \in Msg
    /\ \A n \in Nat : Answer(n) \in Msg
    /\ \A n \in Nat, asked \in BOOLEAN : Assistant(n, asked) \in Msg
  BY DEF User, Answer, Assistant, Msg

LEMMA InitTypes == Init => Types
  BY AgentAssumption DEF Init, Types

(* A record of one more result. *)
LEMMA Recorded ==
    ASSUME Types, todo > 0, Record
    PROVE  /\ results' \in Seq(Msg) /\ Len(results') = Len(results) + 1
           /\ results'[Len(results) + 1] = Answer(Len(results) + 1)
           /\ \A i \in 1 .. Len(results) : results'[i] = results[i]
           /\ todo' \in Nat /\ todo' = todo - 1
  <1>1. results \in Seq(Msg) /\ Len(results) + 1 \in Nat /\ todo \in Nat
    BY DEF Types
  <1>2. Answer(Len(results) + 1) \in Msg
    BY <1>1, Messages
  <1>3. QED
    BY <1>1, <1>2 DEF Record

LEMMA NextTypes == Types /\ [Next]_vars => Types'
  <1> SUFFICES ASSUME Types, [Next]_vars PROVE Types'
    OBVIOUS
  <1> USE DEF desktop, console, talk, calls
  <1>a. Retries \in Nat /\ MaxTurns \in Nat /\ 1 <= MaxTurns /\ MaxBatch \in Nat
    BY AgentAssumption
  <1>0. ASSUME EndTask, tasks' \in Nat, history' \in Seq(Msg) PROVE Types'
    <2>1. /\ screen' = "prompt" /\ pc' = "ask" /\ turn' = 1 /\ attempt' = 0
          /\ todo' = 0 /\ results' = <<>> /\ requests' = 0
      BY <1>0 DEF EndTask
    <2>2. results' \in Seq(Msg)
      BY <2>1
    <2>3. turn' \in 1 .. MaxTurns /\ attempt' \in 0 .. Retries
      BY <2>1, <1>a
    <2>4. QED  BY <1>0, <2>1, <2>2, <2>3 DEF Types
  <1>1. CASE PrintMenu \/ Pick \/ Back \/ Quit
    BY <1>1 DEF PrintMenu, Pick, Back, Quit, Types
  <1>2. CASE StartTask
    BY <1>2, Messages DEF StartTask, Types
  <1>3. CASE AskFails \/ AskBreaks
    <2>1. tasks' = tasks /\ history' = history
      BY <1>3 DEF AskFails, AskBreaks
    <2>2. CASE EndTask
      BY <2>1, <2>2, <1>0 DEF Types
    <2>3. CASE ~ EndTask
      <3>1. /\ attempt < Retries /\ attempt' = attempt + 1 /\ requests' = requests + 1
            /\ UNCHANGED <<screen, pc, turn, active, todo, results>>
        BY <1>3, <2>3 DEF AskFails, AskBreaks
      <3>2. attempt' \in 0 .. Retries /\ requests' \in Nat
        BY <3>1, <1>a DEF Types
      <3>3. QED  BY <2>1, <3>1, <3>2 DEF Types
    <2>4. QED  BY <2>2, <2>3
  <1>4. CASE AskAnswered
    <2>1. PICK n \in 0 .. MaxBatch, asked \in BOOLEAN :
             /\ history' = Append(history, Assistant(n, asked))
             /\ IF asked /\ n > 0
                THEN /\ pc' = "batch" /\ todo' = n /\ requests' = requests + 1
                     /\ UNCHANGED <<screen, turn, attempt, active, results>>
                ELSE EndTask
      BY <1>4 DEF AskAnswered
    <2>2. n \in Nat /\ history' \in Seq(Msg)
      BY <2>1, <1>a, Messages DEF Types
    <2>3. QED
      <3>1. tasks' = tasks /\ screen = "agent" /\ tasks \in Nat /\ requests \in Nat
        BY <1>4 DEF AskAnswered, Asking, Types
      <3>2. CASE EndTask
        BY <2>2, <3>1, <3>2, <1>0
      <3>3. CASE ~ EndTask
        <4>1. /\ pc' = "batch" /\ todo' = n /\ requests' = requests + 1
              /\ UNCHANGED <<screen, turn, attempt, active, results>>
          BY <2>1, <3>3
        <4>2. QED  BY <2>2, <3>1, <4>1 DEF Types
      <3>4. QED  BY <3>2, <3>3
  <1>5. CASE Local \/ RequestTools \/ Receive \/ GiveUp
    <2>1. todo > 0 /\ Record
      BY <1>5 DEF Local, RequestTools, Receive, GiveUp, Batching, Types
    <2>2. results' \in Seq(Msg) /\ todo' \in Nat
      BY <2>1, Recorded
    <2>3. /\ UNCHANGED <<screen, tasks, turn, attempt, requests, history>>
          /\ screen = "agent" /\ pc' = "batch"
      BY <1>5 DEF Local, RequestTools, Receive, GiveUp, Batching, Forget
    <2>4. QED
      BY <2>2, <2>3 DEF Types
  <1>6. CASE Malformed \/ Send \/ Serve \/ ServeLate \/ DesktopMoves
    BY <1>6 DEF Malformed, Send, Serve, ServeLate, DesktopMoves, Batching, Types
  <1>7. CASE EndBatch
    <2>1. history \in Seq(Msg) /\ results \in Seq(Msg) /\ history' = history \o results
      BY <1>7 DEF EndBatch, Types
    <2>2. history' \in Seq(Msg)
      BY <2>1
    <2>3. QED
      <3>1. tasks' = tasks /\ screen = "agent"
        BY <1>7 DEF EndBatch
      <3>2. CASE EndTask
        BY <2>2, <3>1, <3>2, <1>0 DEF Types
      <3>3. CASE ~ EndTask
        <4>1. /\ turn < MaxTurns /\ turn' = turn + 1 /\ pc' = "ask" /\ attempt' = 0
              /\ results' = <<>> /\ UNCHANGED <<screen, active, todo, requests>>
          BY <1>7, <3>3 DEF EndBatch
        <4>2. results' \in Seq(Msg)
          BY <4>1
        <4>3. turn' \in 1 .. MaxTurns /\ attempt' \in 0 .. Retries
          BY <4>1, <1>a DEF Types
        <4>4. QED  BY <2>2, <3>1, <4>1, <4>2, <4>3 DEF Types
      <3>4. QED  BY <3>2, <3>3
  <1>8. CASE UNCHANGED vars
    BY <1>8 DEF vars, Types
  <1>9. QED
    BY <1>1, <1>2, <1>3, <1>4, <1>5, <1>6, <1>7, <1>8 DEF Next, AskStep, BatchStep
-------------------------------------------------------------------------------
(* The requests of a task: every turn before this one had at most Retries + 1. *)
Asked ==
    requests <= (turn - 1) * (Retries + 1) + attempt + (IF pc = "ask" THEN 0 ELSE 1)

LEMMA Times ==
    ASSUME NEW t \in Nat, NEW m \in Nat, NEW k \in Nat, t < m
    PROVE  t * k + k <= m * k
  <1>1. PICK d \in Nat : m = t + 1 + d
    <2>1. m - t - 1 \in Nat /\ m = t + 1 + (m - t - 1)
      OBVIOUS
    <2>2. QED  BY <2>1
  <1>2. (t + 1 + d) * k = t * k + k + d * k
    OBVIOUS
  <1>3. d * k \in Nat /\ t * k \in Nat
    OBVIOUS
  <1>4. QED
    BY <1>1, <1>2, <1>3

LEMMA InitAsked == Init => Asked
  <1> SUFFICES ASSUME Init PROVE Asked
    OBVIOUS
  <1>1. (1 - 1) * (Retries + 1) = 0
    BY AgentAssumption
  <1>2. QED
    BY <1>1 DEF Init, Asked

LEMMA NextAsked == Types /\ Asked /\ [Next]_vars => Asked'
  <1> SUFFICES ASSUME Types, Asked, [Next]_vars PROVE Asked'
    OBVIOUS
  <1> USE DEF desktop, console, talk, calls
  <1>a. /\ Retries \in Nat /\ turn \in Nat /\ 1 <= turn /\ attempt \in Nat
        /\ attempt <= Retries /\ requests \in Nat
    BY AgentAssumption DEF Types
  <1>b. (turn - 1) * (Retries + 1) \in Nat
    BY <1>a
  <1>1. ASSUME EndTask PROVE Asked'
    <2>1. (1 - 1) * (Retries + 1) = 0
      BY <1>a
    <2>2. QED  BY <1>1, <2>1 DEF EndTask, Asked
  <1>2. ASSUME UNCHANGED <<pc, turn, attempt, requests>> PROVE Asked'
    BY <1>2 DEF Asked
  <1>3. CASE AskFails
    <2>1. pc = "ask"
      BY <1>3 DEF AskFails, Asking
    <2>2. CASE attempt < Retries
      <3>1. /\ attempt' = attempt + 1 /\ requests' = requests + 1
            /\ pc' = pc /\ turn' = turn
        BY <1>3, <2>2 DEF AskFails
      <3>2. QED  BY <2>1, <3>1, <1>a, <1>b DEF Asked
    <2>3. CASE ~ attempt < Retries
      BY <1>3, <2>3, <1>1 DEF AskFails
    <2>4. QED  BY <2>2, <2>3
  <1>4. CASE AskBreaks
    BY <1>4, <1>1 DEF AskBreaks
  <1>5. CASE AskAnswered
    <2>1. \/ EndTask
          \/ /\ pc = "ask" /\ pc' = "batch" /\ requests' = requests + 1
             /\ UNCHANGED <<turn, attempt>>
      BY <1>5 DEF AskAnswered, Asking
    <2>2. QED  BY <2>1, <1>1, <1>a, <1>b DEF Asked
  <1>6. CASE EndBatch
    <2>1. pc = "batch"
      BY <1>6 DEF EndBatch
    <2>2. CASE turn < MaxTurns
      <3>1. turn' = turn + 1 /\ pc' = "ask" /\ attempt' = 0 /\ requests' = requests
        BY <1>6, <2>2 DEF EndBatch
      <3>2. (turn + 1 - 1) * (Retries + 1) = (turn - 1) * (Retries + 1) + (Retries + 1)
        BY <1>a
      <3>3. QED  BY <2>1, <3>1, <3>2, <1>a, <1>b DEF Asked
    <2>3. CASE ~ turn < MaxTurns
      BY <1>6, <2>3, <1>1 DEF EndBatch
    <2>4. QED  BY <2>2, <2>3
  <1>7. CASE \/ PrintMenu \/ Pick \/ Back \/ Quit \/ StartTask \/ Malformed
             \/ Serve \/ ServeLate \/ DesktopMoves \/ UNCHANGED vars
    BY <1>7, <1>2 DEF PrintMenu, Pick, Back, Quit, StartTask, Malformed, Serve,
                      ServeLate, DesktopMoves, vars
  <1>8. CASE Local \/ RequestTools \/ Send \/ Receive \/ GiveUp
    <2>1. pc # "ask" /\ pc' # "ask" /\ UNCHANGED <<turn, attempt, requests>>
      BY <1>8 DEF Local, RequestTools, Send, Receive, GiveUp, Batching, Forget
    <2>2. QED  BY <2>1 DEF Asked
  <1>9. QED
    BY <1>3, <1>4, <1>5, <1>6, <1>7, <1>8 DEF Next, AskStep, BatchStep

(* The model is asked at most MaxTurns * (Retries + 1) times for one task,     *)
(* whatever fails (window_agent/loop.py run_agent, _call_llm).                 *)
THEOREM AsksAreBounded == Spec => []RequestsBounded
  <1>1. Types /\ Asked => RequestsBounded
    <2> SUFFICES ASSUME Types, Asked, Asking
                 PROVE  requests < MaxTurns * (Retries + 1)
      BY DEF RequestsBounded
    <2>1. /\ Retries \in Nat /\ MaxTurns \in Nat /\ turn - 1 \in Nat
          /\ turn - 1 < MaxTurns /\ attempt \in Nat /\ attempt <= Retries
          /\ requests \in Nat
      BY AgentAssumption DEF Types
    <2>2. requests <= (turn - 1) * (Retries + 1) + attempt
      BY <2>1 DEF Asked, Asking
    <2>3. (turn - 1) * (Retries + 1) + (Retries + 1) <= MaxTurns * (Retries + 1)
      BY <2>1, Times
    <2>4. (turn - 1) * (Retries + 1) \in Nat /\ MaxTurns * (Retries + 1) \in Nat
      BY <2>1
    <2>5. QED  BY <2>1, <2>2, <2>3, <2>4
  <1>2. QED
    BY <1>1, InitTypes, NextTypes, InitAsked, NextAsked, PTL DEF Spec
-------------------------------------------------------------------------------
(* A call that was given up bears an id of a result already recorded, so that *)
(* no call to come can bear it again.                                         *)
Past(id) ==
    /\ id[1] \in Nat /\ id[2] \in Nat /\ id[3] \in Nat
    /\ 1 <= id[1] /\ id[1] <= tasks
    /\ screen = "agent" /\ id[1] = tasks =>
          /\ id[2] <= turn
          /\ id[2] = turn => id[3] <= Len(results)

Calls ==
    /\ call.legs \in 0 .. 2 /\ call.ran \in {0, 1}
    /\ call.legs > 0 => call.ran = 0
    /\ pc = "sent" => call.id = Now
    /\ pc # "sent" => call = NoCall
    /\ \A c \in late : Past(c.id)

LEMMA InitCalls == Init => Calls
  BY DEF Init, Calls, NoCall

LEMMA NextCalls == Types /\ Calls /\ [Next]_vars => Calls'
  <1> SUFFICES ASSUME Types, Calls, [Next]_vars PROVE Calls'
    OBVIOUS
  <1> USE DEF desktop, console, talk, calls
  <1>a. /\ tasks \in Nat /\ turn \in Nat /\ Len(results) \in Nat
        /\ results \in Seq(Msg) /\ todo \in Nat
    BY AgentAssumption DEF Types
  <1>b. NoCall.legs = 0 /\ NoCall.ran = 0
    BY DEF NoCall
  <1>1. CASE \/ PrintMenu \/ Pick \/ Back \/ Quit \/ Malformed \/ DesktopMoves
             \/ UNCHANGED vars
    <2>1. /\ UNCHANGED <<tasks, turn, results, pc, calls>>
          /\ screen' = "agent" => screen = "agent"
      BY <1>1 DEF PrintMenu, Pick, Back, Quit, Malformed, DesktopMoves, vars
    <2>2. Now' = Now
      BY <2>1 DEF Now
    <2>3. \A c \in late : Past(c.id)'
      BY <2>1 DEF Calls, Past
    <2>4. QED  BY <2>1, <2>2, <2>3 DEF Calls
  <1>2. ASSUME screen' # "agent", pc # "sent", pc' # "sent", UNCHANGED <<tasks, calls>>
        PROVE  Calls'
    <2>1. \A c \in late : Past(c.id)'
      BY <1>2 DEF Calls, Past
    <2>2. QED  BY <1>2, <2>1 DEF Calls
  <1>3. CASE StartTask
    <2>1. /\ tasks' = tasks + 1 /\ UNCHANGED <<pc, calls>> /\ pc = "ask"
      BY <1>3 DEF StartTask, Types
    <2>2. ASSUME NEW c \in late PROVE Past(c.id)'
      <3>1. /\ c.id[1] \in Nat /\ c.id[2] \in Nat /\ c.id[3] \in Nat
            /\ 1 <= c.id[1] /\ c.id[1] <= tasks
        BY DEF Calls, Past
      <3>2. c.id[1] # tasks + 1 /\ c.id[1] <= tasks + 1
        BY <3>1, <1>a
      <3>3. QED  BY <3>1, <3>2, <2>1 DEF Past
    <2>3. QED  BY <2>1, <2>2 DEF Calls
  <1>4. CASE AskStep
    <2>1. CASE screen' # "agent"
      BY <1>4, <1>2, <2>1 DEF AskStep, AskFails, AskBreaks, AskAnswered, Asking, EndTask
    <2>2. CASE screen' = "agent"
      <3>1. UNCHANGED <<tasks, turn, results, calls, screen>> /\ pc = "ask" /\ pc' # "sent"
        BY <1>4, <2>2 DEF AskStep, AskFails, AskBreaks, AskAnswered, Asking, EndTask
      <3>2. \A c \in late : Past(c.id)'
        BY <3>1 DEF Calls, Past
      <3>3. QED  BY <3>1, <3>2 DEF Calls
    <2>3. QED  BY <2>1, <2>2
  <1>5. ASSUME todo > 0, Record, UNCHANGED <<tasks, turn, screen>>, NEW c,
               Past(c.id) \/ c.id = Now, 1 <= tasks
        PROVE  Past(c.id)'
    <2>1. Len(results') = Len(results) + 1
      BY <1>5, Recorded
    <2>2. CASE Past(c.id)
      <3>1. c.id[3] \in Nat /\ c.id[3] <= Len(results) => c.id[3] <= Len(results) + 1
        BY <1>a
      <3>2. QED  BY <1>5, <2>1, <2>2, <3>1 DEF Past
    <2>3. CASE c.id = Now
      <3>1. c.id[1] = tasks /\ c.id[2] = turn /\ c.id[3] = Len(results) + 1
        BY <2>3 DEF Now
      <3>2. 1 <= tasks
        BY <1>5
      <3>3. QED  BY <1>5, <2>1, <3>1, <3>2, <1>a DEF Past
    <2>4. QED  BY <1>5, <2>2, <2>3
  <1>6. CASE Local \/ RequestTools
    <2>1. /\ todo > 0 /\ Record /\ UNCHANGED <<tasks, turn, screen, calls, pc>>
          /\ pc = "batch" /\ 1 <= tasks
      BY <1>6 DEF Local, RequestTools, Batching, Types
    <2>2. \A c \in late : Past(c.id)'
      BY <2>1, <1>5 DEF Calls
    <2>3. QED  BY <2>1, <2>2 DEF Calls
  <1>7. CASE Send
    <2>1. /\ UNCHANGED <<tasks, turn, screen, results, late>> /\ pc' = "sent"
          /\ call'.id = Now /\ call'.legs \in {1, 2} /\ call'.ran = 0
      BY <1>7 DEF Send
    <2>2. Now' = Now /\ \A c \in late : Past(c.id)'
      BY <2>1 DEF Calls, Past, Now
    <2>3. QED  BY <2>1, <2>2 DEF Calls
  <1>8. CASE Serve
    <2>1. /\ UNCHANGED <<tasks, turn, screen, results, late, pc>> /\ pc = "sent"
          /\ call.legs > 0
          /\ call' = [call EXCEPT !.legs = @ - 1,
                                  !.ran = IF call.legs = 1 THEN @ + 1 ELSE @]
      BY <1>8 DEF Serve
    <2>2. Now' = Now /\ \A c \in late : Past(c.id)'
      BY <2>1 DEF Calls, Past, Now
    <2>3. QED  BY <2>1, <2>2 DEF Calls
  <1>9. CASE Receive \/ GiveUp
    <2>1. /\ todo > 0 /\ Record /\ Forget /\ UNCHANGED <<tasks, turn, screen>>
          /\ pc = "sent" /\ late' \subseteq late \cup {call} /\ pc' = "batch"
          /\ 1 <= tasks
      BY <1>9 DEF Receive, GiveUp, Forget, Types
    <2>2. \A c \in late \cup {call} : Past(c.id)'
      BY <2>1, <1>5 DEF Calls
    <2>3. call' = NoCall
      BY <2>1 DEF Forget
    <2>4. QED  BY <2>1, <2>2, <2>3, <1>b DEF Calls
  <1>10. CASE ServeLate
    <2>1. /\ UNCHANGED <<tasks, turn, screen, results, pc, call>>
          /\ late' \subseteq late
      BY <1>10 DEF ServeLate
    <2>2. Now' = Now /\ \A c \in late : Past(c.id)'
      BY <2>1 DEF Calls, Past, Now
    <2>3. QED  BY <2>1, <2>2 DEF Calls
  <1>11. CASE EndBatch
    <2>1. UNCHANGED <<tasks, calls>> /\ pc = "batch" /\ screen = "agent"
      BY <1>11 DEF EndBatch
    <2>2. CASE turn < MaxTurns
      <3>1. /\ turn' = turn + 1 /\ screen' = screen /\ pc' = "ask"
        BY <1>11, <2>2 DEF EndBatch
      <3>2. ASSUME NEW c \in late PROVE Past(c.id)'
        <4>1. Past(c.id)
          BY DEF Calls
        <4>2. c.id[1] = tasks => c.id[2] <= turn
          BY <4>1, <2>1 DEF Past
        <4>3. c.id[2] \in Nat
          BY <4>1 DEF Past
        <4>4. c.id[2] <= turn => c.id[2] <= turn + 1 /\ c.id[2] # turn + 1
          BY <4>3, <1>a
        <4>5. QED  BY <4>1, <4>2, <4>4, <3>1, <2>1 DEF Past
      <3>3. QED  BY <2>1, <3>1, <3>2 DEF Calls
    <2>3. CASE ~ turn < MaxTurns
      BY <1>11, <2>1, <2>3, <1>2 DEF EndBatch, EndTask
    <2>4. QED  BY <2>2, <2>3
  <1>12. QED
    BY <1>1, <1>3, <1>4, <1>6, <1>7, <1>8, <1>9, <1>10, <1>11 DEF Next, BatchStep

(* A call is carried out once at most: the agent never sends it again, and    *)
(* gives no later call the place of one that may still reach the server       *)
(* (window_agent/client.py, loop.py run_agent).                               *)
THEOREM NothingIsSentTwice == Spec => []CarriedOutOnce
  <1>1. Types /\ Calls => CarriedOutOnce
    <2> SUFFICES ASSUME Types, Calls PROVE CarriedOutOnce
      OBVIOUS
    <2>1. call.ran <= 1
      BY DEF Calls
    <2>2. ASSUME NEW c \in late, c.id = call.id PROVE FALSE
      <3>1. 1 <= c.id[1] /\ Past(c.id)
        BY DEF Calls, Past
      <3>2. CASE pc = "sent"
        <4>1. c.id[1] = tasks /\ c.id[2] = turn /\ c.id[3] = Len(results) + 1
          BY <2>2, <3>2 DEF Calls, Now
        <4>2. screen = "agent" /\ Len(results) \in Nat /\ turn \in Nat
          BY <3>2 DEF Types
        <4>3. QED  BY <3>1, <4>1, <4>2 DEF Past
      <3>3. CASE pc # "sent"
        <4>1. c.id[1] = 0
          BY <2>2, <3>3 DEF Calls, NoCall
        <4>2. QED  BY <3>1, <4>1
      <3>4. QED  BY <3>2, <3>3
    <2>3. QED  BY <2>1, <2>2 DEF CarriedOutOnce
  <1>2. QED
    BY <1>1, InitTypes, NextTypes, InitCalls, NextCalls, PTL DEF Spec
-------------------------------------------------------------------------------
(* The uid a caller has in mind is the uid that is sent, and the server, which *)
(* prefers a uid to anything else, finds an open window by it.                *)
Faithful(c) == c.meant # NoWindow => c.s.uid = c.meant

UidsArrive ==
    /\ Faithful(call)
    /\ \A c \in late : Faithful(c)
    /\ NamedWindowIsHit

LEMMA SentKeepsUid ==
    ASSUME NEW class, NEW s, NEW stray, Meant(class, s) # NoWindow
    PROVE  Sent(class, s, stray, selected).uid = Meant(class, s)
  <1>1. \A w : Uid(w).uid = w
    BY DEF Uid, Nothing
  <1>2. \A i : Index(i).uid = NoWindow /\ Nothing.uid = NoWindow
    BY DEF Index, Nothing
  <1>3. class \notin Blind
    BY DEF Meant
  <1>4. CASE class \in Reading \cup Strict
    <2>1. Sent(class, s, stray, selected) = Minimal(Defaulted(s, selected))
      BY <1>4 DEF Sent
    <2>2. Defaulted(s, selected).uid = Meant(class, s)
      BY <1>3, <1>4 DEF Defaulted, Meant
    <2>3. QED  BY <2>1, <2>2, <1>1 DEF Minimal
  <1>5. CASE class \notin Reading \cup Strict
    <2>1. Meant(class, s) = s.uid
      BY <1>3, <1>5 DEF Meant
    <2>2. Sent(class, s, stray, selected) = s
      BY <1>3, <1>5, <2>1 DEF Sent
    <2>3. QED  BY <2>1, <2>2
  <1>6. QED
    BY <1>4, <1>5

LEMMA EffectsHit ==
    ASSUME NEW c, Faithful(c), Effects(c), NamedWindowIsHit
    PROVE  NamedWindowIsHit'
  <1>1. ASSUME c.meant # NoWindow, c.meant \in Range(list)
        PROVE  Target(c.class, list, focus, c.s) = c.meant
    <2>1. Resolved(list, c.s) = c.meant
      BY <1>1 DEF Faithful, Resolved, ByUid
    <2>2. QED  BY <1>1, <2>1 DEF Target, OrFocused
  <1>2. hits' = hits \cup {[meant |-> c.meant, open |-> c.meant \in Range(list),
                            target |-> Target(c.class, list, focus, c.s)]}
    BY DEF Effects
  <1>3. ASSUME NEW h \in hits', h.meant # NoWindow, h.open
        PROVE  h.target = h.meant
    <2>1. CASE h \in hits
      BY <1>3, <2>1 DEF NamedWindowIsHit
    <2>2. CASE h = [meant |-> c.meant, open |-> c.meant \in Range(list),
                    target |-> Target(c.class, list, focus, c.s)]
      <3>1. h.meant = c.meant /\ h.target = Target(c.class, list, focus, c.s)
        BY <2>2
      <3>2. c.meant \in Range(list)
        BY <1>3, <2>2
      <3>3. QED  BY <1>1, <1>3, <3>1, <3>2
    <2>3. QED  BY <1>2, <2>1, <2>2
  <1>4. QED
    BY <1>3 DEF NamedWindowIsHit

LEMMA InitNamed == Init => UidsArrive
  BY DEF Init, UidsArrive, Faithful, NamedWindowIsHit, NoCall

LEMMA NextNamed == UidsArrive /\ [Next]_vars => UidsArrive'
  <1> SUFFICES ASSUME UidsArrive, [Next]_vars PROVE UidsArrive'
    OBVIOUS
  <1>1. ASSUME UNCHANGED calls PROVE UidsArrive'
    BY <1>1 DEF calls, UidsArrive, Faithful, NamedWindowIsHit
  <1>2. CASE \/ PrintMenu \/ Pick \/ Back \/ Quit \/ StartTask \/ AskStep \/ EndBatch
             \/ Local \/ RequestTools \/ Malformed \/ DesktopMoves \/ UNCHANGED vars
    BY <1>1, <1>2 DEF PrintMenu, Pick, Back, Quit, StartTask, AskStep, AskFails,
       AskBreaks, AskAnswered, EndBatch, Local, RequestTools, Malformed,
       DesktopMoves, vars
  <1>3. CASE Send
    <2>1. PICK class \in Kinds, s \in Named, stray \in BOOLEAN :
             call' = [id |-> Now, class |-> class,
                      s |-> Sent(class, s, stray, selected),
                      meant |-> Meant(class, s),
                      legs |-> IF class = "observe" THEN 2 ELSE 1, ran |-> 0]
      BY <1>3 DEF Send
    <2>2. Faithful(call)'
      BY <2>1, SentKeepsUid DEF Faithful
    <2>3. hits' = {} /\ late' = late
      BY <1>3 DEF Send
    <2>4. QED  BY <2>2, <2>3 DEF UidsArrive, Faithful, NamedWindowIsHit
  <1>4. CASE Serve
    <2>1. Effects(call) /\ late' = late
      BY <1>4 DEF Serve
    <2>2. call'.meant = call.meant /\ call'.s = call.s
      BY <1>4 DEF Serve
    <2>3. QED  BY <2>1, <2>2, EffectsHit DEF UidsArrive, Faithful
  <1>5. CASE Receive \/ GiveUp
    <2>1. call' = NoCall /\ hits' = {} /\ late' \subseteq late \cup {call}
      BY <1>5 DEF Receive, GiveUp, Forget
    <2>2. QED  BY <2>1 DEF UidsArrive, Faithful, NamedWindowIsHit, NoCall
  <1>6. CASE ServeLate
    <2>1. PICK c \in late : late' = late \ {c} /\ Effects(c)
      BY <1>6 DEF ServeLate
    <2>2. call' = call
      BY <1>6 DEF ServeLate
    <2>3. QED  BY <2>1, <2>2, EffectsHit DEF UidsArrive, Faithful
  <1>7. QED
    BY <1>2, <1>3, <1>4, <1>5, <1>6 DEF Next, BatchStep

(* A call that means a window by its uid hits that window as long as it is     *)
(* open, for any list of windows and however it is reordered on the way        *)
(* (window_agent/dispatch.py, tools/context.py _resolve_window).               *)
THEOREM MeantIsHit == Spec => []NamedWindowIsHit
  BY InitNamed, NextNamed, PTL DEF Spec, UidsArrive
-------------------------------------------------------------------------------
(* The conversation up to its m-th message is complete: every answer of the    *)
(* model that asked for calls has all their results behind it, and no result   *)
(* stands anywhere else.                                                      *)
Asks(msg) == msg.role = "assistant" /\ msg.asked

Complete(h, m) ==
    \A k \in 1 .. m :
       /\ Asks(h[k]) => \A i \in 1 .. h[k].calls : k + i <= m /\ h[k + i] = Answer(i)
       /\ h[k].role = "tool" =>
             \E a \in 1 .. k - 1 :
                Asks(h[a]) /\ a + h[k].calls = k /\ h[k].calls <= h[a].calls

Conversation ==
    /\ pc = "ask" => Complete(history, Len(history))
    /\ screen = "agent" /\ pc # "ask" =>
          /\ Len(history) > 0
          /\ history[Len(history)] = Assistant(Len(results) + todo, TRUE)
          /\ Complete(history, Len(history) - 1)
          /\ \A i \in 1 .. Len(results) : results[i] = Answer(i)

LEMMA OneMore ==
    ASSUME NEW h \in Seq(Msg), Complete(h, Len(h)), NEW msg \in Msg,
           msg.role # "tool"
    PROVE  /\ Complete(Append(h, msg), Len(h))
           /\ ~ Asks(msg) \/ msg.calls = 0 => Complete(Append(h, msg), Len(h) + 1)
  <1> DEFINE g == Append(h, msg)
  <1>1. /\ Len(h) \in Nat /\ g[Len(h) + 1] = msg
        /\ \A k \in 1 .. Len(h) : g[k] = h[k] /\ h[k] \in Msg
    OBVIOUS
  <1> HIDE DEF g
  <1>2. \A k \in 1 .. Len(h) : h[k].calls \in Nat
    BY <1>1 DEF Msg
  <1>3. ASSUME NEW k \in 1 .. Len(h)
        PROVE  /\ Asks(g[k]) => \A i \in 1 .. g[k].calls :
                     k + i <= Len(h) /\ g[k + i] = Answer(i)
               /\ g[k].role = "tool" =>
                     \E a \in 1 .. k - 1 :
                        Asks(g[a]) /\ a + g[k].calls = k /\ g[k].calls <= g[a].calls
    <2>1. g[k] = h[k]
      BY <1>1
    <2>2. ASSUME Asks(h[k]), NEW i \in 1 .. h[k].calls
          PROVE  k + i <= Len(h) /\ g[k + i] = Answer(i)
      <3>1. k + i <= Len(h) /\ h[k + i] = Answer(i)
        BY <2>2 DEF Complete
      <3>2. k + i \in 1 .. Len(h)
        BY <3>1, <1>1, <1>2
      <3>3. QED  BY <3>1, <3>2, <1>1
    <2>3. ASSUME h[k].role = "tool"
          PROVE  \E a \in 1 .. k - 1 :
                    Asks(g[a]) /\ a + h[k].calls = k /\ h[k].calls <= g[a].calls
      <3>1. PICK a \in 1 .. k - 1 :
               Asks(h[a]) /\ a + h[k].calls = k /\ h[k].calls <= h[a].calls
        BY <2>3 DEF Complete
      <3>2. g[a] = h[a]
        BY <1>1
      <3>3. QED  BY <3>1, <3>2
    <2>4. QED  BY <2>1, <2>2, <2>3
  <1>4. Complete(g, Len(h))
    BY <1>3 DEF Complete
  <1>5. ASSUME ~ Asks(msg) \/ msg.calls = 0 PROVE Complete(g, Len(h) + 1)
    <2>1. ASSUME NEW k \in 1 .. Len(h), Asks(g[k]), NEW i \in 1 .. g[k].calls
          PROVE  k + i <= Len(h) + 1 /\ g[k + i] = Answer(i)
      <3>1. k + i <= Len(h) /\ g[k + i] = Answer(i)
        BY <1>3, <2>1
      <3>2. k + i \in Int
        BY <1>1, <1>2
      <3>3. QED  BY <3>1, <3>2, <1>1
    <2>2. \A k \in 1 .. Len(h) + 1 : k \in 1 .. Len(h) \/ k = Len(h) + 1
      BY <1>1
    <2>3. msg.role # "tool" /\ (Asks(msg) => 1 .. msg.calls = {})
      BY <1>5
    <2>4. QED  BY <1>1, <1>3, <2>1, <2>2, <2>3 DEF Complete
  <1>6. QED
    BY <1>4, <1>5 DEF g

LEMMA AllResults ==
    ASSUME NEW h \in Seq(Msg), NEW r \in Seq(Msg), Len(h) > 0,
           h[Len(h)] = Assistant(Len(r), TRUE), Complete(h, Len(h) - 1),
           \A i \in 1 .. Len(r) : r[i] = Answer(i)
    PROVE  Complete(h \o r, Len(h \o r))
  <1> DEFINE g == h \o r
             m == Len(h)
             n == Len(r)
  <1>1. /\ m \in Nat /\ n \in Nat /\ Len(g) = m + n
        /\ \A k \in 1 .. m : g[k] = h[k] /\ h[k] \in Msg
        /\ \A i \in 1 .. n : g[m + i] = r[i]
    OBVIOUS
  <1>2. /\ Asks(h[m]) /\ h[m].calls = n /\ h[m].role # "tool"
        /\ m > 0 /\ Complete(h, m - 1)
        /\ \A i \in 1 .. n : r[i] = Answer(i)
    BY DEF Asks, Assistant
  <1> HIDE DEF g, m, n
  <1>3. \A k \in 1 .. m : h[k].calls \in Nat
    BY <1>1 DEF Msg
  <1>4. ASSUME NEW k \in 1 .. m + n, Asks(g[k]), NEW i \in 1 .. g[k].calls
        PROVE  k + i <= m + n /\ g[k + i] = Answer(i)
    <2>1. CASE k \in 1 .. m - 1
      <3>1. g[k] = h[k] /\ h[k].calls \in Nat
        BY <1>1, <1>3, <2>1
      <3>2. k + i <= m - 1 /\ h[k + i] = Answer(i)
        BY <1>2, <1>4, <2>1, <3>1 DEF Complete
      <3>3. k + i \in 1 .. m
        BY <1>1, <2>1, <3>1, <3>2
      <3>4. QED  BY <1>1, <3>2, <3>3
    <2>2. CASE k = m
      <3>1. g[k] = h[m] /\ i \in 1 .. n
        BY <1>1, <1>2, <2>2
      <3>2. g[m + i] = r[i] /\ r[i] = Answer(i) /\ m + i <= m + n
        BY <1>1, <1>2, <3>1
      <3>3. QED  BY <2>2, <3>2
    <2>3. CASE k \in m + 1 .. m + n
      <3>1. k - m \in 1 .. n /\ k = m + (k - m)
        BY <1>1, <2>3
      <3>2. g[k] = Answer(k - m)
        BY <1>1, <1>2, <3>1
      <3>3. QED  BY <1>4, <3>2 DEF Asks, Answer
    <2>4. QED  BY <1>1, <1>2, <2>1, <2>2, <2>3
  <1>5. ASSUME NEW k \in 1 .. m + n, g[k].role = "tool"
        PROVE  \E a \in 1 .. k - 1 :
                  Asks(g[a]) /\ a + g[k].calls = k /\ g[k].calls <= g[a].calls
    <2>1. CASE k \in 1 .. m - 1
      <3>1. g[k] = h[k]
        BY <1>1, <2>1
      <3>2. PICK a \in 1 .. k - 1 :
               Asks(h[a]) /\ a + h[k].calls = k /\ h[k].calls <= h[a].calls
        BY <1>2, <1>5, <2>1, <3>1 DEF Complete
      <3>3. g[a] = h[a]
        BY <1>1, <2>1
      <3>4. QED  BY <3>1, <3>2, <3>3
    <2>2. CASE k = m
      BY <1>1, <1>2, <1>5, <2>2
    <2>3. CASE k \in m + 1 .. m + n
      <3>1. k - m \in 1 .. n /\ k = m + (k - m) /\ m \in 1 .. k - 1
        BY <1>1, <1>2, <2>3
      <3>2. g[k] = Answer(k - m)
        BY <1>1, <1>2, <3>1
      <3>3. g[k].calls = k - m /\ g[m] = h[m]
        BY <1>1, <1>2, <3>2 DEF Answer
      <3>4. QED  BY <1>1, <1>2, <3>1, <3>3
    <2>4. QED  BY <1>1, <1>2, <2>1, <2>2, <2>3
  <1>6. Complete(g, m + n)
    BY <1>4, <1>5 DEF Complete
  <1>7. QED
    BY <1>1, <1>6 DEF g

LEMMA InitConversation == Init => Conversation
  BY DEF Init, Conversation, Complete

LEMMA NextConversation ==
    Types /\ Conversation /\ [Next]_vars => Conversation'
  <1> SUFFICES ASSUME Types, Conversation, [Next]_vars PROVE Conversation'
    OBVIOUS
  <1> USE DEF desktop, console, talk, calls
  <1>a. /\ history \in Seq(Msg) /\ results \in Seq(Msg)
        /\ Len(results) \in Nat /\ todo \in Nat /\ MaxBatch \in Nat
    BY AgentAssumption DEF Types
  <1>1. CASE \/ PrintMenu \/ Pick \/ Back \/ Quit \/ Malformed
             \/ DesktopMoves \/ ServeLate \/ UNCHANGED vars
    <2>1. UNCHANGED <<history, results, todo, pc>> /\ (screen' = "agent" => screen = "agent")
      BY <1>1 DEF PrintMenu, Pick, Back, Quit, Malformed, DesktopMoves, ServeLate, vars
    <2>2. QED  BY <2>1 DEF Conversation
  <1>2. ASSUME pc' = "ask", Complete(history, Len(history))' PROVE Conversation'
    BY <1>2 DEF Conversation
  <1>3. CASE StartTask
    <2>1. pc = "ask" /\ pc' = pc /\ history' = Append(history, User)
      BY <1>3 DEF StartTask, Types
    <2>2. Complete(history, Len(history)) /\ User \in Msg
      BY <2>1, Messages DEF Conversation
    <2>3. User.role # "tool" /\ ~ Asks(User)
      BY DEF User, Asks
    <2>4. Len(history') = Len(history) + 1
      BY <2>1, <1>a
    <2>5. QED  BY <1>a, <1>2, <2>1, <2>2, <2>3, <2>4, OneMore
  <1>4. CASE AskFails \/ AskBreaks
    <2>1. pc = "ask" /\ pc' = "ask" /\ history' = history
      BY <1>4 DEF AskFails, AskBreaks, Asking, EndTask
    <2>2. QED  BY <2>1, <1>2 DEF Conversation
  <1>5. CASE AskAnswered
    <2>1. PICK n \in 0 .. MaxBatch, asked \in BOOLEAN :
             /\ history' = Append(history, Assistant(n, asked))
             /\ IF asked /\ n > 0
                THEN /\ pc' = "batch" /\ todo' = n /\ requests' = requests + 1
                     /\ UNCHANGED <<screen, turn, attempt, active, results>>
                ELSE EndTask
      BY <1>5 DEF AskAnswered
    <2>2. pc = "ask" /\ n \in Nat /\ Complete(history, Len(history))
      BY <1>5, <1>a DEF AskAnswered, Asking, Conversation
    <2>3. /\ Assistant(n, asked) \in Msg /\ Assistant(n, asked).role # "tool"
          /\ Assistant(n, asked).calls = n /\ (Asks(Assistant(n, asked)) <=> asked)
      BY <2>2, Messages DEF Assistant, Asks
    <2>4. Len(history') = Len(history) + 1 /\ history'[Len(history')] = Assistant(n, asked)
      BY <1>a, <2>1, <2>3
    <2>5. CASE asked /\ n > 0
      <3>1. Complete(history', Len(history))
        BY <1>a, <2>1, <2>2, <2>3, OneMore
      <3>2. Len(history) \in Nat /\ Len(history') - 1 = Len(history)
        BY <1>a, <2>4
      <3>3. pc' = "batch" /\ todo' = n /\ results' = results
        BY <2>1, <2>5
      <3>4. results = <<>>
        BY <2>2 DEF Types
      <3>5. QED  BY <2>2, <2>4, <2>5, <3>1, <3>2, <3>3, <3>4 DEF Conversation
    <2>6. CASE ~ (asked /\ n > 0)
      <3>1. pc' = "ask"
        BY <2>1, <2>6 DEF EndTask
      <3>2. Complete(history', Len(history) + 1)
        BY <1>a, <2>1, <2>2, <2>3, <2>6, OneMore
      <3>3. QED  BY <1>2, <2>4, <3>1, <3>2
    <2>7. QED  BY <2>5, <2>6
  <1>6. CASE Local \/ RequestTools \/ Receive \/ GiveUp
    <2>1. /\ todo > 0 /\ Record /\ screen = "agent" /\ pc # "ask" /\ pc' # "ask"
          /\ history' = history
      BY <1>6 DEF Local, RequestTools, Receive, GiveUp, Batching, Forget, Types
    <2>2. /\ Len(results') = Len(results) + 1 /\ todo' = todo - 1
          /\ results'[Len(results) + 1] = Answer(Len(results) + 1)
          /\ \A i \in 1 .. Len(results) : results'[i] = results[i]
      BY <2>1, Recorded
    <2>3. Len(results') + todo' = Len(results) + todo
      BY <1>a, <2>2
    <2>4. \A i \in 1 .. Len(results') : results'[i] = Answer(i)
      BY <1>a, <2>1, <2>2 DEF Conversation
    <2>5. QED  BY <2>1, <2>3, <2>4 DEF Conversation
  <1>7. CASE Send \/ Serve
    <2>1. pc # "ask" /\ pc' # "ask" /\ UNCHANGED <<history, results, todo, screen>>
      BY <1>7 DEF Send, Serve, Batching
    <2>2. QED  BY <2>1 DEF Conversation
  <1>8. CASE EndBatch
    <2>1. /\ screen = "agent" /\ pc = "batch" /\ todo = 0 /\ pc' = "ask"
          /\ history' = history \o results
      BY <1>8 DEF EndBatch, EndTask
    <2>2. /\ Len(history) > 0 /\ history[Len(history)] = Assistant(Len(results), TRUE)
          /\ Complete(history, Len(history) - 1)
          /\ \A i \in 1 .. Len(results) : results[i] = Answer(i)
      <3>1. Len(results) + todo = Len(results)
        BY <1>a, <2>1
      <3>2. QED  BY <2>1, <3>1 DEF Conversation
    <2>3. Complete(history', Len(history'))
      BY <1>a, <2>1, <2>2, AllResults
    <2>4. QED  BY <1>2, <2>1, <2>3
  <1>9. QED
    BY <1>1, <1>3, <1>4, <1>5, <1>6, <1>7, <1>8 DEF Next, AskStep, BatchStep

(* Whenever the model is asked, every call of every answer it gave has its      *)
(* result in its place, whatever failed on the way and in how many tasks       *)
(* before (window_agent/loop.py run_agent).                                    *)
THEOREM EveryCallIsAnswered == Spec => []CallsAreAnswered
  <1>1. Types /\ Conversation => CallsAreAnswered
    <2> SUFFICES ASSUME Types, Conversation, Asking PROVE CallsAreAnswered
      BY DEF CallsAreAnswered
    <2>1. /\ history \in Seq(Msg) /\ Len(history) \in Nat
          /\ DOMAIN history = 1 .. Len(history)
          /\ Complete(history, Len(history))
      BY DEF Types, Conversation, Asking
    <2>2. \A k \in 1 .. Len(history) : history[k].calls \in Nat
      <3>1. \A k \in 1 .. Len(history) : history[k] \in Msg
        BY <2>1
      <3>2. QED  BY <3>1 DEF Msg
    <2>3. ASSUME NEW k \in 1 .. Len(history), Asks(history[k]),
                 NEW i \in 1 .. history[k].calls
          PROVE  Follows(k, i)
      <3>1. k + i <= Len(history) /\ history[k + i] = Answer(i)
        BY <2>1, <2>3 DEF Complete
      <3>2. k + i \in 1 .. Len(history)
        BY <2>1, <2>2, <3>1
      <3>3. QED  BY <2>1, <3>1, <3>2 DEF Follows
    <2>4. ASSUME NEW k \in 1 .. Len(history), history[k].role = "tool"
          PROVE  \E a \in 1 .. k - 1 :
                    /\ Asks(history[a])
                    /\ a + history[k].calls = k /\ history[k].calls <= history[a].calls
      BY <2>1, <2>4 DEF Complete
    <2>5. QED  BY <2>1, <2>3, <2>4 DEF CallsAreAnswered, Asks
  <1>2. QED
    BY <1>1, InitTypes, NextTypes, InitConversation, NextConversation, PTL DEF Spec
-------------------------------------------------------------------------------
(* A pixel is a pair of integers at or after the one corner of its rectangle  *)
(* and before the other.                                                     *)
LEMMA PixelsOfRectangle ==
    ASSUME NEW r \in Rectangles
    PROVE  /\ Pixels(r) \subseteq Int \X Int
           /\ \A i, j \in Int : <<i, j>> \in Pixels(r) <=>
                 r.x <= i /\ i < r.x + r.w /\ r.y <= j /\ j < r.y + r.h
  BY DEF Rectangles, Pixels, Right, Bottom

LEMMA EmptyRectangles ==
    ASSUME NEW r \in Rectangles
    PROVE  Empty(r) <=> Pixels(r) = {}
  <1>1. CASE Empty(r)
    BY <1>1 DEF Empty, Rectangles, Pixels, Right, Bottom
  <1>2. CASE ~ Empty(r)
    <2>1. r.x \in Int /\ r.y \in Int /\ r.w \in Int /\ r.h \in Int /\ 0 < r.w /\ 0 < r.h
      BY <1>2 DEF Empty, Rectangles
    <2>2. <<r.x, r.y>> \in Pixels(r)
      BY <2>1, PixelsOfRectangle
    <2>3. QED  BY <1>2, <2>2
  <1>3. QED  BY <1>1, <1>2

LEMMA IntersectPixels ==
    ASSUME NEW a \in Rectangles, NEW b \in Rectangles
    PROVE  /\ Intersect(a, b) \in Rectangles
           /\ Pixels(Intersect(a, b)) = Pixels(a) \cap Pixels(b)
  <1> DEFINE c == Intersect(a, b)
  <1>1. /\ a.x \in Int /\ a.y \in Int /\ a.w \in Int /\ a.h \in Int
        /\ b.x \in Int /\ b.y \in Int /\ b.w \in Int /\ b.h \in Int
    BY DEF Rectangles
  <1>2. /\ c.x = Most(a.x, b.x) /\ c.y = Most(a.y, b.y)
        /\ c.w = Least(a.x + a.w, b.x + b.w) - c.x
        /\ c.h = Least(a.y + a.h, b.y + b.h) - c.y
    BY DEF Intersect, Rect, Right, Bottom
  <1>3. c = [x |-> c.x, y |-> c.y, w |-> c.w, h |-> c.h]
    BY DEF Intersect, Rect
  <1> HIDE DEF c
  <1>4. /\ c.x \in Int /\ c.y \in Int /\ c.w \in Int /\ c.h \in Int
    BY <1>1, <1>2 DEF Most, Least
  <1>5. c \in Rectangles
    BY <1>3, <1>4 DEF Rectangles
  <1>6. \A i, j \in Int : <<i, j>> \in Pixels(c) <=>
           <<i, j>> \in Pixels(a) /\ <<i, j>> \in Pixels(b)
    <2> SUFFICES ASSUME NEW i \in Int, NEW j \in Int
                 PROVE  <<i, j>> \in Pixels(c) <=>
                           <<i, j>> \in Pixels(a) /\ <<i, j>> \in Pixels(b)
      OBVIOUS
    <2>1. /\ c.x <= i <=> a.x <= i /\ b.x <= i
          /\ c.y <= j <=> a.y <= j /\ b.y <= j
          /\ i < c.x + c.w <=> i < a.x + a.w /\ i < b.x + b.w
          /\ j < c.y + c.h <=> j < a.y + a.h /\ j < b.y + b.h
      BY <1>1, <1>2, <1>4 DEF Most, Least
    <2>2. QED  BY <2>1, <1>5, PixelsOfRectangle
  <1>7. Pixels(c) = Pixels(a) \cap Pixels(b)
    BY <1>5, <1>6, PixelsOfRectangle
  <1>8. QED  BY <1>5, <1>7 DEF c

(* The strips around what two rectangles share are what is left of the first, *)
(* each pixel of it once.                                                    *)
LEMMA AroundIsTheRest ==
    ASSUME NEW r \in Rectangles, NEW o \in Rectangles, ~ Empty(Intersect(r, o))
    PROVE  /\ \A k \in 1 .. 4 : Around(r, o)[k] \in Rectangles
           /\ UNION {Pixels(Around(r, o)[k]) : k \in 1 .. 4} = Pixels(r) \ Pixels(o)
           /\ \A k, l \in 1 .. 4 : k # l =>
                 Pixels(Around(r, o)[k]) \cap Pixels(Around(r, o)[l]) = {}
  <1> DEFINE c == Intersect(r, o)
             s(k) == Around(r, o)[k]
  <1>1. c \in Rectangles /\ Pixels(c) = Pixels(r) \cap Pixels(o)
    BY IntersectPixels
  <1>2. /\ r.x \in Int /\ r.y \in Int /\ r.w \in Int /\ r.h \in Int
        /\ c.x \in Int /\ c.y \in Int /\ c.w \in Int /\ c.h \in Int
        /\ 0 < c.w /\ 0 < c.h
    BY <1>1 DEF Rectangles, Empty
  <1>3. /\ r.x <= c.x /\ c.x + c.w <= r.x + r.w
        /\ r.y <= c.y /\ c.y + c.h <= r.y + r.h
    <2>1. /\ o.x \in Int /\ o.y \in Int /\ o.w \in Int /\ o.h \in Int
      BY DEF Rectangles
    <2>2. /\ c.x = Most(r.x, o.x) /\ c.y = Most(r.y, o.y)
          /\ c.w = Least(r.x + r.w, o.x + o.w) - c.x
          /\ c.h = Least(r.y + r.h, o.y + o.h) - c.y
      BY DEF Intersect, Rect, Right, Bottom
    <2> HIDE DEF c
    <2>3. QED  BY <1>2, <2>1, <2>2 DEF Most, Least
  <1>4. /\ s(1) = Rect(r.x, r.y, r.w, c.y - r.y)
        /\ s(2) = Rect(r.x, c.y + c.h, r.w, (r.y + r.h) - (c.y + c.h))
        /\ s(3) = Rect(r.x, c.y, c.x - r.x, c.h)
        /\ s(4) = Rect(c.x + c.w, c.y, (r.x + r.w) - (c.x + c.w), c.h)
    <2>1. Around(r, o) =
            <<Rect(r.x, r.y, r.w, c.y - r.y),
              Rect(r.x, c.y + c.h, r.w, (r.y + r.h) - (c.y + c.h)),
              Rect(r.x, c.y, c.x - r.x, c.h),
              Rect(c.x + c.w, c.y, (r.x + r.w) - (c.x + c.w), c.h)>>
      BY Zenon DEF Around, Right, Bottom
    <2>2. QED  BY <2>1
  <1> HIDE DEF c, s
  <1>5. s(1) \in Rectangles /\ s(2) \in Rectangles
        /\ s(3) \in Rectangles /\ s(4) \in Rectangles
    BY <1>2, <1>4 DEF Rect, Rectangles
  <1>6. ASSUME NEW i \in Int, NEW j \in Int
        PROVE  /\ <<i, j>> \in Pixels(s(1)) <=>
                     r.x <= i /\ i < r.x + r.w /\ r.y <= j /\ j < c.y
               /\ <<i, j>> \in Pixels(s(2)) <=>
                     r.x <= i /\ i < r.x + r.w /\ c.y + c.h <= j /\ j < r.y + r.h
               /\ <<i, j>> \in Pixels(s(3)) <=>
                     r.x <= i /\ i < c.x /\ c.y <= j /\ j < c.y + c.h
               /\ <<i, j>> \in Pixels(s(4)) <=>
                     c.x + c.w <= i /\ i < r.x + r.w /\ c.y <= j /\ j < c.y + c.h
    <2>1. \A k \in 1 .. 4 : <<i, j>> \in Pixels(s(k)) <=>
             s(k).x <= i /\ i < s(k).x + s(k).w /\ s(k).y <= j /\ j < s(k).y + s(k).h
      BY <1>5, PixelsOfRectangle
    <2>2. QED  BY <1>2, <1>4, <2>1 DEF Rect
  <1>7. ASSUME NEW i \in Int, NEW j \in Int
        PROVE  <<i, j>> \in UNION {Pixels(s(k)) : k \in 1 .. 4}
                  <=> <<i, j>> \in Pixels(r) /\ <<i, j>> \notin Pixels(o)
    <2>1. <<i, j>> \in UNION {Pixels(s(k)) : k \in 1 .. 4}
             <=> \E k \in 1 .. 4 : <<i, j>> \in Pixels(s(k))
      OBVIOUS
    <2>2. (\E k \in 1 .. 4 : <<i, j>> \in Pixels(s(k)))
             <=> \/ <<i, j>> \in Pixels(s(1)) \/ <<i, j>> \in Pixels(s(2))
                 \/ <<i, j>> \in Pixels(s(3)) \/ <<i, j>> \in Pixels(s(4))
      OBVIOUS
    <2>3. <<i, j>> \in Pixels(r) <=>
             r.x <= i /\ i < r.x + r.w /\ r.y <= j /\ j < r.y + r.h
      BY PixelsOfRectangle
    <2>4. <<i, j>> \in Pixels(c) <=>
             c.x <= i /\ i < c.x + c.w /\ c.y <= j /\ j < c.y + c.h
      BY <1>1, PixelsOfRectangle
    <2>5. <<i, j>> \in Pixels(r) /\ <<i, j>> \notin Pixels(o)
             <=> <<i, j>> \in Pixels(r) /\ <<i, j>> \notin Pixels(c)
      BY <1>1
    <2>6. (\E k \in 1 .. 4 : <<i, j>> \in Pixels(s(k)))
             <=> <<i, j>> \in Pixels(r) /\ <<i, j>> \notin Pixels(c)
      BY <1>2, <1>3, <1>6, <2>2, <2>3, <2>4
    <2>7. QED  BY <2>1, <2>5, <2>6
  <1>8. UNION {Pixels(s(k)) : k \in 1 .. 4} = Pixels(r) \ Pixels(o)
    <2>1. \A k \in 1 .. 4 : Pixels(s(k)) \subseteq Int \X Int
      BY <1>5, PixelsOfRectangle
    <2>2. Pixels(r) \subseteq Int \X Int
      BY PixelsOfRectangle
    <2>3. QED  BY <1>7, <2>1, <2>2
  <1>9. ASSUME NEW k \in 1 .. 4, NEW l \in 1 .. 4, k # l
        PROVE  Pixels(s(k)) \cap Pixels(s(l)) = {}
    <2>1. SUFFICES ASSUME NEW i \in Int, NEW j \in Int,
                          <<i, j>> \in Pixels(s(k)), <<i, j>> \in Pixels(s(l))
                   PROVE  FALSE
      <3>1. Pixels(s(k)) \subseteq Int \X Int
        BY <1>5, PixelsOfRectangle
      <3>2. QED  BY <3>1
    <2>2. \/ k = 1 \/ k = 2 \/ k = 3 \/ k = 4
      OBVIOUS
    <2>3. \/ l = 1 \/ l = 2 \/ l = 3 \/ l = 4
      OBVIOUS
    <2>4. QED  BY <1>2, <1>3, <1>6, <1>9, <2>1, <2>2, <2>3
  <1>10. \A k \in 1 .. 4 : s(k) \in Rectangles
    BY <1>5
  <1>11. QED  BY <1>8, <1>9, <1>10 DEF s

(* Rectangles that are not empty, lie apart and make up the pixels P. *)
Tiles(s, P) ==
    /\ s \in Seq(Rectangles)
    /\ \A i \in 1 .. Len(s) : ~ Empty(s[i])
    /\ \A i, j \in 1 .. Len(s) : i # j => Pixels(s[i]) \cap Pixels(s[j]) = {}
    /\ UNION {Pixels(s[i]) : i \in 1 .. Len(s)} = P

LEMMA TilesOfNothing == Tiles(<<>>, {})
  BY DEF Tiles

LEMMA TilesOfOne ==
    ASSUME NEW r \in Rectangles, ~ Empty(r)
    PROVE  Tiles(<<r>>, Pixels(r))
  BY DEF Tiles

LEMMA KeptTiles ==
    ASSUME NEW r \in Rectangles
    PROVE  Tiles(Kept(r), Pixels(r))
  <1>1. CASE Empty(r)
    BY <1>1, EmptyRectangles, TilesOfNothing DEF Kept
  <1>2. CASE ~ Empty(r)
    BY <1>2, TilesOfOne DEF Kept
  <1>3. QED  BY <1>1, <1>2

(* Tilings of sets apart tile both when put one after the other.               *)
LEMMA TilesTogether ==
    ASSUME NEW s, NEW t, NEW P, NEW Q, Tiles(s, P), Tiles(t, Q), P \cap Q = {}
    PROVE  Tiles(s \o t, P \cup Q)
  <1> DEFINE u == s \o t
             n == Len(s)
  <1>1. /\ s \in Seq(Rectangles) /\ t \in Seq(Rectangles)
        /\ n \in Nat /\ Len(t) \in Nat
    BY DEF Tiles
  <1>2. u \in Seq(Rectangles) /\ Len(u) = n + Len(t)
    BY <1>1
  <1>3. ASSUME NEW i \in 1 .. Len(u)
        PROVE  \/ i \in 1 .. n /\ u[i] = s[i]
               \/ i \notin 1 .. n /\ i - n \in 1 .. Len(t) /\ u[i] = t[i - n]
    BY <1>1, <1>2
  <1>4. /\ \A i \in 1 .. n : i \in 1 .. Len(u) /\ u[i] = s[i]
        /\ \A j \in 1 .. Len(t) : n + j \in 1 .. Len(u) /\ u[n + j] = t[j]
    BY <1>1, <1>2
  <1> HIDE DEF u, n
  <1>5. \A i \in 1 .. Len(u) : ~ Empty(u[i])
    BY <1>3 DEF Tiles, n
  <1>6. /\ \A i \in 1 .. n : Pixels(s[i]) \subseteq P
        /\ \A j \in 1 .. Len(t) : Pixels(t[j]) \subseteq Q
    BY DEF Tiles, n
  <1>7. ASSUME NEW i \in 1 .. Len(u), NEW j \in 1 .. Len(u), i # j
        PROVE  Pixels(u[i]) \cap Pixels(u[j]) = {}
    <2>1. CASE i \in 1 .. n /\ j \in 1 .. n
      BY <1>3, <1>7, <2>1 DEF Tiles, n
    <2>2. CASE i \in 1 .. n /\ j \notin 1 .. n
      BY <1>3, <1>6, <2>2
    <2>3. CASE i \notin 1 .. n /\ j \in 1 .. n
      BY <1>3, <1>6, <2>3
    <2>4. CASE i \notin 1 .. n /\ j \notin 1 .. n
      <3>1. /\ i - n \in 1 .. Len(t) /\ u[i] = t[i - n]
            /\ j - n \in 1 .. Len(t) /\ u[j] = t[j - n]
        BY <1>3, <2>4
      <3>2. i - n # j - n
        BY <1>1, <1>2, <1>7
      <3>3. QED  BY <3>1, <3>2 DEF Tiles
    <2>5. QED  BY <2>1, <2>2, <2>3, <2>4
  <1>8. UNION {Pixels(u[i]) : i \in 1 .. Len(u)} = P \cup Q
    <2>1. /\ P = UNION {Pixels(s[i]) : i \in 1 .. n}
          /\ Q = UNION {Pixels(t[j]) : j \in 1 .. Len(t)}
      BY DEF Tiles, n
    <2>2. \A i \in 1 .. Len(u) : Pixels(u[i]) \subseteq P \cup Q
      BY <1>3, <1>6
    <2>3. \A i \in 1 .. n : Pixels(s[i]) \in {Pixels(u[k]) : k \in 1 .. Len(u)}
      BY <1>4
    <2>4. \A j \in 1 .. Len(t) : Pixels(t[j]) \in {Pixels(u[k]) : k \in 1 .. Len(u)}
      BY <1>4
    <2>5. P \cup Q \subseteq UNION {Pixels(u[i]) : i \in 1 .. Len(u)}
      BY <2>1, <2>3, <2>4
    <2>6. QED  BY <2>2, <2>5
  <1>9. QED  BY <1>2, <1>5, <1>7, <1>8 DEF Tiles, u

(* What _subtract_rect leaves of one rectangle tiles the rest of it.             *)
Remains(r, o) == IF Empty(Intersect(r, o)) THEN <<r>> ELSE Strips(r, o)

LEMMA RemainsTile ==
    ASSUME NEW r \in Rectangles, ~ Empty(r), NEW o \in Rectangles
    PROVE  Tiles(Remains(r, o), Pixels(r) \ Pixels(o))
  <1>1. CASE Empty(Intersect(r, o))
    <2>1. Pixels(r) \ Pixels(o) = Pixels(r)
      BY <1>1, IntersectPixels, EmptyRectangles
    <2>2. QED  BY <1>1, <2>1, TilesOfOne DEF Remains
  <1>2. CASE ~ Empty(Intersect(r, o))
    <2> DEFINE s(k) == Around(r, o)[k]
               P(k) == Pixels(s(k))
    <2>1. /\ \A k \in 1 .. 4 : s(k) \in Rectangles
          /\ UNION {P(k) : k \in 1 .. 4} = Pixels(r) \ Pixels(o)
          /\ \A k, l \in 1 .. 4 : k # l => P(k) \cap P(l) = {}
      BY <1>2, AroundIsTheRest
    <2>2. \A k \in 1 .. 4 : Tiles(Kept(s(k)), P(k))
      BY <2>1, KeptTiles
    <2>3. Strips(r, o) = ((Kept(s(1)) \o Kept(s(2))) \o Kept(s(3))) \o Kept(s(4))
      BY Zenon DEF Strips
    <2>4. UNION {P(k) : k \in 1 .. 4} = ((P(1) \cup P(2)) \cup P(3)) \cup P(4)
      OBVIOUS
    <2> HIDE DEF s, P
    <2>5. Tiles(Kept(s(1)) \o Kept(s(2)), P(1) \cup P(2))
      BY <2>1, <2>2, TilesTogether
    <2>6. Tiles((Kept(s(1)) \o Kept(s(2))) \o Kept(s(3)), (P(1) \cup P(2)) \cup P(3))
      <3>1. (P(1) \cup P(2)) \cap P(3) = {}
        BY <2>1
      <3>2. QED  BY <2>2, <2>5, <3>1, TilesTogether
    <2>7. Tiles(((Kept(s(1)) \o Kept(s(2))) \o Kept(s(3))) \o Kept(s(4)),
                ((P(1) \cup P(2)) \cup P(3)) \cup P(4))
      <3>1. ((P(1) \cup P(2)) \cup P(3)) \cap P(4) = {}
        BY <2>1
      <3>2. QED  BY <2>2, <2>6, <3>1, TilesTogether
    <2>8. QED  BY <1>2, <2>1, <2>3, <2>4, <2>7 DEF Remains
  <1>3. QED  BY <1>1, <1>2

(* Tilings of sets that are all apart tile their union when flattened.          *)
LEMMA FlattenTiles ==
    ASSUME NEW n \in Nat, NEW ss, ss = [k \in 1 .. n |-> ss[k]], NEW P,
           \A k \in 1 .. n : Tiles(ss[k], P[k]),
           \A k, l \in 1 .. n : k # l => P[k] \cap P[l] = {}
    PROVE  Tiles(FlattenSeq(ss), UNION {P[k] : k \in 1 .. n})
  <1>1. \A k \in 1 .. n : ss[k] \in Seq(Rectangles)
    BY DEF Tiles
  <1>2. ss \in Seq(Seq(Rectangles)) /\ Len(ss) = n
    BY <1>1
  <1>3. CASE n = 0
    <2>1. FlattenSeq(ss) = ss
      BY <1>2, <1>3 DEF FlattenSeq
    <2>2. ss = <<>>
      BY <1>2, <1>3
    <2>3. {P[k] : k \in 1 .. n} = {}
      BY <1>3
    <2>4. QED  BY <2>1, <2>2, <2>3, TilesOfNothing
  <1>4. CASE n # 0
    <2> DEFINE Flat(f) == [i \in 1 .. n |-> IF i = 1 THEN ss[i] ELSE f[i - 1] \o ss[i]]
               flat == CHOOSE f : f = Flat(f)
               T == Seq(Rectangles)
    <2>1. \E f : f = Flat(f)
      <3> DEFINE step == [k \in 1 .. n |-> [s \in T |-> s \o ss[k]]]
      <3>1. step \in [1 .. n -> [T -> T]] /\ <<>> \in T
        BY <1>1
      <3>2. PICK f \in [0 .. n -> T] :
               f[0] = <<>> /\ \A k \in 1 .. n : f[k] = step[k][f[k - 1]]
        <4> HIDE DEF step, T
        <4>1. \E f \in [0 .. n -> T] : Runs(f, n, <<>>, step)
          BY Zenon, <3>1, Recursion
        <4>2. QED  BY <4>1 DEF Runs
      <3>3. ASSUME NEW k \in 1 .. n PROVE f[k] = f[k - 1] \o ss[k]
        <4>1. k - 1 \in 0 .. n
          OBVIOUS
        <4>2. f[k - 1] \in T
          BY <3>2, <4>1
        <4>3. QED  BY <3>2, <4>2
      <3>4. f[1] = ss[1]
        <4>1. 1 \in 1 .. n /\ 1 - 1 = 0
          BY <1>4
        <4>2. f[1] = <<>> \o ss[1]
          BY <3>2, <3>3, <4>1
        <4>3. QED  BY <1>1, <4>1, <4>2
      <3> DEFINE g == [i \in 1 .. n |-> f[i]]
      <3>5. ASSUME NEW i \in 1 .. n
            PROVE  g[i] = IF i = 1 THEN ss[i] ELSE g[i - 1] \o ss[i]
        <4>1. CASE i = 1
          BY <3>4, <4>1
        <4>2. CASE i # 1
          <5>1. i - 1 \in 1 .. n
            BY <4>2
          <5>2. QED  BY <3>3, <4>2, <5>1
        <4>3. QED  BY <4>1, <4>2
      <3>6. g = Flat(g)
        BY <3>5
      <3>7. QED  BY <3>6
    <2>2. flat = Flat(flat)
      BY <2>1
    <2>3. FlattenSeq(ss) = flat[n]
      BY <1>2, <1>4, Zenon DEF FlattenSeq
    <2> HIDE DEF flat
    <2>4. \A i \in 1 .. n : flat[i] = IF i = 1 THEN ss[i] ELSE flat[i - 1] \o ss[i]
      BY <2>2
    <2> DEFINE All(m) == UNION {P[k] : k \in 1 .. m}
               good == {m \in 0 .. n : m = 0 \/ Tiles(flat[m], All(m))}
    <2>5. 0 \in good
      OBVIOUS
    <2>6. ASSUME NEW m \in 0 .. n - 1, m \in good PROVE m + 1 \in good
      <3>1. m + 1 \in 1 .. n
        OBVIOUS
      <3>2. All(m + 1) = All(m) \cup P[m + 1]
        <4>1. 1 .. m + 1 = (1 .. m) \cup {m + 1}
          OBVIOUS
        <4>2. QED  BY <4>1
      <3>3. CASE m = 0
        <4>1. flat[m + 1] = ss[m + 1]
          <5>1. m + 1 = 1
            BY <3>3
          <5>2. QED  BY <2>4, <3>1, <5>1
        <4>2. All(m) = {}
          <5>1. 1 .. m = {}
            BY <3>3
          <5>2. QED  BY <5>1
        <4>3. Tiles(ss[m + 1], P[m + 1])
          BY <3>1
        <4>4. Tiles(flat[m + 1], All(m + 1))
          <5> HIDE DEF All
          <5>1. All(m + 1) = P[m + 1]
            BY <3>2, <4>2
          <5>2. QED  BY <4>1, <4>3, <5>1
        <4>5. QED  BY <3>1, <4>4
      <3>4. CASE m # 0
        <4>1. Tiles(flat[m], All(m)) /\ flat[m + 1] = flat[m] \o ss[m + 1]
          <5>1. m + 1 # 1 /\ (m + 1) - 1 = m
            BY <3>4
          <5>2. flat[m + 1] = flat[m] \o ss[m + 1]
            BY <2>4, <3>1, <5>1
          <5> HIDE DEF All
          <5>3. QED  BY <2>6, <3>4, <5>2
        <4>2. All(m) \cap P[m + 1] = {}
          BY <3>1
        <4>3. Tiles(ss[m + 1], P[m + 1])
          BY <3>1
        <4> HIDE DEF All
        <4>4. Tiles(flat[m + 1], All(m + 1))
          BY <3>2, <4>1, <4>2, <4>3, TilesTogether
        <4>5. QED  BY <3>1, <4>4
      <3>5. QED  BY <3>3, <3>4
    <2> HIDE DEF good
    <2>7. n \in good
      <3>1. 0 .. n \subseteq good
        BY <2>5, <2>6, Induction
      <3>2. QED  BY <3>1
    <2>8. QED  BY <1>4, <2>3, <2>7 DEF good
  <1>5. QED  BY <1>3, <1>4

(* One window above takes away the pixels it covers, and no others.              *)
LEMMA SubtractTiles ==
    ASSUME NEW s, NEW P, Tiles(s, P), NEW o \in Rectangles
    PROVE  Tiles(Subtract(s, o), P \ Pixels(o))
  <1> DEFINE n == Len(s)
             ss == [k \in 1 .. n |-> Remains(s[k], o)]
             Q == [k \in 1 .. n |-> Pixels(s[k]) \ Pixels(o)]
  <1>1. n \in Nat /\ DOMAIN s = 1 .. n /\ \A k \in 1 .. n : s[k] \in Rectangles
    BY DEF Tiles
  <1>2. Subtract(s, o) = FlattenSeq(ss)
    BY <1>1 DEF Subtract, Remains
  <1>3. ASSUME NEW k \in 1 .. n PROVE Tiles(ss[k], Q[k])
    <2>1. s[k] \in Rectangles /\ ~ Empty(s[k])
      BY <1>1 DEF Tiles
    <2>2. Tiles(Remains(s[k], o), Pixels(s[k]) \ Pixels(o))
      BY <2>1, RemainsTile
    <2>3. QED  BY <2>2
  <1>4. \A k, l \in 1 .. n : k # l => Q[k] \cap Q[l] = {}
    BY DEF Tiles
  <1>5. ss = [k \in 1 .. n |-> ss[k]]
    OBVIOUS
  <1>6. UNION {Q[k] : k \in 1 .. n} = P \ Pixels(o)
    <2>1. P = UNION {Pixels(s[k]) : k \in 1 .. n}
      BY DEF Tiles
    <2>2. \A k \in 1 .. n : Q[k] = Pixels(s[k]) \ Pixels(o)
      OBVIOUS
    <2> HIDE DEF Q
    <2>3. QED  BY <2>1, <2>2
  <1> HIDE DEF n, ss, Q
  <1>7. QED  BY <1>1, <1>2, <1>3, <1>4, <1>5, <1>6, FlattenTiles

(* get_visible_areas: what the passes over all the windows above leave tiles what *)
(* a user sees of the window.                                                  *)
LEMMA AreasTile ==
    ASSUME NEW window \in Rectangles, NEW above \in Seq(Rectangles)
    PROVE  Tiles(VisibleAreas(window, above), Seen(window, above))
  <1> DEFINE clipped == Intersect(window, Screen)
             n == Len(above)
             Under(m) == UNION {Pixels(above[k]) : k \in 1 .. m}
             T == Seq(Rectangles)
             Passes(f) == [k \in 0 .. n |->
                              IF k = 0 THEN <<clipped>> ELSE Subtract(f[k - 1], above[k])]
             left == CHOOSE f : f = Passes(f)
  <1>1. /\ clipped \in Rectangles /\ Pixels(clipped) = Pixels(window) \cap Pixels(Screen)
        /\ n \in Nat /\ DOMAIN above = 1 .. n
        /\ \A k \in 1 .. n : above[k] \in Rectangles
    BY DesktopAssumption, IntersectPixels
  <1>2. Seen(window, above) = Pixels(clipped) \ Under(n)
    BY <1>1 DEF Seen, PixelsOf, ToSet
  <1>3. CASE Empty(clipped)
    <2>1. VisibleAreas(window, above) = <<>>
      BY <1>3 DEF VisibleAreas
    <2>2. Pixels(clipped) = {}
      BY <1>1, <1>3, EmptyRectangles
    <2>3. QED  BY <1>2, <2>1, <2>2, TilesOfNothing
  <1>4. CASE ~ Empty(clipped)
    <2>1. VisibleAreas(window, above) = left[n]
      BY <1>4, Zenon DEF VisibleAreas
    <2>2. \E f : f = Passes(f)
      <3> DEFINE tilings == {s \in T : \E P : Tiles(s, P)}
                 step == [k \in 1 .. n |-> [s \in tilings |-> Subtract(s, above[k])]]
      <3>1. <<clipped>> \in tilings
        <4> HIDE DEF clipped
        <4>1. Tiles(<<clipped>>, Pixels(clipped))
          BY <1>1, <1>4, TilesOfOne
        <4>2. <<clipped>> \in T
          BY <1>1
        <4>3. QED  BY <4>1, <4>2
      <3>2. ASSUME NEW k \in 1 .. n, NEW s \in tilings PROVE Subtract(s, above[k]) \in tilings
        <4>1. PICK P : Tiles(s, P)
          OBVIOUS
        <4>2. Tiles(Subtract(s, above[k]), P \ Pixels(above[k]))
          BY <1>1, <4>1, SubtractTiles
        <4>3. Subtract(s, above[k]) \in T
          BY <4>2 DEF Tiles
        <4>4. QED  BY <4>2, <4>3
      <3>3. step \in [1 .. n -> [tilings -> tilings]]
        BY <3>2
      <3>4. PICK f \in [0 .. n -> tilings] :
               f[0] = <<clipped>> /\ \A k \in 1 .. n : f[k] = step[k][f[k - 1]]
        <4> HIDE DEF step, tilings, clipped, n
        <4>1. \E f \in [0 .. n -> tilings] : Runs(f, n, <<clipped>>, step)
          BY Zenon, <1>1, <3>1, <3>3, Recursion
        <4>2. QED  BY <4>1 DEF Runs
      <3>5. ASSUME NEW k \in 1 .. n PROVE f[k] = Subtract(f[k - 1], above[k])
        <4>1. k - 1 \in 0 .. n
          BY <1>1
        <4>2. f[k - 1] \in tilings
          BY <3>4, <4>1
        <4> HIDE DEF tilings
        <4>3. QED  BY <3>4, <4>2
      <3>6. ASSUME NEW k \in 0 .. n
            PROVE  f[k] = IF k = 0 THEN <<clipped>> ELSE Subtract(f[k - 1], above[k])
        <4>1. CASE k = 0
          BY <3>4, <4>1
        <4>2. CASE k # 0
          <5>1. k \in 1 .. n
            BY <1>1, <4>2
          <5>2. QED  BY <3>5, <4>2, <5>1
        <4>3. QED  BY <4>1, <4>2
      <3>7. f = [k \in 0 .. n |-> f[k]]
        BY <3>4
      <3> HIDE DEF clipped, n
      <3>8. f = Passes(f)
        BY <3>6, <3>7
      <3>9. QED  BY <3>8
    <2>3. left = Passes(left)
      BY <2>2
    <2> HIDE DEF left
    <2>4. /\ left[0] = <<clipped>>
          /\ \A k \in 1 .. n : left[k] = Subtract(left[k - 1], above[k])
      <3> HIDE DEF clipped, n
      <3>1. 0 \in 0 .. n /\ \A k \in 1 .. n : k \in 0 .. n /\ k # 0
        BY <1>1
      <3>2. QED  BY <2>3, <3>1
    <2> DEFINE good == {k \in 0 .. n : Tiles(left[k], Pixels(clipped) \ Under(k))}
    <2>5. 0 \in good
      <3>1. Under(0) = {}
        OBVIOUS
      <3> HIDE DEF clipped, n, Under
      <3>2. Tiles(left[0], Pixels(clipped))
        BY <1>1, <1>4, <2>4, TilesOfOne
      <3>3. Tiles(left[0], Pixels(clipped) \ Under(0))
        BY <3>1, <3>2
      <3>4. QED  BY <1>1, <3>3
    <2>6. ASSUME NEW k \in 0 .. n - 1, k \in good PROVE k + 1 \in good
      <3>1. k + 1 \in 1 .. n /\ k + 1 \in 0 .. n /\ (k + 1) - 1 = k
        BY <1>1
      <3>2. Under(k + 1) = Under(k) \cup Pixels(above[k + 1])
        <4>1. 1 .. k + 1 = (1 .. k) \cup {k + 1}
          BY <1>1
        <4>2. QED  BY <4>1
      <3>3. left[k + 1] = Subtract(left[k], above[k + 1])
        BY <2>4, <3>1
      <3>4. Tiles(left[k + 1], (Pixels(clipped) \ Under(k)) \ Pixels(above[k + 1]))
        <4>1. Tiles(left[k], Pixels(clipped) \ Under(k)) /\ above[k + 1] \in Rectangles
          BY <1>1, <2>6, <3>1
        <4>2. QED  BY <3>3, <4>1, SubtractTiles
      <3>5. (Pixels(clipped) \ Under(k)) \ Pixels(above[k + 1]) = Pixels(clipped) \ Under(k + 1)
        BY <3>2
      <3>6. QED  BY <3>1, <3>4, <3>5
    <2> HIDE DEF good
    <2>7. 0 .. n \subseteq good
      BY <1>1, <2>5, <2>6, Induction
    <2>8. n \in good
      BY <1>1, <2>7
    <2>9. QED  BY <1>2, <2>1, <2>8 DEF good
  <1>5. QED  BY <1>3, <1>4

(* Near the top of a region: whatever the margins, the click is in it.          *)
LEMMA ClickInRegion ==
    ASSUME NEW r \in Rectangles, ~ Empty(r)
    PROVE  InRegion(r) \in Pixels(r)
  <1>1. /\ r.x \in Int /\ r.y \in Int /\ r.w \in Int /\ r.h \in Int
        /\ 0 < r.w /\ 0 < r.h
    BY DEF Rectangles, Empty
  <1>2. PICK x \in Int, y \in Int :
           InRegion(r) = <<Clamped(r.x, x, Right(r) - 1), Clamped(r.y, y, Bottom(r) - 1)>>
    <2> DEFINE low  == r.x + LeftMargin
               high == Right(r) - RightMargin
               x == IF r.w < SafeWidth \/ high <= low THEN r.x + r.w \div 2
                    ELSE Clamped(low, r.x + r.w \div 4, high)
               y == r.y + Least(TitleOffset, Most(1, (r.h - 1) \div 2))
    <2>1. r.w \div 2 \in Int /\ r.w \div 4 \in Int /\ (r.h - 1) \div 2 \in Int
      BY <1>1
    <2>2. x \in Int
      BY <1>1, <2>1, ClickAssumption DEF Clamped, Least, Most, Right
    <2>3. y \in Int
      BY <1>1, <2>1, ClickAssumption DEF Least, Most
    <2>4. InRegion(r) = <<Clamped(r.x, x, Right(r) - 1), Clamped(r.y, y, Bottom(r) - 1)>>
      BY Zenon DEF InRegion
    <2> HIDE DEF x, y
    <2>5. QED  BY <2>2, <2>3, <2>4
  <1> DEFINE px == Clamped(r.x, x, Right(r) - 1)
             py == Clamped(r.y, y, Bottom(r) - 1)
  <1>3. /\ px \in Int /\ r.x <= px /\ px < r.x + r.w
        /\ py \in Int /\ r.y <= py /\ py < r.y + r.h
    BY <1>1, <1>2 DEF Clamped, Least, Most, Right, Bottom
  <1> HIDE DEF px, py
  <1>4. <<px, py>> \in Pixels(r)
    BY <1>3, PixelsOfRectangle
  <1>5. QED  BY <1>2, <1>4 DEF px, py

(* On the part of the title bar that shows, if it is not just that last row.     *)
LEMMA ClickInTitleBar ==
    ASSUME NEW bar \in Rectangles, NEW region \in Rectangles,
           ~ Empty(Intersect(bar, region)), ~ LastRow(bar, region)
    PROVE  InTitleBar(bar, region) \in Pixels(region)
  <1> DEFINE v == Intersect(bar, region)
             low  == v.x + Least(LeftMargin, v.w \div 4)
             high == Right(v) - Least(RightMargin, v.w \div 4)
             x == IF high <= low THEN (v.x + Right(v)) \div 2
                  ELSE Clamped(low, v.x + v.w \div 4, high)
             y == v.y + Most(1, v.h \div 2)
  <1>1. v \in Rectangles /\ Pixels(v) = Pixels(bar) \cap Pixels(region)
    BY IntersectPixels
  <1>2. InTitleBar(bar, region) = <<x, y>>
    BY Zenon DEF InTitleBar
  <1>3. ~ Empty(v) /\ (v.h # 1 \/ Bottom(v) # Bottom(region))
    BY DEF LastRow
  <1>4. Bottom(v) = Least(bar.y + bar.h, region.y + region.h)
    <2>1. /\ v.y = Most(bar.y, region.y)
          /\ v.h = Least(bar.y + bar.h, region.y + region.h) - v.y
      BY DEF Intersect, Rect, Bottom
    <2>2. /\ bar.y \in Int /\ bar.h \in Int /\ region.y \in Int /\ region.h \in Int
      BY DEF Rectangles
    <2> HIDE DEF v
    <2>3. QED  BY <2>1, <2>2 DEF Most, Least, Bottom
  <1>5. /\ region.x \in Int /\ region.y \in Int /\ region.w \in Int /\ region.h \in Int
        /\ bar.y \in Int /\ bar.h \in Int
    BY DEF Rectangles
  <1> HIDE DEF v
  <1>6. /\ v.x \in Int /\ v.y \in Int /\ v.w \in Int /\ v.h \in Int
        /\ 0 < v.w /\ 0 < v.h
    BY <1>1, <1>3 DEF Rectangles, Empty
  <1>7. x \in Int /\ v.x <= x /\ x < v.x + v.w
    BY <1>6, ClickAssumption DEF Clamped, Least, Most, Right
  <1>8. /\ y \in Int /\ v.y <= y
        /\ v.h # 1 => y < v.y + v.h
        /\ v.h = 1 => y = v.y + 1
    BY <1>6 DEF Most
  <1> HIDE DEF x, y
  <1>9. CASE v.h # 1
    <2>1. <<x, y>> \in Pixels(v)
      BY <1>1, <1>7, <1>8, <1>9, PixelsOfRectangle
    <2>2. QED  BY <1>1, <1>2, <2>1
  <1>10. CASE v.h = 1
    <2>1. <<x, v.y>> \in Pixels(v)
      BY <1>1, <1>6, <1>7, <1>10, PixelsOfRectangle
    <2>2. /\ region.x <= x /\ x < region.x + region.w
          /\ region.y <= v.y
      BY <1>1, <1>6, <1>7, <2>1, PixelsOfRectangle
    <2>3. v.y + 1 < region.y + region.h
      BY <1>3, <1>4, <1>5, <1>6, <1>10 DEF Bottom, Least
    <2>4. <<x, y>> \in Pixels(region)
      BY <1>5, <1>6, <1>7, <1>8, <1>10, <2>2, <2>3, PixelsOfRectangle
    <2>5. QED  BY <1>2, <2>4
  <1>11. QED  BY <1>9, <1>10

(* The click of bring_to_foreground lands in the region it is made for, for       *)
(* every region, title bar and margin, unless all that shows of the title bar is *)
(* the last row of the region (observer/activation.py, _title_bar_click_point). *)
THEOREM ClickLands ==
    ASSUME NEW region \in Rectangles, ~ Empty(region),
           NEW bars \in SUBSET Rectangles, \A a, b \in bars : a = b
    PROVE  \/ ClickPoint(bars, region) \in Pixels(region)
           \/ \E b \in bars : LastRow(b, region)
  <1>1. CASE \E b \in bars : ~ Empty(Intersect(b, region))
    <2>1. PICK bar \in bars : ~ Empty(Intersect(bar, region))
      BY <1>1
    <2>2. (CHOOSE b \in bars : TRUE) = bar
      <3>1. (CHOOSE b \in bars : TRUE) \in bars
        BY <2>1
      <3>2. QED  BY <3>1
    <2>3. ClickPoint(bars, region) = InTitleBar(bar, region)
      BY <1>1, <2>2 DEF ClickPoint
    <2>4. QED  BY <2>1, <2>3, ClickInTitleBar
  <1>2. CASE ~ \E b \in bars : ~ Empty(Intersect(b, region))
    <2>1. ClickPoint(bars, region) = InRegion(region)
      BY <1>2 DEF ClickPoint
    <2>2. QED  BY <2>1, ClickInRegion
  <1>3. QED  BY <1>1, <1>2

(* The region to click in is one of the regions. *)
LEMMA BestIsARegion ==
    ASSUME NEW regions \in Seq(Rectangles), regions # <<>>
    PROVE  \E k \in 1 .. Len(regions) : Best(regions) = regions[k]
  <1> DEFINE n == Len(regions)
             top == {r \in ToSet(regions) : \A s \in ToSet(regions) : r.y <= s.y}
             K == {k \in 1 .. n : regions[k] \in top}
             widest == {k \in DOMAIN regions : /\ regions[k] \in top
                                               /\ \A s \in top : regions[k].w >= s.w}
  <1>1. /\ n \in Nat /\ n # 0 /\ DOMAIN regions = 1 .. n
        /\ \A k \in 1 .. n : regions[k].y \in Int /\ regions[k].w \in Int
    <2>1. n \in Nat /\ n # 0 /\ DOMAIN regions = 1 .. n
      OBVIOUS
    <2>2. \A k \in 1 .. n : regions[k] \in Rectangles
      OBVIOUS
    <2>3. QED  BY <2>1, <2>2 DEF Rectangles
  <1>2. ToSet(regions) = {regions[k] : k \in 1 .. n}
    BY <1>1 DEF ToSet
  <1> HIDE DEF n
  <1>3. K # {}
    <2> DEFINE v == [k \in 1 .. n |-> regions[k].y]
    <2>1. v \in [1 .. n -> Int] /\ 1 \in 1 .. n
      BY <1>1
    <2> HIDE DEF v
    <2>2. PICK k \in 1 .. n : \A j \in 1 .. n : v[k] <= v[j]
      BY <1>1, <2>1, LeastValue
    <2>3. \A j \in 1 .. n : regions[k].y <= regions[j].y
      BY <2>2 DEF v
    <2>4. QED  BY <1>2, <2>3
  <1>4. widest # {}
    <2> DEFINE v == [k \in 1 .. n |-> - regions[k].w]
    <2>1. v \in [1 .. n -> Int] /\ K \subseteq 1 .. n
      BY <1>1
    <2> HIDE DEF v, top
    <2>2. PICK k \in K : \A j \in K : v[k] <= v[j]
      <3> HIDE DEF K
      <3>1. QED  BY <1>1, <1>3, <2>1, LeastValue
    <2>3. \A j \in K : regions[k].w >= regions[j].w
      BY <1>1, <2>2 DEF v
    <2>4. \A s \in top : \E j \in K : s = regions[j]
      BY <1>2 DEF top
    <2>5. QED  BY <1>1, <2>3, <2>4
  <1>5. Best(regions) = regions[Min(widest)]
    BY Zenon DEF Best
  <1>6. widest \subseteq 1 .. n
    BY <1>1
  <1> HIDE DEF widest
  <1>7. PICK k \in widest : \A j \in widest : k <= j
    BY <1>1, <1>4, <1>6, LeastNatural
  <1>8. Min(widest) \in widest
    BY <1>7 DEF Min
  <1>9. QED  BY <1>5, <1>6, <1>8 DEF n

(* What is left of a window is what a user sees of it, in rectangles apart; it is *)
(* left with nothing just when nothing of it is seen.                           *)
LEMMA AreasShow ==
    ASSUME NEW window \in Rectangles, NEW above \in Seq(Rectangles)
    PROVE  /\ VisibleAreas(window, above) \in Seq(Rectangles)
           /\ PixelsOf(ToSet(VisibleAreas(window, above))) = Seen(window, above)
           /\ \A i, j \in DOMAIN VisibleAreas(window, above) : i # j =>
                 Empty(Intersect(VisibleAreas(window, above)[i],
                                 VisibleAreas(window, above)[j]))
           /\ \A i \in DOMAIN VisibleAreas(window, above) :
                 ~ Empty(VisibleAreas(window, above)[i])
           /\ IsOccluded(window, above) <=> Seen(window, above) = {}
  <1> DEFINE s == VisibleAreas(window, above)
             P == Seen(window, above)
  <1>1. Tiles(s, P)
    BY AreasTile
  <1>2. IsOccluded(window, above) <=> s = <<>>
    BY DEF IsOccluded
  <1> HIDE DEF s, P
  <1>3. /\ s \in Seq(Rectangles) /\ DOMAIN s = 1 .. Len(s) /\ Len(s) \in Nat
        /\ \A i \in 1 .. Len(s) : s[i] \in Rectangles /\ ~ Empty(s[i])
    BY <1>1 DEF Tiles
  <1>4. PixelsOf(ToSet(s)) = P
    BY <1>1, <1>3 DEF PixelsOf, ToSet, Tiles
  <1>5. ASSUME NEW i \in 1 .. Len(s), NEW j \in 1 .. Len(s), i # j
        PROVE  Empty(Intersect(s[i], s[j]))
    <2>1. Pixels(s[i]) \cap Pixels(s[j]) = {}
      BY <1>1, <1>5 DEF Tiles
    <2>2. QED  BY <1>3, <2>1, IntersectPixels, EmptyRectangles
  <1>6. s = <<>> <=> P = {}
    <2>1. CASE s = <<>>
      BY <1>1, <2>1 DEF Tiles
    <2>2. CASE s # <<>>
      <3>1. 1 \in 1 .. Len(s)
        BY <1>3, <2>2
      <3>2. Pixels(s[1]) # {} /\ Pixels(s[1]) \subseteq P
        BY <1>1, <1>3, <3>1, EmptyRectangles DEF Tiles
      <3>3. QED  BY <2>2, <3>2
    <2>3. QED  BY <2>1, <2>2
  <1>7. QED  BY <1>2, <1>3, <1>4, <1>5, <1>6 DEF s, P

(* bring_to_foreground, for every desktop: what is taken for visible of a window   *)
(* is what shows of it, and the click that raises it lands there, unless the title *)
(* bar shows only in the last row of the region (observer/occlusion.py and       *)
(* activation.py).                                                            *)
THEOREM TheClickHitsTheWindow == RaiseSpec => []RaiseHitsTheWindow
  <1> DEFINE Desktop == desk = NoDesk \/ desk \in Rects \X Desks \X Bars \X Attempts
  <1>1. RaiseInit => Desktop
    BY DEF RaiseInit
  <1>2. Desktop /\ [RaiseNext]_desk => Desktop'
    BY DEF RaiseNext, NoDesk
  <1>3. Desktop => RaiseHitsTheWindow
    <2> SUFFICES ASSUME desk \in Rects \X Desks \X Bars \X Attempts
                 PROVE  RaiseHitsTheWindow
      BY DEF RaiseHitsTheWindow
    <2> DEFINE window == desk[1]
               above  == desk[2]
               areas  == VisibleAreas(window, above)
               bars   == {Rect(window.x + b.x, window.y + b.y, b.w, b.h) : b \in desk[3]}
               raised == Raise(window, above, bars, desk[4].means, desk[4].outcome)
    <2>1. window \in Rectangles /\ above \in Seq(Rectangles)
      BY DesktopAssumption
    <2>2. bars \in SUBSET Rectangles /\ \A a, b \in bars : a = b
      <3>1. desk[3] \subseteq Rectangles /\ \A b, c \in desk[3] : b = c
        BY DesktopAssumption
      <3>2. \A b \in desk[3] :
               Rect(window.x + b.x, window.y + b.y, b.w, b.h) \in Rectangles
        BY <2>1, <3>1 DEF Rect, Rectangles
      <3> HIDE DEF window
      <3>3. QED  BY <3>1, <3>2
    <2>3. raised.how = "click" =>
             areas # <<>> /\ raised.point = {ClickPoint(bars, Best(areas))}
      BY DEF Raise
    <2>4. /\ areas \in Seq(Rectangles)
          /\ PixelsOf(ToSet(areas)) = Seen(window, above)
          /\ \A i, j \in DOMAIN areas : i # j => Empty(Intersect(areas[i], areas[j]))
          /\ \A i \in DOMAIN areas : ~ Empty(areas[i])
          /\ IsOccluded(window, above) <=> Seen(window, above) = {}
      <3> HIDE DEF window, above
      <3>1. QED  BY <2>1, AreasShow
    <2> HIDE DEF areas, bars, raised, window, above
    <2>5. ASSUME raised.how = "click"
          PROVE  \/ raised.point \subseteq Seen(window, above)
                 \/ \E b \in bars : LastRow(b, Best(areas))
      <3>1. PICK k \in 1 .. Len(areas) : Best(areas) = areas[k]
        BY <2>3, <2>4, <2>5, BestIsARegion
      <3>2. areas[k] \in Rectangles /\ ~ Empty(areas[k]) /\ k \in DOMAIN areas
        BY <2>4
      <3>3. Pixels(areas[k]) \subseteq Seen(window, above)
        BY <2>4, <3>2 DEF PixelsOf, ToSet
      <3>4. \/ ClickPoint(bars, areas[k]) \in Pixels(areas[k])
            \/ \E b \in bars : LastRow(b, areas[k])
        BY <2>2, <3>2, ClickLands
      <3>5. QED  BY <2>3, <2>5, <3>1, <3>3, <3>4
    <2>6. QED
      BY <2>4, <2>5 DEF RaiseHitsTheWindow, window, above, areas, bars, raised
  <1>4. QED  BY <1>1, <1>2, <1>3, PTL DEF RaiseSpec
===============================================================================
