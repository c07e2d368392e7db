------------------------------- MODULE AgentLoop --------------------------------
(***************************************************************************)
(* The window agent: a console where a person picks a window and types        *)
(* tasks, and run_agent, which asks a language model, carries out the tool    *)
(* calls it answers with over REST, and asks again.  The model may answer     *)
(* anything, requests to it and to the server may fail or time out, and the   *)
(* desktop changes under the agent's feet: windows open, close, come to the   *)
(* front, so that positions in the list move.                                 *)
(***************************************************************************)
EXTENDS Targeting, FiniteSets

CONSTANTS
    MaxTurns,   \* MAX_TURNS
    Retries,    \* _LLM_MAX_RETRIES
    Known,      \* tools of the catalogue
    Basic,      \* the tools of the tiers "always" and "usually"
    Keyed,      \* sets of tools that words of a task may switch on
    Kinds,      \* classes of the calls the model makes
    Ways,       \* how it names a window: "none", "uid", "index", "both", "title"
    MaxBatch,   \* bound on the calls of one answer
    MaxTasks,   \* bound on the tasks
    MaxMoves    \* bound on the changes of the desktop

ASSUME AgentAssumption ==
    /\ MaxTurns \in Nat \ {0}
    /\ Retries \in Nat /\ MaxBatch \in Nat /\ MaxTasks \in Nat /\ MaxMoves \in Nat
    /\ Kinds \subseteq Classes
    /\ Basic \subseteq Known /\ Keyed \subseteq SUBSET Known

VARIABLES
    list, focus, moves,   \* the open windows in the server's order; the focus
    screen,      \* what the console shows: menu, prompt, agent, gone
    shown,       \* the list of windows the menu printed
    selected,    \* the selector of the window that was picked
    tasks,       \* tasks typed so far
    history,     \* the conversation, kept from task to task
    pc,          \* in run_agent: ask, batch, sent, served
    turn, attempt,
    active,      \* the tools offered to the model
    todo,        \* calls of the batch not yet carried out
    results,     \* the answers of those that were
    call,        \* the call that is on its way to the server
    late,        \* a call the agent gave up on that may still reach it (at most
                 \* one at a time)
    requests,    \* ghost: requests of this task to the model
    hits         \* ghost: what the server did for the current call

desktop  == <<list, focus, moves>>
console  == <<screen, shown, selected, tasks>>
calls    == <<call, late, hits>>
talk     == <<history, pc, turn, attempt, active, todo, results, requests>>
vars     == <<desktop, console, talk, calls>>

(* legs: requests of the call still to be sent; ran: how often the server     *)
(* carried it out (a ghost).                                                  *)
NoCall == [id |-> <<0, 0, 0>>, class |-> "point", s |-> Nothing, meant |-> NoWindow,
           legs |-> 0, ran |-> 0]

User          == [role |-> "user", calls |-> 0, asked |-> FALSE]
Assistant(n, asked) == [role |-> "assistant", calls |-> n, asked |-> asked]
Answer(i)     == [role |-> "tool", calls |-> i, asked |-> FALSE]

(* run_agent returns: the conversation is kept, its locals are not. *)
EndTask ==
    /\ screen' = "prompt"
    /\ pc' = "ask" /\ turn' = 1 /\ attempt' = 0 /\ active' = {}
    /\ todo' = 0 /\ results' = <<>> /\ requests' = 0

Init ==
    /\ list \in SetToSeqs(Windows)
    /\ focus = Head(list) /\ moves = 0
    /\ screen = "menu" /\ shown = <<>> /\ selected = Nothing /\ tasks = 0
    /\ history = <<>> /\ pc = "ask" /\ turn = 1 /\ attempt = 0
    /\ active = {} /\ todo = 0 /\ results = <<>> /\ requests = 0
    /\ call = NoCall /\ late = {} /\ hits = {}
-------------------------------------------------------------------------------
(* The console.  The menu is printed from a fresh list; the person then picks *)
(* a number of what was printed, however long ago that was.                   *)
PrintMenu ==
    /\ screen = "menu"
    /\ list # <<>> /\ shown # list
    /\ shown' = list
    /\ UNCHANGED <<desktop, screen, selected, tasks, talk, calls>>

(* The first view of the window may fail: back to the menu, with the window   *)
(* selected all the same.                                                     *)
Pick ==
    /\ screen = "menu"
    /\ \E i \in 1..Len(shown) :
          selected' = [Uid(shown[i]) EXCEPT !.index = i - 1]
    /\ screen' \in {"menu", "prompt"}
    /\ shown' = <<>>
    /\ UNCHANGED <<desktop, tasks, talk, calls>>

Back ==
    /\ screen = "prompt"
    /\ screen' = "menu"
    /\ UNCHANGED <<desktop, shown, selected, tasks, talk, calls>>

Quit ==
    /\ screen \in {"menu", "prompt"}
    /\ screen' = "gone"
    /\ UNCHANGED <<desktop, shown, selected, tasks, talk, calls>>

(* run_agent begins: the tools are chosen anew, the conversation goes on.     *)
StartTask ==
    /\ screen = "prompt"
    /\ tasks < MaxTasks
    /\ screen' = "agent" /\ tasks' = tasks + 1
    /\ history' = Append(history, User)
    /\ \E extra \in Keyed : active' = Basic \cup extra
    /\ UNCHANGED <<desktop, shown, selected, pc, turn, attempt, todo, results,
                   requests, calls>>

-------------------------------------------------------------------------------
Asking == screen = "agent" /\ pc = "ask"

(* Mutant of AskFails: the attempts are not counted. *)
AskFailsUncounted ==
    /\ Asking
    /\ requests' = requests + 1
    /\ UNCHANGED <<desktop, console, history, pc, turn, attempt, active, todo,
                   results, calls>>

(* One request to the model.  Every OSError is tried again, and urllib's      *)
(* errors are OSErrors, a refusal by the server among them; any other         *)
(* exception, and an answer without choices, ends the task.                   *)
AskFails ==
    /\ Asking
    /\ IF attempt < Retries
       THEN /\ attempt' = attempt + 1 /\ requests' = requests + 1
            /\ UNCHANGED <<screen, pc, turn, active, todo, results>>
       ELSE EndTask
    /\ UNCHANGED <<desktop, shown, selected, tasks, history, calls>>

AskBreaks ==
    /\ Asking
    /\ EndTask
    /\ UNCHANGED <<desktop, shown, selected, tasks, history, calls>>

(* An answer: it is kept whatever it says, and its calls are carried out only *)
(* when its finish_reason is "tool_calls".                                    *)
AskAnswered ==
    /\ Asking
    /\ \E n \in 0..MaxBatch, asked \in BOOLEAN :
          /\ history' = Append(history, Assistant(n, asked))
          /\ IF asked /\ n > 0
             THEN /\ pc' = "batch" /\ todo' = n /\ requests' = requests + 1
                  /\ UNCHANGED <<screen, turn, attempt, active, results>>
             ELSE EndTask
    /\ UNCHANGED <<desktop, shown, selected, tasks, calls>>
-------------------------------------------------------------------------------
(* The calls of a batch, one after the other. *)
Batching == screen = "agent" /\ pc = "batch" /\ todo > 0
Now == <<tasks, turn, Len(results) + 1>>
Record == results' = Append(results, Answer(Len(results) + 1)) /\ todo' = todo - 1
Forget == call' = NoCall /\ hits' = {} /\ pc' = "batch"

(* Answered by the agent itself: list_available_tools, an unknown tool, an    *)
(* argument that is missing, arguments that are no JSON.                      *)
Local ==
    /\ Batching /\ Record
    /\ UNCHANGED <<desktop, console, history, pc, turn, attempt, active,
                   requests, calls>>

RequestTools ==
    /\ Batching /\ Record
    /\ \E names \in SUBSET Known : active' = active \cup names
    /\ UNCHANGED <<desktop, console, history, pc, turn, attempt, requests, calls>>

(* Arguments that are JSON but no object raise outside of every try: the      *)
(* process ends.                                                              *)
Malformed ==
    /\ Batching
    /\ screen' = "gone"
    /\ UNCHANGED <<desktop, shown, selected, tasks, talk, calls>>

(* What the model may name: a uid, a position, both, a title, nothing.        *)
Named == UNION {CASE way = "none"  -> {Nothing}
                  [] way = "uid"   -> {Uid(w) : w \in Windows}
                  [] way = "index" -> {Index(0)}
                  [] way = "both"  -> {[Uid(w) EXCEPT !.index = 0] : w \in Windows}
                  [] way = "title" -> {Title({w}) : w \in Windows} : way \in Ways}

(* The uid the caller has in mind: the one it named, or for a reading without *)
(* any selector that of the window picked at the console.                     *)
Meant(class, s) ==
    IF class \in Blind THEN NoWindow
    ELSE IF s = Nothing /\ class \in Reading \cup Strict THEN selected.uid
    ELSE s.uid

Send ==
    /\ Batching
    /\ \E class \in Kinds, s \in Named, stray \in BOOLEAN :
          /\ class \in Blind => s = Nothing
          /\ stray => class \in Acting /\ s.uid = NoWindow /\ s.index = NoIndex
          /\ call' = [id |-> Now, class |-> class,
                      s |-> Sent(class, s, stray, selected),
                      meant |-> Meant(class, s),
                      legs |-> IF class = "observe" THEN 2 ELSE 1, ran |-> 0]
    /\ pc' = "sent" /\ hits' = {}
    /\ UNCHANGED <<desktop, console, history, turn, attempt, active, todo,
                   results, requests, late>>

(* The server carries a call out on the windows that are open by now.         *)
Effects(c) ==
    LET w == Target(c.class, list, focus, c.s)
    IN  /\ hits' = hits \cup {[meant |-> c.meant, open |-> c.meant \in Range(list),
                               target |-> w]}
        /\ IF c.class = "raise" /\ w # NoWindow
           THEN list' = <<w>> \o SelectSeq(list, LAMBDA v : v # w) /\ focus' = w
           ELSE UNCHANGED <<list, focus>>
        /\ UNCHANGED moves

Serve ==
    /\ screen = "agent" /\ pc = "sent" /\ call.legs > 0
    /\ Effects(call)
    /\ call' = [call EXCEPT !.legs = @ - 1, !.ran = IF call.legs = 1 THEN @ + 1 ELSE @]
    /\ UNCHANGED <<console, talk, late>>

(* The reply arrives and is the call's result. *)
Receive ==
    /\ screen = "agent" /\ pc = "sent" /\ call.legs = 0
    /\ Record /\ Forget
    /\ UNCHANGED <<desktop, console, history, turn, attempt, active, requests,
                   late>>

(* Mutant of GiveUp: a call that failed is sent again. *)
GiveUpRetries ==
    /\ screen = "agent" /\ pc = "sent" /\ call.legs = 0
    /\ call' = [call EXCEPT !.legs = 1]
    /\ UNCHANGED <<desktop, console, talk, late, hits>>

(* Mutant of GiveUp: an error is not recorded as a result. *)
GiveUpUnanswered ==
    /\ screen = "agent" /\ pc = "sent"
    /\ todo' = todo - 1 /\ Forget
    /\ UNCHANGED <<desktop, console, history, turn, attempt, active, results,
                   requests, late>>

(* Mutant of GiveUp: only an answer of the server ends the wait. *)
GiveUpUntimed ==
    /\ screen = "agent" /\ pc = "sent" /\ call.legs = 0
    /\ Record /\ Forget
    /\ UNCHANGED <<desktop, console, history, turn, attempt, active, requests,
                   late>>

(* The request fails or its time runs out: an error is the call's result.  A  *)
(* request that was under way may still reach the server (a reading that does *)
(* so has no effect).                                                         *)
GiveUp ==
    /\ screen = "agent" /\ pc = "sent"
    /\ Record /\ Forget
    /\ \/ UNCHANGED late
       \/ /\ call.legs > 0 /\ call.class \notin Reading
          /\ late = {} /\ late' = {call}
    /\ UNCHANGED <<desktop, console, history, turn, attempt, active, requests>>

ServeLate ==
    /\ \E c \in late :
          /\ late' = late \ {c}
          /\ Effects(c)
    /\ UNCHANGED <<console, talk, call>>

(* The batch is complete: its results join the conversation, and the next     *)
(* turn begins unless this was the last.                                      *)
EndBatch ==
    /\ screen = "agent" /\ pc = "batch" /\ todo = 0
    /\ history' = history \o results
    /\ IF turn < MaxTurns
       THEN /\ turn' = turn + 1 /\ pc' = "ask" /\ attempt' = 0 /\ results' = <<>>
            /\ UNCHANGED <<screen, active, todo, requests>>
       ELSE EndTask
    /\ UNCHANGED <<desktop, shown, selected, tasks, calls>>
-------------------------------------------------------------------------------
(* The desktop: a window closes, opens or is raised; the focus may be lost.   *)
Others(w) == SelectSeq(list, LAMBDA v : v # w)

DesktopMoves ==
    /\ moves < MaxMoves
    /\ moves' = moves + 1
    /\ \E w \in Windows :
          \/ list' = <<w>> \o Others(w) /\ focus' = w
          \/ list' = Others(w) /\ focus' = (IF focus = w THEN NoWindow ELSE focus)
    /\ UNCHANGED <<console, talk, calls>>

AskStep   == AskFails \/ AskBreaks \/ AskAnswered
BatchStep == Local \/ RequestTools \/ Malformed \/ Send

Next ==
    \/ PrintMenu \/ Pick \/ Back \/ Quit \/ StartTask
    \/ AskStep \/ BatchStep \/ EndBatch
    \/ Serve \/ Receive \/ GiveUp \/ ServeLate \/ DesktopMoves

(* The model's answer, the server's answer or a time limit ends every wait of *)
(* the agent: 240 s for the model, 30 s or 60 s for the server.  The person   *)
(* at the console owes nothing.                                               *)
Fairness == WF_vars(AskStep) /\ WF_vars(BatchStep) /\ WF_vars(EndBatch)
            /\ WF_vars(Receive \/ GiveUp)

Spec == Init /\ [][Next]_vars /\ Fairness
-------------------------------------------------------------------------------
(* Whenever the model is asked, every answer of it that asked for calls is    *)
(* followed by the results of these calls, one each and in their order, and   *)
(* no result stands anywhere else, also after turns whose calls failed and in *)
(* the tasks that follow.                                                     *)
Follows(k, i) == k + i \in DOMAIN history /\ history[k + i] = Answer(i)

CallsAreAnswered ==
    Asking =>
       /\ \A k \in DOMAIN history :
             history[k].role = "assistant" /\ history[k].asked =>
                \A i \in 1..history[k].calls : Follows(k, i)
       /\ \A k \in DOMAIN history :
             history[k].role = "tool" =>
                \E a \in 1..k - 1 :
                   /\ history[a].role = "assistant" /\ history[a].asked
                   /\ a + history[k].calls = k /\ history[k].calls <= history[a].calls

(* The model is asked at most so often for one task, whatever fails. *)
RequestsBounded == Asking => requests < MaxTurns * (Retries + 1)

(* No call of the model is carried out twice: it is not sent again once the   *)
(* server has carried it out, nor while a request that the agent gave up on   *)
(* may still get there.                                                       *)
CarriedOutOnce == call.ran <= 1 /\ \A c \in late : c.id # call.id

(* A call that means a window by its uid works on that window as long as it   *)
(* is open, however the list was reordered since the model, or the person at  *)
(* the console, saw it.                                                       *)
NamedWindowIsHit ==
    \A h \in hits : h.meant # NoWindow /\ h.open => h.target = h.meant

(* A call that means a window that has been closed works on no other. *)
ClosedWindowIsGone ==
    \A h \in hits : h.meant # NoWindow /\ ~h.open => h.target = NoWindow

(* A task comes to an end, whatever the model and the server answer. *)
TaskEnds == screen = "agent" ~> screen # "agent"
===============================================================================
