-------------------------------- MODULE MockDesk --------------------------------
(***************************************************************************)
(* The scripted desktop in use: one thread serves the input tools of an       *)
(* agent, another a client that waits for, or asserts, what should become of  *)
(* them, and a scenario may be loaded at any time.                            *)
(***************************************************************************)
EXTENDS Waits

CONSTANTS
    Paths,     \* positions of elements an agent may have seen
    Texts,     \* what it types
    Verbs,     \* the input tools it calls
    WaitLists, \* the conditions of a wait_for ...
    Asserts,   \* ... and the predicates of an assert_state
    Hints      \* the windows a client names, None among them

ASSUME DeskAssumption ==
    /\ Verbs \subseteq {"click_element", "type_text", "invoke_element", "set_value",
                        "clear_text"}
    /\ \A cs \in WaitLists \cup Asserts : Len(cs) \in Nat /\ DOMAIN cs = 1 .. Len(cs)

VARIABLE plan  \* inputs of the tool being served that have yet to happen

mockVars == <<deskVars, waitVars, plan>>

MockInit == DeskInit /\ WaitInit /\ plan = <<>>

Input(action, path, text) == [action |-> action, path |-> path, text |-> text]

(* The inputs a tool makes; set_value with clear_first off, else clear_text's *)
(* come before its own.  Only click_element says which element it means;  *)
(* the other verbs click its middle, which a scripted desktop cannot place.   *)
InputsOf(verb, path, text) ==
    [click_element  |-> <<Input("click_at", path, "")>>,
     type_text      |-> <<Input("type", None, text)>>,
     invoke_element |-> <<Input("click_at", None, "")>>,
     set_value      |-> <<Input("click_at", None, ""), Input("type", None, text)>>,
     clear_text     |-> <<Input("click_at", None, ""), Input("key", None, "ctrl+a"),
                          Input("key", None, "delete")>>][verb]

Perform(inputs) ==
    /\ Handle(Head(inputs).action, Head(inputs).path, Head(inputs).text)
    /\ plan' = Tail(inputs)
    /\ DeskChanged

(* An input tool has found its element, if it names one, enabled and          *)
(* unoccluded, in some tree, and makes its first input ...                    *)
Act ==
    /\ plan = <<>>
    /\ \E verb \in Verbs, path \in Paths, text \in Texts :
          Perform(InputsOf(verb, path, text))

(* ... and the others, whatever the desktop shows by then. *)
GoOn == plan # <<>> /\ Perform(plan)

LoadScenario ==
    /\ \E s \in DOMAIN Scripts : Load(s)
    /\ DeskChanged
    /\ UNCHANGED plan

Call ==
    /\ UNCHANGED <<deskVars, plan>>
    /\ \E hint \in Hints :
          \/ \E cs \in WaitLists : Ask("for", cs, hint)
          \/ Ask("idle", <<>>, hint)
          \/ \E cs \in Asserts : Ask("assert", cs, hint)

Client == ClientStep /\ UNCHANGED <<deskVars, plan>>
Tick == WaitTick /\ UNCHANGED <<deskVars, plan>>

MockNext == Act \/ GoOn \/ LoadScenario \/ Call \/ Client \/ Tick

(* The client's thread goes on and time passes; nobody has to act or ask.     *)
Fairness == WF_mockVars(Client) /\ WF_mockVars(Tick)

MockSpec == MockInit /\ [][MockNext]_mockVars /\ Fairness
-------------------------------------------------------------------------------
(* What an observer of the first window reads under an id; None when nothing  *)
(* there has it.                                                              *)
Visible(id) ==
    LET w == Screen[1]
        with == {i \in DOMAIN w.elems : w.elems[i].id = id}
    IN  IF Screen = <<>> THEN None
        ELSE IF with = {} THEN None ELSE Shown(w, FirstOf(w.elems, with))

(* Scripts of logins like the repository's: the state "welcome" is reached only  *)
(* by reactions that ask for the name and a password, whose fields the first    *)
(* window of "start" has once each ...                                         *)
FieldOnce(d, id) ==
    LET elems == d.states["start"][1].elems
    IN  \E i \in DOMAIN elems : \A j \in DOMAIN elems : (elems[j].id = id) <=> (j = i)
AsksForBoth(d) ==
    /\ d.initial # "welcome"
    /\ d.states["start"] # <<>> /\ FieldOnce(d, "u") /\ FieldOnce(d, "p")
    /\ \A i \in DOMAIN d.reactions :
          d.reactions[i].to = "welcome" =>
             \E j, k \in DOMAIN d.reactions[i].when :
                /\ d.reactions[i].when[j].id = "u" /\ d.reactions[i].when[j].value = "alice"
                /\ d.reactions[i].when[k].id = "p" /\ d.reactions[i].when[k].filled

(* ... and a reaction that sets values answers to typing into the element whose   *)
(* value it sets.                                                             *)
SetsItsTarget(d) ==
    \A i \in DOMAIN d.reactions : \A k \in DOMAIN d.reactions[i].set :
       /\ d.reactions[i].tool \in {"type_text", "press_key"}
       /\ d.reactions[i].target = d.reactions[i].set[k].id

(* Reactions, windows and elements are sequences, and every element has a path. *)
WellFormed(d) ==
    /\ DOMAIN d.reactions \subseteq Nat
    /\ \A st \in DOMAIN d.states :
          /\ d.states[st] = <<>> \/ 1 \in DOMAIN d.states[st]
          /\ \A i \in DOMAIN d.states[st] :
                LET elems == d.states[st][i].elems
                IN  /\ DOMAIN elems \subseteq Nat
                    /\ \A j \in DOMAIN elems : elems[j].path # None

LoginScripts ==
    /\ None \notin {"u", "p", "alice"}
    /\ \A s \in DOMAIN Scripts :
          WellFormed(Scripts[s]) /\ AsksForBoth(Scripts[s]) /\ SetsItsTarget(Scripts[s])

(* The scripted login lets nobody in whose name and password were not on the  *)
(* screen when the button was clicked: the reactions decide by what an        *)
(* observer was shown, however the fields came to be filled.                  *)
LoginNeedsBothFields ==
    [][/\ state = "start" /\ state' = "welcome" /\ script' = script
       => Visible("u") = "alice" /\ Visible("p") \notin Blank]_mockVars

(* Whatever an agent does, a value that an observer sees changes only in the   *)
(* element that was clicked last through click_element.                       *)
TypedIntoFocused ==
    [][state' = state /\ overrides' # <<>> =>
          \A id \in {"u", "p"} : Visible(id)' # Visible(id) => touched = id]_mockVars
===============================================================================
