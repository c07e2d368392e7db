------------------------------- MODULE Scenarios -------------------------------
(***************************************************************************)
(* The scripted desktop of --mock --scenario: a few named states, each a     *)
(* list of windows, and reactions that change element values and move from   *)
(* state to state when an input reaches the MockAdapter.                      *)
(*                                                                          *)
(* A script is a record [initial, states, reactions].  A state is a sequence *)
(* of [uid, title, elems]; elems lists a window's elements in document order as     *)
(* [path, id, name, value].  A reaction is [tool, target, name, text, when,  *)
(* set, to]: text is the set of texts its regular expression matches.  None  *)
(* stands for what a script leaves out.                                      *)
(***************************************************************************)
EXTENDS Integers, Sequences, SequencesExt, Functions

CONSTANTS
    Scripts,   \* the scenario files at hand, by name
    None       \* None, and a key that is not given

Captured == "{text}"       \* in a set: the text that was typed
Blank == {None, ""}

ASSUME ScriptAssumption ==
    \A s \in DOMAIN Scripts : Scripts[s].initial \in DOMAIN Scripts[s].states

VARIABLES
    script, \* the scenario loaded last
    state,      \* scenario.current_state
    overrides,  \* <<window uid, element id>> -> value, set by reactions
    touched     \* last_focused_spec_id

deskVars == <<script, state, overrides, touched>>

DeskInit ==
    /\ script \in DOMAIN Scripts
    /\ state = Scripts[script].initial
    /\ overrides = <<>>
    /\ touched = None
-------------------------------------------------------------------------------
(* What list_windows and get_element_tree show.                               *)
Screen == Scripts[script].states[state]
Windows == [i \in DOMAIN Screen |-> [uid |-> Screen[i].uid, title |-> Screen[i].title]]
Overridden(w, id) == <<w.uid, id>> \in DOMAIN overrides

Shown(w, e) ==
    IF e.id # None /\ Overridden(w, e.id) THEN overrides[<<w.uid, e.id>>] ELSE e.value

(* The tree behind a handle: that of the window now at that position, else    *)
(* of the first window; a window of no tree, and no window, show a bare root. *)
TreeOf(position) ==
    IF Screen = <<>> THEN <<>>
    ELSE LET w == Screen[IF position \in DOMAIN Screen THEN position ELSE 1]
         IN  [i \in DOMAIN w.elems |->
                 [name |-> w.elems[i].name, value |-> Shown(w, w.elems[i])]]

(* The first member of a sequence that passes a test given as a set.          *)
FirstOf(s, good) == s[CHOOSE i \in good : \A j \in good : i <= j]

(* An observed element_id is a position in some tree: the first window that   *)
(* has it decides, whichever window the input was meant for.                  *)
AtPath(w, path) == {i \in DOMAIN w.elems : w.elems[i].path = path}
WithId(w, id) == {i \in DOMAIN w.elems : w.elems[i].id = id}

SpecId(path) ==
    LET has == {i \in DOMAIN Screen : AtPath(Screen[i], path) # {}}
    IN  IF has = {} THEN None
        ELSE LET w == FirstOf(Screen, has) IN FirstOf(w.elems, AtPath(w, path)).id

SpecName(id) ==
    LET has == {i \in DOMAIN Screen : WithId(Screen[i], id) # {}}
    IN  IF has = {} THEN None
        ELSE LET w == FirstOf(Screen, has) IN FirstOf(w.elems, WithId(w, id)).name

SpecValue(w, id) ==
    LET given == {i \in DOMAIN w.elems :
                     w.elems[i].id = id /\ w.elems[i].value # None}
    IN  IF given = {} THEN None ELSE FirstOf(w.elems, given).value

(* What a condition sees under an id in the first window. *)
ValueUnder(id) ==
    IF Overridden(Screen[1], id) THEN overrides[<<Screen[1].uid, id>>]
    ELSE SpecValue(Screen[1], id)

(* Mutant of WhenMatches: one condition is enough. *)
WhenMatchesAny(when) ==
    when = <<>> \/ /\ Screen # <<>>
                   /\ \E i \in DOMAIN when :
                         /\ when[i].value \in {None, ValueUnder(when[i].id)}
                         /\ when[i].filled => ValueUnder(when[i].id) \notin Blank

WhenMatches(when) ==
    \/ when = <<>>
    \/ /\ Screen # <<>>
       /\ \A i \in DOMAIN when :
             when[i].id # None =>
                /\ when[i].value \in {None, ValueUnder(when[i].id)}
                /\ when[i].filled => ValueUnder(when[i].id) \notin Blank
-------------------------------------------------------------------------------
ToolOf(action) ==
    CASE action = "type"     -> "type_text"
      [] action = "key"      -> "press_key"
      [] action = "click_at" -> "click_element"
      [] OTHER               -> action

(* Typing and keys go to the element clicked last, unless they name one.      *)
TargetOf(tool, path) ==
    IF SpecId(path) = None /\ tool \in {"type_text", "press_key"} THEN touched
    ELSE SpecId(path)

(* Mutant of Matches: an input without a target matches any. *)
MatchesUntargeted(r, tool, target, text) ==
    /\ r.tool = tool
    /\ target = None \/ r.target \in {None, target}
    /\ r.name = None \/ (target # None /\ SpecName(target) = r.name)
    /\ r.text = {} \/ text \in r.text
    /\ WhenMatches(r.when)

Matches(r, tool, target, text) ==
    /\ r.tool = tool
    /\ r.target \in {None, target}
    /\ r.name = None \/ (target # None /\ SpecName(target) = r.name)
    /\ r.text = {} \/ text \in r.text
    /\ WhenMatches(r.when)

(* The values a reaction sets, in the first window. *)
Sets(r, text) ==
    IF Screen = <<>> THEN <<>>
    ELSE [k \in {<<Screen[1].uid, r.set[i].id>> : i \in DOMAIN r.set} |->
             LET last == CHOOSE i \in DOMAIN r.set :
                            /\ r.set[i].id = k[2]
                            /\ \A j \in DOMAIN r.set : j > i => r.set[j].id # k[2]
             IN  IF r.set[last].value = Captured /\ r.text # {} THEN text
                 ELSE r.set[last].value]

Over(f, g) == [k \in DOMAIN f \cup DOMAIN g |-> IF k \in DOMAIN g THEN g[k] ELSE f[k]]

(* MockAdapter.perform_action: the first reaction that matches sets its       *)
(* values and then may change the state; without one nothing happens.         *)
Handle(action, path, text) ==
    LET tool == ToolOf(action)
        target == TargetOf(tool, path)
        rs == Scripts[script].reactions
        fired == {i \in DOMAIN rs : Matches(rs[i], tool, target, text)}
    IN  /\ touched' = IF tool = "click_element" /\ target # None THEN target
                      ELSE touched
        /\ IF fired = {} THEN UNCHANGED <<state, overrides>>
           ELSE LET r == FirstOf(rs, fired)
                IN  /\ overrides' = Over(overrides, Sets(r, text))
                    /\ state' = IF r.to \in DOMAIN Scripts[script].states THEN r.to
                                ELSE state
        /\ UNCHANGED script

(* load_scenario: the file is read anew, and replaces the whole desktop.      *)
Load(s) ==
    /\ script' = s
    /\ state' = Scripts[s].initial
    /\ overrides' = <<>>
    /\ touched' = None
===============================================================================
