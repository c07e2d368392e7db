------------------------------- MODULE Targeting --------------------------------
(***************************************************************************)
(* Which window a call means.  A caller names a window by its uid, by its     *)
(* position in the list of windows, by a part of its title, or not at all;    *)
(* the window agent fills in what the model left out before it sends the      *)
(* call, and the server resolves what it receives against the windows that    *)
(* are open by then.                                                          *)
(***************************************************************************)
EXTENDS Integers, Sequences, SequencesExt

CONSTANTS
    Windows,   \* windows, each with its own uid
    NoWindow,  \* no window
    NoIndex,   \* no position given
    NoTitle    \* no title given

ASSUME TargetingAssumption ==
    /\ NoWindow \notin Windows
    /\ NoIndex \notin Nat
    /\ \A ws \in SUBSET Windows : NoTitle # ws

(* A title is the set of the windows whose titles contain it. *)
Selector == [uid   : Windows \cup {NoWindow},
             index : Nat \cup {NoIndex},
             title : SUBSET Windows \cup {NoTitle}]

Nothing   == [uid |-> NoWindow, index |-> NoIndex, title |-> NoTitle]
Uid(w)    == [Nothing EXCEPT !.uid = w]
Index(i)  == [Nothing EXCEPT !.index = i]
Title(ws) == [Nothing EXCEPT !.title = ws]
-------------------------------------------------------------------------------
(* The server.  list is the sequence of open windows, focus the focused one.  *)
ByUid(list, w) == IF w \in Range(list) THEN w ELSE NoWindow
ByIndex(list, i) == IF i \in 0..Len(list) - 1 THEN list[i + 1] ELSE NoWindow
ByTitle(list, ws) ==
    LET named == SelectSeq(list, LAMBDA w : w \in ws)
    IN  IF named = <<>> THEN NoWindow ELSE Head(named)

(* Mutant of Resolved: a position given as well wins over the uid. *)
ResolvedByIndex(list, s) ==
    IF s.index # NoIndex THEN ByIndex(list, s.index)
    ELSE IF s.uid # NoWindow THEN ByUid(list, s.uid)
    ELSE IF s.title # NoTitle THEN ByTitle(list, s.title)
    ELSE NoWindow

Resolved(list, s) ==
    IF s.uid # NoWindow THEN ByUid(list, s.uid)
    ELSE IF s.index # NoIndex THEN ByIndex(list, s.index)
    ELSE IF s.title # NoTitle THEN ByTitle(list, s.title)
    ELSE NoWindow

Focused(list, focus) ==
    IF focus \in Range(list) THEN focus
    ELSE IF list = <<>> THEN NoWindow ELSE Head(list)

(* Most tools work on the focused window when the named one is not found;     *)
(* the rest refuse the call.                                                  *)
OrFocused(list, focus, s) ==
    IF Resolved(list, s) = NoWindow THEN Focused(list, focus)
    ELSE Resolved(list, s)
-------------------------------------------------------------------------------
(* The agent.  A call of the model is of one of these classes; "stray" says   *)
(* that its arguments hold a null window_uid or window_index.                 *)
Reading == {"read", "observe"}    \* GETs about one window; observe sends two
Strict  == {"raise", "visible"}   \* GETs that need a window
Acting  == {"element"}            \* POSTs of element verbs, drag, composites
Waiting == {"wait_for"}           \* a POST of just what the model wrote
Blind   == {"point"}              \* POSTs of coordinates, text or keys
Classes == Reading \cup Strict \cup Acting \cup Waiting \cup Blind

Defaulted(s, chosen) == IF s = Nothing THEN chosen ELSE s

(* _win_params: one selector only. *)
Minimal(s) ==
    IF s.uid # NoWindow THEN Uid(s.uid)
    ELSE IF s.index # NoIndex THEN Index(s.index)
    ELSE Title(s.title)

(* What the agent sends for a call.  A POST gets the chosen window's position *)
(* only, never its uid, and not even that beside a stray null.                *)
Sent(class, s, stray, chosen) ==
    IF class \in Reading \cup Strict THEN Minimal(Defaulted(s, chosen))
    ELSE IF class \in Acting /\ s.uid = NoWindow /\ s.index = NoIndex /\ ~stray
         THEN [s EXCEPT !.index = Defaulted(s, chosen).index]
    ELSE IF class \in Blind THEN Nothing
    ELSE s

(* The window a served call works on; NoWindow when the call is refused.      *)
Target(class, list, focus, s) ==
    IF class \in Strict THEN Resolved(list, s) ELSE OrFocused(list, focus, s)
===============================================================================
