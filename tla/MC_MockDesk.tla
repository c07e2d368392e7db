------------------------------ MODULE MC_MockDesk ------------------------------
EXTENDS MockDesk

Elem(path, id, name, value) == [path |-> path, id |-> id, name |-> name, value |-> value]
Window(uid, title, elems) == [uid |-> uid, title |-> title, elems |-> elems]
On(tool, target, text, when, set, to) ==
    [tool |-> tool, target |-> target, name |-> None, text |-> text,
     when |-> when, set |-> set, to |-> to]

(* scenarios_examples/login.yaml, with a way back and a second window. *)
Login ==
    [initial |-> "start",
     states |->
        [start |-> <<Window("app", "Login",
            <<Elem("r", None, "Login", None), Elem("r.0", "u", "Username", None),
              Elem("r.1", "p", "Password", ""), Elem("r.2", "btn", "Login", None)>>)>>,
         welcome |-> <<Window("app", "Welcome",
            <<Elem("r", None, "", None), Elem("r.0", None, "Hello, alice", None),
              Elem("r.2", "out", "Log out", None)>>),
            Window("tip", "Tip", <<Elem("r", None, "Tip", None)>>)>>],
     reactions |-> <<
        On("type_text", "u", {"alice", "bob"}, <<>>,
           <<[id |-> "u", value |-> Captured]>>, None),
        On("type_text", "p", {"alice", "bob"}, <<>>,
           <<[id |-> "p", value |-> "<filled>"]>>, None),
        On("click_element", "btn", {},
           <<[id |-> "u", value |-> "alice", filled |-> FALSE],
             [id |-> "p", value |-> None, filled |-> TRUE]>>, <<>>, "welcome"),
        [On("click_element", None, {}, <<>>, <<>>, "start") EXCEPT !.name = "Log out"] >>]

OneScript == [login |-> Login]
Cond(kind, arg) == [kind |-> kind, arg |-> arg, value |-> None]
Waited == {<<Cond("text_visible", "alice"), Cond("window_appears", "Welcome")>>,
           <<Cond("element_disappears", "Username"), Cond("text_visible", "<filled>")>>}
Asserted == {<<Cond("text_visible", "alice"), Cond("window_exists", "Welcome"),
               Cond("element_exists", "Log out")>>}

(* What the proofs ask of a script holds of this one. *)
ASSUME LoginIsOne == LoginScripts
===============================================================================
