----------------------------- MODULE MC_Algorithms -----------------------------
EXTENDS Algorithms

Window == [role |-> "Window", name |-> "Save"]
Labelled == [role : {"Window", "Button", "Pane", "push button"}, name : {"", "Save", "Save~", "quote"}]

(* Trees of one window before and after: up to two children of two identities,  *)
(* each with a field that diff.py compares and one that it does not, and up to   *)
(* one child; and up to three leaves.                                         *)
X == [role |-> "Button", name |-> "Save"]
Y == [role |-> "Pane", name |-> ""]
Leaf(id, seen, unseen) == Node(id, <<seen, unseen>>, <<>>)
Leaves == {Leaf(X, 0, 0), Leaf(X, 1, 0), Leaf(Y, 0, 0)}
Stems == Leaves \cup {Node(Y, <<0, 0>>, <<l>>) : l \in Leaves}
SomeTrees == {Node(Window, <<0, 0>>, k) : k \in BoundedSeq(Stems, 2) \cup BoundedSeq(Leaves, 3)}
                \cup {Node(Window, <<1, 0>>, <<Leaf(X, 0, 0)>>)}
                \cup {Node(Window, <<0, 1>>, k) : k \in BoundedSeq({Leaf(X, 0, 1), Leaf(Y, 0, 0)}, 2)}

(* Elements of two roles, unnamed, named, and with a name that looks alike; and  *)
(* windows and elements whose role is two words or whose name has a quote.     *)
SeenLabels == [role : {"Button", "Pane"}, name : {"", "Save", "Save~"}]
Twigs == {Node(l, <<>>, <<>>) : l \in SeenLabels}
Branches == Twigs \cup {Node([role |-> "Pane", name |-> ""], <<>>, k) : k \in BoundedSeq(Twigs, 1)}
Misread == {[role |-> "push button", name |-> ""], [role |-> "Pane", name |-> "quote"]}
Odd == {Node(l, <<>>, k) : l \in Misread,
                           k \in BoundedSeq({Node([role |-> "Button", name |-> "Save"], <<>>, <<>>)}, 1)}
SeenTrees == {Node(Window, <<>>, k) : k \in BoundedSeq(Branches, 2)}
                \cup {Node(Window, <<>>, k) : k \in BoundedSeq(Twigs, 3)}
                \cup {Node(Window, <<>>, k) : k \in BoundedSeq(Odd, 2)}
                \cup Odd
WordsOf == [r \in {"Window", "Button", "Pane"} |-> <<r>>] @@ ("push button" :> <<"push", "button">>)
Alike == {<<n, n>> : n \in {"", "Save", "Save~", "quote"}}
            \cup {<<"Save", "Save~">>, <<"Save~", "Save">>}
ByOperator == ("=" :> Alike) @@ ("*=" :> Alike \cup {<<n, "">> : n \in {"Save", "Save~", "quote"}})

Everything == {<<>>} \cup {<<i>> : i \in 1 .. 3} \cup {<<i, j>> : i, j \in 1 .. 3}
AllNames == {"", "Save", "Save~", "quote"}
SomeFilters ==
    {Filters({}, {}, AllNames, Everything, FALSE),
     Filters({"Button"}, {}, AllNames, Everything, TRUE),
     Filters({}, {"Pane"}, {"Save"}, Everything \ {<<1>>}, TRUE),
     Filters({}, {}, {"Save~"}, Everything, TRUE)}

(* A screen of 6 by 4, windows that leave it on every side, and two above them. *)
SmallScreen == Rect(0, 0, 6, 4)
SomeRects == {Rect(-1, -1, 4, 4), Rect(0, 0, 6, 4), Rect(1, 1, 5, 3), Rect(0, 2, 3, 1), Rect(9, 9, 2, 2)}
Above == {Rect(x, y, w, h) : x \in {-1, 0, 2}, y \in {-1, 1}, w \in {3, 7}, h \in {1, 5}}
TwoAbove == {<<>>} \cup (Above \X Above)
TitleBars == {{}, {Rect(0, 0, 4, 2)}, {Rect(1, 0, 2, 1)}}
Linux(w, x) == [means |-> Means.Linux, outcome |-> [wmctrl |-> w, xdotool |-> x]]
SomeAttempts == {Linux("missing", "failed"), Linux("failed", "done")}
===============================================================================
