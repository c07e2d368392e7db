---------------------------- MODULE MC_TreeAccess ----------------------------
EXTENDS TreeAccess, TLC

(* The threads are interchangeable, and so are the windows. *)
Symmetric == Permutations(Workers) \cup Permutations(Windows)
===============================================================================
