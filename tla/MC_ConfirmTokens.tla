--------------------------- MODULE MC_ConfirmTokens ---------------------------
EXTENDS ConfirmTokens, FiniteSets, TLC

Symmetric == Permutations(Threads) \cup Permutations(Tokens)

(* Threads and tokens meet on clicks of guarded elements; calls of every kind,  *)
(* of two endpoints and on elements without a rule, are made one at a time and   *)
(* with one token.                                                           *)
Busy == {w \in Threads : call[w] # None}
PlainClick(c) == c.verb = "click_element" /\ c.ends[1] \in Guarded
OneHardThing ==
    Cardinality(Busy) > 1 \/ Cardinality(issued) > 1 =>
       /\ \A w \in Busy : PlainClick(call[w])
       /\ \A t \in issued : grant[t].verb = "click_element" /\ grant[t].elem \in Guarded
       /\ \A e, f \in Elements \ Guarded : place[e] = CHOOSE p \in Places : TRUE
===============================================================================
