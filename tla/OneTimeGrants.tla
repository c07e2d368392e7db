---------------------------- MODULE OneTimeGrants ----------------------------
(***************************************************************************)
(* What confirmation tokens promise: a token goes from fresh to live once,  *)
(* a live token lets one action through and is spent by it, and a token     *)
(* that lapses or is presented for the wrong action never lets any through. *)
(***************************************************************************)
EXTENDS Naturals

CONSTANT Tokens

VARIABLES
    state,    \* what has become of each token
    passes    \* the number of actions it has let through

States == {"fresh", "live", "spent", "void"}

Init ==
    /\ state = [t \in Tokens |-> "fresh"]
    /\ passes = [t \in Tokens |-> 0]

Issue(t) ==
    /\ state[t] = "fresh"
    /\ state' = [state EXCEPT ![t] = "live"]
    /\ UNCHANGED passes

Spend(t) ==
    /\ state[t] = "live"
    /\ state' = [state EXCEPT ![t] = "spent"]
    /\ passes' = [passes EXCEPT ![t] = 1]

Lapse ==
    /\ state' \in [Tokens -> States]
    /\ \A t \in Tokens : \/ state'[t] = state[t]
                         \/ state[t] = "live" /\ state'[t] = "void"
    /\ UNCHANGED passes

Next == Lapse \/ \E t \in Tokens : Issue(t) \/ Spend(t)

Spec == Init /\ [][Next]_<<state, passes>>
===============================================================================
