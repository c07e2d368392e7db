---------------------------- MODULE MC_Observations ----------------------------
EXTENDS Observations, TLC

Symmetric == Permutations(Clients) \cup Permutations(Tokens)
===============================================================================
