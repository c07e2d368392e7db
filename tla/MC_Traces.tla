------------------------------- MODULE MC_Traces -------------------------------
EXTENDS Traces, TLC

Symmetric == Permutations(Workers) \cup Permutations(Traces)
===============================================================================
