------------------------------ MODULE MC_Pipeline ------------------------------
EXTENDS Pipeline, TLC

Symmetric == Permutations(Workers)
===============================================================================
