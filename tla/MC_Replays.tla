------------------------------ MODULE MC_Replays ------------------------------
EXTENDS Replays, TLC

Symmetric == Permutations(Steppers) \cup Permutations(Objects)
===============================================================================
