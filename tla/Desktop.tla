-------------------------------- MODULE Desktop --------------------------------
(***************************************************************************)
(* What the modules about captures share: the windows they are taken of.    *)
(***************************************************************************)
CONSTANT Windows     \* window uids
===============================================================================
