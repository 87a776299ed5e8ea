------------------------- MODULE MCAccountDeletion -------------------------
(* AccountDeletion with small values.  Requests and keys are only compared   *)
(* for equality, and no property is temporal beyond a step: symmetric.       *)
EXTENDS AccountDeletion, TLC

MCBodies == Days
Interchangeable == Permutations(Requests) \cup Permutations(Keys)
=============================================================================
