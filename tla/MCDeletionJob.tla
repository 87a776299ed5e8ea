--------------------------- MODULE MCDeletionJob ---------------------------
(* Small instances of DeletionJob for TLC. *)
EXTENDS DeletionJob, TLC

\* Invocations are interchangeable.
Interchangeable == Permutations(Workers)
=============================================================================
