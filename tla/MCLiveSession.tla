--------------------------- MODULE MCLiveSession ---------------------------
(* Small instances of LiveSession for TLC. *)
EXTENDS LiveSession, TLC

\* Handlers are interchangeable; so are requesters and session ids.
Interchangeable == Permutations(Requests)
=============================================================================
