------------------------- MODULE MCTrackingPolicy -------------------------
(* A small instance of TrackingPolicy for TLC. *)
EXTENDS TrackingPolicy

Granted == [services |-> TRUE, authorization |-> "ALWAYS"]
\* A report that suffices and one that does not.
PermissionReports == {Granted, [Granted EXCEPT !.services = FALSE]}

\* On each threshold, and within and past each margin.
EdgeLevels == {10, 15, 16, 20, 22, 25}
===========================================================================
