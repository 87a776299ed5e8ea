----------------------------- MODULE MCUploads -----------------------------
(* Uploads with small values.                                               *)
EXTENDS Uploads

MCEvents == 1..2
MCThreeEvents == 1..3
MCCalls == 1..2
MCImplausible == {2}
MCNone == {}
=============================================================================
