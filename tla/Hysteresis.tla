----------------------------- MODULE Hysteresis -----------------------------
(***************************************************************************)
(* What the comment on nextBatteryTier promises of one battery threshold:   *)
(* a trigger that is set at once by a level at or below it, is released     *)
(* only by a level that has recovered past a margin, and holds its position *)
(* everywhere in between and while the level is unknown.                    *)
(***************************************************************************)
EXTENDS Naturals

CONSTANTS
    Levels,       \* the levels a battery can report
    Unknown,      \* no level reported
    Threshold,    \* at or below it the trigger is set
    Release       \* the first level that releases it

VARIABLES level, set

Init ==
    /\ level \in Levels \cup {Unknown}
    /\ set \in BOOLEAN
    /\ level # Unknown => /\ level <= Threshold => set
                          /\ level >= Release => ~set

\* A new reading moves the trigger only outside the margin.
Read(new) ==
    /\ level' = new
    /\ set' = IF new = Unknown THEN set
              ELSE new <= Threshold \/ (new < Release /\ set)

Next == \E new \in Levels \cup {Unknown} : Read(new)

Spec == Init /\ [][Next]_<<level, set>>
=============================================================================
