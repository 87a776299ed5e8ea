------------------------- MODULE MCFamilyMembership -------------------------
(* Small instances of FamilyMembership for TLC, with a history variable that *)
(* tells the behaviours in which requests met each other, or an index behind *)
(* its table, from those in which each request ran alone.                    *)
EXTENDS FamilyMembership, TLC

VARIABLE mingled  \* history: has a request ever met another, or a stale index?

\* One patch of each kind: a joined ADMIN demoted, an ended row set ACTIVE.
RacePatches == {[role |-> "ADULT", status |-> "KEEP"], [role |-> "KEEP", status |-> "ACTIVE"]}

Busy == {r \in Requests : req[r].at # "IDLE"}

MCInit == Init /\ mingled = FALSE

MCNext ==
    /\ Next
    /\ mingled' = (mingled \/ Cardinality(Busy') > 1
                           \/ (starts' # starts /\ index' # row'))

MCSpec == MCInit /\ [][MCNext]_<<vars, mingled>>

\* membership-rules.ts, the first of its invariants "for every family, at every
\* moment": as long as the management requests come one at a time and the index
\* keeps up, the rules and the conditions of the writes leave exactly one owner.
AloneKeepsOneOwner == ~mingled => ExactlyOneOwner

\* Users and handlers are interchangeable in every action.
Interchangeable == Permutations(User) \cup Permutations(Requests)
=============================================================================
