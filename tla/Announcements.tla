---------------------------- MODULE Announcements ----------------------------
(***************************************************************************)
(* What the geofence alerts of one subject promise, whatever queues, worker *)
(* invocations and retries lie in between: the transitions of a place       *)
(* alternate and go forward in time, and a device is told of a transition   *)
(* only after it happened, and of each one at most once.                    *)
(***************************************************************************)
EXTENDS Integers, Sequences

CONSTANTS Places, Fixes, Devices, Captured

VARIABLES crossings, inbox

Init == /\ crossings = [p \in Places |-> <<>>]
        /\ inbox = [d \in Devices |-> <<>>]

Follows(before, kind, fix) ==
    before # <<>> => LET last == before[Len(before)] IN
                     kind # last.kind /\ Captured[fix] > Captured[last.fix]

Cross(p) ==
    /\ \E kind \in {"ARRIVAL", "DEPARTURE"}, fix \in Fixes :
        /\ Follows(crossings[p], kind, fix)
        /\ crossings' = [crossings EXCEPT ![p] =
                Append(@, [kind |-> kind, place |-> p, fix |-> fix])]
    /\ UNCHANGED inbox

Tell(d) ==
    /\ \E p \in Places : \E n \in DOMAIN crossings[p] :
        /\ \A m \in DOMAIN inbox[d] : inbox[d][m] # crossings[p][n]
        /\ inbox' = [inbox EXCEPT ![d] = Append(@, crossings[p][n])]
    /\ UNCHANGED crossings

Next == (\E p \in Places : Cross(p)) \/ (\E d \in Devices : Tell(d))

Spec == Init /\ [][Next]_<<crossings, inbox>>
=============================================================================
