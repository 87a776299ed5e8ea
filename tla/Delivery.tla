------------------------------ MODULE Delivery ------------------------------
(***************************************************************************)
(* What the phone's queue and the ingestion endpoint promise together: an   *)
(* event that was queued is held until it is stored or given up for a       *)
(* reason, and what was stored stays stored.                                *)
(***************************************************************************)
CONSTANT Events

VARIABLES
    held,     \* events in the phone's storage
    stored,   \* events in the location history
    dropped   \* events given up: too many, too old, too often tried, refused

Init == held = {} /\ stored = {} /\ dropped = {}

\* An event is captured and queued, or a record is written back for a retry.
Hold(S) == held' = held \cup S /\ UNCHANGED <<stored, dropped>>

\* The server makes events durable that were queued at some time.
Store(S) ==
    /\ S \subseteq held \cup stored \cup dropped
    /\ stored' = stored \cup S
    /\ UNCHANGED <<held, dropped>>

GiveUp(S) == dropped' = dropped \cup S /\ UNCHANGED <<held, stored>>

\* Only what is stored or given up leaves the phone.
Release(S) ==
    /\ S \subseteq stored \cup dropped
    /\ held' = held \ S
    /\ UNCHANGED <<stored, dropped>>

\* Giving up may be the removal itself.
Discard(S) ==
    /\ dropped' = dropped \cup S
    /\ held' = held \ S
    /\ UNCHANGED stored

Next == \E S \in SUBSET Events :
    Hold(S) \/ Store(S) \/ GiveUp(S) \/ Release(S) \/ Discard(S)

Spec == Init /\ [][Next]_<<held, stored, dropped>>
=============================================================================
