---------------------------- MODULE UploadCalls ----------------------------
(* What the phone's queue and the ingestion endpoint share: the HTTP calls   *)
(* in flight, and the record of the events that were given up.               *)
EXTENDS Integers, FiniteSets

CONSTANTS
    Events,   \* 1..n: the fixes of one phone, numbered as they are captured
    Calls     \* calls that can be in flight at the same time

ASSUME EventsAreNumbered == Events \subseteq Nat \ {0} /\ IsFiniteSet(Events)

VARIABLES
    call,     \* the calls: what was sent, how far the server is, what it answers
    dropped   \* history: events given up, by the phone or by the server

Stages == {"FREE", "ARRIVED", "CONSENT", "CURRENT", "APPEND", "ANSWERED"}
Dispositions == {"RETRY", "SHRINK_BATCH", "DROP_BATCH"}
CallRecords ==
    [at : Stages, batch : SUBSET Events, accepted : SUBSET Events,
     answer : Dispositions \cup {"OK"}, paused : BOOLEAN]
NoCall == [at |-> "FREE", batch |-> {}, accepted |-> {}, answer |-> "RETRY", paused |-> FALSE]

Newest(S) == IF S = {} THEN 0 ELSE CHOOSE e \in S : \A f \in S : f <= e
=============================================================================
