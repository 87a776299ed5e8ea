---------------------------- MODULE AlertCommands ----------------------------
(***************************************************************************)
(* What geofence-worker and notification-worker share: the commands on the  *)
(* queue between them, and the subject's sharing switch, which both read.   *)
(* The queue is SQS: a message stays until its receiver acknowledges it, so *)
(* it can be received again, by another invocation too, and in any order.   *)
(***************************************************************************)
EXTENDS Integers, FiniteSets, Sequences

CONSTANTS
    Places,     \* the saved places of the families the subject shares with
    Fixes,      \* event ids of the accepted fixes of one subject
    None,       \* stands where there is no value
    MaxFailures,\* BOUND: calls that throw and invocations that die
    MaxChanges  \* BOUND: changes of sharing and of memberships

ASSUME AlertBounds == MaxFailures \in Nat /\ MaxChanges \in Nat

VARIABLES
    commands,   \* messages on the notification command queue
    sharing,    \* the subject's membership is ACTIVE and SHARING
    changes,    \* changes made so far
    failures    \* failures so far

Kinds == {"ARRIVAL", "DEPARTURE"}

\* A command names the crossing: what happened, where, and the fix that showed it.
Command == [kind : Kinds, place : Places, fix : Fixes]
=============================================================================
