------------------------------- MODULE Alerts -------------------------------
(***************************************************************************)
(* The geofence worker and the notification worker over one queue of        *)
(* commands: from an accepted fix to the phones of the subject's family.    *)
(***************************************************************************)
EXTENDS Geofence, Notification

vars == <<commands, sharing, changes, failures, geofenceVars, notificationVars>>

SharedInit == commands = {} /\ sharing = TRUE /\ changes = 0 /\ failures = 0

Init == SharedInit /\ GeofenceInit /\ NotificationInit

Next == \/ GeofenceNext /\ UNCHANGED notificationVars
        \/ NotificationNext /\ UNCHANGED geofenceVars

Spec == Init /\ [][Next]_vars

TypeOK ==
    /\ commands \subseteq Command /\ sharing \in BOOLEAN /\ changes \in 0..MaxChanges
    /\ failures \in 0..MaxFailures
    /\ GeofenceTypeOK /\ NotificationTypeOK

\* Neither a redelivered or reordered fix, nor two invocations on one row, nor a
\* redelivered command or a failed send makes a phone hear twice of one
\* transition, or of one that did not happen; transitions alternate.
Promised == INSTANCE Announcements
AnnouncedOnce == Promised!Spec
=============================================================================
