------------------------------ MODULE MCAlerts ------------------------------
EXTENDS Alerts, TLC

In == [side |-> "INSIDE", within |-> "INSIDE", accurate |-> TRUE]
Out == [side |-> "OUTSIDE", within |-> "OUTSIDE", accurate |-> TRUE]
Edge == [side |-> "AMBIGUOUS", within |-> "INSIDE", accurate |-> TRUE]
Blurred == [side |-> "INSIDE", within |-> "INSIDE", accurate |-> FALSE]

Instants == [f \in Fixes |-> f]

\* Out, in, in, out, out; the fix that would end a dwell may be too blurred to
\* count or fall in the ambiguous band, and the last may turn back.
Journeys == [f \in Fixes |->
    [Places -> CASE f = 1 -> {Out} [] f = 2 -> {In} [] f = 3 -> {In, Blurred}
                 [] f = 4 -> {Out, Edge} [] OTHER -> {Out, In}]]

Everything == Places \X Kinds
PhoneOf == [d \in Devices |-> CHOOSE r \in Recipients : TRUE]

\* The first two fixes are in already, and an arrival is waiting for its dwell:
\* three more are enough for an arrival and a departure.
ArrivalUnderWay ==
    /\ SharedInit /\ GeofenceQuiet /\ NotificationInit
    /\ reading = [f \in Fixes |-> CASE f = 1 -> [p \in Places |-> Out]
                                    [] f = 2 -> [p \in Places |-> In] [] OTHER -> None]
    /\ applied = [p \in Places |-> <<1, 2>>]
    /\ state = [p \in Places |-> [version |-> 2, side |-> "OUTSIDE", pending |-> "INSIDE",
                                  since |-> 2, last |-> 2]]

MCSpec == (Init \/ ArrivalUnderWay) /\ [][Next]_vars

Interchangeable == Permutations(GeofenceWorkers) \cup Permutations(Notifiers)
=============================================================================
