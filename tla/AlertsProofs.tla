---------------------------- MODULE AlertsProofs ----------------------------
(***************************************************************************)
(* Theorems about Alerts, for any fixes, readings, dwells, invocations,     *)
(* devices and failures: the types, that a confirmed transition was dwelt   *)
(* through, that the barred hear nothing, and that a device hears of each   *)
(* transition once (Announcements).                                         *)
(***************************************************************************)
EXTENDS Alerts, TLAPS

Working == {"RECIPIENT", "SUBJECT", "CLAIM", "SEND", "RETIRE"}

\* What TypeOK leaves out: the domains.
Shapes ==
    /\ DOMAIN reading = Fixes /\ reading = [f \in Fixes |-> reading[f]]
    /\ applied \in [Places -> Seq(Fixes)]
    /\ crossings \in [Places -> Seq(Command)]
    /\ inbox \in [Devices -> Seq(Command)]

\* The fixes a row took, read and accurate; the row remembers the last of them, and
\* a candidate side goes back to one that showed it, with none since against it.
TookIsRead(p) ==
    \A i \in DOMAIN applied[p] :
        reading[applied[p][i]] # None /\ reading[applied[p][i]][p].accurate
Shown(p, side, since) ==
    \E i \in DOMAIN applied[p] :
        /\ Captured[applied[p][i]] = since /\ Sees(applied[p][i], p, KindOf(side))
        /\ \A k \in DOMAIN applied[p] : k >= i => ~SeesOtherwise(applied[p][k], p, KindOf(side))
RowFits(p) ==
    IF state[p] = NoRow THEN crossings[p] = <<>>
    ELSE state[p].pending # "NONE" => Shown(p, state[p].pending, state[p].since)

\* The last transition is to the side the row is on, and no later than what the row
\* goes by now.
RowFollows(p) ==
    crossings[p] # <<>> =>
        LET last == crossings[p][Len(crossings[p])] IN
        /\ last.kind = KindOf(state[p].side)
        /\ Captured[last.fix] <= Captured[state[p].last]
        /\ state[p].pending # "NONE" => Captured[last.fix] <= state[p].since

\* The command is of a transition that happened.
Crossed(c) == \E n \in DOMAIN crossings[c.place] : crossings[c.place][n] = c

\* What an invocation of the geofence worker knows of the fix and the row in hand.
GeoKnows(w) ==
    LET f == geo[w].fix
        p == geo[w].place
        r == geo[w].row IN
    /\ geo[w].at # "IDLE" => f \in Fixes /\ reading[f] # None
    /\ geo[w].at = "PUT" =>
          /\ p \in Places /\ reading[f][p].accurate /\ ~Stale(f, r)
          /\ r.version <= state[p].version
          /\ r.version = state[p].version => r = state[p]
    /\ \A c \in geo[w].commands : Crossed(c)

\* What an invocation of the notification worker knows: its command is of a
\* transition, and its targets are the recipient's devices, who has not had it.
NoteKnows(n) ==
    LET c == note[n].command
        r == note[n].recipient IN
    /\ note[n].at # "IDLE" => c \in Command /\ Crossed(c)
    /\ note[n].at \in Working => r \in Recipients
    /\ \A d \in note[n].targets : Owner[d] = r
    /\ note[n].at = "SEND" =>
          /\ Key(c, r) \in claims
          /\ \A d \in note[n].targets : \A m \in DOMAIN inbox[d] : Key(inbox[d][m], r) # Key(c, r)

\* A claim has one holder, and what a device got was claimed.
ClaimsAreExclusive ==
    \A n, o \in Notifiers :
        n # o /\ note[n].at = "SEND" /\ note[o].at = "SEND" =>
            Key(note[n].command, note[n].recipient) # Key(note[o].command, note[o].recipient)
PushesAreClaimed ==
    \A d \in Devices : \A m \in DOMAIN inbox[d] : Key(inbox[d][m], Owner[d]) \in claims

\* What is recorded against the recipient in hand still is, and what the
\* invocation has read since then is not.
StillBarred(n) ==
    /\ note[n].at \in Working => barred[n] \subseteq Bars(note[n].recipient)
    /\ note[n].at \in {"SUBJECT", "CLAIM", "SEND"} => "NOT_ACTIVE" \notin barred[n]
    /\ note[n].at \in {"CLAIM", "SEND"} => barred[n] \cap {"NOT_SHARING", "HIDDEN"} = {}

IInv ==
    /\ TypeOK /\ Shapes /\ CrossingsAreReal /\ ClaimsAreExclusive /\ PushesAreClaimed
    /\ \A p \in Places : TookIsRead(p) /\ RowFits(p) /\ RowFollows(p)
    /\ \A c \in commands : Crossed(c)
    /\ \A w \in GeofenceWorkers : GeoKnows(w)
    /\ \A n \in Notifiers : NoteKnows(n) /\ StillBarred(n)

-----------------------------------------------------------------------------
(* The evaluator                                                            *)

\* A fix that was read has a reading at every place.
LEMMA ReadingType ==
    ASSUME TypeOK, NEW f \in Fixes, reading[f] # None
    PROVE  /\ reading[f] \in [Places -> Observation]
           /\ \A p \in Places : reading[f][p].side \in Sides \cup {"AMBIGUOUS"}
                                /\ reading[f][p].within \in Sides
  <1>1. reading[f] \in [Places -> Observation]
    BY GeofenceConstants DEF TypeOK, GeofenceTypeOK
  <1> QED  BY <1>1 DEF Observation

\* A row that exists has a version; no row has none.
LEMMA RowCases ==
    /\ NoRow.version = 0 /\ NoRow \notin Row
    /\ \A r \in Rows : r.version \in Nat /\ (r # NoRow => r \in Row /\ r.version >= 1)
  <1>1. NoRow.version = 0
    BY DEF NoRow
  <1>2. \A r \in Row : r.version \in Nat /\ r.version >= 1
    BY DEF Row
  <1> QED  BY <1>1, <1>2 DEF Rows

\* The dwell of a side takes time.
LEMMA DwellTakesTime == \A side : Dwell(side) \in Nat /\ Dwell(side) >= 1
  BY GeofenceConstants DEF Dwell

\* A transition is confirmed only of a candidate the row already had.
LEMMA ConfirmsMeans ==
    ASSUME TypeOK, NEW f \in Fixes, reading[f] # None, NEW p \in Places, NEW r \in Rows,
           Confirms(f, p, r)
    PROVE  /\ r \in Row
           /\ reading[f][p].side \in Sides /\ reading[f][p].side # r.side
           /\ r.pending = reading[f][p].side
           /\ Captured[f] - r.since >= Dwell(r.pending)
           /\ Captured[f] > r.since
  <1>1. r \in Row /\ reading[f][p].side \in Sides /\ reading[f][p].side # r.side
    BY RowCases DEF Confirms
  <1>2. Captured[f] \in Nat /\ r.since \in Nat
    BY <1>1, GeofenceConstants DEF Row
  <1>3. Captured[f] - PendingSince(f, reading[f][p].side, r) >= Dwell(reading[f][p].side)
    BY DEF Confirms
  <1>4. r.pending = reading[f][p].side
    BY <1>2, <1>3, DwellTakesTime DEF PendingSince
  <1>5. Captured[f] - r.since >= Dwell(r.pending)
    BY <1>3, <1>4 DEF PendingSince
  <1> QED  BY <1>1, <1>2, <1>4, <1>5, DwellTakesTime

\* The candidate that a fix leaves, with its beginning.
LEMMA CandidateMeans ==
    ASSUME TypeOK, NEW f \in Fixes, reading[f] # None, NEW p \in Places, NEW r \in Row
    PROVE  LET side == reading[f][p].side
               next == Candidate(f, p, r) IN
           /\ next.side \in Sides \cup {"NONE"} /\ next.since \in Nat
           /\ \/ next.side = "NONE"
              \/ side = "AMBIGUOUS" /\ next = [side |-> r.pending, since |-> r.since]
              \/ side \in Sides /\ next.side = side
                 /\ \/ r.pending = side /\ next.since = r.since
                    \/ next.since = Captured[f]
           /\ Confirms(f, p, r) => next.side = "NONE"
  <1>1. Captured[f] \in Nat /\ r.since \in Nat /\ r.pending \in Sides \cup {"NONE"} /\ r.side \in Sides
    BY GeofenceConstants DEF Row
  <1>2. reading[f][p].side \in Sides \cup {"AMBIGUOUS"}
    BY ReadingType
  <1>3. CASE reading[f][p].side = "AMBIGUOUS"
    BY <1>1, <1>3 DEF Candidate, Confirms, Sides
  <1>4. CASE reading[f][p].side # "AMBIGUOUS" /\ (reading[f][p].side = r.side \/ Confirms(f, p, r))
    BY <1>4 DEF Candidate
  <1>5. CASE reading[f][p].side \in Sides /\ reading[f][p].side # r.side /\ ~Confirms(f, p, r)
    <2>1. Candidate(f, p, r) =
            [side |-> reading[f][p].side, since |-> PendingSince(f, reading[f][p].side, r)]
      BY <1>5 DEF Candidate, Sides
    <2>2. \/ r.pending = reading[f][p].side /\ PendingSince(f, reading[f][p].side, r) = r.since
          \/ PendingSince(f, reading[f][p].side, r) = Captured[f]
      BY DEF PendingSince
    <2> QED  BY <1>1, <1>5, <2>1, <2>2
  <1> QED  BY <1>2, <1>3, <1>4, <1>5

\* The row after a fix.
LEMMA NextRowMeans ==
    ASSUME TypeOK, NEW f \in Fixes, reading[f] # None, NEW p \in Places, NEW r \in Rows
    PROVE  LET next == NextRow(f, p, r) IN
           /\ next \in Row /\ next.version = r.version + 1 /\ next.last = f
           /\ r = NoRow => next.pending = "NONE"
           /\ r # NoRow => /\ next.side = IF Confirms(f, p, r) THEN reading[f][p].side ELSE r.side
                           /\ next.pending = Candidate(f, p, r).side
                           /\ next.since = Candidate(f, p, r).since
  <1>1. reading[f][p].side \in Sides \cup {"AMBIGUOUS"} /\ reading[f][p].within \in Sides
    BY ReadingType
  <1>2. CASE r = NoRow
    <2>1. Baseline(f, p) \in Row
      BY <1>1 DEF Baseline, Row
    <2> QED  BY <1>2, <2>1, RowCases DEF NextRow, Baseline
  <1>3. CASE r # NoRow
    <2>1. r \in Row /\ r.version \in Nat \ {0} /\ r.side \in Sides
      BY <1>3, RowCases DEF Row
    <2>2. PICK side \in Sides : side = IF Confirms(f, p, r) THEN reading[f][p].side ELSE r.side
      BY <1>1, <2>1 DEF Confirms
    <2>3. PICK c : c = Candidate(f, p, r)
      OBVIOUS
    <2>4. c.side \in Sides \cup {"NONE"} /\ c.since \in Nat
      BY <2>1, <2>3, CandidateMeans
    <2>5. NextRow(f, p, r) = [version |-> r.version + 1, side |-> side, pending |-> c.side,
                              since |-> c.since, last |-> f]
      BY <1>3, <2>2, <2>3 DEF NextRow
    <2>6. NextRow(f, p, r) \in Row
      BY <2>1, <2>4, <2>5 DEF Row
    <2> QED  BY <1>3, <2>2, <2>3, <2>5, <2>6
  <1> QED  BY <1>2, <1>3

\* A fix appended leaves what was there where it was.
LEMMA Appending ==
    ASSUME NEW S, NEW s \in Seq(S), NEW e \in S
    PROVE  /\ Append(s, e) \in Seq(S) /\ Len(Append(s, e)) = Len(s) + 1
           /\ Len(s) \in Nat /\ DOMAIN s = 1..Len(s) /\ DOMAIN Append(s, e) = 1..(Len(s) + 1)
           /\ \A i \in 1..Len(s) : Append(s, e)[i] = s[i]
           /\ Append(s, e)[Len(s) + 1] = e
           /\ Append(s, e) # <<>>
  OBVIOUS

-----------------------------------------------------------------------------
(* Types                                                                    *)

IdleTypes == IdleGeo \in Geos /\ IdleNote \in Notes

\* Nothing in hand.
LEMMA IdleAreTyped == IdleTypes
  BY DEF IdleTypes, IdleGeo, IdleNote, Geos, Notes, Rows

\* What was read stays as it was read.
LEMMA ReadingStays ==
    ASSUME IInv, Next
    PROVE  /\ \A f \in Fixes : reading[f] # None => reading'[f] = reading[f]
           /\ DOMAIN reading' = Fixes /\ reading' = [f \in Fixes |-> reading'[f]]
           /\ \A f \in Fixes : reading'[f] \in Readings[f] \cup {None}
  <1>1. /\ DOMAIN reading = Fixes /\ reading = [f \in Fixes |-> reading[f]]
        /\ \A f \in Fixes : reading[f] \in Readings[f] \cup {None}
    BY DEF IInv, TypeOK, GeofenceTypeOK, Shapes
  <1>2. CASE UNCHANGED reading
    BY <1>1, <1>2
  <1>3. ASSUME NEW w \in GeofenceWorkers, NEW f \in Fixes, ReceiveFix(w, f), reading' # reading
        PROVE  \E o \in Readings[f] : reading[f] = None /\ reading' = [reading EXCEPT ![f] = o]
    BY <1>3 DEF ReceiveFix
  <1>4. UNCHANGED reading \/ \E w \in GeofenceWorkers, f \in Fixes : ReceiveFix(w, f)
    BY DEF Next, GeofenceNext, Republish, ReadRow, PutRow, PublishAndReturn, FixFails, geofenceVars
  <1>5. ASSUME NEW f \in Fixes, NEW o \in Readings[f], reading[f] = None,
               reading' = [reading EXCEPT ![f] = o]
        PROVE  /\ \A g \in Fixes : reading[g] # None => reading'[g] = reading[g]
               /\ DOMAIN reading' = Fixes /\ reading' = [g \in Fixes |-> reading'[g]]
               /\ \A g \in Fixes : reading'[g] \in Readings[g] \cup {None}
    BY <1>1, <1>5
  <1> QED  BY <1>2, <1>3, <1>4, <1>5

\* What the geofence worker does to what it holds keeps its type.
LEMMA GeoTypes ==
    ASSUME NEW x \in Geos
    PROVE  /\ x.row \in Rows /\ x.commands \in SUBSET Command
           /\ \A p \in Places, at \in {"FENCE", "PUT"}, place \in Places \cup {None}, row \in Rows :
                [x EXCEPT !.fences = x.fences \ {p}, !.at = at, !.place = place, !.row = row] \in Geos
           /\ \A T \in SUBSET Command :
                [x EXCEPT !.at = "FENCE", !.place = None, !.row = NoRow, !.commands = T] \in Geos
  <1>1. x.row \in Rows /\ x.commands \in SUBSET Command
    BY DEF Geos
  <1>2. ASSUME NEW p \in Places, NEW at \in {"FENCE", "PUT"}, NEW place \in Places \cup {None}, NEW row \in Rows
        PROVE  [x EXCEPT !.fences = x.fences \ {p}, !.at = at, !.place = place, !.row = row] \in Geos
    BY DEF Geos
  <1>3. NoRow \in Rows
    BY DEF Rows
  <1>4. ASSUME NEW T \in SUBSET Command
        PROVE  [x EXCEPT !.at = "FENCE", !.place = None, !.row = NoRow, !.commands = T] \in Geos
    BY <1>3 DEF Geos
  <1> QED  BY <1>1, <1>2, <1>4

\* The geofence worker keeps every type.
LEMMA GeofenceTypes ==
    ASSUME IInv, Next, GeofenceNext, UNCHANGED notificationVars
    PROVE  TypeOK' /\ Shapes'
  <1>1. TypeOK /\ Shapes /\ geo \in [GeofenceWorkers -> Geos] /\ state \in [Places -> Rows]
    BY DEF IInv, TypeOK, GeofenceTypeOK
  <1>2. NotificationTypeOK'
    BY <1>1 DEF TypeOK, NotificationTypeOK, notificationVars
  <1>3. UNCHANGED inbox
    BY DEF notificationVars
  <1> SUFFICES /\ commands' \subseteq Command /\ sharing' \in BOOLEAN /\ changes' \in 0..MaxChanges
               /\ failures' \in 0..MaxFailures
               /\ evaluations' \subseteq Fixes
               /\ state' \in [Places -> Rows] /\ geo' \in [GeofenceWorkers -> Geos]
               /\ fixReceives' \in 0..MaxFixReceives
               /\ applied' \in [Places -> Seq(Fixes)] /\ crossings' \in [Places -> Seq(Command)]
    <2> QED  BY <1>1, <1>2, <1>3, ReadingStays DEF TypeOK, GeofenceTypeOK, Shapes
  <1>0. /\ commands \subseteq Command /\ sharing \in BOOLEAN /\ changes \in 0..MaxChanges
        /\ failures \in 0..MaxFailures /\ evaluations \subseteq Fixes
        /\ state \in [Places -> Rows] /\ geo \in [GeofenceWorkers -> Geos]
        /\ fixReceives \in 0..MaxFixReceives
        /\ applied \in [Places -> Seq(Fixes)] /\ crossings \in [Places -> Seq(Command)]
    BY <1>1 DEF TypeOK, GeofenceTypeOK, Shapes
  <1> USE <1>0
  <1>4. ASSUME NEW n, failures < MaxFailures, n = failures + 1 PROVE n \in 0..MaxFailures
    BY <1>4, AlertBounds
  <1>5. ASSUME NEW w \in GeofenceWorkers, NEW f \in Fixes, ReceiveFix(w, f),
               UNCHANGED <<commands, sharing, changes, failures>>
        PROVE  geo' \in [GeofenceWorkers -> Geos] /\ fixReceives' \in 0..MaxFixReceives
    <2>1. [IdleGeo EXCEPT !.at = "FENCE", !.fix = f, !.fences = IF sharing THEN Places ELSE {}] \in Geos
      BY DEF IdleGeo, Geos, Rows
    <2> QED  BY <1>5, <2>1, GeofenceConstants DEF ReceiveFix
  <1>6. ASSUME NEW w \in GeofenceWorkers, NEW p \in Places, ReadRow(w, p)
        PROVE  geo' \in [GeofenceWorkers -> Geos]
    <2>1. PICK at \in {"FENCE", "PUT"} : at = IF Ignored(geo[w].fix, p, state[p]) THEN "FENCE" ELSE "PUT"
      OBVIOUS
    <2>2. PICK place \in Places \cup {None} :
            place = IF Ignored(geo[w].fix, p, state[p]) THEN None ELSE p
      OBVIOUS
    <2>3. PICK row \in Rows : row = IF Ignored(geo[w].fix, p, state[p]) THEN NoRow ELSE state[p]
      BY DEF Rows
    <2>4. geo' = [geo EXCEPT ![w] = [geo[w] EXCEPT !.fences = geo[w].fences \ {p}, !.at = at,
                                                   !.place = place, !.row = row]]
      BY <1>6, <2>1, <2>2, <2>3 DEF ReadRow
    <2> QED  BY <2>4, GeoTypes
  <1>7. ASSUME NEW w \in GeofenceWorkers, PutRow(w)
        PROVE  /\ state' \in [Places -> Rows] /\ geo' \in [GeofenceWorkers -> Geos]
               /\ applied' \in [Places -> Seq(Fixes)] /\ crossings' \in [Places -> Seq(Command)]
    <2>1. PICK f \in Fixes, p \in Places : f = geo[w].fix /\ p = geo[w].place /\ reading[f] # None
      BY <1>7 DEF PutRow, IInv, GeoKnows
    <2>2. PICK r \in Rows : r = geo[w].row
      BY GeoTypes
    <2>3. PICK next \in Rows : next = NextRow(f, p, r)
      BY <1>1, <2>1, NextRowMeans DEF Rows
    <2>4. PICK c \in Command : c = [kind |-> KindOf(reading[f][p].side), place |-> p, fix |-> f]
      <3>1. KindOf(reading[f][p].side) \in Kinds
        BY DEF KindOf, Kinds
      <3> QED  BY <3>1 DEF Command
    <2>5. state' = state \/ state' = [state EXCEPT ![p] = next]
      BY <1>7, <2>1, <2>2, <2>3 DEF PutRow
    <2>6. applied' = applied \/ applied' = [applied EXCEPT ![p] = Append(@, f)]
      BY <1>7, <2>1 DEF PutRow
    <2>7. crossings' = crossings \/ crossings' = [crossings EXCEPT ![p] = Append(@, c)]
      BY <1>7, <2>1, <2>4 DEF PutRow
    <2>8. geo' \in [GeofenceWorkers -> Geos]
      <3>1. PICK T \in SUBSET Command :
              T = IF Wins(p, r) /\ Confirms(f, p, r) /\ <<p, KindOf(reading[f][p].side)>> \in Wanted
                  THEN geo[w].commands \cup {c} ELSE geo[w].commands
        BY GeoTypes
      <3>2. geo' = [geo EXCEPT ![w] = [geo[w] EXCEPT !.at = "FENCE", !.place = None, !.row = NoRow,
                                                     !.commands = T]]
        BY <1>7, <2>1, <2>2, <2>4, <3>1 DEF PutRow
      <3> QED  BY <3>2, GeoTypes
    <2>9. state' \in [Places -> Rows]
      BY <2>5
    <2>10. applied' \in [Places -> Seq(Fixes)]
      <3>1. Append(applied[p], f) \in Seq(Fixes)
        BY Appending
      <3> QED  BY <2>6, <3>1
    <2>11. crossings' \in [Places -> Seq(Command)]
      <3>1. Append(crossings[p], c) \in Seq(Command)
        BY Appending
      <3> QED  BY <2>7, <3>1
    <2> QED  BY <2>8, <2>9, <2>10, <2>11
  <1>8. ASSUME NEW w \in GeofenceWorkers, PublishAndReturn(w)
        PROVE  /\ commands' \subseteq Command /\ evaluations' \subseteq Fixes
               /\ failures' \in 0..MaxFailures /\ geo' \in [GeofenceWorkers -> Geos]
    <2>1. geo[w].commands \in SUBSET Command
      BY GeoTypes
    <2> QED  BY <1>4, <1>8, <2>1, IdleAreTyped DEF PublishAndReturn, IdleTypes
  <1>9. ASSUME NEW w \in GeofenceWorkers, FixFails(w)
        PROVE  failures' \in 0..MaxFailures /\ geo' \in [GeofenceWorkers -> Geos]
    BY <1>4, <1>9, IdleAreTyped DEF FixFails, IdleTypes
  <1>10. ASSUME NEW f \in Fixes, Republish(f)
         PROVE  failures' \in 0..MaxFailures /\ evaluations' \subseteq Fixes
    BY <1>4, <1>10 DEF Republish
  <1>11. CASE \E w \in GeofenceWorkers, f \in Fixes :
                 ReceiveFix(w, f) /\ UNCHANGED <<commands, sharing, changes, failures>>
    BY <1>5, <1>11 DEF ReceiveFix
  <1>12. CASE \E w \in GeofenceWorkers, p \in Places :
                 ReadRow(w, p) /\ UNCHANGED <<commands, sharing, changes, failures>>
    BY <1>6, <1>12 DEF ReadRow
  <1>13. CASE \E w \in GeofenceWorkers : PutRow(w) /\ UNCHANGED <<commands, sharing, changes, failures>>
    BY <1>7, <1>13 DEF PutRow
  <1>14. CASE \E w \in GeofenceWorkers : PublishAndReturn(w) /\ UNCHANGED <<sharing, changes>>
    BY <1>8, <1>14 DEF PublishAndReturn
  <1>15. CASE \E w \in GeofenceWorkers : FixFails(w) /\ UNCHANGED <<commands, sharing, changes>>
    BY <1>9, <1>15 DEF FixFails
  <1>16. CASE \E f \in Fixes : Republish(f) /\ UNCHANGED <<commands, sharing, changes>>
    BY <1>10, <1>16 DEF Republish
  <1> QED  BY <1>11, <1>12, <1>13, <1>14, <1>15, <1>16 DEF GeofenceNext

\* What the notification worker does to what it holds keeps its type.
LEMMA NoteTypes ==
    ASSUME NEW x \in Notes
    PROVE  /\ NextRecipient(x) \in Notes
           /\ \A at \in {"SUBJECT", "CLAIM", "SEND", "RETIRE"} : [x EXCEPT !.at = at] \in Notes
           /\ x.todo \subseteq Recipients /\ x.targets \subseteq Devices /\ x.retire \subseteq Devices
           /\ x.retry \subseteq Recipients
  BY DEF Notes, NextRecipient

\* The pipeline, the answer and the failure keep the invocation's type.
LEMMA NotifierTypes ==
    ASSUME IInv, NEW n \in Notifiers,
           \/ ReceiveCommand(n) \/ ReadRecipient(n) \/ ReadSubject(n) \/ Skip(n)
           \/ Claim(n) \/ Finish(n) \/ Acknowledge(n) \/ NotifierFails(n)
           \/ \E r \in Recipients : TakeRecipient(n, r)
           \/ \E d \in Devices : Send(n, d) \/ Retire(n, d)
    PROVE  note' \in [Notifiers -> Notes]
  <1>1. /\ note \in [Notifiers -> Notes] /\ note[n] \in Notes /\ commands \subseteq Command
        /\ members \subseteq Recipients /\ reachable \subseteq Devices
    BY DEF IInv, TypeOK, NotificationTypeOK
  <1> SUFFICES \E x \in Notes : note' = [note EXCEPT ![n] = x]
    BY <1>1
  <1>2. CASE ReceiveCommand(n)
    <2>1. \A c \in Command :
            [IdleNote EXCEPT !.at = "NEXT", !.command = c, !.todo = members] \in Notes
      BY <1>1 DEF IdleNote, Notes
    <2> QED  BY <1>1, <1>2, <2>1 DEF ReceiveCommand
  <1>3. CASE ReadRecipient(n) \/ ReadSubject(n) \/ Skip(n)
    BY <1>1, <1>3, NoteTypes DEF ReadRecipient, ReadSubject, Skip
  <1>4. CASE Claim(n)
    BY <1>1, <1>4, NoteTypes DEF Claim
  <1>5. CASE Finish(n)
    <2>1. note[n].recipient \in Recipients
      BY <1>5 DEF Finish, IInv, NoteKnows, Working
    <2>2. PICK T \in SUBSET Recipients :
            T = IF note[n].failing /\ ~note[n].delivered
                THEN note[n].retry \cup {note[n].recipient} ELSE note[n].retry
      BY <1>1, <2>1, NoteTypes
    <2>3. PICK done \in Notes : done = [note[n] EXCEPT !.retry = T]
      BY <1>1 DEF Notes
    <2>4. note' = [note EXCEPT ![n] = IF done.retire = {} THEN NextRecipient(done)
                                      ELSE [done EXCEPT !.at = "RETIRE"]]
      BY <1>5, <2>2, <2>3 DEF Finish
    <2> QED  BY <2>4, NoteTypes
  <1>6. CASE Acknowledge(n) \/ NotifierFails(n)
    BY <1>6, IdleAreTyped DEF Acknowledge, NotifierFails, IdleTypes
  <1>7. ASSUME NEW r \in Recipients, TakeRecipient(n, r) PROVE \E x \in Notes : note' = [note EXCEPT ![n] = x]
    <2>1. PICK T \in SUBSET Devices : T = {d \in reachable : Owner[d] = r}
      BY <1>1
    <2>2. [note[n] EXCEPT !.at = "RECIPIENT", !.todo = note[n].todo \ {r}, !.recipient = r,
                          !.targets = T] \in Notes
      BY <1>1 DEF Notes
    <2>3. note' = [note EXCEPT ![n] =
            [note[n] EXCEPT !.at = "RECIPIENT", !.todo = note[n].todo \ {r}, !.recipient = r,
                            !.targets = T]]
      BY <1>7, <2>1 DEF TakeRecipient
    <2> QED  BY <2>2, <2>3
  <1>8. ASSUME NEW d \in Devices, Send(n, d) PROVE \E x \in Notes : note' = [note EXCEPT ![n] = x]
    <2>1. /\ [note[n] EXCEPT !.targets = note[n].targets \ {d}, !.delivered = TRUE] \in Notes
          /\ [note[n] EXCEPT !.targets = note[n].targets \ {d}, !.failing = TRUE] \in Notes
          /\ [note[n] EXCEPT !.targets = note[n].targets \ {d},
                             !.retire = note[n].retire \cup {d}] \in Notes
      BY <1>1 DEF Notes
    <2>2. \/ note' = [note EXCEPT ![n] =
                [note[n] EXCEPT !.targets = note[n].targets \ {d}, !.delivered = TRUE]]
          \/ note' = [note EXCEPT ![n] =
                [note[n] EXCEPT !.targets = note[n].targets \ {d}, !.failing = TRUE]]
          \/ note' = [note EXCEPT ![n] =
                [note[n] EXCEPT !.targets = note[n].targets \ {d}, !.retire = note[n].retire \cup {d}]]
      BY <1>8 DEF Send
    <2> QED  BY <2>1, <2>2
  <1>9. ASSUME NEW d \in Devices, Retire(n, d) PROVE \E x \in Notes : note' = [note EXCEPT ![n] = x]
    <2>1. [note[n] EXCEPT !.retire = note[n].retire \ {d}] \in Notes
      BY <1>1 DEF Notes
    <2>2. \/ note' = [note EXCEPT ![n] = NextRecipient(note[n])]
          \/ note' = [note EXCEPT ![n] = [note[n] EXCEPT !.retire = note[n].retire \ {d}]]
      BY <1>9 DEF Retire
    <2> QED  BY <1>1, <2>1, <2>2, NoteTypes
  <1> QED  BY <1>2, <1>3, <1>4, <1>5, <1>6, <1>7, <1>8, <1>9

\* The notification worker keeps every type.
LEMMA NotificationTypes ==
    ASSUME IInv, Next, NotificationNext, UNCHANGED geofenceVars
    PROVE  TypeOK' /\ Shapes'
  <1>0. /\ commands \subseteq Command /\ sharing \in BOOLEAN /\ changes \in 0..MaxChanges
        /\ failures \in 0..MaxFailures /\ members \subseteq Recipients /\ hidden \subseteq Recipients
        /\ reachable \subseteq Devices /\ claims \subseteq Kinds \X Fixes \X Recipients
        /\ inbox \in [Devices -> Seq(Command)] /\ note \in [Notifiers -> Notes]
        /\ commandReceives \in 0..MaxCommandReceives
        /\ barred \in [Notifiers -> SUBSET {"NOT_ACTIVE", "NOT_SHARING", "HIDDEN"}]
    BY DEF IInv, TypeOK, NotificationTypeOK, Shapes
  <1>1. GeofenceTypeOK' /\ UNCHANGED <<applied, crossings>>
    BY DEF IInv, TypeOK, GeofenceTypeOK, geofenceVars
  <1> SUFFICES /\ commands' \subseteq Command /\ sharing' \in BOOLEAN /\ changes' \in 0..MaxChanges
               /\ failures' \in 0..MaxFailures /\ members' \subseteq Recipients
               /\ hidden' \subseteq Recipients /\ reachable' \subseteq Devices
               /\ claims' \subseteq Kinds \X Fixes \X Recipients
               /\ inbox' \in [Devices -> Seq(Command)] /\ note' \in [Notifiers -> Notes]
               /\ commandReceives' \in 0..MaxCommandReceives
               /\ barred' \in [Notifiers -> SUBSET {"NOT_ACTIVE", "NOT_SHARING", "HIDDEN"}]
    BY <1>1, ReadingStays DEF IInv, TypeOK, NotificationTypeOK, Shapes
  <1> USE <1>0
  <1>2. \A r : Bars(r) \in SUBSET {"NOT_ACTIVE", "NOT_SHARING", "HIDDEN"}
    BY DEF Bars
  <1>3. ASSUME NEW n \in Notifiers, ReceiveCommand(n), UNCHANGED <<commands, sharing, changes, failures>>
        PROVE  /\ note' \in [Notifiers -> Notes] /\ commandReceives' \in 0..MaxCommandReceives
               /\ UNCHANGED <<members, hidden, reachable, claims, inbox, barred>>
    <2>1. note' \in [Notifiers -> Notes]
      BY <1>3, NotifierTypes
    <2>2. commandReceives' \in 0..MaxCommandReceives
      BY <1>3, NotificationConstants DEF ReceiveCommand
    <2> QED  BY <1>3, <2>1, <2>2 DEF ReceiveCommand
  <1>4. ASSUME NEW n \in Notifiers, NEW r \in Recipients, TakeRecipient(n, r)
        PROVE  /\ note' \in [Notifiers -> Notes]
               /\ barred' \in [Notifiers -> SUBSET {"NOT_ACTIVE", "NOT_SHARING", "HIDDEN"}]
               /\ UNCHANGED <<members, hidden, reachable, claims, inbox, commandReceives>>
    BY <1>2, <1>4, NotifierTypes DEF TakeRecipient
  <1>5. ASSUME NEW n \in Notifiers, ReadRecipient(n) \/ ReadSubject(n) \/ Skip(n) \/ Finish(n)
        PROVE  /\ note' \in [Notifiers -> Notes]
               /\ UNCHANGED <<members, hidden, reachable, claims, inbox, commandReceives, barred>>
    BY <1>5, NotifierTypes DEF ReadRecipient, ReadSubject, Skip, Finish
  <1>6. ASSUME NEW n \in Notifiers, Claim(n)
        PROVE  /\ note' \in [Notifiers -> Notes] /\ claims' \subseteq Kinds \X Fixes \X Recipients
               /\ UNCHANGED <<members, hidden, reachable, inbox, commandReceives, barred>>
    <2>1. note[n].command \in Command /\ note[n].recipient \in Recipients
      BY <1>6 DEF Claim, IInv, NoteKnows, Working
    <2>2. Key(note[n].command, note[n].recipient) \in Kinds \X Fixes \X Recipients
      BY <2>1 DEF Key, Command
    <2> QED  BY <1>6, <2>2, NotifierTypes DEF Claim
  <1>7. ASSUME NEW n \in Notifiers, NEW d \in Devices, Send(n, d)
        PROVE  /\ note' \in [Notifiers -> Notes] /\ inbox' \in [Devices -> Seq(Command)]
               /\ UNCHANGED <<members, hidden, reachable, claims, commandReceives, barred>>
    <2>1. PICK c \in Command : c = note[n].command
      BY <1>7 DEF Send, IInv, NoteKnows
    <2>2. Append(inbox[d], c) \in Seq(Command)
      BY Appending
    <2>3. inbox' = inbox \/ inbox' = [inbox EXCEPT ![d] = Append(inbox[d], c)]
      BY <1>7, <2>1 DEF Send
    <2>4. inbox' \in [Devices -> Seq(Command)]
      BY <2>2, <2>3
    <2> QED  BY <1>7, <2>4, NotifierTypes DEF Send
  <1>8. ASSUME NEW n \in Notifiers, NEW d \in Devices, Retire(n, d)
        PROVE  /\ note' \in [Notifiers -> Notes] /\ reachable' \subseteq Devices
               /\ UNCHANGED <<members, hidden, claims, inbox, commandReceives, barred>>
    BY <1>8, NotifierTypes DEF Retire
  <1>9. ASSUME NEW n \in Notifiers, Acknowledge(n)
        PROVE  /\ commands' \subseteq Command /\ note' \in [Notifiers -> Notes]
               /\ barred' \in [Notifiers -> SUBSET {"NOT_ACTIVE", "NOT_SHARING", "HIDDEN"}]
               /\ UNCHANGED <<members, hidden, reachable, claims, inbox, commandReceives>>
    BY <1>9, NotifierTypes DEF Acknowledge
  <1>10. ASSUME NEW n \in Notifiers, NotifierFails(n)
         PROVE  /\ failures' \in 0..MaxFailures /\ note' \in [Notifiers -> Notes]
                /\ barred' \in [Notifiers -> SUBSET {"NOT_ACTIVE", "NOT_SHARING", "HIDDEN"}]
                /\ UNCHANGED <<members, hidden, reachable, claims, inbox, commandReceives>>
    <2>1. note' \in [Notifiers -> Notes]
      BY <1>10, NotifierTypes
    <2>2. failures' \in 0..MaxFailures
      BY <1>10, AlertBounds DEF NotifierFails
    <2> QED  BY <1>10, <2>1, <2>2 DEF NotifierFails
  <1>11. ASSUME ConsentChanges
         PROVE  /\ changes' \in 0..MaxChanges /\ sharing' \in BOOLEAN
                /\ members' \subseteq Recipients /\ hidden' \subseteq Recipients
                /\ barred' \in [Notifiers -> SUBSET {"NOT_ACTIVE", "NOT_SHARING", "HIDDEN"}]
                /\ UNCHANGED <<reachable, claims, inbox, note, commandReceives>>
    <2>1. \A n \in Notifiers : \A S : barred[n] \cap S \in SUBSET {"NOT_ACTIVE", "NOT_SHARING", "HIDDEN"}
      OBVIOUS
    <2>2. barred' = [n \in Notifiers |->
            IF note[n].recipient = None THEN {} ELSE barred[n] \cap Bars(note[n].recipient)']
      BY <1>11 DEF ConsentChanges
    <2>3. barred' \in [Notifiers -> SUBSET {"NOT_ACTIVE", "NOT_SHARING", "HIDDEN"}]
      BY <2>1, <2>2
    <2>4. changes' \in 0..MaxChanges
      BY <1>11, AlertBounds DEF ConsentChanges
    <2>5. sharing' \in BOOLEAN /\ members' \subseteq Recipients /\ hidden' \subseteq Recipients
      BY <1>11 DEF ConsentChanges
    <2> QED  BY <1>11, <2>3, <2>4, <2>5 DEF ConsentChanges
  <1>12. CASE UNCHANGED <<commands, sharing, changes, failures>> /\ \E n \in Notifiers :
                 \/ ReceiveCommand(n) \/ ReadRecipient(n) \/ ReadSubject(n) \/ Skip(n)
                 \/ Claim(n) \/ Finish(n)
                 \/ \E r \in Recipients : TakeRecipient(n, r)
                 \/ \E d \in Devices : Send(n, d) \/ Retire(n, d)
    <2>1. PICK n \in Notifiers :
                 \/ ReceiveCommand(n) \/ ReadRecipient(n) \/ ReadSubject(n) \/ Skip(n)
                 \/ Claim(n) \/ Finish(n)
                 \/ \E r \in Recipients : TakeRecipient(n, r)
                 \/ \E d \in Devices : Send(n, d) \/ Retire(n, d)
      BY <1>12
    <2>2. UNCHANGED <<commands, sharing, changes, failures>>
      BY <1>12
    <2>3. CASE ReceiveCommand(n)
      BY <1>3, <2>2, <2>3
    <2>4. CASE ReadRecipient(n) \/ ReadSubject(n) \/ Skip(n) \/ Finish(n)
      BY <1>5, <2>2, <2>4
    <2>5. CASE Claim(n)
      BY <1>6, <2>2, <2>5
    <2>6. CASE \E r \in Recipients : TakeRecipient(n, r)
      BY <1>4, <2>2, <2>6
    <2>7. CASE \E d \in Devices : Send(n, d)
      BY <1>7, <2>2, <2>7
    <2>8. CASE \E d \in Devices : Retire(n, d)
      BY <1>8, <2>2, <2>8
    <2> QED  BY <2>1, <2>3, <2>4, <2>5, <2>6, <2>7, <2>8
  <1>13. CASE UNCHANGED <<commands, sharing, changes>> /\ \E n \in Notifiers : NotifierFails(n)
    BY <1>10, <1>13
  <1>14. CASE UNCHANGED <<sharing, changes, failures>> /\ \E n \in Notifiers : Acknowledge(n)
    BY <1>9, <1>14
  <1>15. CASE UNCHANGED <<commands, failures>> /\ ConsentChanges
    BY <1>11, <1>15
  <1> QED  BY <1>12, <1>13, <1>14, <1>15 DEF NotificationNext

\* Every step keeps every type.
LEMMA TypeStep == ASSUME IInv, Next PROVE TypeOK' /\ Shapes'
  BY GeofenceTypes, NotificationTypes DEF Next

-----------------------------------------------------------------------------
(* The rows                                                                 *)

\* The row of place p takes fix f.
Took(f, p) ==
    /\ reading[f] # None /\ reading[f][p].accurate /\ ~Stale(f, state[p])
    /\ state' = [state EXCEPT ![p] = NextRow(f, p, state[p])]
    /\ applied' = [applied EXCEPT ![p] = Append(applied[p], f)]
    /\ crossings' = IF Confirms(f, p, state[p])
                    THEN [crossings EXCEPT ![p] = Append(crossings[p],
                            [kind |-> KindOf(reading[f][p].side), place |-> p, fix |-> f])]
                    ELSE crossings
    /\ UNCHANGED reading

\* The write that wins the compare-and-set saw the row it replaces: the decision that
\* was taken on the row read is the one the row there deserves.
LEMMA PutMeans ==
    ASSUME IInv, NEW w \in GeofenceWorkers, PutRow(w)
    PROVE  UNCHANGED <<state, applied, crossings>> \/ Took(geo[w].fix, geo[w].place)
  <1>1. PICK f \in Fixes, p \in Places : f = geo[w].fix /\ p = geo[w].place
    BY DEF PutRow, IInv, GeoKnows
  <1>2. /\ reading[f] # None /\ reading[f][p].accurate /\ ~Stale(f, geo[w].row)
        /\ geo[w].row.version = state[p].version => geo[w].row = state[p]
    BY <1>1 DEF PutRow, IInv, GeoKnows
  <1>3. CASE Wins(p, geo[w].row)
    <2>1. geo[w].row = state[p]
      BY <1>2, <1>3 DEF Wins
    <2> QED  BY <1>1, <1>2, <1>3, <2>1 DEF PutRow, Took
  <1>4. CASE ~Wins(p, geo[w].row)
    BY <1>1, <1>4 DEF PutRow
  <1> QED  BY <1>3, <1>4

\* Nothing else moves a row.
LEMMA RowsMove ==
    ASSUME IInv, Next
    PROVE  \/ UNCHANGED <<state, applied, crossings>>
           \/ \E f \in Fixes, p \in Places : Took(f, p)
  <1>1. CASE \E w \in GeofenceWorkers : PutRow(w)
    <2>1. PICK w \in GeofenceWorkers : PutRow(w)
      BY <1>1
    <2>2. geo[w].fix \in Fixes /\ geo[w].place \in Places
      BY <2>1 DEF PutRow, IInv, GeoKnows
    <2> QED  BY <2>1, <2>2, PutMeans
  <1>2. CASE ~\E w \in GeofenceWorkers : PutRow(w)
    BY <1>2 DEF Next, GeofenceNext, Republish, ReceiveFix, ReadRow, PublishAndReturn, FixFails,
                geofenceVars
  <1> QED  BY <1>1, <1>2

\* What a row took and what it confirmed stays, at the same place.
LEMMA HistoriesGrow ==
    ASSUME IInv, Next, NEW p \in Places
    PROVE  /\ \A i \in DOMAIN applied[p] :
                /\ i \in DOMAIN applied'[p] /\ applied'[p][i] = applied[p][i]
                /\ applied[p][i] \in Fixes /\ reading'[applied[p][i]] = reading[applied[p][i]]
           /\ \A n \in DOMAIN crossings[p] :
                n \in DOMAIN crossings'[p] /\ crossings'[p][n] = crossings[p][n]
  <1>1. applied[p] \in Seq(Fixes) /\ crossings[p] \in Seq(Command)
    BY DEF IInv, Shapes
  <1>2. \A i \in DOMAIN applied[p] :
          applied[p][i] \in Fixes /\ reading'[applied[p][i]] = reading[applied[p][i]]
    BY <1>1, ReadingStays DEF IInv, TookIsRead
  <1>3. CASE UNCHANGED <<state, applied, crossings>>
    BY <1>2, <1>3
  <1>4. ASSUME NEW f \in Fixes, NEW q \in Places, Took(f, q)
        PROVE  /\ \A i \in DOMAIN applied[p] :
                    i \in DOMAIN applied'[p] /\ applied'[p][i] = applied[p][i]
               /\ \A n \in DOMAIN crossings[p] :
                    n \in DOMAIN crossings'[p] /\ crossings'[p][n] = crossings[p][n]
    <2>1. PICK c \in Command : c = [kind |-> KindOf(reading[f][q].side), place |-> q, fix |-> f]
      <3>1. KindOf(reading[f][q].side) \in Kinds
        BY DEF KindOf, Kinds
      <3> QED  BY <3>1 DEF Command
    <2>2. applied'[p] = applied[p] \/ applied'[p] = Append(applied[p], f)
      BY <1>4 DEF Took, IInv, Shapes
    <2>3. crossings'[p] = crossings[p] \/ crossings'[p] = Append(crossings[p], c)
      BY <1>4, <2>1 DEF Took, IInv, Shapes
    <2>4. \A i \in DOMAIN applied[p] :
            i \in DOMAIN Append(applied[p], f) /\ Append(applied[p], f)[i] = applied[p][i]
      BY <1>1, Appending
    <2>5. \A n \in DOMAIN crossings[p] :
            n \in DOMAIN Append(crossings[p], c) /\ Append(crossings[p], c)[n] = crossings[p][n]
      BY <1>1, Appending
    <2> QED  BY <2>2, <2>3, <2>4, <2>5
  <1> QED  BY <1>2, <1>3, <1>4, RowsMove

\* A transition that happened has happened.
LEMMA CrossedStays ==
    ASSUME IInv, Next, NEW c \in Command, Crossed(c) PROVE Crossed(c)'
  <1>1. PICK n \in DOMAIN crossings[c.place] : crossings[c.place][n] = c
    BY DEF Crossed
  <1>2. c.place \in Places
    BY DEF Command
  <1> QED  BY <1>1, <1>2, HistoriesGrow DEF Crossed

\* The transitions of one place are real.
RealAt(p) ==
    \A n \in DOMAIN crossings[p] :
        LET c == crossings[p][n]
            took == applied[p] IN
        \E i, j \in DOMAIN took :
            /\ i < j /\ took[j] = c.fix
            /\ Sees(took[i], p, c.kind) /\ Sees(took[j], p, c.kind)
            /\ Captured[took[j]] - Captured[took[i]] >= DwellOf(c.kind)
            /\ \A k \in i..j : reading[took[k]][p].accurate /\ ~SeesOtherwise(took[k], p, c.kind)

\* The transition at n was real and still is.
LEMMA RealStays ==
    ASSUME IInv, Next, NEW p \in Places, NEW n \in DOMAIN crossings[p],
           NEW c, c = crossings[p][n]
    PROVE  \E i, j \in DOMAIN applied'[p] :
            /\ i < j /\ applied'[p][j] = c.fix
            /\ Sees(applied[p][i], p, c.kind)' /\ Sees(applied[p][j], p, c.kind)'
            /\ Captured[applied'[p][j]] - Captured[applied'[p][i]] >= DwellOf(c.kind)
            /\ \A k \in i..j : reading'[applied'[p][k]][p].accurate /\ ~SeesOtherwise(applied[p][k], p, c.kind)'
  <1>2. PICK i \in DOMAIN applied[p], j \in DOMAIN applied[p] :
            /\ i < j /\ applied[p][j] = c.fix
            /\ Sees(applied[p][i], p, c.kind) /\ Sees(applied[p][j], p, c.kind)
            /\ Captured[applied[p][j]] - Captured[applied[p][i]] >= DwellOf(c.kind)
            /\ \A k \in i..j : reading[applied[p][k]][p].accurate /\ ~SeesOtherwise(applied[p][k], p, c.kind)
    BY DEF IInv, CrossingsAreReal
  <1>3. \A k \in i..j : k \in DOMAIN applied[p]
    BY DEF IInv, Shapes
  <1>4. \A k \in DOMAIN applied[p] :
            /\ k \in DOMAIN applied'[p] /\ applied'[p][k] = applied[p][k]
            /\ reading'[applied[p][k]] = reading[applied[p][k]]
    BY HistoriesGrow
  <1>5. \A k \in DOMAIN applied[p] :
            /\ Sees(applied[p][k], p, c.kind)' <=> Sees(applied[p][k], p, c.kind)
            /\ SeesOtherwise(applied[p][k], p, c.kind)' <=> SeesOtherwise(applied[p][k], p, c.kind)
    BY <1>4 DEF Sees, SeesOtherwise
  <1> QED  BY <1>2, <1>3, <1>4, <1>5

\* A row no fix moved is as it was, however much else was read.
LEMMA RowStays ==
    ASSUME IInv, Next, NEW p \in Places, state'[p] = state[p], applied'[p] = applied[p],
           crossings'[p] = crossings[p]
    PROVE  TookIsRead(p)' /\ RowFits(p)' /\ RowFollows(p)' /\ RealAt(p)'
  <1>1. TookIsRead(p) /\ RowFits(p) /\ RowFollows(p)
    BY DEF IInv
  <1>2. \A k \in DOMAIN applied[p] : reading'[applied[p][k]] = reading[applied[p][k]]
    BY HistoriesGrow
  <1>3. TookIsRead(p)'
    BY <1>1, <1>2 DEF TookIsRead
  <1>4. RowFollows(p)'
    BY <1>1 DEF RowFollows
  <1>5. ASSUME NEW side, NEW since, Shown(p, side, since) PROVE Shown(p, side, since)'
    BY <1>2, <1>5 DEF Shown, Sees, SeesOtherwise
  <1>6. RowFits(p)'
    <2>1. CASE state[p] = NoRow
      BY <1>1, <2>1 DEF RowFits
    <2>2. CASE state[p] # NoRow /\ state[p].pending # "NONE"
      <3>1. PICK side, since : side = state[p].pending /\ since = state[p].since
        OBVIOUS
      <3>2. Shown(p, side, since)'
        BY <1>1, <1>5, <2>2, <3>1 DEF RowFits
      <3> QED  BY <2>2, <3>1, <3>2 DEF RowFits
    <2>3. CASE state[p] # NoRow /\ state[p].pending = "NONE"
      BY <2>3 DEF RowFits
    <2> QED  BY <2>1, <2>2, <2>3
  <1>7. RealAt(p)'
    <2> SUFFICES ASSUME NEW n \in DOMAIN crossings'[p]
                 PROVE  LET c == crossings'[p][n] IN
                        \E i, j \in DOMAIN applied'[p] :
                          /\ i < j /\ applied'[p][j] = c.fix
                          /\ Sees(applied[p][i], p, crossings[p][n].kind)'
                          /\ Sees(applied[p][j], p, crossings[p][n].kind)'
                          /\ Captured[applied'[p][j]] - Captured[applied'[p][i]] >= DwellOf(c.kind)
                          /\ \A k \in i..j : /\ reading'[applied'[p][k]][p].accurate
                                             /\ ~SeesOtherwise(applied[p][k], p, crossings[p][n].kind)'
      BY DEF RealAt
    <2>1. PICK c : c = crossings[p][n] /\ c = crossings'[p][n]
      OBVIOUS
    <2> QED  BY <2>1, RealStays
  <1> QED  BY <1>3, <1>4, <1>6, <1>7

\* The row that took a fix: the histories afterwards.
LEMMA AfterTook ==
    ASSUME IInv, NEW f \in Fixes, NEW p \in Places, Took(f, p)
    PROVE  /\ applied'[p] = Append(applied[p], f) /\ state'[p] = NextRow(f, p, state[p])
           /\ Confirms(f, p, state[p]) =>
                /\ [kind |-> KindOf(reading[f][p].side), place |-> p, fix |-> f] \in Command
                /\ crossings'[p] = Append(crossings[p],
                       [kind |-> KindOf(reading[f][p].side), place |-> p, fix |-> f])
           /\ ~Confirms(f, p, state[p]) => crossings'[p] = crossings[p]
           /\ \A q \in Places \ {p} :
                state'[q] = state[q] /\ applied'[q] = applied[q] /\ crossings'[q] = crossings[q]
           /\ applied[p] \in Seq(Fixes) /\ crossings[p] \in Seq(Command)
           /\ state[p] \in Rows /\ f \in Fixes /\ reading[f] # None
  <1>1. /\ state \in [Places -> Rows] /\ applied \in [Places -> Seq(Fixes)]
        /\ crossings \in [Places -> Seq(Command)]
    BY DEF IInv, TypeOK, GeofenceTypeOK, Shapes
  <1>2. [kind |-> KindOf(reading[f][p].side), place |-> p, fix |-> f] \in Command
    BY DEF Command, KindOf, Kinds
  <1>3. PICK c \in Command : c = [kind |-> KindOf(reading[f][p].side), place |-> p, fix |-> f]
    BY <1>2
  <1>4. crossings' = IF Confirms(f, p, state[p])
                     THEN [crossings EXCEPT ![p] = Append(crossings[p], c)] ELSE crossings
    BY <1>3 DEF Took
  <1>5. /\ Confirms(f, p, state[p]) => crossings'[p] = Append(crossings[p], c)
        /\ ~Confirms(f, p, state[p]) => crossings'[p] = crossings[p]
        /\ \A q \in Places \ {p} : crossings'[q] = crossings[q]
    BY <1>1, <1>4
  <1>6. /\ applied'[p] = Append(applied[p], f) /\ state'[p] = NextRow(f, p, state[p])
        /\ \A q \in Places \ {p} : state'[q] = state[q] /\ applied'[q] = applied[q]
    BY <1>1 DEF Took
  <1> QED  BY <1>1, <1>2, <1>3, <1>5, <1>6 DEF Took

\* What a row takes is read and accurate.
LEMMA TookReads ==
    ASSUME IInv, Next, NEW f \in Fixes, NEW p \in Places, Took(f, p)
    PROVE  TookIsRead(p)' /\ UNCHANGED reading
  <1>1. reading[f] # None /\ reading[f][p].accurate /\ UNCHANGED reading
    BY DEF Took
  <1>2. TookIsRead(p)
    BY DEF IInv
  <1>3. \A i \in DOMAIN applied'[p] :
            (i \in DOMAIN applied[p] /\ applied'[p][i] = applied[p][i]) \/ applied'[p][i] = f
    <2>1. applied[p] \in Seq(Fixes) /\ applied'[p] = Append(applied[p], f)
      BY AfterTook
    <2> QED  BY <2>1, Appending
  <1> QED  BY <1>1, <1>2, <1>3 DEF TookIsRead

\* The candidate of the row goes on being shown, or the fix begins a new one.
LEMMA TookFits ==
    ASSUME IInv, Next, NEW f \in Fixes, NEW p \in Places, Took(f, p)
    PROVE  RowFits(p)'
  <1>0. TypeOK /\ reading[f] # None
    BY DEF IInv, Took
  <1>1. PICK r \in Rows : r = state[p]
    BY AfterTook
  <1>2. PICK m \in Row : m = NextRow(f, p, r) /\ m = state'[p]
    <2>1. NextRow(f, p, r) \in Row
      BY <1>0, NextRowMeans
    <2> QED  BY <1>1, <2>1, AfterTook
  <1>3. m # NoRow
    BY RowCases
  <1>4. CASE m.pending = "NONE"
    BY <1>2, <1>3, <1>4 DEF RowFits
  <1>5. CASE m.pending # "NONE"
    <2>1. r # NoRow /\ r \in Row /\ m.pending = Candidate(f, p, r).side /\ m.since = Candidate(f, p, r).since
      <3>1. r = NoRow => NextRow(f, p, r).pending = "NONE"
        BY <1>0, NextRowMeans
      <3>2. r # NoRow => /\ NextRow(f, p, r).pending = Candidate(f, p, r).side
                         /\ NextRow(f, p, r).since = Candidate(f, p, r).since
        BY <1>0, NextRowMeans
      <3> QED  BY <1>2, <1>5, <3>1, <3>2, RowCases
    <2>2. m.pending \in Sides /\ m.since \in Nat
      BY <1>5 , <1>2 DEF Row
    <2>3. UNCHANGED reading
      BY TookReads
    <2> DEFINE N == Len(applied[p])
    <2>4. /\ N \in Nat /\ DOMAIN applied[p] = 1..N /\ DOMAIN applied'[p] = 1..(N + 1)
          /\ \A i \in 1..N : applied'[p][i] = applied[p][i]
          /\ applied'[p][N + 1] = f
      <3>1. applied[p] \in Seq(Fixes) /\ applied'[p] = Append(applied[p], f)
        BY AfterTook
      <3> QED  BY <3>1, Appending
    <2> HIDE DEF N
    <2>5. CASE m.pending = r.pending /\ m.since = r.since /\ ~SeesOtherwise(f, p, KindOf(m.pending))
      <3>1. Shown(p, m.pending, m.since)
        BY <1>1, <1>5, <2>1, <2>5 DEF IInv, RowFits
      <3>2. PICK i \in 1..N :
              /\ Captured[applied[p][i]] = m.since /\ Sees(applied[p][i], p, KindOf(m.pending))
              /\ \A k \in 1..N : k >= i => ~SeesOtherwise(applied[p][k], p, KindOf(m.pending))
        BY <2>4, <3>1 DEF Shown
      <3>3. i \in DOMAIN applied'[p] /\ applied'[p][i] = applied[p][i]
        BY <2>4
      <3>4. \A k \in DOMAIN applied'[p] : k >= i =>
              ~SeesOtherwise(applied'[p][k], p, KindOf(m.pending))
        BY <2>4, <2>5, <3>2
      <3>5. Shown(p, m.pending, m.since)'
        BY <2>3, <3>2, <3>3, <3>4 DEF Shown, Sees, SeesOtherwise
      <3> QED  BY <1>2, <1>3, <3>5 DEF RowFits
    <2>6. CASE m.since = Captured[f] /\ Sees(f, p, KindOf(m.pending))
      <3>1. N + 1 \in DOMAIN applied'[p] /\ applied'[p][N + 1] = f
        BY <2>4
      <3>2. \A k \in DOMAIN applied'[p] : k >= N + 1 => applied'[p][k] = f
        BY <2>4
      <3>3. ~SeesOtherwise(f, p, KindOf(m.pending))
        BY <2>6 DEF Sees, SeesOtherwise
      <3>4. Shown(p, m.pending, m.since)'
        BY <2>3, <2>6, <3>1, <3>2, <3>3 DEF Shown, Sees, SeesOtherwise
      <3> QED  BY <1>2, <1>3, <3>4 DEF RowFits
    <2>7. \/ m.pending = r.pending /\ m.since = r.since /\ ~SeesOtherwise(f, p, KindOf(m.pending))
          \/ m.since = Captured[f] /\ Sees(f, p, KindOf(m.pending))
      <3>1. \/ reading[f][p].side = "AMBIGUOUS" /\ m.pending = r.pending /\ m.since = r.since
            \/ /\ reading[f][p].side = m.pending
               /\ (r.pending = m.pending /\ m.since = r.since) \/ m.since = Captured[f]
        BY <1>0, <1>5, <2>1, CandidateMeans
      <3>2. m.pending # "AMBIGUOUS"
        BY <2>2 DEF Sides
      <3> QED  BY <3>1, <3>2 DEF Sees, SeesOtherwise
    <2> QED  BY <2>5, <2>6, <2>7
  <1> QED  BY <1>4, <1>5

\* The transition a fix confirms is to the side the row is then on, and the row's
\* clock goes forward.
LEMMA TookFollows ==
    ASSUME IInv, Next, NEW f \in Fixes, NEW p \in Places, Took(f, p)
    PROVE  RowFollows(p)'
  <1>0. TypeOK /\ RowFollows(p) /\ RowFits(p) /\ reading[f] # None
    BY DEF IInv, Took
  <1>1. PICK r \in Rows : r = state[p]
    BY AfterTook
  <1>2. PICK m \in Row : m = NextRow(f, p, r) /\ m = state'[p] /\ m.last = f
    <2>1. NextRow(f, p, r) \in Row /\ NextRow(f, p, r).last = f
      BY <1>0, NextRowMeans
    <2> QED  BY <1>1, <2>1, AfterTook
  <1>3. CASE Confirms(f, p, r)
    <2>1. PICK c \in Command : c = [kind |-> KindOf(reading[f][p].side), place |-> p, fix |-> f]
                               /\ crossings'[p] = Append(crossings[p], c)
      BY <1>1, <1>3, AfterTook
    <2>2. c.kind = KindOf(reading[f][p].side) /\ c.fix = f
      BY <2>1
    <2>3. crossings'[p][Len(crossings'[p])] = c
      BY <2>1, AfterTook, Appending
    <2>4. r # NoRow /\ r \in Row
      BY <1>3, RowCases DEF Confirms
    <2>5. m.side = reading[f][p].side /\ m.pending = "NONE"
      <3>1. /\ NextRow(f, p, r).side = reading[f][p].side
            /\ NextRow(f, p, r).pending = Candidate(f, p, r).side
        BY <1>0, <1>3, <2>4, NextRowMeans
      <3>2. Candidate(f, p, r).side = "NONE"
        BY <1>0, <1>3, <2>4, CandidateMeans
      <3> QED  BY <1>2, <3>1, <3>2
    <2>6. Captured[f] \in Nat
      BY GeofenceConstants
    <2> QED  BY <1>2, <2>2, <2>3, <2>5, <2>6 DEF RowFollows
  <1>4. CASE ~Confirms(f, p, r)
    <2> SUFFICES ASSUME crossings[p] # <<>> PROVE RowFollows(p)'
      BY <1>1, <1>4, AfterTook DEF RowFollows
    <2>1. PICK c : c = crossings[p][Len(crossings[p])]
      OBVIOUS
    <2>2. c \in Command /\ c.fix \in Fixes
      <3>1. crossings[p] \in Seq(Command)
        BY AfterTook
      <3>2. c \in Command
        BY <2>1, <3>1
      <3> QED  BY <3>2 DEF Command
    <2>3. r # NoRow /\ r \in Row
      BY <1>0, <1>1, RowCases DEF RowFits
    <2>4. /\ c.kind = KindOf(r.side) /\ Captured[c.fix] <= Captured[r.last]
          /\ r.pending # "NONE" => Captured[c.fix] <= r.since
      BY <1>0, <1>1, <2>1 DEF RowFollows
    <2>5. /\ Captured[f] \in Nat /\ Captured[r.last] \in Nat /\ Captured[c.fix] \in Nat /\ r.since \in Nat
      BY <2>2, <2>3, GeofenceConstants DEF Row
    <2>6. Captured[r.last] <= Captured[f]
      BY <1>1, <2>3, <2>5 DEF Took, Stale
    <2>7. m.side = r.side /\ m.pending = Candidate(f, p, r).side /\ m.since = Candidate(f, p, r).since
      <3>1. /\ NextRow(f, p, r).side = r.side
            /\ NextRow(f, p, r).pending = Candidate(f, p, r).side
            /\ NextRow(f, p, r).since = Candidate(f, p, r).since
        BY <1>0, <1>4, <2>3, NextRowMeans
      <3> QED  BY <1>2, <3>1
    <2>8. m.pending # "NONE" => \/ m.since = Captured[f]
                                \/ r.pending # "NONE" /\ m.since = r.since
      BY <1>0, <2>3, <2>7, CandidateMeans
    <2>9. Captured[c.fix] <= Captured[f]
      BY <2>4, <2>5, <2>6
    <2>10. m.pending # "NONE" => Captured[c.fix] <= m.since
      BY <2>4, <2>8, <2>9
    <2>11. crossings'[p][Len(crossings'[p])] = c
      BY <1>1, <1>4, <2>1, AfterTook
    <2> QED  BY <1>2, <2>4, <2>7, <2>9, <2>10, <2>11 DEF RowFollows
  <1> QED  BY <1>3, <1>4

\* What the fix confirms was dwelt through.
LEMMA TookIsReal ==
    ASSUME IInv, Next, NEW f \in Fixes, NEW p \in Places, Took(f, p)
    PROVE  RealAt(p)'
  <1>0. TypeOK /\ TookIsRead(p) /\ RowFits(p) /\ reading[f] # None
    BY DEF IInv, Took
  <1> SUFFICES ASSUME NEW n \in DOMAIN crossings'[p]
               PROVE  LET c == crossings'[p][n] IN
                      \E i, j \in DOMAIN applied'[p] :
                        /\ i < j /\ applied'[p][j] = c.fix
                        /\ Sees(applied[p][i], p, crossings[p][n].kind)'
                        /\ Sees(applied[p][j], p, crossings[p][n].kind)'
                        /\ Captured[applied'[p][j]] - Captured[applied'[p][i]] >= DwellOf(c.kind)
                        /\ \A k \in i..j : /\ reading'[applied'[p][k]][p].accurate
                                           /\ ~SeesOtherwise(applied[p][k], p, crossings[p][n].kind)'
    BY DEF RealAt
  <1>1. CASE n \in DOMAIN crossings[p]
    <2>1. PICK c : c = crossings[p][n] /\ c = crossings'[p][n]
      BY <1>1, HistoriesGrow
    <2> QED  BY <1>1, <2>1, RealStays
  <1>2. CASE n \notin DOMAIN crossings[p]
    <2>1. PICK r \in Rows : r = state[p]
      BY AfterTook
    <2>2. Confirms(f, p, r)
      BY <1>2, <2>1, AfterTook
    <2>3. PICK c \in Command : c = [kind |-> KindOf(reading[f][p].side), place |-> p, fix |-> f]
                               /\ crossings'[p] = Append(crossings[p], c)
      BY <2>1, <2>2, AfterTook
    <2>4. crossings'[p][n] = c
      BY <1>2, <2>3, AfterTook, Appending
    <2>5. c.kind = KindOf(reading[f][p].side) /\ c.fix = f
      BY <2>3
    <2> DEFINE N == Len(applied[p])
    <2>6. /\ N \in Nat /\ DOMAIN applied[p] = 1..N /\ DOMAIN applied'[p] = 1..(N + 1)
          /\ \A i \in 1..N : applied'[p][i] = applied[p][i]
          /\ applied'[p][N + 1] = f
      <3>1. applied[p] \in Seq(Fixes) /\ applied'[p] = Append(applied[p], f)
        BY AfterTook
      <3> QED  BY <3>1, Appending
    <2> HIDE DEF N
    <2>7. /\ r \in Row /\ r.pending = reading[f][p].side /\ r.pending \in Sides
          /\ Captured[f] - r.since >= Dwell(r.pending) /\ Captured[f] > r.since
      BY <1>0, <2>2, ConfirmsMeans
    <2>8. r # NoRow /\ r.pending # "NONE" /\ r.pending # "AMBIGUOUS"
      BY <2>7, RowCases DEF Sides
    <2>9. Shown(p, r.pending, r.since)
      BY <1>0, <2>1, <2>8 DEF RowFits
    <2>10. PICK i \in 1..N :
             /\ Captured[applied[p][i]] = r.since /\ Sees(applied[p][i], p, c.kind)
             /\ \A k \in 1..N : k >= i => ~SeesOtherwise(applied[p][k], p, c.kind)
      BY <2>5, <2>6, <2>7, <2>9 DEF Shown
    <2>11. DwellOf(c.kind) = Dwell(r.pending)
      BY <2>5, <2>7 DEF DwellOf, Dwell, KindOf
    <2>12. Sees(f, p, c.kind) /\ ~SeesOtherwise(f, p, c.kind)
      BY <2>5, <2>7, <2>8 DEF Sees, SeesOtherwise
    <2>13. UNCHANGED reading /\ reading[f][p].accurate
      BY DEF Took
    <2>14. i \in 1..(N + 1) /\ N + 1 \in 1..(N + 1) /\ i < N + 1 /\ applied'[p][i] = applied[p][i]
      BY <2>6
    <2>15. \A k \in i..(N + 1) :
             /\ reading[applied'[p][k]][p].accurate
             /\ ~SeesOtherwise(applied'[p][k], p, c.kind)
      <3> SUFFICES ASSUME NEW k \in i..(N + 1)
                   PROVE  /\ reading[applied'[p][k]][p].accurate
                          /\ ~SeesOtherwise(applied'[p][k], p, c.kind)
        OBVIOUS
      <3>1. CASE k = N + 1
        BY <2>6, <2>12, <2>13, <3>1
      <3>2. CASE k # N + 1
        <4>1. k \in 1..N /\ k >= i
          BY <2>6, <3>2
        <4> QED  BY <1>0, <2>6, <2>10, <4>1 DEF TookIsRead
      <3> QED  BY <3>1, <3>2
    <2>16. /\ Sees(applied[p][i], p, crossings[p][n].kind)'
           /\ applied'[p][N + 1] = f
           /\ KindOf(reading'[f][p].side) = crossings'[p][n].kind /\ reading'[f][p].side # "AMBIGUOUS"
      BY <2>4, <2>6, <2>10, <2>12, <2>13, <2>14 DEF Sees
    <2>17. \A k \in i..(N + 1) : /\ reading'[applied'[p][k]][p].accurate
                                 /\ ~SeesOtherwise(applied[p][k], p, crossings[p][n].kind)'
      BY <2>4, <2>13, <2>15 DEF SeesOtherwise
    <2>18. PICK j \in DOMAIN applied'[p] : j = N + 1
      BY <2>6, <2>14
    <2>19. Sees(applied[p][j], p, crossings[p][n].kind)'
      BY <2>16, <2>18 DEF Sees
    <2>20. Captured[applied'[p][j]] - Captured[applied'[p][i]] >= DwellOf(crossings'[p][n].kind)
      BY <2>4, <2>6, <2>7, <2>10, <2>11, <2>14, <2>18
    <2> QED  BY <2>4, <2>5, <2>6, <2>14, <2>16, <2>17, <2>18, <2>19, <2>20
  <1> QED  BY <1>1, <1>2

\* Every step keeps every row true to its fixes.
LEMMA RowStep ==
    ASSUME IInv, Next
    PROVE  /\ \A p \in Places : TookIsRead(p)' /\ RowFits(p)' /\ RowFollows(p)'
           /\ CrossingsAreReal'
  <1> SUFFICES \A p \in Places : TookIsRead(p)' /\ RowFits(p)' /\ RowFollows(p)' /\ RealAt(p)'
    BY DEF CrossingsAreReal, RealAt
  <1> SUFFICES ASSUME NEW p \in Places
               PROVE  TookIsRead(p)' /\ RowFits(p)' /\ RowFollows(p)' /\ RealAt(p)'
    OBVIOUS
  <1>1. CASE UNCHANGED <<state, applied, crossings>>
    BY <1>1, RowStays
  <1>2. ASSUME NEW f \in Fixes, NEW q \in Places, Took(f, q)
        PROVE  TookIsRead(p)' /\ RowFits(p)' /\ RowFollows(p)' /\ RealAt(p)'
    <2>1. CASE p = q
      BY <1>2, <2>1, TookReads, TookFits, TookFollows, TookIsReal
    <2>2. CASE p # q
      <3>1. state'[p] = state[p] /\ applied'[p] = applied[p] /\ crossings'[p] = crossings[p]
        BY <1>2, <2>2, AfterTook
      <3> QED  BY <3>1, RowStays
    <2> QED  BY <2>1, <2>2
  <1> QED  BY <1>1, <1>2, RowsMove

-----------------------------------------------------------------------------
(* The invocations of the geofence worker                                   *)

\* A row is replaced by one of the next version.
LEMMA VersionsGrow ==
    ASSUME IInv, Next, NEW p \in Places
    PROVE  /\ state[p] \in Rows /\ state[p].version \in Nat
           /\ state'[p] = state[p] \/ state'[p].version = state[p].version + 1
  <1>1. TypeOK /\ state[p] \in Rows
    BY DEF IInv, TypeOK, GeofenceTypeOK
  <1>2. state[p].version \in Nat
    BY <1>1, RowCases
  <1>3. ASSUME NEW f \in Fixes, NEW q \in Places, Took(f, q)
        PROVE  state'[p] = state[p] \/ state'[p].version = state[p].version + 1
    <2>1. CASE p = q
      <3>1. reading[f] # None
        BY <1>3 DEF Took
      <3>2. NextRow(f, p, state[p]).version = state[p].version + 1
        BY <1>1, <3>1, NextRowMeans
      <3> QED  BY <1>3, <2>1, <3>2, AfterTook
    <2>2. CASE p # q
      <3>1. p \in Places \ {q}
        BY <2>2
      <3> QED  BY <1>3, <3>1, AfterTook
    <2> QED  BY <2>1, <2>2
  <1> QED  BY <1>1, <1>2, <1>3, RowsMove

\* An invocation at rest in its step knows what it knew: a row that was replaced has
\* a version the one it read cannot match.
LEMMA GeoStays ==
    ASSUME IInv, Next, NEW w \in GeofenceWorkers, geo'[w] = geo[w]
    PROVE  GeoKnows(w)'
  <1>1. GeoKnows(w) /\ geo[w] \in Geos
    BY DEF IInv, TypeOK, GeofenceTypeOK
  <1>2. PICK f, p, r : f = geo[w].fix /\ p = geo[w].place /\ r = geo[w].row
    OBVIOUS
  <1>3. geo[w].at # "IDLE" => f \in Fixes /\ reading[f] # None /\ reading'[f] = reading[f]
    BY <1>1, <1>2, ReadingStays DEF GeoKnows
  <1>4. geo[w].at = "PUT" =>
            /\ p \in Places /\ reading[f][p].accurate /\ ~Stale(f, r)
            /\ r.version <= state[p].version
            /\ r.version = state[p].version => r = state[p]
    BY <1>1, <1>2 DEF GeoKnows
  <1>5. geo[w].at = "PUT" =>
            /\ r.version <= state'[p].version
            /\ r.version = state'[p].version => r = state'[p]
    <2>1. r \in Rows
      BY <1>1, <1>2, GeoTypes
    <2>2. r.version \in Nat
      BY <2>1, RowCases
    <2> QED  BY <1>4, <2>2, VersionsGrow
  <1>6. \A c \in geo[w].commands : Crossed(c)'
    <2>1. \A c \in geo[w].commands : c \in Command /\ Crossed(c)
      BY <1>1, GeoTypes DEF GeoKnows
    <2> QED  BY <2>1, CrossedStays
  <1> QED  BY <1>2, <1>3, <1>4, <1>5, <1>6 DEF GeoKnows

\* An invocation with nothing in hand knows nothing.
LEMMA GeoIdle ==
    ASSUME NEW w \in GeofenceWorkers, geo'[w] = IdleGeo PROVE GeoKnows(w)'
  BY DEF GeoKnows, IdleGeo

\* Every invocation knows what it goes by.
LEMMA GeoStep == ASSUME IInv, Next, NEW v \in GeofenceWorkers PROVE GeoKnows(v)'
  <1>1. geo \in [GeofenceWorkers -> Geos] /\ TypeOK
    BY DEF IInv, TypeOK, GeofenceTypeOK
  <1>2. CASE geo'[v] = geo[v]
    BY <1>2, GeoStays
  <1>3. CASE geo'[v] = IdleGeo
    BY <1>3, GeoIdle
  <1>4. ASSUME NEW w \in GeofenceWorkers, NEW f \in Fixes, ReceiveFix(w, f), v = w PROVE GeoKnows(v)'
    <2>1. geo'[v] = [IdleGeo EXCEPT !.at = "FENCE", !.fix = f,
                                    !.fences = IF sharing THEN Places ELSE {}]
      BY <1>1, <1>4 DEF ReceiveFix
    <2>2. geo'[v].at = "FENCE" /\ geo'[v].fix = f /\ geo'[v].commands = {}
      BY <2>1 DEF IdleGeo
    <2>3. reading'[f] # None
      <3>1. CASE reading[f] # None
        BY <3>1, ReadingStays
      <3>2. CASE reading[f] = None
        <4>1. PICK o \in Readings[f] : reading' = [reading EXCEPT ![f] = o]
          BY <1>4, <3>2 DEF ReceiveFix
        <4> QED  BY <4>1, GeofenceConstants DEF IInv, Shapes
      <3> QED  BY <3>1, <3>2
    <2> QED  BY <2>2, <2>3 DEF GeoKnows
  <1>5. ASSUME NEW w \in GeofenceWorkers, NEW p \in Places, ReadRow(w, p), v = w PROVE GeoKnows(v)'
    <2>1. PICK f : f = geo[w].fix
      OBVIOUS
    <2>2. f \in Fixes /\ reading[f] # None /\ UNCHANGED <<reading, state, crossings>>
          /\ geo[w].commands \in SUBSET Command /\ \A c \in geo[w].commands : Crossed(c)
      BY <1>1, <1>5, <2>1, GeoTypes DEF ReadRow, IInv, GeoKnows
    <2>3. CASE Ignored(f, p, state[p])
      <3>1. geo'[v] = [geo[w] EXCEPT !.fences = geo[w].fences \ {p}, !.at = "FENCE",
                                     !.place = None, !.row = NoRow]
        BY <1>1, <1>5, <2>1, <2>3 DEF ReadRow
      <3>2. geo'[v].at = "FENCE" /\ geo'[v].fix = f /\ geo'[v].commands = geo[w].commands
        BY <1>1, <2>1, <3>1 DEF Geos
      <3> QED  BY <2>2, <3>2, CrossedStays DEF GeoKnows
    <2>4. CASE ~Ignored(f, p, state[p])
      <3>1. geo'[v] = [geo[w] EXCEPT !.fences = geo[w].fences \ {p}, !.at = "PUT",
                                     !.place = p, !.row = state[p]]
        BY <1>1, <1>5, <2>1, <2>4 DEF ReadRow
      <3>2. /\ geo'[v].at = "PUT" /\ geo'[v].fix = f /\ geo'[v].commands = geo[w].commands
            /\ geo'[v].place = p /\ geo'[v].row = state[p]
        BY <1>1, <2>1, <3>1 DEF Geos
      <3>3. reading[f][p].accurate /\ ~Stale(f, state[p])
        BY <2>4 DEF Ignored
      <3>4. state[p].version <= state[p].version
        BY VersionsGrow
      <3> QED  BY <2>2, <3>2, <3>3, <3>4, CrossedStays DEF GeoKnows
    <2> QED  BY <2>3, <2>4
  <1>6. ASSUME NEW w \in GeofenceWorkers, PutRow(w), v = w PROVE GeoKnows(v)'
    <2>1. PICK f \in Fixes, p \in Places : f = geo[w].fix /\ p = geo[w].place /\ reading[f] # None
      BY <1>6 DEF PutRow, IInv, GeoKnows
    <2>2. PICK r : r = geo[w].row
      OBVIOUS
    <2>3. PICK c \in Command : c = [kind |-> KindOf(reading[f][p].side), place |-> p, fix |-> f]
      <3>1. KindOf(reading[f][p].side) \in Kinds
        BY DEF KindOf, Kinds
      <3> QED  BY <3>1 DEF Command
    <2>4. PICK T : T = IF Wins(p, r) /\ Confirms(f, p, r) /\ <<p, KindOf(reading[f][p].side)>> \in Wanted
                       THEN geo[w].commands \cup {c} ELSE geo[w].commands
      OBVIOUS
    <2>5. geo'[v] = [geo[w] EXCEPT !.at = "FENCE", !.place = None, !.row = NoRow, !.commands = T]
      BY <1>1, <1>6, <2>1, <2>2, <2>3, <2>4 DEF PutRow
    <2>6. geo'[v].at = "FENCE" /\ geo'[v].fix = f /\ geo'[v].commands = T
      BY <1>1, <2>1, <2>5 DEF Geos
    <2>7. Wins(p, r) /\ Confirms(f, p, r) => Crossed(c)'
      <3> SUFFICES ASSUME Wins(p, r), Confirms(f, p, r) PROVE Crossed(c)'
        OBVIOUS
      <3>1. crossings' = [crossings EXCEPT ![p] = Append(crossings[p], c)]
        BY <1>6, <2>1, <2>2, <2>3 DEF PutRow
      <3>2. crossings[p] \in Seq(Command) /\ crossings'[p] = Append(crossings[p], c)
        BY <3>1 DEF IInv, Shapes
      <3>3. Len(crossings[p]) + 1 \in DOMAIN crossings'[p]
            /\ crossings'[p][Len(crossings[p]) + 1] = c
        BY <3>2, Appending
      <3>4. c.place = p
        BY <2>3
      <3> QED  BY <3>3, <3>4 DEF Crossed
    <2>8. \A d \in geo[w].commands : d \in Command /\ Crossed(d)
      BY <1>1, GeoTypes DEF IInv, GeoKnows
    <2>9. \A d \in T : Crossed(d)'
      BY <2>4, <2>7, <2>8, CrossedStays
    <2>10. reading'[f] # None
      BY <2>1, ReadingStays
    <2> QED  BY <2>6, <2>9, <2>10 DEF GeoKnows
  <1>7. \/ geo'[v] = geo[v] \/ geo'[v] = IdleGeo
        \/ \E f \in Fixes : ReceiveFix(v, f)
        \/ \E p \in Places : ReadRow(v, p)
        \/ PutRow(v)
    <2>1. CASE NotificationNext /\ UNCHANGED geofenceVars
      BY <2>1 DEF geofenceVars
    <2>2. CASE GeofenceNext
      <3>1. ASSUME NEW w \in GeofenceWorkers, NEW f \in Fixes, ReceiveFix(w, f), w # v
            PROVE  geo'[v] = geo[v]
        BY <1>1, <3>1 DEF ReceiveFix
      <3>2. ASSUME NEW w \in GeofenceWorkers, NEW p \in Places, ReadRow(w, p), w # v
            PROVE  geo'[v] = geo[v]
        BY <1>1, <3>2 DEF ReadRow
      <3>3. ASSUME NEW w \in GeofenceWorkers, PutRow(w), w # v PROVE geo'[v] = geo[v]
        BY <1>1, <3>3 DEF PutRow
      <3>4. ASSUME NEW w \in GeofenceWorkers, PublishAndReturn(w) \/ FixFails(w)
            PROVE  geo'[v] = geo[v] \/ geo'[v] = IdleGeo
        BY <1>1, <3>4 DEF PublishAndReturn, FixFails
      <3>5. (\E f \in Fixes : Republish(f)) => geo'[v] = geo[v]
        BY DEF Republish
      <3> QED  BY <2>2, <3>1, <3>2, <3>3, <3>4, <3>5 DEF GeofenceNext
    <2> QED  BY <2>1, <2>2 DEF Next
  <1> QED  BY <1>2, <1>3, <1>4, <1>5, <1>6, <1>7

\* What is on the command queue happened.
LEMMA CommandStep == ASSUME IInv, Next PROVE \A c \in commands' : Crossed(c)'
  <1>1. \A c \in commands : c \in Command /\ Crossed(c)
    BY DEF IInv, TypeOK
  <1>2. \A w \in GeofenceWorkers : \A c \in geo[w].commands : c \in Command /\ Crossed(c)
    BY GeoTypes DEF IInv, GeoKnows, TypeOK, GeofenceTypeOK
  <1>3. \/ commands' \subseteq commands
        \/ \E w \in GeofenceWorkers : commands' \subseteq commands \cup geo[w].commands
    BY DEF Next, GeofenceNext, NotificationNext, PublishAndReturn, Acknowledge
  <1> QED  BY <1>1, <1>2, <1>3, CrossedStays

-----------------------------------------------------------------------------
(* The invocations of the notification worker                               *)

\* A step of the notification worker is one invocation's, or the world's.
Acts(n) ==
    \/ ReceiveCommand(n) \/ ReadRecipient(n) \/ ReadSubject(n) \/ Skip(n)
    \/ Claim(n) \/ Finish(n) \/ Acknowledge(n) \/ NotifierFails(n)
    \/ \E r \in Recipients : TakeRecipient(n, r)
    \/ \E d \in Devices : Send(n, d) \/ Retire(n, d)

\* Each invocation touches only what it holds itself.
LEMMA NotesMove ==
    ASSUME IInv, Next
    PROVE  \/ UNCHANGED <<note, claims, inbox>> /\ (UNCHANGED barred \/ ConsentChanges)
           \/ /\ UNCHANGED geofenceVars
              /\ \E n \in Notifiers :
                    Acts(n) /\ \A o \in Notifiers \ {n} : note'[o] = note[o]
  <1>1. CASE GeofenceNext /\ UNCHANGED notificationVars
    BY <1>1 DEF notificationVars
  <1>2. CASE NotificationNext /\ UNCHANGED geofenceVars /\ ConsentChanges
    BY <1>2 DEF ConsentChanges
  <1>3. CASE NotificationNext /\ UNCHANGED geofenceVars /\ \E n \in Notifiers : Acts(n)
    <2>1. PICK n \in Notifiers : Acts(n)
      BY <1>3
    <2>2. note \in [Notifiers -> Notes]
      BY DEF IInv, TypeOK, NotificationTypeOK
    <2>3. \A o \in Notifiers \ {n} : note'[o] = note[o]
      BY <2>1, <2>2
         DEF Acts, ReceiveCommand, ReadRecipient, ReadSubject, Skip, Claim, Finish, Acknowledge,
             NotifierFails, TakeRecipient, Send, Retire
    <2> QED  BY <1>3, <2>1, <2>3
  <1>4. NotificationNext => ConsentChanges \/ \E n \in Notifiers : Acts(n)
    BY DEF NotificationNext, Acts
  <1> QED  BY <1>1, <1>2, <1>3, <1>4 DEF Next

\* Claims are never given back.
LEMMA ClaimsGrow == ASSUME IInv, Next PROVE claims \subseteq claims'
  BY NotesMove
     DEF Acts, ReceiveCommand, ReadRecipient, ReadSubject, Skip, Claim, Finish, Acknowledge,
         NotifierFails, TakeRecipient, Send, Retire

\* What a device is sent, it is sent by an invocation that holds the claim.
LEMMA InboxMoves ==
    ASSUME IInv, Next
    PROVE  \/ UNCHANGED inbox
           \/ \E n \in Notifiers, d \in Devices :
                /\ Send(n, d) /\ UNCHANGED <<claims, crossings>>
                /\ note[n].at = "SEND" /\ d \in note[n].targets /\ note'[n].targets = note[n].targets \ {d}
                /\ note[n].command \in Command
                /\ inbox' = [inbox EXCEPT ![d] = Append(inbox[d], note[n].command)]
  <1>1. note \in [Notifiers -> Notes]
    BY DEF IInv, TypeOK, NotificationTypeOK
  <1>2. ASSUME NEW n \in Notifiers, NEW d \in Devices, Send(n, d), UNCHANGED geofenceVars, inbox' # inbox
        PROVE  /\ UNCHANGED <<claims, crossings>>
               /\ note[n].at = "SEND" /\ d \in note[n].targets /\ note'[n].targets = note[n].targets \ {d}
               /\ note[n].command \in Command
               /\ inbox' = [inbox EXCEPT ![d] = Append(inbox[d], note[n].command)]
    <2>1. note[n].at = "SEND" /\ d \in note[n].targets /\ note[n].command \in Command
      BY <1>2 DEF Send, IInv, NoteKnows
    <2>2. inbox' = [inbox EXCEPT ![d] = Append(inbox[d], note[n].command)] /\ UNCHANGED <<claims, crossings>>
      BY <1>2 DEF Send, geofenceVars
    <2>3. \/ note'[n] = [note[n] EXCEPT !.targets = note[n].targets \ {d}, !.delivered = TRUE]
          \/ note'[n] = [note[n] EXCEPT !.targets = note[n].targets \ {d}, !.failing = TRUE]
      BY <1>1, <1>2 DEF Send
    <2>4. note'[n].targets = note[n].targets \ {d}
      BY <1>1, <2>3 DEF Notes
    <2> QED  BY <2>1, <2>2, <2>4
  <1>3. \/ UNCHANGED inbox
        \/ UNCHANGED geofenceVars /\ \E n \in Notifiers, d \in Devices : Send(n, d)
    BY NotesMove
       DEF Acts, ReceiveCommand, ReadRecipient, ReadSubject, Skip, Claim, Finish, Acknowledge,
           NotifierFails, TakeRecipient, Retire
  <1> QED  BY <1>2, <1>3

\* What an invocation holds after its own step.
LEMMA ActMeans ==
    ASSUME IInv, NEW n \in Notifiers, Acts(n)
    PROVE  LET x == note[n]
               y == note'[n] IN
           \/ y = IdleNote
           \/ ReceiveCommand(n) /\ y.at = "NEXT" /\ y.command \in commands /\ y.targets = {}
           \/ /\ x.at # "IDLE" /\ y.command = x.command
              /\ \/ y.at = "NEXT" /\ y.targets = {}
                 \/ \E r \in Recipients :
                       /\ TakeRecipient(n, r) /\ y.at = "RECIPIENT" /\ y.recipient = r
                       /\ \A d \in y.targets : Owner[d] = r
                 \/ /\ x.at \in Working /\ y.recipient = x.recipient /\ y.targets \subseteq x.targets
                    /\ \/ x.at = "RECIPIENT" /\ y.at = "SUBJECT" /\ ReadRecipient(n) /\ x.recipient \in members
                       \/ x.at = "SUBJECT" /\ y.at = "CLAIM" /\ ReadSubject(n) /\ Shows(x.recipient)
                       \/ /\ x.at = "CLAIM" /\ y.at = "SEND" /\ Claim(n) /\ UNCHANGED inbox
                          /\ Unclaimed(x.command, x.recipient)
                          /\ claims' = claims \cup {Key(x.command, x.recipient)}
                       \/ x.at = "SEND" /\ y.at = "SEND" /\ \E d \in Devices : Send(n, d)
                       \/ x.at = "SEND" /\ y.at = "RETIRE" /\ Finish(n)
                       \/ x.at = "RETIRE" /\ y.at = "RETIRE" /\ \E d \in Devices : Retire(n, d)
  <1>1. note \in [Notifiers -> Notes] /\ note[n] \in Notes
    BY DEF IInv, TypeOK, NotificationTypeOK
  <1>2. ASSUME NEW x \in Notes
        PROVE  LET y == NextRecipient(x) IN y.at = "NEXT" /\ y.targets = {} /\ y.command = x.command
    BY DEF Notes, NextRecipient
  <1>4. CASE Acknowledge(n) \/ NotifierFails(n)
    BY <1>1, <1>4 DEF Acknowledge, NotifierFails
  <1>5. CASE ReceiveCommand(n)
    <2>1. PICK c \in commands : note'[n] = [IdleNote EXCEPT !.at = "NEXT", !.command = c, !.todo = members]
      BY <1>1, <1>5 DEF ReceiveCommand
    <2>2. note'[n].at = "NEXT" /\ note'[n].command = c /\ note'[n].targets = {}
      BY <2>1 DEF IdleNote
    <2> QED  BY <1>5, <2>2
  <1>6. CASE ReadRecipient(n)
    <2>1. \/ note'[n] = NextRecipient(note[n])
          \/ note'[n] = [note[n] EXCEPT !.at = "SUBJECT"] /\ note[n].recipient \in members
      BY <1>1, <1>6 DEF ReadRecipient
    <2>2. note[n].at = "RECIPIENT"
      BY <1>6 DEF ReadRecipient
    <2>3. CASE note'[n] = NextRecipient(note[n])
      BY <1>1, <1>2, <2>2, <2>3
    <2>4. CASE note'[n] # NextRecipient(note[n])
      <3>1. note'[n] = [note[n] EXCEPT !.at = "SUBJECT"]
        BY <2>1, <2>4
      <3>2. /\ note'[n].at = "SUBJECT" /\ note'[n].targets = note[n].targets
            /\ note'[n].command = note[n].command /\ note'[n].recipient = note[n].recipient
        BY <1>1, <3>1 DEF Notes
      <3> QED  BY <1>6, <2>1, <2>2, <2>4, <3>2 DEF Working
    <2> QED  BY <2>3, <2>4
  <1>7. CASE ReadSubject(n)
    <2>1. \/ note'[n] = NextRecipient(note[n])
          \/ note'[n] = [note[n] EXCEPT !.at = "CLAIM"] /\ Shows(note[n].recipient)
      BY <1>1, <1>7 DEF ReadSubject
    <2>2. note[n].at = "SUBJECT"
      BY <1>7 DEF ReadSubject
    <2>3. CASE note'[n] = NextRecipient(note[n])
      BY <1>1, <1>2, <2>2, <2>3
    <2>4. CASE note'[n] # NextRecipient(note[n])
      <3>1. note'[n] = [note[n] EXCEPT !.at = "CLAIM"]
        BY <2>1, <2>4
      <3>2. /\ note'[n].at = "CLAIM" /\ note'[n].targets = note[n].targets
            /\ note'[n].command = note[n].command /\ note'[n].recipient = note[n].recipient
        BY <1>1, <3>1 DEF Notes
      <3> QED  BY <1>7, <2>1, <2>2, <2>4, <3>2 DEF Working
    <2> QED  BY <2>3, <2>4
  <1>8. CASE Skip(n)
    <2>1. note'[n] = NextRecipient(note[n]) /\ note[n].at # "IDLE"
      BY <1>1, <1>8 DEF Skip
    <2> QED  BY <1>1, <1>2, <2>1
  <1>9. CASE Claim(n)
    <2>1. \/ note'[n] = NextRecipient(note[n])
          \/ /\ note'[n] = [note[n] EXCEPT !.at = "SEND"]
             /\ Unclaimed(note[n].command, note[n].recipient)
      BY <1>1, <1>9 DEF Claim
    <2>2. /\ note[n].at = "CLAIM" /\ UNCHANGED inbox
          /\ claims' = claims \cup {Key(note[n].command, note[n].recipient)}
      BY <1>9 DEF Claim
    <2>3. CASE note'[n] = NextRecipient(note[n])
      BY <1>1, <1>2, <2>2, <2>3
    <2>4. CASE note'[n] # NextRecipient(note[n])
      <3>1. note'[n] = [note[n] EXCEPT !.at = "SEND"]
        BY <2>1, <2>4
      <3>2. /\ note'[n].at = "SEND" /\ note'[n].targets = note[n].targets
            /\ note'[n].command = note[n].command /\ note'[n].recipient = note[n].recipient
        BY <1>1, <3>1 DEF Notes
      <3> QED  BY <1>9, <2>1, <2>2, <2>4, <3>2 DEF Working
    <2> QED  BY <2>3, <2>4
  <1>10. CASE Finish(n)
    <2>1. PICK T : T = IF note[n].failing /\ ~note[n].delivered
                       THEN note[n].retry \cup {note[n].recipient} ELSE note[n].retry
      OBVIOUS
    <2>2. PICK done : done = [note[n] EXCEPT !.retry = T]
      OBVIOUS
    <2>3. /\ done.command = note[n].command /\ done.targets = note[n].targets
          /\ done.recipient = note[n].recipient
          /\ [done EXCEPT !.at = "RETIRE"] = [note[n] EXCEPT !.retry = T, !.at = "RETIRE"]
          /\ NextRecipient(done).at = "NEXT" /\ NextRecipient(done).targets = {}
          /\ NextRecipient(done).command = note[n].command
      BY <1>1, <2>2 DEF Notes, NextRecipient
    <2>4. note'[n] = NextRecipient(done) \/ note'[n] = [done EXCEPT !.at = "RETIRE"]
      BY <1>1, <1>10, <2>1, <2>2 DEF Finish
    <2>5. LET y == [note[n] EXCEPT !.retry = T, !.at = "RETIRE"] IN
          /\ y.at = "RETIRE" /\ y.targets = note[n].targets /\ y.command = note[n].command
          /\ y.recipient = note[n].recipient
      BY <1>1 DEF Notes
    <2>6. note[n].at = "SEND"
      BY <1>10 DEF Finish
    <2> QED  BY <1>10, <2>3, <2>4, <2>5, <2>6 DEF Working
  <1>11. ASSUME NEW r \in Recipients, TakeRecipient(n, r)
         PROVE  /\ note[n].at # "IDLE" /\ note'[n].command = note[n].command
                /\ note'[n].at = "RECIPIENT" /\ note'[n].recipient = r
                /\ \A d \in note'[n].targets : Owner[d] = r
    <2>1. note'[n] = [note[n] EXCEPT !.at = "RECIPIENT", !.todo = note[n].todo \ {r}, !.recipient = r,
                                     !.targets = {d \in reachable : Owner[d] = r}]
      BY <1>1, <1>11 DEF TakeRecipient
    <2>2. /\ note'[n].command = note[n].command /\ note'[n].at = "RECIPIENT"
          /\ note'[n].recipient = r /\ note'[n].targets = {d \in reachable : Owner[d] = r}
      BY <1>1, <2>1 DEF Notes
    <2> QED  BY <1>11, <2>2 DEF TakeRecipient
  <1>12. ASSUME NEW d \in Devices, Send(n, d)
         PROVE  /\ note[n].at = "SEND" /\ note'[n].at = "SEND" /\ note'[n].command = note[n].command
                /\ note'[n].recipient = note[n].recipient /\ note'[n].targets \subseteq note[n].targets
    <2>1. \/ note'[n] = [note[n] EXCEPT !.targets = note[n].targets \ {d}, !.delivered = TRUE]
          \/ note'[n] = [note[n] EXCEPT !.targets = note[n].targets \ {d}, !.failing = TRUE]
          \/ note'[n] = [note[n] EXCEPT !.targets = note[n].targets \ {d}, !.retire = note[n].retire \cup {d}]
      BY <1>1, <1>12 DEF Send
    <2>2. note[n].at = "SEND"
      BY <1>12 DEF Send
    <2> QED  BY <1>1, <2>1, <2>2 DEF Notes
  <1>13. ASSUME NEW d \in Devices, Retire(n, d)
         PROVE  /\ note[n].at = "RETIRE"
                /\ \/ note'[n] = NextRecipient(note[n])
                   \/ /\ note'[n].at = "RETIRE" /\ note'[n].command = note[n].command
                      /\ note'[n].recipient = note[n].recipient /\ note'[n].targets = note[n].targets
    <2>1. \/ note'[n] = NextRecipient(note[n])
          \/ note'[n] = [note[n] EXCEPT !.retire = note[n].retire \ {d}]
      BY <1>1, <1>13 DEF Retire
    <2>2. note[n].at = "RETIRE"
      BY <1>13 DEF Retire
    <2> QED  BY <1>1, <2>1, <2>2 DEF Notes
  <1>14. CASE \E r \in Recipients : TakeRecipient(n, r)
    BY <1>11, <1>14
  <1>15. CASE \E d \in Devices : Send(n, d)
    BY <1>12, <1>15 DEF Working
  <1>16. CASE \E d \in Devices : Retire(n, d)
    BY <1>1, <1>2, <1>13, <1>16 DEF Working
  <1> QED
    BY <1>4, <1>5, <1>6, <1>7, <1>8, <1>9, <1>10, <1>14, <1>15, <1>16 DEF Acts

\* An invocation that sends was sending already, about the same to the same, or its
\* claim has just been taken.
LEMMA SendingMeans ==
    ASSUME IInv, Next, NEW n \in Notifiers, note'[n].at = "SEND"
    PROVE  /\ note'[n].command = note[n].command /\ note'[n].recipient = note[n].recipient
           /\ note'[n].targets \subseteq note[n].targets
           /\ \/ note[n].at = "SEND"
              \/ /\ note[n].at = "CLAIM" /\ Unclaimed(note[n].command, note[n].recipient)
                 /\ claims' = claims \cup {Key(note[n].command, note[n].recipient)}
                 /\ UNCHANGED inbox
                 /\ \A o \in Notifiers \ {n} : note'[o] = note[o]
  <1>1. CASE note'[n] = note[n]
    BY <1>1
  <1>2. CASE Acts(n) /\ \A o \in Notifiers \ {n} : note'[o] = note[o]
    <2>1. note'[n] # IdleNote
      BY DEF IdleNote
    <2> QED  BY <1>2, <2>1, ActMeans
  <1> QED  BY <1>1, <1>2, NotesMove

\* What an invocation of the notification worker knows besides the claim.
NoteBase(n) ==
    /\ note[n].at # "IDLE" => note[n].command \in Command /\ Crossed(note[n].command)
    /\ note[n].at \in Working => note[n].recipient \in Recipients
    /\ \A d \in note[n].targets : Owner[d] = note[n].recipient

\* Each step leaves an invocation knowing that much.
LEMMA NoteBaseStep == ASSUME IInv, Next, NEW n \in Notifiers PROVE NoteBase(n)'
  <1>1. NoteBase(n) /\ \A c \in commands : c \in Command /\ Crossed(c)
    BY DEF IInv, NoteKnows, NoteBase, TypeOK
  <1>2. \A c \in Command : Crossed(c) => Crossed(c)'
    BY CrossedStays
  <1>3. CASE note'[n] = note[n]
    BY <1>1, <1>2, <1>3 DEF NoteBase
  <1>4. CASE Acts(n)
    <2>1. CASE note'[n] = IdleNote
      BY <2>1 DEF IdleNote, NoteBase, Working
    <2>2. CASE note'[n].at = "NEXT" /\ note'[n].command \in commands /\ note'[n].targets = {}
      BY <1>1, <1>2, <2>2 DEF NoteBase, Working
    <2>3. CASE note[n].at # "IDLE" /\ note'[n].command = note[n].command
               /\ note'[n].at = "NEXT" /\ note'[n].targets = {}
      BY <1>1, <1>2, <2>3 DEF NoteBase, Working
    <2>4. CASE note[n].at # "IDLE" /\ note'[n].command = note[n].command
               /\ note'[n].recipient \in Recipients
               /\ \A d \in note'[n].targets : Owner[d] = note'[n].recipient
      BY <1>1, <1>2, <2>4 DEF NoteBase
    <2>5. CASE note[n].at # "IDLE" /\ note'[n].command = note[n].command
               /\ note[n].at \in Working /\ note'[n].recipient = note[n].recipient
               /\ note'[n].targets \subseteq note[n].targets
      BY <1>1, <1>2, <2>5 DEF NoteBase
    <2> QED  BY <1>4, <2>1, <2>2, <2>3, <2>4, <2>5, ActMeans
  <1> QED  BY <1>3, <1>4, NotesMove

\* No device that still waits has had a push under the claim: what reached it before
\* the claim was claimed before, and another sender has another claim.
LEMMA NoteStep == ASSUME IInv, Next, NEW n \in Notifiers PROVE NoteKnows(n)'
  <1>1. NoteBase(n)'
    BY NoteBaseStep
  <1>2. CASE note'[n].at # "SEND"
    BY <1>1, <1>2 DEF NoteBase, NoteKnows
  <1>3. CASE note'[n].at = "SEND"
    <2>1. PICK c, r : c = note[n].command /\ r = note[n].recipient
                      /\ c = note'[n].command /\ r = note'[n].recipient
      BY <1>3, SendingMeans
    <2>2. Key(c, r) \in claims'
      BY <1>3, <2>1, SendingMeans, ClaimsGrow DEF IInv, NoteKnows
    <2>3. NoteKnows(n) /\ \A d \in note[n].targets : d \in Devices /\ Owner[d] = r
      BY <2>1 DEF IInv, NoteKnows, TypeOK, NotificationTypeOK, Notes
    <2>4. CASE note[n].at = "CLAIM"
      <3>1. /\ Key(c, r) \notin claims /\ UNCHANGED inbox /\ note'[n].targets \subseteq note[n].targets
        BY <1>3, <2>1, <2>4, SendingMeans DEF Unclaimed
      <3>2. \A d \in note[n].targets : \A m \in DOMAIN inbox[d] : Key(inbox[d][m], r) # Key(c, r)
        BY <2>3, <3>1 DEF IInv, PushesAreClaimed
      <3>3. \A d \in note'[n].targets : \A m \in DOMAIN inbox'[d] : Key(inbox'[d][m], r) # Key(c, r)
        BY <3>1, <3>2
      <3> QED  BY <1>1, <2>1, <2>2, <3>3 DEF NoteBase, NoteKnows, Key
    <2>5. CASE note[n].at = "SEND"
      <3>1. \A d \in note[n].targets : \A m \in DOMAIN inbox[d] : Key(inbox[d][m], r) # Key(c, r)
        BY <2>1, <2>3, <2>5 DEF NoteKnows
      <3>2. note'[n].targets \subseteq note[n].targets
        BY <1>3, SendingMeans
      <3>3. \A d \in note'[n].targets : \A m \in DOMAIN inbox'[d] : Key(inbox'[d][m], r) # Key(c, r)
        <4>1. CASE UNCHANGED inbox
          BY <3>1, <3>2, <4>1
        <4>2. ASSUME NEW o \in Notifiers, NEW e \in Devices, NEW s \in Command, s = note[o].command,
                     note[o].at = "SEND", e \in note[o].targets, note'[o].targets = note[o].targets \ {e},
                     inbox' = [inbox EXCEPT ![e] = Append(inbox[e], s)]
              PROVE  \A d \in note'[n].targets : \A m \in DOMAIN inbox'[d] : Key(inbox'[d][m], r) # Key(c, r)
          <5>1. CASE o = n
            BY <2>3, <3>1, <3>2, <4>2, <5>1 DEF IInv, Shapes
          <5>2. CASE o # n
            <6>1. Key(s, note[o].recipient) # Key(c, r)
              BY <2>1, <2>5, <4>2, <5>2 DEF IInv, ClaimsAreExclusive
            <6>2. Owner[e] = note[o].recipient
              BY <4>2 DEF IInv, NoteKnows
            <6>3. e \in note'[n].targets => Key(s, r) # Key(c, r)
              BY <2>3, <3>2, <6>1, <6>2
            <6>4. \A m \in DOMAIN inbox'[e] :
                    (m \in DOMAIN inbox[e] /\ inbox'[e][m] = inbox[e][m]) \/ inbox'[e][m] = s
              <7>1. inbox[e] \in Seq(Command) /\ inbox'[e] = Append(inbox[e], s)
                BY <4>2 DEF IInv, Shapes
              <7> QED  BY <7>1, Appending
            <6>5. \A d \in Devices \ {e} : inbox'[d] = inbox[d]
              BY <4>2 DEF IInv, Shapes
            <6> SUFFICES ASSUME NEW d \in note'[n].targets, NEW m \in DOMAIN inbox'[d]
                         PROVE  Key(inbox'[d][m], r) # Key(c, r)
              OBVIOUS
            <6>6. CASE d = e
              BY <3>1, <3>2, <6>3, <6>4, <6>6
            <6>7. CASE d # e
              BY <2>3, <3>1, <3>2, <6>5, <6>7
            <6> QED  BY <6>6, <6>7
          <5> QED  BY <5>1, <5>2
        <4> QED  BY <4>1, <4>2, InboxMoves
      <3> QED  BY <1>1, <2>1, <2>2, <3>3 DEF NoteBase, NoteKnows, Key
    <2> QED  BY <1>3, <2>4, <2>5, SendingMeans
  <1> QED  BY <1>2, <1>3

\* Two senders hold two claims: the second found the first's taken.
LEMMA ExclusiveStep == ASSUME IInv, Next PROVE ClaimsAreExclusive'
  <1> SUFFICES ASSUME NEW n \in Notifiers, NEW o \in Notifiers, n # o,
                      note'[n].at = "SEND", note'[o].at = "SEND"
               PROVE  Key(note'[n].command, note'[n].recipient) # Key(note'[o].command, note'[o].recipient)
    BY DEF ClaimsAreExclusive, Key
  <1>1. /\ note'[n].command = note[n].command /\ note'[n].recipient = note[n].recipient
        /\ note'[o].command = note[o].command /\ note'[o].recipient = note[o].recipient
    BY SendingMeans
  <1>2. CASE note[n].at = "SEND" /\ note[o].at = "SEND"
    BY <1>1, <1>2 DEF IInv, ClaimsAreExclusive
  <1>3. ASSUME NEW a \in Notifiers, NEW b \in Notifiers, a # b, note'[a].at = "SEND",
               note'[b].at = "SEND", note[a].at # "SEND"
        PROVE  Key(note[a].command, note[a].recipient) # Key(note[b].command, note[b].recipient)
    <2>1. Key(note[a].command, note[a].recipient) \notin claims /\ note'[b] = note[b]
      BY <1>3, SendingMeans DEF Unclaimed
    <2>2. Key(note[b].command, note[b].recipient) \in claims
      BY <1>3, <2>1 DEF IInv, NoteKnows
    <2> QED  BY <2>1, <2>2
  <1> QED  BY <1>1, <1>2, <1>3

\* What a device got was claimed for its owner.
LEMMA PushStep == ASSUME IInv, Next PROVE PushesAreClaimed'
  <1>1. PushesAreClaimed /\ claims \subseteq claims'
    BY ClaimsGrow DEF IInv
  <1>2. CASE UNCHANGED inbox
    BY <1>1, <1>2 DEF PushesAreClaimed, Key
  <1>3. ASSUME NEW o \in Notifiers, NEW e \in Devices, NEW s \in Command, s = note[o].command,
               note[o].at = "SEND", e \in note[o].targets,
               inbox' = [inbox EXCEPT ![e] = Append(inbox[e], s)]
        PROVE  PushesAreClaimed'
    <2>1. Key(s, Owner[e]) \in claims
      BY <1>3 DEF IInv, NoteKnows
    <2>2. inbox[e] \in Seq(Command) /\ inbox'[e] = Append(inbox[e], s)
          /\ \A d \in Devices \ {e} : inbox'[d] = inbox[d]
      BY <1>3 DEF IInv, Shapes
    <2>3. \A m \in DOMAIN inbox'[e] :
            (m \in DOMAIN inbox[e] /\ inbox'[e][m] = inbox[e][m]) \/ inbox'[e][m] = s
      BY <2>2, Appending
    <2> QED  BY <1>1, <2>1, <2>2, <2>3 DEF PushesAreClaimed, Key
  <1> QED  BY <1>2, <1>3, InboxMoves

\* Nobody is barred whom an invocation has found to be unbarred since it took them up.
LEMMA BarredStep == ASSUME IInv, Next, NEW n \in Notifiers PROVE StillBarred(n)'
  <1>1. StillBarred(n) /\ barred \in [Notifiers -> SUBSET {"NOT_ACTIVE", "NOT_SHARING", "HIDDEN"}]
    BY DEF IInv, TypeOK, NotificationTypeOK
  <1>2. CASE ConsentChanges
    <2>1. note'[n] = note[n]
      BY <1>2 DEF ConsentChanges
    <2>2. PICK r : r = note[n].recipient
      OBVIOUS
    <2>3. barred'[n] \subseteq barred[n] /\ barred'[n] \subseteq Bars(r)'
      BY <1>1, <1>2, <2>2 DEF ConsentChanges, Bars
    <2> QED  BY <1>1, <2>1, <2>2, <2>3 DEF StillBarred, Bars
  <1>3. CASE ~ConsentChanges /\ note'[n] = note[n]
    <2>1. UNCHANGED <<sharing, members, hidden>>
      BY <1>3 DEF Next, GeofenceNext, NotificationNext, notificationVars, ReceiveCommand,
                  ReadRecipient, ReadSubject, Skip, Claim, Finish, Acknowledge, NotifierFails,
                  TakeRecipient, Send, Retire
    <2>2. barred'[n] \in {barred[n], {}} \/ \E r \in Recipients : TakeRecipient(n, r)
      BY <1>1, <1>3 DEF Next, GeofenceNext, NotificationNext, notificationVars, ReceiveCommand,
                  ReadRecipient, ReadSubject, Skip, Claim, Finish, Acknowledge, NotifierFails,
                  TakeRecipient, Send, Retire
    <2>3. ASSUME NEW r \in Recipients, TakeRecipient(n, r) PROVE FALSE
      <3>1. note[n].at = "NEXT" /\ note \in [Notifiers -> Notes]
        BY <2>3 DEF TakeRecipient, IInv, TypeOK, NotificationTypeOK
      <3>2. note'[n].at = "RECIPIENT"
        BY <2>3, <3>1 DEF TakeRecipient, Notes
      <3> QED  BY <1>3, <3>1, <3>2
    <2> QED  BY <1>1, <1>3, <2>1, <2>2, <2>3 DEF StillBarred, Bars
  <1>4. CASE ~ConsentChanges /\ Acts(n)
    <2>1. UNCHANGED <<sharing, members, hidden>>
      BY <1>4 DEF Next, GeofenceNext, NotificationNext, notificationVars, ReceiveCommand,
                  ReadRecipient, ReadSubject, Skip, Claim, Finish, Acknowledge, NotifierFails,
                  TakeRecipient, Send, Retire
    <2>2. ASSUME NEW r \in Recipients, TakeRecipient(n, r) PROVE StillBarred(n)'
      <3>1. barred'[n] = Bars(r)
        BY <1>1, <2>2 DEF TakeRecipient
      <3>2. note'[n].at = "RECIPIENT" /\ note'[n].recipient = r
        BY <2>2 DEF TakeRecipient, IInv, TypeOK, NotificationTypeOK, Notes
      <3> QED  BY <2>1, <3>1, <3>2 DEF StillBarred, Bars
    <2>3. CASE note'[n].at \notin Working
      BY <2>3 DEF StillBarred, Working
    <2>4. CASE /\ note[n].at \in Working /\ note'[n].at \in Working
               /\ note'[n].recipient = note[n].recipient /\ barred'[n] = barred[n]
               /\ \/ note[n].at = "RECIPIENT" /\ note'[n].at = "SUBJECT" /\ note[n].recipient \in members
                  \/ note[n].at = "SUBJECT" /\ note'[n].at = "CLAIM" /\ Shows(note[n].recipient)
                  \/ note[n].at \in {"CLAIM", "SEND"} /\ note'[n].at = "SEND"
                  \/ note'[n].at = "RETIRE"
      BY <1>1, <2>1, <2>4 DEF StillBarred, Bars, Shows
    <2>5. (\/ ReadRecipient(n) \/ ReadSubject(n) \/ Claim(n) \/ Finish(n)
           \/ \E d \in Devices : Send(n, d) \/ Retire(n, d)) => barred'[n] = barred[n]
      BY DEF ReadRecipient, ReadSubject, Claim, Finish, Send, Retire
    <2>6. note'[n] = IdleNote => note'[n].at \notin Working
      BY DEF IdleNote, Working
    <2> QED  BY <1>4, <2>2, <2>3, <2>4, <2>5, <2>6, ActMeans DEF Working
  <1> QED  BY <1>2, <1>3, <1>4, NotesMove

-----------------------------------------------------------------------------
(* The theorems                                                             *)

\* Nothing crossed, nothing claimed, nothing in hand.
LEMMA Initially == Init => IInv
  <1> SUFFICES ASSUME Init PROVE IInv
    OBVIOUS
  <1>0. USE DEF Init, SharedInit, GeofenceInit, GeofenceQuiet, NotificationInit
  <1>1. /\ crossings = [p \in Places |-> <<>>] /\ applied = [p \in Places |-> <<>>]
        /\ inbox = [d \in Devices |-> <<>>] /\ reading = [f \in Fixes |-> None]
        /\ geo = [w \in GeofenceWorkers |-> IdleGeo] /\ note = [n \in Notifiers |-> IdleNote]
    OBVIOUS
  <1>2. Shapes
    BY <1>1 DEF Shapes
  <1>3. GeofenceTypeOK
    <2>1. state \in [Places -> Rows]
      BY DEF Rows
    <2>2. geo \in [GeofenceWorkers -> Geos]
      BY IdleAreTyped DEF IdleTypes
    <2> QED  BY <1>1, <2>1, <2>2, GeofenceConstants DEF GeofenceTypeOK
  <1>4. NotificationTypeOK
    <2>1. note \in [Notifiers -> Notes]
      BY IdleAreTyped DEF IdleTypes
    <2> QED  BY <1>1, <2>1, NotificationConstants DEF NotificationTypeOK
  <1>5. TypeOK
    BY <1>3, <1>4, AlertBounds DEF TypeOK
  <1>6. CrossingsAreReal /\ PushesAreClaimed
    BY <1>1 DEF CrossingsAreReal, PushesAreClaimed
  <1>7. \A n \in Notifiers : note[n] = IdleNote
    BY <1>1
  <1>8. ClaimsAreExclusive /\ \A n \in Notifiers : NoteKnows(n) /\ StillBarred(n)
    BY <1>7 DEF ClaimsAreExclusive, NoteKnows, StillBarred, Working, IdleNote
  <1>9. \A w \in GeofenceWorkers : GeoKnows(w)
    BY <1>1 DEF GeoKnows, IdleGeo
  <1>10. \A p \in Places : TookIsRead(p) /\ RowFits(p) /\ RowFollows(p)
    <2>1. \A p \in Places : applied[p] = <<>> /\ crossings[p] = <<>> /\ state[p] = NoRow
      OBVIOUS
    <2> QED  BY <2>1 DEF TookIsRead, RowFits, RowFollows
  <1> QED  BY <1>2, <1>5, <1>6, <1>8, <1>9, <1>10 DEF IInv

\* Every step of either worker, of the queues and of the family preserves it.
LEMMA Inductive == IInv /\ [Next]_vars => IInv'
  <1>1. ASSUME IInv, Next PROVE IInv'
    BY <1>1, TypeStep, RowStep, GeoStep, CommandStep, NoteStep, ExclusiveStep, PushStep, BarredStep
       DEF IInv
  <1>2. ASSUME IInv, UNCHANGED vars PROVE IInv'
    <2>0. UNCHANGED <<commands, sharing, changes, failures>> /\ UNCHANGED geofenceVars
          /\ UNCHANGED notificationVars
      BY <1>2 DEF vars
    <2>1. TypeOK' /\ Shapes' /\ CrossingsAreReal'
      <3>1. GeofenceTypeOK'
        BY <1>2, <2>0 DEF geofenceVars, IInv, TypeOK, GeofenceTypeOK
      <3>2. NotificationTypeOK'
        BY <1>2, <2>0 DEF notificationVars, IInv, TypeOK, NotificationTypeOK
      <3>3. TypeOK'
        BY <1>2, <2>0, <3>1, <3>2 DEF IInv, TypeOK
      <3>4. Shapes'
        BY <1>2, <2>0 DEF geofenceVars, notificationVars, IInv, Shapes
      <3>5. CrossingsAreReal'
        BY <1>2, <2>0 DEF geofenceVars, IInv, CrossingsAreReal, Sees, SeesOtherwise
      <3> QED  BY <3>3, <3>4, <3>5
    <2>2. \A p \in Places : TookIsRead(p)' /\ RowFits(p)' /\ RowFollows(p)'
      BY <1>2, <2>0 DEF geofenceVars, IInv, TookIsRead, RowFits, RowFollows, Shown, Sees, SeesOtherwise
    <2>3. \A w \in GeofenceWorkers : GeoKnows(w)'
      BY <1>2, <2>0 DEF geofenceVars, IInv, GeoKnows, Stale, Crossed
    <2>4. \A c \in commands' : Crossed(c)'
      BY <1>2, <2>0 DEF geofenceVars, IInv, Crossed
    <2>5. \A n \in Notifiers : NoteKnows(n)' /\ StillBarred(n)'
      BY <1>2, <2>0 DEF geofenceVars, notificationVars, IInv, NoteKnows, StillBarred, Bars, Crossed, Key
    <2>6. ClaimsAreExclusive' /\ PushesAreClaimed'
      BY <1>2, <2>0 DEF notificationVars, IInv, ClaimsAreExclusive, PushesAreClaimed, Key
    <2> QED  BY <2>1, <2>2, <2>3, <2>4, <2>5, <2>6 DEF IInv
  <1> QED  BY <1>1, <1>2

\* The invariant holds in every reachable state.
THEOREM Invariance == Spec => []IInv
<1> QED  BY Initially, Inductive, PTL DEF Spec

\* Rows, queues, claims, inboxes and what each invocation holds keep their types.
THEOREM TypeCorrect == Spec => []TypeOK
<1>1. IInv => TypeOK
  BY DEF IInv
<1> QED  BY <1>1, Invariance, PTL

\* A transition is confirmed only after a dwell that accurate fixes the row took
\* show from end to end (evaluateGeofence and DynamoGeofenceStateStore.put), in
\* whatever order the queue delivers fixes and however many invocations race.
THEOREM CrossingsWereReal == Spec => []CrossingsAreReal
<1>1. IInv => CrossingsAreReal
  BY DEF IInv
<1> QED  BY <1>1, Invariance, PTL

\* Whoever is being pushed to was an ACTIVE member, was shared with and was not
\* hidden from, each at some moment since the invocation turned to them
\* (pipeline.ts, step 3), however consent changes meanwhile.
THEOREM TheBarredHearNothing == Spec => []NoPushToTheBarred
<1>1. IInv => NoPushToTheBarred
  <2> SUFFICES ASSUME IInv, NEW n \in Notifiers, note[n].at = "SEND" PROVE barred[n] = {}
    BY DEF NoPushToTheBarred
  <2>1. barred[n] \subseteq {"NOT_ACTIVE", "NOT_SHARING", "HIDDEN"} /\ StillBarred(n)
    BY DEF IInv, TypeOK, NotificationTypeOK
  <2> QED  BY <2>1 DEF StillBarred
<1> QED  BY <1>1, Invariance, PTL

\* A row's fix is a transition Announcements allows, or none: to the other side,
\* and later than the last.
LEMMA RowPromised ==
    ASSUME IInv, NEW f \in Fixes, NEW p \in Places, Took(f, p), UNCHANGED inbox
    PROVE  Promised!Cross(p) \/ UNCHANGED <<crossings, inbox>>
  <1>1. CASE ~Confirms(f, p, state[p])
    BY <1>1 DEF Took
  <1>2. CASE Confirms(f, p, state[p])
    <2>1. TypeOK /\ reading[f] # None /\ state[p] \in Rows /\ Captured[f] \in Nat
      BY GeofenceConstants DEF Took, IInv, TypeOK, GeofenceTypeOK
    <2>2. /\ state[p] \in Row /\ reading[f][p].side \in Sides /\ reading[f][p].side # state[p].side
          /\ state[p].pending = reading[f][p].side /\ Captured[f] > state[p].since
      BY <1>2, <2>1, ConfirmsMeans
    <2>3. PICK kind \in Kinds : kind = KindOf(reading[f][p].side)
      BY DEF Kinds, KindOf
    <2>4. kind # KindOf(state[p].side)
      BY <2>2, <2>3 DEF KindOf, Row, Sides
    <2>5. Promised!Follows(crossings[p], kind, f)
      <3> SUFFICES ASSUME crossings[p] # <<>>
                   PROVE  LET last == crossings[p][Len(crossings[p])] IN
                          kind # last.kind /\ Captured[f] > Captured[last.fix]
        BY DEF Promised!Follows
      <3>1. PICK last : last = crossings[p][Len(crossings[p])]
        OBVIOUS
      <3>2. last \in Command
        <4>1. crossings[p] \in Seq(Command)
          BY DEF IInv, Shapes
        <4> QED  BY <3>1, <4>1
      <3>3. last.kind = KindOf(state[p].side) /\ Captured[last.fix] <= state[p].since
        BY <2>2, <3>1 DEF IInv, RowFollows, Sides
      <3>4. Captured[last.fix] \in Nat /\ state[p].since \in Nat
        BY <2>2, <3>2, GeofenceConstants DEF Command, Row
      <3> QED  BY <2>1, <2>2, <2>4, <3>1, <3>3, <3>4
    <2>6. crossings' = [crossings EXCEPT ![p] =
                Append(crossings[p], [kind |-> kind, place |-> p, fix |-> f])]
      BY <1>2, <2>3 DEF Took
    <2> QED  BY <2>5, <2>6 DEF Promised!Cross, Kinds
  <1> QED  BY <1>1, <1>2

\* A push is of a transition that happened and that the device has not had.
LEMMA PushPromised ==
    ASSUME IInv, NEW n \in Notifiers, NEW d \in Devices, UNCHANGED crossings,
           note[n].at = "SEND", d \in note[n].targets, note[n].command \in Command,
           inbox' = [inbox EXCEPT ![d] = Append(inbox[d], note[n].command)]
    PROVE  Promised!Tell(d)
  <1>1. PICK c : c = note[n].command
    OBVIOUS
  <1>2. PICK p : p = c.place
    OBVIOUS
  <1>3. p \in Places
    BY <1>1, <1>2 DEF Command
  <1>4. PICK k \in DOMAIN crossings[p] : crossings[p][k] = c
    BY <1>1, <1>2 DEF IInv, NoteKnows, Crossed
  <1>5. \A m \in DOMAIN inbox[d] : inbox[d][m] # c
    BY <1>1 DEF IInv, NoteKnows, Key
  <1> QED  BY <1>1, <1>3, <1>4, <1>5 DEF Promised!Tell

\* The two workers with the queues, claims and compare-and-set between them
\* implement Announcements: the transitions of a place alternate and go forward in
\* time, and no device hears twice of one or of one that did not happen.
THEOREM EachIsAnnouncedOnce == Spec => AnnouncedOnce
<1>1. Init => Promised!Init
  BY DEF Init, GeofenceInit, GeofenceQuiet, NotificationInit, Promised!Init
<1>2. IInv /\ [Next]_vars => [Promised!Next]_<<crossings, inbox>>
  <2>1. ASSUME IInv, Next PROVE [Promised!Next]_<<crossings, inbox>>
    <3>1. CASE UNCHANGED inbox
      BY <2>1, <3>1, RowsMove, RowPromised DEF Promised!Next
    <3>2. CASE inbox' # inbox
      BY <2>1, <3>2, InboxMoves, PushPromised DEF Promised!Next
    <3> QED  BY <3>1, <3>2
  <2>2. UNCHANGED vars => UNCHANGED <<crossings, inbox>>
    BY DEF vars, geofenceVars, notificationVars
  <2> QED  BY <2>1, <2>2
<1> QED  BY <1>1, <1>2, Invariance, PTL DEF Spec, AnnouncedOnce, Promised!Spec
=============================================================================
