------------------------------ MODULE Geofence ------------------------------
(***************************************************************************)
(* services/geofence-worker for one subject: the queue of accepted fixes,   *)
(* invocations that take them from it, and the GeofenceState rows they      *)
(* advance with a compare-and-set on the version.                           *)
(*                                                                          *)
(* A fix is an event id with the instant it was captured; its reading at a  *)
(* place is the side of the fence, as observeSide classifies the distance,  *)
(* and whether it was accurate enough to be believed.  Abstracted: geometry,*)
(* decryption, families (a place belongs to one), the TTL of a row, which   *)
(* is of months, and the records that no longer parse.  A batch is its      *)
(* records one after another, each acknowledged or not, with the commands   *)
(* published at the end: an invocation here takes one record.               *)
(***************************************************************************)
EXTENDS AlertCommands

CONSTANTS
    Backlog,            \* the fixes on the queue at first: a phone's flush after a while offline
    Captured,           \* [Fixes -> instants]: when each fix was taken
    Readings,           \* [Fixes -> the readings it can have, each [Places -> Observation]]
    Wanted,             \* places and kinds the family wants to be told of
    ArrivalDwell,       \* tuning.arrivalDwellSeconds, in instants
    DepartureDwell,     \* tuning.departureDwellSeconds
    GeofenceWorkers,    \* invocations that can run at the same time
    MaxFixReceives      \* BOUND: receptions of fixes

Sides == {"INSIDE", "OUTSIDE"}

\* within: which side of the line itself, for a first fix in the ambiguous band.
Observation == [side : Sides \cup {"AMBIGUOUS"}, within : Sides, accurate : BOOLEAN]

ASSUME GeofenceConstants ==
    /\ Backlog \subseteq Fixes
    /\ Captured \in [Fixes -> Nat]
    /\ Readings \in [Fixes -> SUBSET [Places -> Observation]]
    /\ \A f \in Fixes : None \notin Readings[f]
    /\ Wanted \subseteq Places \X Kinds
    /\ {ArrivalDwell, DepartureDwell} \subseteq Nat \ {0}
    /\ MaxFixReceives \in Nat

VARIABLES
    reading,        \* [Fixes -> the reading each fix turned out to have]
    evaluations,    \* messages on the geofence evaluation queue
    state,          \* GeofenceState: [Places -> row]
    geo,            \* [GeofenceWorkers -> what the invocation holds]
    fixReceives,    \* fixes received so far
    applied,        \* HISTORY: [Places -> the fixes the row has taken, in that order]
    crossings       \* HISTORY: [Places -> the transitions the row has confirmed]

geofenceVars == <<reading, evaluations, state, geo, fixReceives, applied, crossings>>

Row == [version : Nat \ {0}, side : Sides, pending : Sides \cup {"NONE"}, since : Nat, last : Fixes]
NoRow == [version |-> 0]
Rows == Row \cup {NoRow}

\* What an invocation holds of its record: the fences left, the one at hand
\* with the row read for it, and the commands found so far.
IdleGeo == [at |-> "IDLE", fix |-> None, fences |-> {}, place |-> None, row |-> NoRow,
            commands |-> {}]

Geos == [at : {"IDLE", "FENCE", "PUT"}, fix : Fixes \cup {None},
         fences : SUBSET Places, place : Places \cup {None}, row : Rows,
         commands : SUBSET Command]

GeofenceQuiet ==
    /\ evaluations = Backlog
    /\ geo = [w \in GeofenceWorkers |-> IdleGeo]
    /\ fixReceives = 0
    /\ crossings = [p \in Places |-> <<>>]

GeofenceInit ==
    /\ GeofenceQuiet
    /\ reading = [f \in Fixes |-> None]
    /\ state = [p \in Places |-> NoRow]
    /\ applied = [p \in Places |-> <<>>]

-----------------------------------------------------------------------------
(* The evaluator: one fix against one fence.                                *)

\* Idempotence and ordering: the event that made the row, or one before it.
Stale(f, r) == r # NoRow /\ (r.last = f \/ Captured[f] < Captured[r.last])

\* A fix that must not move the state machine.
Ignored(f, p, r) == Stale(f, r) \/ ~reading[f][p].accurate

KindOf(side) == IF side = "INSIDE" THEN "ARRIVAL" ELSE "DEPARTURE"

Dwell(side) == IF side = "INSIDE" THEN ArrivalDwell ELSE DepartureDwell

\* The instant the candidate side was first seen, this fix included.
PendingSince(f, side, r) == IF r.pending = side THEN r.since ELSE Captured[f]

\* The fix ends the dwell of a candidate: the transition is confirmed.
Confirms(f, p, r) ==
    LET side == reading[f][p].side IN
    /\ r # NoRow
    /\ side \in Sides /\ side # r.side
    /\ Captured[f] - PendingSince(f, side, r) >= Dwell(side)

BaselineUnversioned(f, p) ==
    [version |-> 0, pending |-> "NONE", since |-> 0, last |-> f, side |-> reading[f][p].within]

Baseline(f, p) ==
    [version |-> 1, pending |-> "NONE", since |-> 0, last |-> f,
     side |-> IF reading[f][p].side = "AMBIGUOUS" THEN reading[f][p].within
              ELSE reading[f][p].side]

CandidateKeptOnAgreement(f, p, r) ==
    LET side == reading[f][p].side IN
    CASE side \in {"AMBIGUOUS", r.side} -> [side |-> r.pending, since |-> r.since]
      [] Confirms(f, p, r) -> [side |-> "NONE", since |-> 0]
      [] OTHER -> [side |-> side, since |-> PendingSince(f, side, r)]

\* The candidate side and its start after a fix: nothing moves it in the
\* ambiguous band, agreement and confirmation cancel it.
Candidate(f, p, r) ==
    LET side == reading[f][p].side IN
    CASE side = "AMBIGUOUS" -> [side |-> r.pending, since |-> r.since]
      [] side = r.side \/ Confirms(f, p, r) -> [side |-> "NONE", since |-> 0]
      [] OTHER -> [side |-> side, since |-> PendingSince(f, side, r)]

\* evaluateGeofence's nextState, with the version that put will give it.
NextRow(f, p, r) ==
    IF r = NoRow THEN Baseline(f, p)
    ELSE [version |-> r.version + 1,
          side    |-> IF Confirms(f, p, r) THEN reading[f][p].side ELSE r.side,
          pending |-> Candidate(f, p, r).side,
          since   |-> Candidate(f, p, r).since,
          last    |-> f]

WinsOnceThere(p, r) == r = NoRow => state[p] = NoRow

\* DynamoGeofenceStateStore.put's condition: still absent, or still the version read.
Wins(p, r) == state[p].version = r.version

-----------------------------------------------------------------------------
(* The queue of fixes, and one invocation of handler.ts.                    *)

\* location-ingestion publishes the event of a fix again, because a chunk of its
\* batch failed and the phone repeats the upload, or EventBridge does.
Republish(f) ==
    /\ f \notin evaluations /\ failures < MaxFailures
    /\ failures' = failures + 1
    /\ evaluations' = evaluations \cup {f}
    /\ UNCHANGED <<reading, state, geo, fixReceives, applied, crossings>>

\* A record is received and decrypted, which settles its reading, and the fences
\* are listed of the families the subject is visible within.
ReceiveFix(w, f) ==
    /\ geo[w] = IdleGeo /\ f \in evaluations /\ fixReceives < MaxFixReceives
    /\ IF reading[f] = None THEN \E o \in Readings[f] : reading' = [reading EXCEPT ![f] = o]
                            ELSE UNCHANGED reading
    /\ geo' = [geo EXCEPT ![w] = [IdleGeo EXCEPT
            !.at = "FENCE", !.fix = f, !.fences = IF sharing THEN Places ELSE {}]]
    /\ fixReceives' = fixReceives + 1
    /\ UNCHANGED <<evaluations, state, applied, crossings>>

\* state.get and evaluateGeofence: on to the write, unless the fix is ignored.
ReadRow(w, p) ==
    /\ geo[w].at = "FENCE" /\ p \in geo[w].fences
    /\ geo' = [geo EXCEPT ![w] = [geo[w] EXCEPT !.fences = @ \ {p},
            !.at = IF Ignored(geo[w].fix, p, state[p]) THEN "FENCE" ELSE "PUT",
            !.place = IF Ignored(geo[w].fix, p, state[p]) THEN None ELSE p,
            !.row = IF Ignored(geo[w].fix, p, state[p]) THEN NoRow ELSE state[p]]]
    /\ UNCHANGED <<reading, evaluations, state, fixReceives, applied, crossings>>

\* state.put, and the command of a transition that was written and is wanted.
PutRow(w) ==
    LET f == geo[w].fix
        p == geo[w].place
        r == geo[w].row
        kind == KindOf(reading[f][p].side)
        crossed == Wins(p, r) /\ Confirms(f, p, r) IN
    /\ geo[w].at = "PUT"
    /\ IF Wins(p, r)
       THEN /\ state' = [state EXCEPT ![p] = NextRow(f, p, r)]
            /\ applied' = [applied EXCEPT ![p] = Append(@, f)]
       ELSE UNCHANGED <<state, applied>>
    /\ IF crossed
       THEN crossings' = [crossings EXCEPT ![p] = Append(@, [kind |-> kind, place |-> p, fix |-> f])]
       ELSE UNCHANGED crossings
    /\ geo' = [geo EXCEPT ![w] = [geo[w] EXCEPT !.at = "FENCE", !.place = None, !.row = NoRow,
            !.commands = IF crossed /\ <<p, kind>> \in Wanted
                     THEN @ \cup {[kind |-> kind, place |-> p, fix |-> f]} ELSE @]]
    /\ UNCHANGED <<reading, evaluations, fixReceives>>

\* publishCommands, whose failure is swallowed (SendMessageBatch may also take
\* some entries and refuse others, and nobody looks), and the answer to SQS, which
\* acknowledges the record; or the invocation ends in between.
PublishAndReturn(w) ==
    /\ geo[w].at = "FENCE" /\ geo[w].fences = {}
    /\ \E sent \in SUBSET geo[w].commands : commands' = commands \cup sent
    /\ \/ evaluations' = evaluations \ {geo[w].fix} /\ UNCHANGED failures
       \/ failures < MaxFailures /\ failures' = failures + 1 /\ UNCHANGED evaluations
    /\ geo' = [geo EXCEPT ![w] = IdleGeo]
    /\ UNCHANGED <<reading, state, fixReceives, applied, crossings>>

\* A call throws and the record is answered as failed, or the invocation ends
\* before it answers: the record stays on the queue, the rows already written
\* stay written, the commands they gave rise to are gone.  A put that throws may
\* have been carried out, which is the same as PutRow followed by this.
FixFails(w) ==
    /\ geo[w].at # "IDLE" /\ failures < MaxFailures
    /\ failures' = failures + 1
    /\ geo' = [geo EXCEPT ![w] = IdleGeo]
    /\ UNCHANGED <<reading, evaluations, state, fixReceives, applied, crossings>>

GeofenceNext ==
    \/ /\ UNCHANGED <<commands, sharing, changes, failures>>
       /\ \E w \in GeofenceWorkers :
            \/ PutRow(w)
            \/ \E f \in Fixes : ReceiveFix(w, f)
            \/ \E p \in Places : ReadRow(w, p)
    \/ /\ UNCHANGED <<commands, sharing, changes>>
       /\ \/ \E f \in Fixes : Republish(f)
          \/ \E w \in GeofenceWorkers : FixFails(w)
    \/ UNCHANGED <<sharing, changes>> /\ \E w \in GeofenceWorkers : PublishAndReturn(w)

-----------------------------------------------------------------------------
GeofenceTypeOK ==
    /\ \A f \in Fixes : reading[f] \in Readings[f] \cup {None}
    /\ evaluations \subseteq Fixes
    /\ state \in [Places -> Rows]
    /\ geo \in [GeofenceWorkers -> Geos]
    /\ fixReceives \in 0..MaxFixReceives
    /\ \A p \in Places : /\ applied[p] \in Seq(Fixes)
                         /\ crossings[p] \in Seq(Command)

\* A fix that reads the other side between the candidate and its confirmation
\* must have cancelled the candidate.
Sees(f, p, kind) == KindOf(reading[f][p].side) = kind /\ reading[f][p].side # "AMBIGUOUS"
SeesOtherwise(f, p, kind) == KindOf(reading[f][p].side) # kind /\ reading[f][p].side # "AMBIGUOUS"

DwellOf(kind) == IF kind = "ARRIVAL" THEN ArrivalDwell ELSE DepartureDwell

\* Every transition the rows confirm was really dwelt through: among the fixes
\* the row took, some earlier one already showed the new side, the dwell lies
\* between the two, and none taken in between showed the other side or was
\* too inaccurate to count (geofence.ts; two invocations may interleave).
CrossingsAreReal ==
    \A p \in Places : \A n \in DOMAIN crossings[p] :
        LET c == crossings[p][n]
            took == applied[p] IN
        \E i, j \in DOMAIN took :
            /\ i < j /\ took[j] = c.fix
            /\ Sees(took[i], p, c.kind) /\ Sees(took[j], p, c.kind)
            /\ Captured[took[j]] - Captured[took[i]] >= DwellOf(c.kind)
            /\ \A k \in i..j : reading[took[k]][p].accurate /\ ~SeesOtherwise(took[k], p, c.kind)
=============================================================================
