---------------------------- MODULE LiveSession ----------------------------
(***************************************************************************)
(* The live sessions of one target: services/api's request, accept, reject *)
(* and stop handlers, the scheduled expiry sweep, and the table's TTL.      *)
(*                                                                          *)
(* A handler takes the time once, when its request arrives, then reads and  *)
(* writes later.  Time is a counter of ticks.  Abstracted: what refuses a   *)
(* request before it touches the sessions (membership, sharing, visibility, *)
(* entitlement and validation all just end it: Abandon), audit records, and *)
(* the sub-second rounding of expiresAt, which only shortens a window.      *)
(***************************************************************************)
EXTENDS Naturals, FiniteSets

CONSTANTS
    Requesters,   \* members who may ask to watch the target
    Sessions,     \* BOUND: session ids a behaviour can create
    Requests,     \* handlers that can be in flight at the same time
    Cap,          \* MAX_LIVE_SESSION_SECONDS, in ticks
    MaxOpen,      \* MAX_CONCURRENT_LIVE_SESSIONS_PER_TARGET
    LastArrival,  \* BOUND: requests arrive up to this tick
    IndexLags,    \* whether the byTarget index may trail the table
    SweepCrashes  \* BOUND: sweeps that die half way

ASSUME SessionConstants ==
    /\ Sessions # {}
    /\ Cap \in Nat \ {0} /\ MaxOpen \in Nat \ {0} /\ LastArrival \in Nat \ {0}
    /\ IndexLags \in BOOLEAN /\ SweepCrashes \in Nat

Target == "target"
Parties == Requesters \cup {Target}
Open == {"REQUESTED", "ACTIVE"}
Closed == {"REJECTED", "STOPPED", "EXPIRED"}
Ticks == 0..(LastArrival + Cap)
LastTick == LastArrival + Cap

(* One row.  FREE: not created yet; REAPED: deleted by the table's TTL.     *)
(* expires = 0 is an absent expiresAt attribute, which TTL ignores.         *)
Rows == [status : Open \cup Closed \cup {"FREE", "REAPED"}, by : Parties,
         started : Ticks, expires : Ticks, asked : 0..Cap, mute : BOOLEAN]
FreeRow == [status |-> "FREE", by |-> Target, started |-> 0, expires |-> 0,
            asked |-> 0, mute |-> FALSE]

VARIABLES
    clock,      \* the tick it is
    session,    \* the LiveSessions table: [Sessions -> Rows]
    index,      \* what the byTarget index answers: [Sessions -> Rows]
    req,        \* handlers in flight
    sweep,      \* the maintenance job: where it is and what it still holds
    crashes,    \* sweeps that died so far
    withdrawn,  \* history: sessions somebody was told are over
    consent,    \* history: tick of the target's first accept (0: none)
    muted       \* history: requesters the target muted

vars == <<clock, session, index, req, sweep, crashes, withdrawn, consent, muted>>

Locations == {"IDLE", "LIST", "PUT", "LOAD", "EXPIRE", "WRITE"}
Handlers == [at : Locations, op : {"CREATE", "ACCEPT", "REJECT", "STOP"}, by : Parties,
             on : Sessions, now : Ticks, span : 0..Cap, mute : BOOLEAN, saw : Rows]
Idle == [at |-> "IDLE", op |-> "CREATE", by |-> Target, on |-> CHOOSE s \in Sessions : TRUE,
         now |-> 0, span |-> 0, mute |-> FALSE, saw |-> FreeRow]

-----------------------------------------------------------------------------
\* liveSessionDeadlineMs: the platform ceiling wins over the stored deadline.
Deadline(x) ==
    LET ceiling == x.started + Cap IN
    IF x.expires # 0 /\ x.expires < ceiling THEN x.expires ELSE ceiling

\* settleLiveSession: an open row past its deadline is answered as EXPIRED.
Lapsed(x, now) == x.status \in Open /\ Deadline(x) <= now
Settled(x, now) == IF Lapsed(x, now) THEN "EXPIRED" ELSE x.status

\* The session raises the target's update rate for somebody right now.
Watched(s) == Settled(session[s], clock) = "ACTIVE"

AcceptableWhileOpen(x) == x.status \in Open

AcceptableWhenPresent(x) == x.status \notin {"FREE", "REAPED"}

\* activate's condition: only a session waiting for an answer is accepted.
Acceptable(x) == x.status = "REQUESTED"

\* close's `from` set of a rejection: a refusal may be repeated.
Rejectable(x) == x.status \in {"REQUESTED", "REJECTED"}

RejectedPushingTTL(x, mute) ==
    [x EXCEPT !.status = "REJECTED", !.mute = @ \/ mute,
              !.expires = IF mute THEN @ + LastTick ELSE @]

RejectedKeepingTTL(x, mute) == [x EXCEPT !.status = "REJECTED", !.mute = @ \/ mute]

\* close with muteFutureRequests: the mute's row loses its TTL attribute.
Rejected(x, mute) ==
    [x EXCEPT !.status = "REJECTED",
              !.mute = @ \/ mute,
              !.expires = IF mute THEN 0 ELSE @]

ExpirableUnlessReaped(x) == x.status \notin {"FREE", "REAPED"}

\* The condition of the sweep's update and of settleOrExpire's close.
Expirable(x) == x.status \in Open

SweepSelectsActive(x) == x.status = "ACTIVE"

\* scanOpen's filter.
SweepSelects(x) == x.status \in Open

MutedWhileOpen(rows, q) == \E s \in Sessions : rows[s].by = q /\ rows[s].mute /\ rows[s].status \in Open

\* The history check of POST: has the target muted this requester?
MutedBy(rows, q) == \E s \in Sessions : rows[s].by = q /\ rows[s].mute /\ rows[s].status # "REAPED"

ActiveAt(rows, now) == {s \in Sessions : Settled(rows[s], now) = "ACTIVE"}

\* The history check of POST: sessions that are open once settled.
OpenAt(rows, now) == {s \in Sessions : Settled(rows[s], now) \in Open}

-----------------------------------------------------------------------------
Init ==
    /\ clock = 1
    /\ session = [s \in Sessions |-> FreeRow]
    /\ index = [s \in Sessions |-> FreeRow]
    /\ req = [r \in Requests |-> Idle]
    /\ sweep = [at |-> "IDLE", held |-> {}]
    /\ crashes = 0
    /\ withdrawn = {}
    /\ consent = [s \in Sessions |-> 0]
    /\ muted = {}

Write(s, x) ==
    /\ session' = [session EXCEPT ![s] = x]
    /\ index' = IF IndexLags THEN index ELSE [index EXCEPT ![s] = x]

Finish(r) == req' = [req EXCEPT ![r] = Idle]

At(r, location, op) == req[r].at = location /\ req[r].op = op

Tick ==
    /\ clock < LastTick
    /\ clock' = clock + 1
    /\ UNCHANGED <<session, index, req, sweep, crashes, withdrawn, consent, muted>>

\* A request arrives and takes the time.  Creating names no session yet; only
\* the target answers, and either party of the session may stop it.
Arrive(r, op, by, s, span, mute) ==
    /\ req[r].at = "IDLE"
    /\ clock <= LastArrival
    /\ op = "CREATE" <=> session[s].status = "FREE"
    /\ op = "CREATE" => by # Target
    /\ op \in {"ACCEPT", "REJECT"} => by = Target
    /\ op = "STOP" => by \in {Target, session[s].by}
    /\ req' = [req EXCEPT ![r] = [Idle EXCEPT !.at = IF op = "CREATE" THEN "LIST" ELSE "LOAD",
                                  !.op = op, !.by = by, !.on = s, !.now = clock,
                                  !.span = span, !.mute = mute]]
    /\ UNCHANGED <<clock, session, index, sweep, crashes, withdrawn, consent, muted>>

\* The handler ends without a further write: refused, answered "already
\* answered" (the write's condition failed), or dead.
Abandon(r) ==
    /\ req[r].at # "IDLE"
    /\ Finish(r)
    /\ UNCHANGED <<clock, session, index, sweep, crashes, withdrawn, consent, muted>>

-----------------------------------------------------------------------------
(* POST /v1/live-sessions                                                   *)

\* listForTarget, then the mute and the concurrency checks.
CheckHistory(r) ==
    /\ At(r, "LIST", "CREATE")
    /\ ~MutedBy(index, req[r].by)
    /\ Cardinality(OpenAt(index, req[r].now)) < MaxOpen
    /\ req' = [req EXCEPT ![r].at = "PUT"]
    /\ UNCHANGED <<clock, session, index, sweep, crashes, withdrawn, consent, muted>>

\* create: a fresh id, waiting for an answer until the ceiling.
PutSession(r) ==
    LET h == req[r] IN
    /\ At(r, "PUT", "CREATE")
    /\ session[h.on].status = "FREE"
    /\ Write(h.on, [status |-> "REQUESTED", by |-> h.by, started |-> h.now,
                    expires |-> h.now + Cap, asked |-> h.span, mute |-> FALSE])
    /\ Finish(r)
    /\ UNCHANGED <<clock, sweep, crashes, withdrawn, consent, muted>>

-----------------------------------------------------------------------------
(* POST .../accept, .../reject and .../stop share the load and the expiry.  *)

\* loadSession and settleLiveSession: a lapsed row is first closed.  A session
\* that is not waiting cannot be accepted; a stop of one that is over is
\* answered as done at once.
Load(r) ==
    LET h == req[r]
        x == session[h.on]
        lapsed == Lapsed(x, h.now) IN
    /\ h.at = "LOAD"
    /\ x.status \notin {"FREE", "REAPED"}
    /\ h.op = "ACCEPT" => lapsed \/ x.status = "REQUESTED"
    /\ h.op = "REJECT" => x.status # "EXPIRED"
    /\ IF h.op = "STOP" /\ x.status \in Closed
       THEN Finish(r) /\ withdrawn' = withdrawn \cup {h.on}
       ELSE /\ req' = [req EXCEPT ![r].at = IF lapsed THEN "EXPIRE" ELSE "WRITE",
                                  ![r].saw = x]
            /\ UNCHANGED withdrawn
    /\ UNCHANGED <<clock, session, index, sweep, crashes, consent, muted>>

\* settleOrExpire's close, and the answer: EXPIRED, or "it is stopped".
ExpireOnRead(r) ==
    LET s == req[r].on
        x == session[s] IN
    /\ req[r].at = "EXPIRE"
    /\ IF Expirable(x) THEN Write(s, [x EXCEPT !.status = "EXPIRED"])
       ELSE UNCHANGED <<session, index>>
    /\ withdrawn' = IF req[r].op = "STOP" THEN withdrawn \cup {s} ELSE withdrawn
    /\ Finish(r)
    /\ UNCHANGED <<clock, sweep, crashes, consent, muted>>

\* activate: the window runs from the tick of consent, and is never longer
\* than was asked for.
Activate(r) ==
    LET h == req[r]
        x == session[h.on]
        granted == IF h.span < h.saw.asked THEN h.span ELSE h.saw.asked IN
    /\ At(r, "WRITE", "ACCEPT")
    /\ Acceptable(x)
    /\ Write(h.on, [x EXCEPT !.status = "ACTIVE", !.started = h.now,
                             !.expires = h.now + granted])
    /\ consent' = IF consent[h.on] = 0 THEN [consent EXCEPT ![h.on] = h.now] ELSE consent
    /\ Finish(r)
    /\ UNCHANGED <<clock, sweep, crashes, withdrawn, muted>>

Reject(r) ==
    LET h == req[r]
        x == session[h.on] IN
    /\ At(r, "WRITE", "REJECT")
    /\ Rejectable(x)
    /\ Write(h.on, Rejected(x, h.mute))
    /\ withdrawn' = withdrawn \cup {h.on}
    /\ muted' = IF h.mute THEN muted \cup {x.by} ELSE muted
    /\ Finish(r)
    /\ UNCHANGED <<clock, sweep, crashes, consent>>

\* Losing the race with another close is answered as a success too.
Stop(r) ==
    LET s == req[r].on
        x == session[s] IN
    /\ At(r, "WRITE", "STOP")
    /\ x.status # "REAPED"
    /\ IF x.status \in Open THEN Write(s, [x EXCEPT !.status = "STOPPED"])
       ELSE UNCHANGED <<session, index>>
    /\ withdrawn' = withdrawn \cup {s}
    /\ Finish(r)
    /\ UNCHANGED <<clock, sweep, crashes, consent, muted>>

-----------------------------------------------------------------------------
(* scheduled-maintenance: expireLiveSessions.                               *)

\* scanOpen: the deadlines of the open rows, as the scan saw them.
SweepScan ==
    /\ sweep.at = "IDLE"
    /\ sweep' = [at |-> "SCANNED",
                 held |-> {<<s, Deadline(session[s])>> :
                               s \in {x \in Sessions : SweepSelects(session[x])}}]
    /\ UNCHANGED <<clock, session, index, req, crashes, withdrawn, consent, muted>>

\* The job takes the time after the scan and keeps what has lapsed.
SweepSelect ==
    /\ sweep.at = "SCANNED"
    /\ sweep' = [at |-> "EXPIRING", held |-> {p \in sweep.held : p[2] <= clock}]
    /\ UNCHANGED <<clock, session, index, req, crashes, withdrawn, consent, muted>>

\* One conditional update; a row closed in the meantime is left as it is.
SweepExpire(p) ==
    LET s == p[1]
        x == session[s] IN
    /\ sweep.at = "EXPIRING" /\ p \in sweep.held
    /\ sweep' = [sweep EXCEPT !.held = @ \ {p}]
    /\ IF Expirable(x) THEN Write(s, [x EXCEPT !.status = "EXPIRED"])
       ELSE UNCHANGED <<session, index>>
    /\ UNCHANGED <<clock, req, crashes, withdrawn, consent, muted>>

SweepDone ==
    /\ sweep.at = "EXPIRING" /\ sweep.held = {}
    /\ sweep' = [at |-> "IDLE", held |-> {}]
    /\ UNCHANGED <<clock, session, index, req, crashes, withdrawn, consent, muted>>

\* The job dies; the schedule starts another.
SweepDies ==
    /\ sweep.at # "IDLE" /\ crashes < SweepCrashes
    /\ crashes' = crashes + 1
    /\ sweep' = [at |-> "IDLE", held |-> {}]
    /\ UNCHANGED <<clock, session, index, req, withdrawn, consent, muted>>

\* DynamoDB deletes a row some time after its TTL attribute has passed.
Reap(s) ==
    /\ session[s].status \notin {"FREE", "REAPED"}
    /\ session[s].expires # 0 /\ session[s].expires <= clock
    /\ Write(s, [session[s] EXCEPT !.status = "REAPED"])
    /\ UNCHANGED <<clock, req, sweep, crashes, withdrawn, consent, muted>>

\* DynamoDB propagates a row to the byTarget index, some time later.
IndexCatchesUp(s) ==
    /\ index[s] # session[s]
    /\ index' = [index EXCEPT ![s] = session[s]]
    /\ UNCHANGED <<clock, session, req, sweep, crashes, withdrawn, consent, muted>>

-----------------------------------------------------------------------------
SweepStep == SweepScan \/ SweepSelect \/ SweepDone \/ \E p \in sweep.held : SweepExpire(p)

Handle(r) ==
    \/ \E by \in Requesters, s \in Sessions, span \in 1..Cap :
          Arrive(r, "CREATE", by, s, span, FALSE)
    \/ \E s \in Sessions, span \in 1..Cap : Arrive(r, "ACCEPT", Target, s, span, FALSE)
    \/ \E s \in Sessions, mute \in BOOLEAN : Arrive(r, "REJECT", Target, s, 0, mute)
    \/ \E s \in Sessions, by \in Parties : Arrive(r, "STOP", by, s, 0, FALSE)
    \/ Abandon(r)
    \/ CheckHistory(r)
    \/ PutSession(r)
    \/ Load(r)
    \/ ExpireOnRead(r)
    \/ Activate(r)
    \/ Reject(r)
    \/ Stop(r)

Next ==
    \/ Tick
    \/ \E r \in Requests : Handle(r)
    \/ SweepStep
    \/ SweepDies
    \/ \E s \in Sessions : Reap(s) \/ IndexCatchesUp(s)

Spec == Init /\ [][Next]_vars

\* Time passes, and the scheduler keeps running the maintenance job.
Fairness == WF_vars(Tick) /\ WF_vars(SweepStep)

FairSpec == Spec /\ Fairness

-----------------------------------------------------------------------------
(* Properties.                                                              *)

\* Rows, handlers, the sweep and the histories keep their types.
TypeOK ==
    /\ clock \in Ticks
    /\ session \in [Sessions -> Rows]
    /\ index \in [Sessions -> Rows]
    /\ req \in [Requests -> Handlers]
    /\ sweep \in [at : {"IDLE", "SCANNED", "EXPIRING"}, held : SUBSET (Sessions \X Ticks)]
    /\ crashes \in 0..SweepCrashes
    /\ withdrawn \subseteq Sessions
    /\ consent \in [Sessions -> Ticks]
    /\ muted \subseteq Requesters

\* Once anybody was told a session is rejected or stopped, no slower accept, no
\* retry and no sweep makes it open again.
WithdrawnStaysClosed == \A s \in withdrawn : session[s].status \notin Open

\* Nobody is watched without having accepted, nor for longer after the first
\* accept than the ceiling, whatever replayed or concurrent accepts do.
WatchedWithinConsent ==
    \A s \in Sessions : Watched(s) => consent[s] # 0 /\ clock < consent[s] + Cap

\* A session the target rejected or a party stopped is left exactly as they
\* left it (the comment on the sweep's condition): closing is final.
ClosedIsFinal ==
    [][\A s \in Sessions : session[s].status \in Closed
          => session'[s].status \in {session[s].status, "REAPED"}]_vars

\* A mute outlives the session it came with: its row is never reaped.
MuteIsKept == \A q \in muted : MutedBy(session, q)

\* limits.ts: "A given target may be observed by at most one live session at a
\* time" (counting pending requests, as the handler does).
AtMostMaxOpen ==
    Cardinality({s \in Sessions : Settled(session[s], clock) \in Open}) <= MaxOpen

\* A mute is a standing decision: no request of a muted person is created.
MuteHonoured ==
    [][\A s \in Sessions : session[s].status = "FREE" /\ session'[s].status # "FREE"
          => session'[s].by \notin muted]_vars

\* Whatever the parties do, every open session is closed in the end.
EveryOpenSessionEnds ==
    \A s \in Sessions : session[s].status \in Open ~> session[s].status \notin Open
=============================================================================
