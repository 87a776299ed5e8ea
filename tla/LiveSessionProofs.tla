------------------------- MODULE LiveSessionProofs -------------------------
(***************************************************************************)
(* LiveSession for every set of requesters, sessions and handlers, any      *)
(* window, any lag of the index and any number of dying sweeps: types, and  *)
(* that refusals, consent and mutes outlive every race.                     *)
(*                                                                          *)
(* The invariant says what a row means by its status (RowMakesSense), what  *)
(* a handler in flight may rely on (HandlerMakesSense), and ties the rows   *)
(* to what people were told (withdrawn, consent, muted).                    *)
(*                                                                          *)
(* At the end, what one handler at a time buys: the limit and the mute.     *)
(***************************************************************************)
EXTENDS LiveSession, FiniteSetTheorems, TLAPS

\* A row by its status: a session that was never accepted has no consent, an
\* active one began at its only accept, and a mute is a rejection that stays.
RowMakesSense(x, c) ==
    /\ x.started <= LastArrival
    /\ x.status \notin {"FREE", "REAPED"} => x.by \in Requesters
    /\ x.status \in {"FREE", "REQUESTED"} => c = 0 /\ x.mute = FALSE
    /\ x.status = "ACTIVE" => c = x.started /\ c # 0
    /\ x.mute = TRUE => x.status = "REJECTED" /\ x.expires = 0

\* A handler in flight: its time, and the row it is about.
HandlerMakesSense(h, rows) ==
    /\ h.at # "IDLE" => h.now \in 1..LastArrival
    /\ h.at \in {"LIST", "PUT"} => h.by \in Requesters
    /\ h.at \in {"EXPIRE", "WRITE"} => rows[h.on].status # "FREE"

IInv ==
    /\ TypeOK
    /\ clock # 0
    /\ \A s \in Sessions : RowMakesSense(session[s], consent[s])
    /\ \A r \in Requests : HandlerMakesSense(req[r], session)
    /\ \A s \in withdrawn : session[s].status \notin Open \cup {"FREE"}
    /\ \A q \in muted : \E s \in Sessions : session[s].by = q /\ session[s].mute = TRUE

-----------------------------------------------------------------------------
\* The constants, in the form the steps below cite.
LEMMA Constants ==
    /\ Sessions # {} /\ Cap \in Nat /\ Cap > 0 /\ LastArrival \in Nat /\ LastArrival > 0
    /\ Ticks = 0..(LastArrival + Cap) /\ LastTick = LastArrival + Cap
BY SessionConstants DEF Ticks, LastTick

\* The idle handler and the free row are well typed.
LEMMA DefaultsTyped == Idle \in Handlers /\ FreeRow \in Rows
<1>1. FreeRow \in Rows
  BY Constants DEF FreeRow, Rows, Parties
<1>2. (CHOOSE s \in Sessions : TRUE) \in Sessions
  BY Constants
<1> QED
  BY <1>1, <1>2, Constants DEF Idle, Handlers, Locations, Parties

LEMMA InitIInv == Init => IInv
<1> SUFFICES ASSUME Init PROVE IInv
  OBVIOUS
<1>1. TypeOK
  BY DefaultsTyped, Constants, SessionConstants DEF Init, TypeOK
<1>2. \A s \in Sessions : session[s] = FreeRow /\ consent[s] = 0
  BY DEF Init
<1>3. RowMakesSense(FreeRow, 0)
  BY Constants DEF RowMakesSense, FreeRow
<1>4. \A r \in Requests : req[r].at = "IDLE"
  BY DEF Init, Idle
<1>5. clock # 0 /\ withdrawn = {} /\ muted = {}
  BY DEF Init
<1> QED
  BY <1>1, <1>2, <1>3, <1>4, <1>5 DEF IInv, HandlerMakesSense

-----------------------------------------------------------------------------
\* A step that writes no row keeps the invariant when what it does to the
\* handlers and to the people told is right.
LEMMA QuietStep ==
    ASSUME IInv, UNCHANGED <<session, consent, muted>>, TypeOK', clock' # 0,
           \A r \in Requests : HandlerMakesSense(req'[r], session),
           \A s \in withdrawn' : session[s].status \notin Open \cup {"FREE"}
    PROVE  IInv'
BY DEF IInv

\* What a write must respect: the row's meaning, what people were told, and
\* the mutes.
LEMMA WritingStep ==
    ASSUME IInv, TypeOK', clock' = clock,
           NEW s \in Sessions, NEW x \in Rows, NEW c \in Ticks,
           session' = [session EXCEPT ![s] = x], consent' = [consent EXCEPT ![s] = c],
           RowMakesSense(x, c), x.status # "FREE",
           session[s].mute = TRUE => x.mute = TRUE /\ x.by = session[s].by,
           withdrawn' \subseteq withdrawn \cup {s}, s \in withdrawn' => x.status \notin Open,
           \A q \in muted' : q \in muted \/ (q = x.by /\ x.mute = TRUE),
           \A r \in Requests : HandlerMakesSense(req'[r], session)
    PROVE  IInv'
<1>1. \A t \in Sessions : /\ session'[t] = IF t = s THEN x ELSE session[t]
                          /\ consent'[t] = IF t = s THEN c ELSE consent[t]
  BY DEF IInv, TypeOK
<1>2. \A t \in Sessions : RowMakesSense(session'[t], consent'[t])
  BY <1>1 DEF IInv
<1>3. ASSUME NEW r \in Requests PROVE HandlerMakesSense(req'[r], session')
  <2>1. req'[r].on \in Sessions
    BY DEF TypeOK, Handlers
  <2> QED
    BY <1>1, <2>1 DEF HandlerMakesSense
<1>4. ASSUME NEW t \in withdrawn' PROVE session'[t].status \notin Open \cup {"FREE"}
  <2>1. t \in Sessions
    BY DEF TypeOK
  <2>2. CASE t = s
    BY <1>1, <2>1, <2>2
  <2>3. CASE t # s
    BY <1>1, <2>1, <2>3 DEF IInv
  <2> QED
    BY <2>2, <2>3
<1>5. ASSUME NEW q \in muted' PROVE \E t \in Sessions : session'[t].by = q /\ session'[t].mute = TRUE
  <2>1. CASE q \in muted
    <3>1. PICK t \in Sessions : session[t].by = q /\ session[t].mute = TRUE
      BY <2>1 DEF IInv
    <3> QED
      BY <1>1, <3>1
  <2>2. CASE q = x.by /\ x.mute = TRUE
    BY <1>1, <2>2
  <2> QED
    BY <2>1, <2>2
<1> QED
  BY <1>2, <1>3, <1>4, <1>5 DEF IInv

\* A handler that ends has nothing left to be wrong about.
LEMMA FinishIsSafe ==
    ASSUME IInv, NEW r \in Requests, Finish(r)
    PROVE  /\ req' \in [Requests -> Handlers]
           /\ \A v \in Requests : HandlerMakesSense(req'[v], session)
<1>1. req \in [Requests -> Handlers] /\ req' = [req EXCEPT ![r] = Idle]
  BY DEF IInv, TypeOK, Finish
<1>2. Idle.at = "IDLE"
  BY DEF Idle
<1>3. HandlerMakesSense(Idle, session)
  BY <1>2 DEF HandlerMakesSense
<1>4. \A v \in Requests : req'[v] = IF v = r THEN Idle ELSE req[v]
  BY <1>1
<1> QED
  BY <1>1, <1>3, <1>4, DefaultsTyped DEF IInv

\* A handler that moves on keeps its types and its meaning.
LEMMA MoveIsSafe ==
    ASSUME IInv, NEW r \in Requests, NEW h \in Handlers, req' = [req EXCEPT ![r] = h],
           HandlerMakesSense(h, session)
    PROVE  /\ req' \in [Requests -> Handlers]
           /\ \A v \in Requests : HandlerMakesSense(req'[v], session)
<1>1. req \in [Requests -> Handlers]
  BY DEF IInv, TypeOK
<1>2. \A v \in Requests : req'[v] = IF v = r THEN h ELSE req[v]
  BY <1>1
<1> QED
  BY <1>1, <1>2 DEF IInv

\* Every write keeps the tables' types.
LEMMA WriteTyped ==
    ASSUME IInv, NEW s \in Sessions, NEW x \in Rows, Write(s, x)
    PROVE  /\ session' = [session EXCEPT ![s] = x]
           /\ session' \in [Sessions -> Rows] /\ index' \in [Sessions -> Rows]
           /\ consent = [consent EXCEPT ![s] = consent[s]] /\ consent[s] \in Ticks
BY DEF IInv, TypeOK, Write

\* The deadline of a row is a tick.
LEMMA DeadlineTyped ==
    ASSUME NEW x \in Rows, x.started <= LastArrival
    PROVE  /\ Deadline(x) \in Ticks
           /\ Deadline(x) <= x.started + Cap
<1>1. x.started \in 0..(LastArrival + Cap) /\ x.expires \in 0..(LastArrival + Cap)
  BY Constants DEF Rows
<1> QED
  BY <1>1, Constants DEF Deadline

\* Closing an open row, whoever does it.
LEMMA CloseIsSafe ==
    ASSUME IInv, NEW s \in Sessions, NEW status \in {"EXPIRED", "STOPPED"},
           session[s].status \in Open, Write(s, [session[s] EXCEPT !.status = status]),
           UNCHANGED <<clock, crashes, consent, muted>>,
           sweep' \in [at : {"IDLE", "SCANNED", "EXPIRING"}, held : SUBSET (Sessions \X Ticks)],
           withdrawn' \subseteq withdrawn \cup {s}, req' \in [Requests -> Handlers],
           \A v \in Requests : HandlerMakesSense(req'[v], session)
    PROVE  IInv'
<1> DEFINE x == [session[s] EXCEPT !.status = status]
<1>1. session[s] \in Rows /\ RowMakesSense(session[s], consent[s]) /\ TypeOK
  BY DEF IInv, TypeOK
<1>2. /\ x \in Rows /\ x.status = status /\ x.by = session[s].by /\ x.mute = session[s].mute
      /\ x.started = session[s].started
  BY <1>1 DEF Rows, Closed
<1>3. x.mute # TRUE /\ x.status \notin Open /\ x.status # "FREE"
  BY <1>1, <1>2 DEF RowMakesSense, Open
<1>4. RowMakesSense(x, consent[s])
  BY <1>1, <1>2, <1>3 DEF RowMakesSense, Open
<1>5. /\ session' = [session EXCEPT ![s] = x] /\ consent' = [consent EXCEPT ![s] = consent[s]]
      /\ consent[s] \in Ticks
  BY <1>2, WriteTyped
<1>6. TypeOK'
  <2>1. withdrawn' \subseteq Sessions
    BY <1>1 DEF TypeOK
  <2> QED
    BY <1>1, <1>2, <2>1, WriteTyped DEF TypeOK
<1> QED
  BY <1>2, <1>3, <1>4, <1>5, <1>6, WritingStep

-----------------------------------------------------------------------------
THEOREM Inductive == IInv /\ [Next]_vars => IInv'
<1> SUFFICES ASSUME IInv, [Next]_vars PROVE IInv'
  OBVIOUS
<1>0. /\ TypeOK /\ clock \in Ticks /\ clock # 0
      /\ \A r \in Requests : req[r] \in Handlers /\ HandlerMakesSense(req[r], session)
      /\ \A s \in Sessions : session[s] \in Rows /\ RowMakesSense(session[s], consent[s])
      /\ \A s \in withdrawn : s \in Sessions /\ session[s].status \notin Open \cup {"FREE"}
  BY DEF IInv, TypeOK
<1>1. CASE Tick
  <2>1. clock' \in Ticks /\ clock' # 0
    BY <1>0, <1>1, Constants DEF Tick
  <2> QED
    BY <1>0, <1>1, <2>1, QuietStep DEF Tick, TypeOK
<1>2. ASSUME NEW r \in Requests, NEW op \in {"CREATE", "ACCEPT", "REJECT", "STOP"},
             NEW by \in Parties, NEW s \in Sessions, NEW span \in 0..Cap, NEW mute \in BOOLEAN,
             Arrive(r, op, by, s, span, mute)
      PROVE  IInv'
  <2> DEFINE h == [Idle EXCEPT !.at = IF op = "CREATE" THEN "LIST" ELSE "LOAD",
                               !.op = op, !.by = by, !.on = s, !.now = clock,
                               !.span = span, !.mute = mute]
  <2>1. h \in Handlers
    BY <1>0, DefaultsTyped DEF Handlers, Locations
  <2>2. h.at = (IF op = "CREATE" THEN "LIST" ELSE "LOAD") /\ h.by = by /\ h.now = clock
    BY DefaultsTyped DEF Handlers
  <2>3. clock \in 1..LastArrival /\ (op = "CREATE" => by \in Requesters)
    BY <1>0, <1>2, Constants DEF Arrive, Parties
  <2>4. HandlerMakesSense(h, session)
    BY <2>2, <2>3 DEF HandlerMakesSense
  <2>5. /\ req' = [req EXCEPT ![r] = h]
        /\ UNCHANGED <<clock, session, index, sweep, crashes, withdrawn, consent, muted>>
    BY <1>2 DEF Arrive
  <2>6. /\ req' \in [Requests -> Handlers]
        /\ \A v \in Requests : HandlerMakesSense(req'[v], session)
    BY <2>1, <2>4, <2>5, MoveIsSafe
  <2> QED
    BY <1>0, <2>5, <2>6, QuietStep DEF TypeOK
<1>3. ASSUME NEW r \in Requests, Abandon(r) PROVE IInv'
  <2>1. /\ req' \in [Requests -> Handlers]
        /\ \A v \in Requests : HandlerMakesSense(req'[v], session)
    BY <1>3, FinishIsSafe DEF Abandon
  <2> QED
    BY <1>0, <1>3, <2>1, QuietStep DEF Abandon, TypeOK
<1>4. ASSUME NEW r \in Requests, CheckHistory(r) PROVE IInv'
  <2> DEFINE h == [req[r] EXCEPT !.at = "PUT"]
  <2>1. h \in Handlers /\ h.at = "PUT" /\ h.by = req[r].by /\ h.now = req[r].now
    BY <1>0 DEF Handlers, Locations
  <2>2. req[r].at = "LIST"
    BY <1>4 DEF CheckHistory, At
  <2>3. HandlerMakesSense(h, session)
    BY <1>0, <2>1, <2>2 DEF HandlerMakesSense
  <2>4. /\ req' = [req EXCEPT ![r] = h]
        /\ UNCHANGED <<clock, session, index, sweep, crashes, withdrawn, consent, muted>>
    BY <1>0, <1>4 DEF CheckHistory, TypeOK
  <2>5. /\ req' \in [Requests -> Handlers]
        /\ \A v \in Requests : HandlerMakesSense(req'[v], session)
    BY <2>1, <2>3, <2>4, MoveIsSafe
  <2> QED
    BY <1>0, <2>4, <2>5, QuietStep DEF TypeOK
<1>5. ASSUME NEW r \in Requests, PutSession(r) PROVE IInv'
  <2> DEFINE h == req[r]
             s == h.on
             x == [status |-> "REQUESTED", by |-> h.by, started |-> h.now,
                   expires |-> h.now + Cap, asked |-> h.span, mute |-> FALSE]
  <2>1. /\ s \in Sessions /\ h.by \in Requesters /\ h.now \in 1..LastArrival /\ h.span \in 0..Cap
        /\ session[s].status = "FREE" /\ Write(s, x) /\ Finish(r)
        /\ UNCHANGED <<clock, sweep, crashes, withdrawn, consent, muted>>
    BY <1>0, <1>5 DEF PutSession, At, HandlerMakesSense, Handlers
  <2>2. x \in Rows
    <3>1. h.now \in Ticks /\ h.now + Cap \in Ticks
      BY <2>1, Constants
    <3> QED
      BY <2>1, <3>1 DEF Rows, Open, Parties
  <2>3. consent[s] = 0 /\ session[s].mute = FALSE /\ s \notin withdrawn
    BY <1>0, <2>1 DEF RowMakesSense
  <2>4. RowMakesSense(x, consent[s])
    BY <2>1, <2>3 DEF RowMakesSense
  <2>5. /\ req' \in [Requests -> Handlers]
        /\ \A v \in Requests : HandlerMakesSense(req'[v], session)
    BY <2>1, FinishIsSafe
  <2>6. TypeOK'
    BY <1>0, <2>1, <2>2, <2>5, WriteTyped DEF TypeOK
  <2>7. /\ session' = [session EXCEPT ![s] = x] /\ consent' = [consent EXCEPT ![s] = consent[s]]
        /\ consent[s] \in Ticks
    BY <2>1, <2>2, WriteTyped
  <2>8. /\ session[s].mute = TRUE => x.mute = TRUE /\ x.by = session[s].by
        /\ withdrawn' \subseteq withdrawn \cup {s} /\ (s \in withdrawn' => x.status \notin Open)
        /\ \A q \in muted' : q \in muted \/ (q = x.by /\ x.mute = TRUE)
        /\ x.status # "FREE"
    BY <2>1, <2>3
  <2> HIDE DEF x, s
  <2> QED
    BY <2>1, <2>2, <2>4, <2>5, <2>6, <2>7, <2>8, WritingStep
<1>6. ASSUME NEW r \in Requests, Load(r) PROVE IInv'
  <2> DEFINE h == req[r]
             x == session[h.on]
             g == [h EXCEPT !.at = IF Lapsed(x, h.now) THEN "EXPIRE" ELSE "WRITE", !.saw = x]
  <2>1. /\ h.on \in Sessions /\ x \in Rows /\ h \in Handlers /\ h.at = "LOAD"
        /\ x.status \notin {"FREE", "REAPED"}
        /\ UNCHANGED <<clock, session, index, sweep, crashes, consent, muted>>
    BY <1>0, <1>6 DEF Load, Handlers
  <2>2. CASE Finish(r) /\ x.status \in Closed /\ withdrawn' = withdrawn \cup {h.on}
    <3>1. /\ req' \in [Requests -> Handlers]
          /\ \A v \in Requests : HandlerMakesSense(req'[v], session)
      BY <2>2, FinishIsSafe
    <3>2. \A s \in withdrawn' : session[s].status \notin Open \cup {"FREE"}
      BY <1>0, <2>2 DEF Open, Closed
    <3>3. TypeOK'
      BY <1>0, <2>1, <2>2, <3>1 DEF TypeOK
    <3> QED
      BY <1>0, <2>1, <3>1, <3>2, <3>3, QuietStep
  <2>3. CASE req' = [req EXCEPT ![r] = g] /\ withdrawn' = withdrawn
    <3>1. /\ g \in Handlers /\ g.at \in {"EXPIRE", "WRITE"} /\ g.on = h.on /\ g.now = h.now
      BY <2>1 DEF Handlers, Locations
    <3>2. HandlerMakesSense(g, session)
      BY <1>0, <2>1, <3>1 DEF HandlerMakesSense
    <3>3. /\ req' \in [Requests -> Handlers]
          /\ \A v \in Requests : HandlerMakesSense(req'[v], session)
      BY <2>3, <3>1, <3>2, MoveIsSafe
    <3>4. TypeOK'
      BY <1>0, <2>1, <2>3, <3>3 DEF TypeOK
    <3> QED
      BY <1>0, <2>1, <2>3, <3>3, <3>4, QuietStep
  <2>4. \/ Finish(r) /\ x.status \in Closed /\ withdrawn' = withdrawn \cup {h.on}
        \/ req' = [req EXCEPT ![r] = g] /\ withdrawn' = withdrawn
    BY <1>0, <1>6 DEF Load, TypeOK
  <2> QED
    BY <2>2, <2>3, <2>4
<1>7. ASSUME NEW r \in Requests, ExpireOnRead(r) PROVE IInv'
  <2> DEFINE s == req[r].on
             x == [session[s] EXCEPT !.status = "EXPIRED"]
  <2>1. /\ s \in Sessions /\ session[s] \in Rows /\ session[s].status # "FREE" /\ Finish(r)
        /\ UNCHANGED <<clock, sweep, crashes, consent, muted>>
        /\ withdrawn' \subseteq withdrawn \cup {s}
    BY <1>0, <1>7 DEF ExpireOnRead, HandlerMakesSense, Handlers
  <2>2. /\ req' \in [Requests -> Handlers]
        /\ \A v \in Requests : HandlerMakesSense(req'[v], session)
    BY <2>1, FinishIsSafe
  <2>a. sweep' \in [at : {"IDLE", "SCANNED", "EXPIRING"}, held : SUBSET (Sessions \X Ticks)]
    BY <1>0, <2>1 DEF TypeOK
  <2>3. CASE Expirable(session[s]) /\ Write(s, x)
    <3>1. session[s].status \in Open
      BY <2>3 DEF Expirable
    <3> QED
      BY <1>0, <2>1, <2>2, <2>3, <2>a, <3>1, CloseIsSafe
  <2>4. CASE ~Expirable(session[s]) /\ UNCHANGED <<session, index>>
    <3>1. TypeOK'
      BY <1>0, <2>1, <2>2, <2>4 DEF TypeOK
    <3>2. \A t \in withdrawn' : session[t].status \notin Open \cup {"FREE"}
      BY <1>0, <2>1, <2>4 DEF Expirable
    <3> QED
      BY <1>0, <2>1, <2>2, <2>4, <3>1, <3>2, QuietStep
  <2> QED
    BY <1>7, <2>3, <2>4 DEF ExpireOnRead
<1>8. ASSUME NEW r \in Requests, Activate(r) PROVE IInv'
  <2> DEFINE h == req[r]
             s == h.on
             granted == IF h.span < h.saw.asked THEN h.span ELSE h.saw.asked
             x == [session[s] EXCEPT !.status = "ACTIVE", !.started = h.now,
                                     !.expires = h.now + granted]
             c == h.now
  <2>1. /\ s \in Sessions /\ session[s] \in Rows /\ h \in Handlers /\ h.now \in 1..LastArrival
        /\ session[s].status = "REQUESTED" /\ Write(s, x) /\ Finish(r)
        /\ UNCHANGED <<clock, sweep, crashes, withdrawn, muted>>
    BY <1>0, <1>8 DEF Activate, At, Acceptable, HandlerMakesSense, Handlers
  <2>2. consent[s] = 0 /\ session[s].mute = FALSE /\ session[s].by \in Requesters
        /\ s \notin withdrawn
    BY <1>0, <2>1 DEF RowMakesSense, Open
  <2>3. consent' = [consent EXCEPT ![s] = c] /\ c \in Ticks
    BY <1>8, <2>1, <2>2, Constants DEF Activate
  <2>4. /\ x \in Rows /\ x.status = "ACTIVE" /\ x.started = h.now /\ x.by = session[s].by
        /\ x.mute = FALSE
    <3>1. h.saw \in Rows /\ h.span \in 0..Cap
      BY <2>1 DEF Handlers
    <3>2. granted \in 0..Cap
      BY <3>1 DEF Rows
    <3>3. h.now + granted \in Ticks
      BY <2>1, <3>2, Constants
    <3> QED
      BY <2>1, <2>2, <2>3, <3>3 DEF Rows, Open
  <2>5. RowMakesSense(x, c)
    BY <2>1, <2>2, <2>4 DEF RowMakesSense
  <2>6. /\ req' \in [Requests -> Handlers]
        /\ \A v \in Requests : HandlerMakesSense(req'[v], session)
    BY <2>1, FinishIsSafe
  <2>7. session' = [session EXCEPT ![s] = x]
    BY <2>1, <2>4, WriteTyped
  <2>8. TypeOK'
    BY <1>0, <2>1, <2>3, <2>4, <2>6, WriteTyped DEF TypeOK
  <2> QED
    BY <2>1, <2>2, <2>3, <2>4, <2>5, <2>6, <2>7, <2>8, WritingStep
<1>9. ASSUME NEW r \in Requests, Reject(r) PROVE IInv'
  <2> DEFINE h == req[r]
             s == h.on
             x == Rejected(session[s], h.mute)
  <2>1. /\ s \in Sessions /\ session[s] \in Rows /\ h.mute \in BOOLEAN
        /\ session[s].status \in {"REQUESTED", "REJECTED"} /\ Write(s, x) /\ Finish(r)
        /\ UNCHANGED <<clock, sweep, crashes, consent>>
        /\ withdrawn' = withdrawn \cup {s}
        /\ muted' = IF h.mute THEN muted \cup {session[s].by} ELSE muted
    BY <1>0, <1>9 DEF Reject, At, Rejectable, Handlers
  <2>2. /\ x \in Rows /\ x.status = "REJECTED" /\ x.by = session[s].by
        /\ x.started = session[s].started
        /\ (session[s].mute = TRUE => x.mute = TRUE) /\ (h.mute = TRUE => x.mute = TRUE)
        /\ (x.mute = TRUE => h.mute = TRUE \/ session[s].mute = TRUE)
        /\ (h.mute = TRUE => x.expires = 0)
        /\ (h.mute = FALSE => x.expires = session[s].expires)
    <3>1. 0 \in Ticks
      BY Constants
    <3> QED
      BY <2>1, <3>1 DEF Rejected, Rows, Closed
  <2>3. session[s].by \in Requesters
    BY <1>0, <2>1 DEF RowMakesSense
  <2>4. RowMakesSense(x, consent[s])
    BY <1>0, <2>1, <2>2, <2>3 DEF RowMakesSense
  <2>5. /\ req' \in [Requests -> Handlers]
        /\ \A v \in Requests : HandlerMakesSense(req'[v], session)
    BY <2>1, FinishIsSafe
  <2>6. TypeOK'
    <3>1. withdrawn' \subseteq Sessions /\ muted' \subseteq Requesters
      BY <1>0, <2>1, <2>3 DEF TypeOK
    <3> QED
      BY <1>0, <2>1, <2>2, <2>5, <3>1, WriteTyped DEF TypeOK
  <2>7. /\ session' = [session EXCEPT ![s] = x] /\ consent' = [consent EXCEPT ![s] = consent[s]]
        /\ consent[s] \in Ticks
    BY <2>1, <2>2, WriteTyped
  <2>8. \A q \in muted' : q \in muted \/ (q = x.by /\ x.mute = TRUE)
    BY <2>1, <2>2
  <2>9. x.status \notin Open /\ x.status # "FREE"
    BY <2>2 DEF Open
  <2> QED
    BY <2>1, <2>2, <2>4, <2>5, <2>6, <2>7, <2>8, <2>9, WritingStep
<1>10. ASSUME NEW r \in Requests, Stop(r) PROVE IInv'
  <2> DEFINE s == req[r].on
             x == [session[s] EXCEPT !.status = "STOPPED"]
  <2>1. /\ s \in Sessions /\ session[s] \in Rows /\ session[s].status # "FREE" /\ Finish(r)
        /\ UNCHANGED <<clock, sweep, crashes, consent, muted>>
        /\ withdrawn' \subseteq withdrawn \cup {s}
    BY <1>0, <1>10 DEF Stop, At, HandlerMakesSense, Handlers
  <2>2. /\ req' \in [Requests -> Handlers]
        /\ \A v \in Requests : HandlerMakesSense(req'[v], session)
    BY <2>1, FinishIsSafe
  <2>a. sweep' \in [at : {"IDLE", "SCANNED", "EXPIRING"}, held : SUBSET (Sessions \X Ticks)]
    BY <1>0, <2>1 DEF TypeOK
  <2>3. CASE session[s].status \in Open /\ Write(s, x)
    BY <1>0, <2>1, <2>2, <2>3, <2>a, CloseIsSafe
  <2>4. CASE session[s].status \notin Open /\ UNCHANGED <<session, index>>
    <3>1. TypeOK'
      BY <1>0, <2>1, <2>2, <2>4 DEF TypeOK
    <3>2. \A t \in withdrawn' : session[t].status \notin Open \cup {"FREE"}
      BY <1>0, <2>1, <2>4
    <3> QED
      BY <1>0, <2>1, <2>2, <2>4, <3>1, <3>2, QuietStep
  <2> QED
    BY <1>10, <2>3, <2>4 DEF Stop
<1>11. CASE SweepScan
  <2>1. \A s \in Sessions : Deadline(session[s]) \in Ticks
    BY <1>0, DeadlineTyped DEF RowMakesSense
  <2>2. {<<s, Deadline(session[s])>> : s \in {t \in Sessions : SweepSelects(session[t])}}
           \subseteq Sessions \X Ticks
    BY <2>1
  <2>3. sweep' \in [at : {"IDLE", "SCANNED", "EXPIRING"}, held : SUBSET (Sessions \X Ticks)]
    BY <1>11, <2>2 DEF SweepScan
  <2> QED
    BY <1>0, <1>11, <2>3, QuietStep DEF SweepScan, TypeOK
<1>12. CASE SweepSelect
  <2>1. sweep' \in [at : {"IDLE", "SCANNED", "EXPIRING"}, held : SUBSET (Sessions \X Ticks)]
    BY <1>0, <1>12 DEF SweepSelect, TypeOK
  <2> QED
    BY <1>0, <1>12, <2>1, QuietStep DEF SweepSelect, TypeOK
<1>13. ASSUME NEW p \in sweep.held, SweepExpire(p) PROVE IInv'
  <2> DEFINE s == p[1]
             x == [session[s] EXCEPT !.status = "EXPIRED"]
  <2>1. /\ s \in Sessions /\ session[s] \in Rows
        /\ UNCHANGED <<clock, req, crashes, withdrawn, consent, muted>>
        /\ sweep' \in [at : {"IDLE", "SCANNED", "EXPIRING"}, held : SUBSET (Sessions \X Ticks)]
    BY <1>0, <1>13 DEF SweepExpire, TypeOK
  <2>2. /\ req' \in [Requests -> Handlers]
        /\ \A v \in Requests : HandlerMakesSense(req'[v], session)
    BY <1>0, <2>1 DEF TypeOK
  <2>3. CASE Expirable(session[s]) /\ Write(s, x)
    <3>1. session[s].status \in Open /\ withdrawn' \subseteq withdrawn \cup {s}
      BY <2>1, <2>3 DEF Expirable
    <3> QED
      BY <1>0, <2>1, <2>2, <2>3, <3>1, CloseIsSafe
  <2>4. CASE UNCHANGED <<session, index>>
    <3>1. TypeOK'
      BY <1>0, <2>1, <2>2, <2>4 DEF TypeOK
    <3> QED
      BY <1>0, <2>1, <2>2, <2>4, <3>1, QuietStep
  <2> QED
    BY <1>13, <2>3, <2>4 DEF SweepExpire
<1>14. CASE SweepDone \/ SweepDies
  <2>1. sweep' = [at |-> "IDLE", held |-> {}] /\ crashes' \in 0..SweepCrashes
        /\ UNCHANGED <<clock, session, index, req, withdrawn, consent, muted>>
    BY <1>0, <1>14, SessionConstants DEF SweepDone, SweepDies, TypeOK
  <2> QED
    BY <1>0, <2>1, QuietStep DEF TypeOK
<1>15. ASSUME NEW s \in Sessions, Reap(s) PROVE IInv'
  <2> DEFINE x == [session[s] EXCEPT !.status = "REAPED"]
  <2>1. /\ session[s] \in Rows /\ session[s].status \notin {"FREE", "REAPED"}
        /\ session[s].expires # 0 /\ Write(s, x)
        /\ UNCHANGED <<clock, req, sweep, crashes, withdrawn, consent, muted>>
    BY <1>0, <1>15 DEF Reap
  <2>2. session[s].mute = FALSE /\ session[s].started <= LastArrival
    BY <1>0, <2>1 DEF RowMakesSense, Rows
  <2>3. /\ x \in Rows /\ x.status = "REAPED" /\ x.mute = FALSE
        /\ x.started = session[s].started
    BY <2>1, <2>2 DEF Rows
  <2>4. RowMakesSense(x, consent[s])
    BY <2>2, <2>3 DEF RowMakesSense
  <2>5. /\ session' = [session EXCEPT ![s] = x] /\ consent' = [consent EXCEPT ![s] = consent[s]]
        /\ consent[s] \in Ticks
    BY <2>1, <2>3, WriteTyped
  <2>6. TypeOK'
    BY <1>0, <2>1, <2>3, WriteTyped DEF TypeOK
  <2>7. x.status \notin Open /\ x.status # "FREE"
    BY <2>3 DEF Open
  <2> QED
    BY <1>0, <2>1, <2>2, <2>3, <2>4, <2>5, <2>6, <2>7, WritingStep
<1>16. ASSUME NEW s \in Sessions, IndexCatchesUp(s) PROVE IInv'
  BY <1>0, <1>16, QuietStep DEF IndexCatchesUp, TypeOK
<1>17. CASE UNCHANGED vars
  BY <1>0, <1>17, QuietStep DEF vars, TypeOK
<1>18. ASSUME NEW r \in Requests, Handle(r) PROVE IInv'
  <2>1. 1..Cap \subseteq 0..Cap /\ 0 \in 0..Cap /\ Requesters \subseteq Parties /\ Target \in Parties
    BY Constants DEF Parties
  <2> QED
    BY <1>2, <1>3, <1>4, <1>5, <1>6, <1>7, <1>8, <1>9, <1>10, <1>18, <2>1 DEF Handle
<1> QED
  BY <1>1, <1>11, <1>12, <1>13, <1>14, <1>15, <1>16, <1>17, <1>18 DEF Next, SweepStep

-----------------------------------------------------------------------------
\* The invariant holds in every reachable state.
THEOREM Invariance == Spec => []IInv
<1> QED
  BY InitIInv, Inductive, PTL DEF Spec

\* Rows, handlers, the sweep and the histories keep their types.
THEOREM TypeCorrect == Spec => []TypeOK
<1>1. IInv => TypeOK
  BY DEF IInv
<1> QED
  BY <1>1, Invariance, PTL

\* A session somebody was told is over is never open again (the conditions of
\* activate and close in services/api, and of the sweep's expire).
THEOREM WithdrawalIsFinal == Spec => []WithdrawnStaysClosed
<1>1. IInv => WithdrawnStaysClosed
  BY DEF IInv, WithdrawnStaysClosed
<1> QED
  BY <1>1, Invariance, PTL

\* Nobody is watched who has not accepted, nor beyond the ceiling counted from
\* the accept (activate's condition, liveSessionDeadlineMs).
THEOREM WatchingNeedsConsent == Spec => []WatchedWithinConsent
<1>1. ASSUME IInv, NEW s \in Sessions, Watched(s)
      PROVE  consent[s] # 0 /\ clock < consent[s] + Cap
  <2>1. session[s] \in Rows /\ RowMakesSense(session[s], consent[s]) /\ clock \in Ticks
    BY <1>1 DEF IInv, TypeOK
  <2>2. session[s].status = "ACTIVE" /\ ~Lapsed(session[s], clock)
    BY <1>1 DEF Watched, Settled
  <2>3. consent[s] = session[s].started /\ consent[s] # 0 /\ session[s].started <= LastArrival
    BY <2>1, <2>2 DEF RowMakesSense
  <2>4. ~(Deadline(session[s]) <= clock)
    BY <2>2 DEF Lapsed, Open
  <2>5. Deadline(session[s]) \in Ticks /\ Deadline(session[s]) <= session[s].started + Cap
    BY <2>1, <2>3, DeadlineTyped, Constants
  <2>6. clock \in Ticks /\ session[s].started \in Ticks
    BY <2>1, Constants DEF Rows
  <2> QED
    BY <2>3, <2>4, <2>5, <2>6, Constants
<1>2. IInv => WatchedWithinConsent
  BY <1>1 DEF WatchedWithinConsent
<1> QED
  BY <1>2, Invariance, PTL

\* A mute outlives its session: TTL never takes the row that carries it (close
\* removes the row's expiresAt with the mute).
THEOREM MutesLast == Spec => []MuteIsKept
<1>1. ASSUME IInv, NEW q \in muted PROVE MutedBy(session, q)
  <2>1. PICK s \in Sessions : session[s].by = q /\ session[s].mute = TRUE
    BY <1>1 DEF IInv
  <2>2. session[s].status = "REJECTED"
    BY <1>1, <2>1 DEF IInv, RowMakesSense
  <2> QED
    BY <2>1, <2>2 DEF MutedBy
<1>2. IInv => MuteIsKept
  BY <1>1 DEF MuteIsKept
<1> QED
  BY <1>2, Invariance, PTL

\* Closing is final: whatever an accept, a stop, a rejection or the sweep had
\* read, its write leaves a closed session as it is (the `from` sets of close and
\* the conditions of activate and expire).
THEOREM ClosingIsFinal == Spec => ClosedIsFinal
<1> DEFINE Stays == \A s \in Sessions : session[s].status \in Closed
                       => session'[s].status \in {session[s].status, "REAPED"}
<1>1. IInv /\ [Next]_vars => [Stays]_vars
  <2> SUFFICES ASSUME IInv, Next PROVE Stays
    BY DEF vars
  <2>0. session \in [Sessions -> Rows] /\ \A r \in Requests : req[r].on \in Sessions
    BY DEF IInv, TypeOK, Handlers
  <2>1. ASSUME NEW s \in Sessions, NEW x, Write(s, x),
               session[s].status \in Closed => x.status \in {session[s].status, "REAPED"}
        PROVE  Stays
    BY <2>0, <2>1 DEF Write
  <2>2. CASE UNCHANGED session
    BY <2>2
  <2>3. ASSUME NEW r \in Requests, PutSession(r) PROVE Stays
    BY <2>0, <2>1, <2>3 DEF PutSession, Closed
  <2>4. ASSUME NEW r \in Requests, ExpireOnRead(r) PROVE Stays
    BY <2>0, <2>1, <2>2, <2>4 DEF ExpireOnRead, Expirable, Open, Closed
  <2>5. ASSUME NEW r \in Requests, Activate(r) PROVE Stays
    BY <2>0, <2>1, <2>5 DEF Activate, Acceptable, Closed
  <2>6. ASSUME NEW r \in Requests, Reject(r) PROVE Stays
    <3> DEFINE s == req[r].on
               x == Rejected(session[s], req[r].mute)
    <3>1. s \in Sessions /\ session[s] \in Rows /\ Write(s, x)
          /\ session[s].status \in {"REQUESTED", "REJECTED"}
      BY <2>0, <2>6 DEF Reject, Rejectable
    <3>2. x.status = "REJECTED"
      BY <3>1 DEF Rejected, Rows
    <3> QED
      BY <2>1, <3>1, <3>2 DEF Closed
  <2>7. ASSUME NEW r \in Requests, Stop(r) PROVE Stays
    BY <2>0, <2>1, <2>2, <2>7 DEF Stop, Open, Closed
  <2>8. ASSUME NEW p \in sweep.held, SweepExpire(p) PROVE Stays
    <3>1. p[1] \in Sessions
      BY <2>8 DEF IInv, TypeOK
    <3> QED
      BY <2>0, <2>1, <2>2, <2>8, <3>1 DEF SweepExpire, Expirable, Open, Closed
  <2>9. ASSUME NEW s \in Sessions, Reap(s) PROVE Stays
    <3> DEFINE x == [session[s] EXCEPT !.status = "REAPED"]
    <3>1. session[s] \in Rows /\ Write(s, x)
      BY <2>0, <2>9 DEF Reap
    <3>2. x.status = "REAPED"
      BY <3>1 DEF Rows
    <3> QED
      BY <2>1, <3>1, <3>2
  <2>10. ASSUME NEW r \in Requests, Handle(r) PROVE Stays
    BY <2>2, <2>3, <2>4, <2>5, <2>6, <2>7, <2>10
    DEF Handle, Arrive, Abandon, CheckHistory, Load
  <2> QED
    BY <2>2, <2>8, <2>9, <2>10
    DEF Next, Tick, SweepStep, SweepScan, SweepSelect, SweepDone, SweepDies, IndexCatchesUp
<1> QED
  BY <1>1, Invariance, PTL DEF Spec, ClosedIsFinal

-----------------------------------------------------------------------------
(* One handler at a time, and an index that keeps up: the two reads of POST *)
(* then tell the truth until its write, and the limit and the mute hold.    *)
(* With two handlers, or a lagging index, both can be broken.               *)

Alone == ~IndexLags /\ \A r, q \in Requests : r = q

Few(now) == IsFiniteSet(OpenAt(session, now)) /\ Cardinality(OpenAt(session, now)) <= MaxOpen

\* What the only handler relies on: at the time it took there was room, for
\* the session it creates (PUT) or counting the one it accepts (WRITE).
HandlerFits(h) ==
    h.at # "IDLE" =>
        /\ h.now <= clock
        /\ Few(h.now)
        /\ h.at = "PUT" => Cardinality(OpenAt(session, h.now)) < MaxOpen /\ h.by \notin muted
        /\ h.at = "WRITE" /\ h.op = "ACCEPT" /\ session[h.on].status \in Open
              => h.on \in OpenAt(session, h.now)

AloneInv ==
    /\ index = session
    /\ Few(clock)
    /\ \A r \in Requests : HandlerFits(req[r])

\* A part of few open sessions is few.
LEMMA PartIsFew ==
    ASSUME NEW A, NEW B, A \subseteq B, IsFiniteSet(B), Cardinality(B) <= MaxOpen
    PROVE  IsFiniteSet(A) /\ Cardinality(A) <= MaxOpen
<1>1. IsFiniteSet(A) /\ Cardinality(A) <= Cardinality(B)
  BY FS_Subset
<1>2. Cardinality(A) \in Nat /\ Cardinality(B) \in Nat
  BY <1>1, FS_CardinalityType
<1> QED
  BY <1>1, <1>2, SessionConstants

\* A row that is open once settled is open as stored.
LEMMA SettledOpenIsOpen ==
    ASSUME NEW x, NEW now, Settled(x, now) \in Open
    PROVE  x.status \in Open /\ Settled(x, now) = x.status /\ ~Lapsed(x, now)
BY DEF Settled, Lapsed, Open

\* As time passes fewer sessions are open.
LEMMA LaterIsFewer ==
    ASSUME IInv, NEW t1 \in Ticks, NEW t2 \in Ticks, t1 <= t2
    PROVE  OpenAt(session, t2) \subseteq OpenAt(session, t1)
<1> SUFFICES ASSUME NEW s \in Sessions, Settled(session[s], t2) \in Open
             PROVE  Settled(session[s], t1) \in Open
  BY DEF OpenAt
<1>1. session[s] \in Rows /\ session[s].started <= LastArrival
  BY DEF IInv, TypeOK, RowMakesSense
<1>2. Deadline(session[s]) \in Ticks
  BY <1>1, DeadlineTyped
<1>3. session[s].status \in Open /\ ~Lapsed(session[s], t2)
  BY SettledOpenIsOpen
<1>4. ~Lapsed(session[s], t1)
  BY <1>2, <1>3, Constants DEF Lapsed
<1> QED
  BY <1>3, <1>4 DEF Settled

\* Rows that are kept or closed leave no session open that was not.
LEMMA ClosingIsFewer ==
    ASSUME NEW old, NEW new, NEW now,
           \A s \in Sessions : new[s] = old[s] \/ new[s].status \notin Open
    PROVE  OpenAt(new, now) \subseteq OpenAt(old, now)
<1> SUFFICES ASSUME NEW s \in Sessions, Settled(new[s], now) \in Open
             PROVE  Settled(old[s], now) \in Open
  BY DEF OpenAt
<1>1. new[s].status \in Open
  BY SettledOpenIsOpen
<1> QED
  BY <1>1

\* A handler that is idle relies on nothing.
LEMMA FinishFits ==
    ASSUME IInv, Alone, NEW r \in Requests, Finish(r), NEW v \in Requests
    PROVE  req'[v].at = "IDLE"
BY DEF IInv, TypeOK, Finish, Idle, Alone

\* A step that keeps the rows or closes some, while time may pass, keeps the
\* invariant for every handler that stands where it stood.
LEMMA ShrinkingStep ==
    ASSUME IInv, IInv', AloneInv, index' = session', clock <= clock',
           \A s \in Sessions : session'[s] = session[s] \/ session'[s].status \notin Open,
           \A r \in Requests : req'[r] = req[r] \/ req'[r].at = "IDLE",
           muted' = muted \/ \A r \in Requests : req'[r].at = "IDLE"
    PROVE  AloneInv'
<1>0. clock \in Ticks /\ clock' \in Ticks
  BY DEF IInv, TypeOK
<1>1. \A now : OpenAt(session', now) \subseteq OpenAt(session, now)
  BY ClosingIsFewer
<1>2. Few(clock)'
  <2>1. OpenAt(session', clock') \subseteq OpenAt(session, clock)
    BY <1>0, <1>1, LaterIsFewer
  <2> QED
    BY <2>1, PartIsFew DEF AloneInv, Few
<1>3. ASSUME NEW r \in Requests, req'[r].at # "IDLE" PROVE HandlerFits(req[r])'
  <2> DEFINE h == req[r]
  <2>1. req'[r] = h /\ muted' = muted /\ HandlerFits(h) /\ h.at # "IDLE"
    BY <1>3 DEF AloneInv
  <2>2. h \in Handlers /\ h.now \in Ticks /\ h.on \in Sessions
    BY <2>1, Constants DEF IInv, TypeOK, Handlers, HandlerMakesSense
  <2>3. /\ h.now <= clock'
        /\ OpenAt(session', h.now) \subseteq OpenAt(session, h.now)
        /\ IsFiniteSet(OpenAt(session, h.now)) /\ Cardinality(OpenAt(session, h.now)) <= MaxOpen
    BY <1>0, <1>1, <2>1, <2>2, Constants DEF HandlerFits, Few
  <2>4. /\ IsFiniteSet(OpenAt(session', h.now)) /\ Cardinality(OpenAt(session', h.now)) <= MaxOpen
        /\ Cardinality(OpenAt(session', h.now)) <= Cardinality(OpenAt(session, h.now))
        /\ Cardinality(OpenAt(session', h.now)) \in Nat /\ Cardinality(OpenAt(session, h.now)) \in Nat
    BY <2>3, PartIsFew, FS_Subset, FS_CardinalityType
  <2>5. h.at = "PUT" => Cardinality(OpenAt(session', h.now)) < MaxOpen /\ h.by \notin muted'
    BY <2>1, <2>4, SessionConstants DEF HandlerFits
  <2>6. ASSUME h.at = "WRITE", h.op = "ACCEPT", session'[h.on].status \in Open
        PROVE  h.on \in OpenAt(session', h.now)
    <3>1. session'[h.on] = session[h.on]
      BY <2>2, <2>6
    <3>2. h.on \in OpenAt(session, h.now)
      BY <2>1, <2>6, <3>1 DEF HandlerFits
    <3> QED
      BY <3>1, <3>2 DEF OpenAt
  <2> HIDE DEF h
  <2>7. req[r]' = h
    BY <2>1
  <2> QED
    BY <2>1, <2>3, <2>4, <2>5, <2>6, <2>7 DEF HandlerFits, Few
<1>4. \A r \in Requests : HandlerFits(req[r])'
  BY <1>3 DEF HandlerFits
<1> QED
  BY <1>2, <1>4 DEF AloneInv

\* A write that opens a row the handler had counted, or had room for, leaves
\* no more open than the limit.
LEMMA OpeningStep ==
    ASSUME IInv, IInv', AloneInv, Alone, clock' = clock, index' = session',
           NEW r \in Requests, req[r].at # "IDLE", Finish(r),
           \A t \in Sessions \ {req[r].on} : session'[t] = session[t],
           \/ req[r].on \in OpenAt(session, req[r].now)
           \/ Cardinality(OpenAt(session, req[r].now)) < MaxOpen
    PROVE  AloneInv'
<1> DEFINE h == req[r]
           A == OpenAt(session, h.now)
<1>1. HandlerFits(h) /\ h \in Handlers /\ h.now \in Ticks /\ clock \in Ticks /\ h.on \in Sessions
  BY Constants DEF AloneInv, IInv, TypeOK, Handlers, HandlerMakesSense
<1>2. h.now <= clock /\ IsFiniteSet(A) /\ Cardinality(A) <= MaxOpen
  BY <1>1 DEF HandlerFits, Few
<1>3. OpenAt(session, clock) \subseteq A
  BY <1>1, <1>2, LaterIsFewer
<1>4. OpenAt(session', clock') \subseteq A \cup {h.on}
  BY <1>3 DEF OpenAt
<1>5. IsFiniteSet(A \cup {h.on}) /\ Cardinality(A \cup {h.on}) <= MaxOpen
  <2>1. Cardinality(A) \in Nat /\ MaxOpen \in Nat
    BY <1>2, FS_CardinalityType, SessionConstants
  <2>2. /\ IsFiniteSet(A \cup {h.on})
        /\ Cardinality(A \cup {h.on}) = IF h.on \in A THEN Cardinality(A) ELSE Cardinality(A) + 1
    BY <1>2, FS_AddElement
  <2>3. h.on \in A \/ Cardinality(A) < MaxOpen
    OBVIOUS
  <2> HIDE DEF A, h
  <2> QED
    BY <1>2, <2>1, <2>2, <2>3
<1>6. Few(clock)'
  BY <1>4, <1>5, PartIsFew DEF Few
<1>7. \A v \in Requests : HandlerFits(req[v])'
  BY FinishFits DEF HandlerFits
<1> QED
  BY <1>6, <1>7 DEF AloneInv

\* A handler that moves on, with every row and everybody's knowledge kept.
LEMMA MovingStep ==
    ASSUME IInv, AloneInv, Alone, NEW r \in Requests, NEW h,
           req' = [req EXCEPT ![r] = h], HandlerFits(h),
           UNCHANGED <<clock, session, index, muted>>
    PROVE  AloneInv'
<1>1. \A v \in Requests : req'[v] = h
  BY DEF IInv, TypeOK, Alone
<1>2. HandlerFits(h)'
  BY DEF HandlerFits, Few, OpenAt
<1>3. \A v \in Requests : HandlerFits(req[v])'
  BY <1>1, <1>2
<1>4. Few(clock)'
  BY DEF AloneInv, Few, OpenAt
<1> QED
  BY <1>3, <1>4 DEF AloneInv

LEMMA AloneInit == ASSUME Init PROVE AloneInv
<1>1. OpenAt(session, clock) = {}
  <2>1. \A s \in Sessions : Settled(session[s], clock) = "FREE"
    BY DEF Init, FreeRow, Settled, Lapsed, Open
  <2> QED
    BY <2>1 DEF OpenAt, Open
<1>2. Few(clock)
  BY <1>1, FS_EmptySet, SessionConstants DEF Few
<1>3. \A r \in Requests : req[r].at = "IDLE"
  BY DEF Init, Idle
<1> QED
  BY <1>2, <1>3 DEF Init, AloneInv, HandlerFits

\* An index that does not lag shows every write at once.
LEMMA WriteShows ==
    ASSUME IInv, AloneInv, Alone, NEW s \in Sessions, NEW x, Write(s, x)
    PROVE  /\ index' = session' /\ session'[s] = x
           /\ \A t \in Sessions \ {s} : session'[t] = session[t]
BY DEF IInv, TypeOK, AloneInv, Alone, Write

LEMMA AloneStep == ASSUME Alone, IInv, IInv', AloneInv, [Next]_vars PROVE AloneInv'
<1>0. /\ index = session /\ session \in [Sessions -> Rows] /\ clock \in Ticks
      /\ req \in [Requests -> Handlers]
      /\ \A r \in Requests : HandlerFits(req[r]) /\ req[r].on \in Sessions
  BY DEF AloneInv, IInv, TypeOK, Handlers
<1>1. CASE Tick
  <2>1. clock <= clock'
    BY <1>0, <1>1, Constants DEF Tick
  <2> QED
    BY <1>0, <1>1, <2>1, ShrinkingStep DEF Tick
<1>2. ASSUME NEW r \in Requests, NEW op, NEW by, NEW s \in Sessions, NEW span, NEW mute,
             Arrive(r, op, by, s, span, mute)
      PROVE  AloneInv'
  <2> DEFINE h == [Idle EXCEPT !.at = IF op = "CREATE" THEN "LIST" ELSE "LOAD",
                               !.op = op, !.by = by, !.on = s, !.now = clock,
                               !.span = span, !.mute = mute]
  <2>1. h.at \in {"LIST", "LOAD"} /\ h.now = clock
    BY DEF Idle
  <2>2. HandlerFits(h)
    BY <1>0, <2>1, Constants DEF HandlerFits, AloneInv
  <2>3. req' = [req EXCEPT ![r] = h] /\ UNCHANGED <<clock, session, index, muted>>
    BY <1>2 DEF Arrive
  <2> QED
    BY <2>2, <2>3, MovingStep
<1>3. ASSUME NEW r \in Requests, Abandon(r) PROVE AloneInv'
  <2>1. clock <= clock'
    BY <1>0, <1>3, Constants DEF Abandon
  <2> QED
    BY <1>0, <1>3, <2>1, FinishFits, ShrinkingStep DEF Abandon
<1>4. ASSUME NEW r \in Requests, CheckHistory(r) PROVE AloneInv'
  <2> DEFINE h == [req[r] EXCEPT !.at = "PUT"]
  <2>1. h.at = "PUT" /\ h.by = req[r].by /\ h.now = req[r].now /\ req[r].at = "LIST"
    BY <1>0, <1>4 DEF CheckHistory, At, Handlers
  <2>2. Cardinality(OpenAt(session, h.now)) < MaxOpen
    BY <1>0, <1>4, <2>1 DEF CheckHistory
  <2>3. h.by \notin muted
    <3>1. ~MutedBy(session, h.by)
      BY <1>0, <1>4, <2>1 DEF CheckHistory
    <3>2. \A q \in muted : MutedBy(session, q)
      <4>1. \A s \in Sessions : RowMakesSense(session[s], consent[s])
        BY DEF IInv
      <4>2. \A q \in muted : \E s \in Sessions : session[s].by = q /\ session[s].mute = TRUE
        BY DEF IInv
      <4> QED
        BY <4>1, <4>2 DEF RowMakesSense, MutedBy
    <3> QED
      BY <3>1, <3>2
  <2>4. HandlerFits(h)
    BY <1>0, <2>1, <2>2, <2>3 DEF HandlerFits
  <2>5. req' = [req EXCEPT ![r] = h] /\ UNCHANGED <<clock, session, index, muted>>
    BY <1>0, <1>4 DEF CheckHistory
  <2> QED
    BY <2>4, <2>5, MovingStep
<1>5. ASSUME NEW r \in Requests, PutSession(r) PROVE AloneInv'
  <2> DEFINE s == req[r].on
  <2>1. PICK x : Write(s, x)
    BY <1>5 DEF PutSession
  <2>2. /\ index' = session' /\ \A t \in Sessions \ {s} : session'[t] = session[t]
    BY <1>0, <2>1, WriteShows
  <2>3. Cardinality(OpenAt(session, req[r].now)) < MaxOpen
    BY <1>0, <1>5 DEF PutSession, At, HandlerFits
  <2> QED
    BY <1>5, <2>2, <2>3, OpeningStep DEF PutSession, At
<1>6. ASSUME NEW r \in Requests, Load(r) PROVE AloneInv'
  <2> DEFINE h == req[r]
             x == session[h.on]
             g == [h EXCEPT !.at = IF Lapsed(x, h.now) THEN "EXPIRE" ELSE "WRITE", !.saw = x]
  <2>1. h.at = "LOAD" /\ h \in Handlers /\ UNCHANGED <<clock, session, index, muted>>
    BY <1>0, <1>6 DEF Load
  <2>2. CASE Finish(r)
    <3>1. clock <= clock'
      BY <1>0, <2>1, Constants
    <3> QED
      BY <1>0, <2>1, <2>2, <3>1, FinishFits, ShrinkingStep
  <2>3. CASE req' = [req EXCEPT ![r] = g]
    <3>1. /\ g.at \in {"EXPIRE", "WRITE"} /\ g.on = h.on /\ g.now = h.now
          /\ g.at = "WRITE" => ~Lapsed(x, h.now)
      BY <2>1 DEF Handlers
    <3>2. g.at = "WRITE" /\ x.status \in Open => h.on \in OpenAt(session, h.now)
      BY <1>0, <3>1 DEF OpenAt, Settled
    <3>3. HandlerFits(g)
      BY <1>0, <2>1, <3>1, <3>2 DEF HandlerFits
    <3> QED
      BY <2>1, <2>3, <3>3, MovingStep
  <2> QED
    BY <1>0, <1>6, <2>2, <2>3 DEF Load
<1>7. ASSUME NEW r \in Requests, ExpireOnRead(r) \/ Reject(r) \/ Stop(r) PROVE AloneInv'
  <2> DEFINE s == req[r].on
  <2>1. s \in Sessions /\ session[s] \in Rows /\ Finish(r) /\ UNCHANGED clock
    BY <1>0, <1>7 DEF ExpireOnRead, Reject, Stop
  <2>2. \/ UNCHANGED <<session, index>>
        \/ \E x : Write(s, x) /\ x.status \notin Open
    <3>1. [session[s] EXCEPT !.status = "EXPIRED"].status \notin Open
      BY <2>1 DEF Rows, Open
    <3>2. [session[s] EXCEPT !.status = "STOPPED"].status \notin Open
      BY <2>1 DEF Rows, Open
    <3>3. Rejected(session[s], req[r].mute).status \notin Open
      BY <2>1 DEF Rows, Open, Rejected
    <3> QED
      BY <1>7, <3>1, <3>2, <3>3 DEF ExpireOnRead, Reject, Stop
  <2>3. /\ index' = session'
        /\ \A t \in Sessions : session'[t] = session[t] \/ session'[t].status \notin Open
    BY <1>0, <2>1, <2>2, WriteShows
  <2>4. clock <= clock' /\ \A v \in Requests : req'[v].at = "IDLE"
    BY <1>0, <2>1, FinishFits, Constants
  <2> QED
    BY <2>3, <2>4, ShrinkingStep
<1>8. ASSUME NEW r \in Requests, Activate(r) PROVE AloneInv'
  <2> DEFINE s == req[r].on
  <2>1. PICK x : Write(s, x)
    BY <1>8 DEF Activate
  <2>2. /\ index' = session' /\ \A t \in Sessions \ {s} : session'[t] = session[t]
    BY <1>0, <2>1, WriteShows
  <2>3. s \in OpenAt(session, req[r].now)
    BY <1>0, <1>8 DEF Activate, Acceptable, At, HandlerFits, Open
  <2> QED
    BY <1>8, <2>2, <2>3, OpeningStep DEF Activate, At
<1>9. CASE SweepScan \/ SweepSelect \/ SweepDone \/ SweepDies \/ UNCHANGED vars
  <2>1. UNCHANGED <<clock, session, index, req, muted>>
    BY <1>9 DEF SweepScan, SweepSelect, SweepDone, SweepDies, vars
  <2>2. clock <= clock'
    BY <1>0, <2>1, Constants
  <2> QED
    BY <1>0, <2>1, <2>2, ShrinkingStep
<1>10. ASSUME NEW s \in Sessions, NEW x, Write(s, x), x.status \notin Open,
              UNCHANGED <<clock, req, muted>>
       PROVE  AloneInv'
  <2>1. /\ index' = session'
        /\ \A t \in Sessions : session'[t] = session[t] \/ session'[t].status \notin Open
    BY <1>10, WriteShows
  <2>2. clock <= clock'
    BY <1>0, <1>10, Constants
  <2> QED
    BY <1>10, <2>1, <2>2, ShrinkingStep
<1>11. ASSUME NEW p \in sweep.held, SweepExpire(p) PROVE AloneInv'
  <2>1. p[1] \in Sessions /\ session[p[1]] \in Rows
    BY <1>0 DEF IInv, TypeOK
  <2>2. [session[p[1]] EXCEPT !.status = "EXPIRED"].status \notin Open
    BY <2>1 DEF Rows, Open
  <2>3. CASE UNCHANGED <<session, index>>
    <3>1. clock <= clock'
      BY <1>0, <1>11, Constants DEF SweepExpire
    <3> QED
      BY <1>0, <1>11, <2>3, <3>1, ShrinkingStep DEF SweepExpire
  <2> QED
    BY <1>10, <1>11, <2>1, <2>2, <2>3 DEF SweepExpire
<1>12. ASSUME NEW s \in Sessions, Reap(s) PROVE AloneInv'
  <2>1. [session[s] EXCEPT !.status = "REAPED"].status \notin Open
    BY <1>0 DEF Rows, Open
  <2> QED
    BY <1>10, <1>12, <2>1 DEF Reap
<1>13. ASSUME NEW s \in Sessions, IndexCatchesUp(s) PROVE AloneInv'
  BY <1>0, <1>13 DEF IndexCatchesUp
<1>14. ASSUME NEW r \in Requests, Handle(r) PROVE AloneInv'
  BY <1>2, <1>3, <1>4, <1>5, <1>6, <1>7, <1>8, <1>14 DEF Handle
<1> QED
  BY <1>1, <1>9, <1>11, <1>12, <1>13, <1>14 DEF Next, SweepStep

THEOREM AloneInvariance == ASSUME Alone PROVE Spec => []AloneInv
<1>1. Init => AloneInv
  BY AloneInit
<1>2. IInv /\ IInv' /\ AloneInv /\ [Next]_vars => AloneInv'
  BY AloneStep
<1> QED
  BY <1>1, <1>2, Invariance, PTL DEF Spec

\* limits.ts: at most MaxOpen sessions of a target are open, pending ones
\* included, when its requests come one at a time and the index keeps up.
THEOREM LimitIsKept == ASSUME Alone PROVE Spec => []AtMostMaxOpen
<1>1. AloneInv => AtMostMaxOpen
  BY DEF AloneInv, Few, OpenAt, AtMostMaxOpen
<1> QED
  BY <1>1, AloneInvariance, PTL

\* Under the same condition nobody who was muted asks again: the history check
\* of POST still holds at its put.
THEOREM MutedAskNoMore == ASSUME Alone PROVE Spec => MuteHonoured
<1> DEFINE Honours == \A s \in Sessions : session[s].status = "FREE" /\ session'[s].status # "FREE"
                         => session'[s].by \notin muted
<1>1. IInv /\ AloneInv /\ [Next]_vars => [Honours]_vars
  <2> SUFFICES ASSUME IInv, AloneInv, Next PROVE Honours
    BY DEF vars
  <2>0. /\ session \in [Sessions -> Rows]
        /\ \A r \in Requests : req[r].on \in Sessions /\ HandlerMakesSense(req[r], session)
                               /\ HandlerFits(req[r])
    BY DEF IInv, AloneInv, TypeOK, Handlers
  <2>1. ASSUME NEW s \in Sessions, NEW x, Write(s, x),
               session[s].status = "FREE" => x.by \notin muted
        PROVE  Honours
    BY <2>0, <2>1 DEF Write
  <2>2. CASE UNCHANGED session
    BY <2>2
  <2>3. ASSUME NEW r \in Requests, PutSession(r) PROVE Honours
    <3> DEFINE h == req[r]
               x == [status |-> "REQUESTED", by |-> h.by, started |-> h.now,
                     expires |-> h.now + Cap, asked |-> h.span, mute |-> FALSE]
    <3>1. h.on \in Sessions /\ Write(h.on, x) /\ x.by \notin muted
      BY <2>0, <2>3 DEF PutSession, At, HandlerFits
    <3> QED
      BY <2>1, <3>1
  <2>4. ASSUME NEW r \in Requests, ExpireOnRead(r) \/ Activate(r) \/ Reject(r) \/ Stop(r)
        PROVE  Honours
    <3>1. req[r].on \in Sessions /\ session[req[r].on].status # "FREE"
      BY <2>0, <2>4 DEF ExpireOnRead, Activate, Reject, Stop, At, HandlerMakesSense
    <3> QED
      BY <2>1, <2>2, <2>4, <3>1 DEF ExpireOnRead, Activate, Reject, Stop
  <2>5. ASSUME NEW p \in sweep.held, SweepExpire(p) PROVE Honours
    <3>1. p[1] \in Sessions
      BY <2>5 DEF IInv, TypeOK
    <3> QED
      BY <2>1, <2>2, <2>5, <3>1 DEF SweepExpire, Expirable, Open
  <2>6. ASSUME NEW s \in Sessions, Reap(s) PROVE Honours
    BY <2>1, <2>6 DEF Reap
  <2>7. ASSUME NEW r \in Requests, Handle(r) PROVE Honours
    BY <2>2, <2>3, <2>4, <2>7 DEF Handle, Arrive, Abandon, CheckHistory, Load
  <2> QED
    BY <2>2, <2>5, <2>6, <2>7
    DEF Next, Tick, SweepStep, SweepScan, SweepSelect, SweepDone, SweepDies, IndexCatchesUp
<1> QED
  BY <1>1, Invariance, AloneInvariance, PTL DEF Spec, MuteHonoured
=============================================================================
