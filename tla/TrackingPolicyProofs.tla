------------------------ MODULE TrackingPolicyProofs ------------------------
(* The properties of TrackingPolicy, for every set of inputs and every limit. *)
EXTENDS TrackingPolicy, TLAPS

\* What holds of the context between two events: the clock is the newest stamp,
\* the state is what the ladder says, the start of tracking is known exactly
\* while it is permitted, a session is within its limits, and the staleness
\* clock started when the phone was last heard from.
SessionFits(c) ==
    c.session # NoSession =>
        /\ c.session.start <= c.now
        /\ c.now < c.session.expires
        /\ c.session.expires <= c.session.start + MaxLive

Settled ==
    /\ ctx.now = newest
    /\ ctx.state = Ladder(ctx)
    /\ Permitted(ctx) <=> ctx.enabledAt # None
    /\ ctx.session # NoSession => Permitted(ctx) /\ EffectiveTier(ctx) # "CRITICAL"
    /\ SessionFits(ctx)
    /\ ctx.lastFix # None => heard = ctx.lastFix
    /\ Permitted(ctx) /\ ctx.lastFix = None => heard = ctx.enabledAt

IInv == TypeOK /\ Settled

\* Facts that applyEvent may hand to derive at stamp `at`.
Facts(at) ==
    {c \in Contexts :
        /\ c.now = Advance(ctx, at).now
        /\ c.enabledAt = ctx.enabledAt
        /\ c.lastFix \in {ctx.lastFix, c.now}
        /\ SessionFits(c)
        /\ ctx.session # NoSession =>
              c.session \in {ctx.session, NoSession} \/ ctx.session.expires <= c.now
        /\ \/ c.level = ctx.level /\ c.tier = ctx.tier
           \/ c.tier = NextBatteryTier(ctx.tier, c.level)}

LEMMA NextTierType ==
    ASSUME NEW current \in Tiers, NEW level PROVE NextBatteryTier(current, level) \in Tiers
  BY DEF NextBatteryTier, Tiers

LEMMA LadderType ==
    ASSUME NEW c PROVE Ladder(c) \in States
  BY DEF Ladder, States, Ambient, AmbientStateFor

\* derive keeps the type of what it is given.
LEMMA DeriveType ==
    ASSUME NEW c \in Contexts PROVE Derive(c) \in Contexts
  <1>1. /\ SessionKept(c) \in Sessions
        /\ EnabledSince(c) \in Nat \cup {None}
        /\ IsStale(c) \in BOOLEAN
    BY DEF SessionKept, EnabledSince, IsStale, Contexts, Sessions, Permitted
  <1> QED  BY <1>1, LadderType DEF Derive, Contexts

\* What derive leaves of a context: it is its own fixed point.
LEMMA DeriveSettles ==
    ASSUME NEW c \in Contexts
    PROVE  LET d == Derive(c) IN
           /\ d.now = c.now /\ d.lastFix = c.lastFix /\ d.maxStale = c.maxStale
           /\ d.level = c.level /\ d.tier = c.tier
           /\ Permitted(d) <=> Permitted(c)
           /\ EffectiveTier(d) = EffectiveTier(c)
           /\ d.session = SessionKept(c)
           /\ d.enabledAt = EnabledSince(c)
           /\ d.state = Ladder(d)
  <1> DEFINE d == Derive(c)
  <1>1. /\ d.now = c.now /\ d.lastFix = c.lastFix /\ d.maxStale = c.maxStale
        /\ d.level = c.level /\ d.tier = c.tier /\ d.lowPower = c.lowPower
        /\ d.sharing = c.sharing /\ d.permission = c.permission
        /\ d.online = c.online /\ d.motion = c.motion
        /\ d.session = SessionKept(c) /\ d.enabledAt = EnabledSince(c)
        /\ d.state = Ladder(c)
    BY DEF Derive, Contexts
  <1>2. /\ Permitted(d) <=> Permitted(c)
        /\ EffectiveTier(d) = EffectiveTier(c)
    BY <1>1 DEF Permitted, EffectiveTier
  <1>3. IsStale(d) <=> IsStale(c)
    <2>1. EnabledSince(d) = EnabledSince(c)
      BY <1>1, <1>2 DEF EnabledSince, Contexts, None
    <2> QED  BY <2>1, <1>1, <1>2 DEF IsStale
  <1>4. Permitted(c) /\ EffectiveTier(c) # "CRITICAL" => d.session = c.session
    BY <1>1 DEF SessionKept
  <1>5. Ladder(d) = Ladder(c)
    <2>1. CASE Permitted(c) /\ EffectiveTier(c) # "CRITICAL"
      BY <2>1, <1>1, <1>2, <1>3, <1>4 DEF Ladder, Permitted
    <2>2. CASE ~(Permitted(c) /\ EffectiveTier(c) # "CRITICAL")
      BY <2>2, <1>1, <1>2 DEF Ladder, Permitted
    <2> QED  BY <2>1, <2>2
  <1> QED  BY <1>1, <1>2, <1>5

LEMMA InitialState ==
    Init => IInv /\ ctx.tier = NextBatteryTier("NORMAL", ctx.level)
  <1> SUFFICES ASSUME Init PROVE IInv /\ ctx.tier = NextBatteryTier("NORMAL", ctx.level)
    OBVIOUS
  <1> USE TrackingConstants
  <1>1. PICK sharing \in Consents, permission \in Permissions, motion \in Motions,
             level \in Levels \cup {None}, online \in BOOLEAN, maxStale \in StaleLimits,
             lastFix \in {None, 0}, session \in {NoSession, [start |-> 0, expires |-> MaxLive]},
             now \in {0, MaxLive} :
          ctx = Derive(Expire(
                  [state |-> "DISABLED", sharing |-> sharing, permission |-> permission,
                   motion |-> motion, level |-> level, tier |-> NextBatteryTier("NORMAL", level),
                   lowPower |-> FALSE, online |-> online, session |-> session,
                   lastFix |-> lastFix, enabledAt |-> None, stale |-> FALSE,
                   maxStale |-> Clamp(maxStale, StaleMin, StaleMax), now |-> now]))
    BY DEF Init
  <1> DEFINE b == [state |-> "DISABLED", sharing |-> sharing, permission |-> permission,
                   motion |-> motion, level |-> level, tier |-> NextBatteryTier("NORMAL", level),
                   lowPower |-> FALSE, online |-> online, session |-> session,
                   lastFix |-> lastFix, enabledAt |-> None, stale |-> FALSE,
                   maxStale |-> Clamp(maxStale, StaleMin, StaleMax), now |-> now]
             c == Expire(b)
  <1>2. b \in Contexts
    <2>1. NextBatteryTier("NORMAL", level) \in Tiers
      BY NextTierType DEF Tiers
    <2>2. Clamp(maxStale, StaleMin, StaleMax) \in Nat
      BY DEF Clamp
    <2>3. session \in Sessions /\ lastFix \in Nat \cup {None} /\ now \in Nat
      BY DEF Sessions
    <2>4. permission \in AllPermissions /\ motion \in AllMotions /\ "DISABLED" \in States
      BY DEF States
    <2>5. None \in Nat \cup {None} /\ FALSE \in BOOLEAN  OBVIOUS
    <2> HIDE DEF b
    <2> QED  BY <2>1, <2>2, <2>3, <2>4, <2>5 DEF Contexts, b
  <1>3. /\ c \in Contexts /\ SessionFits(c) /\ c.enabledAt = None
        /\ c.lastFix \in {None, 0} /\ c.now \in {0, MaxLive}
        /\ c.tier = NextBatteryTier("NORMAL", c.level)
    <2>1. /\ b.tier = NextBatteryTier("NORMAL", b.level) /\ b.session = session /\ b.now = now /\ b.enabledAt = None /\ b.lastFix = lastFix
      OBVIOUS
    <2> HIDE DEF b
    <2>2. CASE b.now < b.session.expires
      BY <2>2, <2>1, <1>2 DEF Expire, SessionFits, NoSession, None
    <2>3. CASE ~(b.now < b.session.expires)
      BY <2>3, <2>1, <1>2 DEF Expire, SessionFits, Contexts, Sessions
    <2> QED  BY <2>2, <2>3
  <1> HIDE DEF b, c
  <1>4. ctx = Derive(c)  BY <1>1 DEF b, c
  <1>5. ctx \in Contexts  BY <1>3, <1>4, DeriveType
  <1>6. /\ ctx.now = c.now /\ ctx.lastFix = c.lastFix
        /\ ctx.level = c.level /\ ctx.tier = c.tier
        /\ Permitted(ctx) <=> Permitted(c)
        /\ EffectiveTier(ctx) = EffectiveTier(c)
        /\ ctx.session = SessionKept(c)
        /\ ctx.enabledAt = EnabledSince(c)
        /\ ctx.state = Ladder(ctx)
    BY <1>3, <1>4, DeriveSettles
  <1>7. newest = ctx.now /\ heard = IF ctx.lastFix # None THEN ctx.lastFix ELSE ctx.now
    BY DEF Init
  <1>8. TypeOK
    BY <1>5, <1>7 DEF TypeOK, Contexts
  <1>9. Permitted(c) => ctx.enabledAt = ctx.now
    BY <1>3, <1>6 DEF EnabledSince
  <1>10. Permitted(ctx) <=> ctx.enabledAt # None
    BY <1>3, <1>6 DEF EnabledSince, Contexts, None
  <1>11. /\ ctx.session # NoSession => Permitted(ctx) /\ EffectiveTier(ctx) # "CRITICAL"
         /\ SessionFits(ctx)
    BY <1>3, <1>6 DEF SessionKept, SessionFits
  <1> QED  BY <1>3, <1>6, <1>7, <1>8, <1>9, <1>10, <1>11 DEF IInv, Settled

\* One reduction settles the context again, and never cuts a session short to
\* start another.
LEMMA ReduceSettles ==
    ASSUME IInv, NEW at \in Nat, NEW facts \in Facts(at), Reduce(at, facts)
    PROVE  /\ IInv'
           /\ ctx.session # NoSession =>
                 ctx'.session \in {ctx.session, NoSession} \/ ctx.session.expires <= newest'
           /\ \/ ctx'.level = ctx.level /\ ctx'.tier = ctx.tier
              \/ ctx'.tier = NextBatteryTier(ctx.tier, ctx'.level)
  <1>1. /\ facts \in Contexts /\ SessionFits(facts)
        /\ facts.enabledAt = ctx.enabledAt
        /\ facts.lastFix \in {ctx.lastFix, facts.now}
        /\ ctx.session # NoSession =>
              facts.session \in {ctx.session, NoSession} \/ ctx.session.expires <= facts.now
        /\ \/ facts.level = ctx.level /\ facts.tier = ctx.tier
           \/ facts.tier = NextBatteryTier(ctx.tier, facts.level)
        /\ facts.now = Advance(ctx, at).now
    BY DEF Facts
  <1>2. /\ ctx' = Derive(facts) /\ ctx' \in Contexts
        /\ newest' = IF at > newest THEN at ELSE newest
        /\ heard' = IF \/ facts.lastFix # ctx.lastFix
                       \/ ctx'.enabledAt # None /\ ctx.enabledAt = None /\ facts.lastFix = None
                    THEN newest' ELSE heard
    BY <1>1, DeriveType DEF Reduce
  <1>3. /\ ctx'.now = facts.now /\ ctx'.lastFix = facts.lastFix
        /\ ctx'.level = facts.level /\ ctx'.tier = facts.tier
        /\ Permitted(ctx') <=> Permitted(facts)
        /\ EffectiveTier(ctx') = EffectiveTier(facts)
        /\ ctx'.session = SessionKept(facts)
        /\ ctx'.enabledAt = EnabledSince(facts)
        /\ ctx'.state = Ladder(ctx')
    BY <1>1, <1>2, DeriveSettles
  <1>4. facts.now = newest'
    BY <1>1, <1>2 DEF Advance, IInv, TypeOK, Settled, Contexts
  <1>5. TypeOK'
    BY <1>2 DEF TypeOK, IInv
  <1>6. Permitted(ctx') <=> ctx'.enabledAt # None
    BY <1>1, <1>3 DEF EnabledSince, Contexts, None
  <1>7. /\ ctx'.session # NoSession => Permitted(ctx') /\ EffectiveTier(ctx') # "CRITICAL"
        /\ SessionFits(ctx')
    BY <1>1, <1>3 DEF SessionKept, SessionFits
  <1>8. ctx'.lastFix # None => heard' = ctx'.lastFix
    <2>1. CASE facts.lastFix # ctx.lastFix
      BY <2>1, <1>1, <1>2, <1>3, <1>4
    <2>2. CASE facts.lastFix = ctx.lastFix
      BY <2>2, <1>2, <1>3 DEF IInv, Settled
    <2> QED  BY <2>1, <2>2
  <1>9. Permitted(ctx') /\ ctx'.lastFix = None => heard' = ctx'.enabledAt
    <2> SUFFICES ASSUME Permitted(ctx'), ctx'.lastFix = None PROVE heard' = ctx'.enabledAt
      OBVIOUS
    <2>1. ctx'.enabledAt = IF ctx.enabledAt = None THEN newest' ELSE ctx.enabledAt
      BY <1>1, <1>3, <1>4 DEF EnabledSince
    <2>2. facts.lastFix = None /\ ctx.lastFix = None
      BY <1>1, <1>3 DEF Contexts, None
    <2>3. CASE ctx.enabledAt = None
      BY <2>1, <2>2, <2>3, <1>2, <1>6
    <2>4. CASE ctx.enabledAt # None
      BY <2>1, <2>2, <2>4, <1>2 DEF IInv, Settled
    <2> QED  BY <2>3, <2>4
  <1>10. Settled'
    BY <1>3, <1>4, <1>6, <1>7, <1>8, <1>9 DEF Settled
  <1>11. ctx.session # NoSession =>
            ctx'.session \in {ctx.session, NoSession} \/ ctx.session.expires <= newest'
    BY <1>1, <1>3, <1>4 DEF SessionKept
  <1> QED  BY <1>1, <1>3, <1>5, <1>10, <1>11 DEF IInv

\* What reduceTracking does before the event: the clock moves and a session
\* whose window is over ends.
LEMMA TickedIsFacts ==
    ASSUME IInv, NEW at \in Nat
    PROVE  /\ Ticked(at) \in Facts(at)
           /\ Ticked(at).now = Advance(ctx, at).now /\ Ticked(at).now \in Nat
           /\ Ticked(at).level = ctx.level /\ Ticked(at).tier = ctx.tier
           /\ Ticked(at).enabledAt = ctx.enabledAt /\ Ticked(at).lastFix = ctx.lastFix
           /\ Ticked(at).session \in {ctx.session, NoSession}
           /\ ctx.session # NoSession /\ Ticked(at).session = NoSession
                 => ctx.session.expires <= Ticked(at).now
  <1> DEFINE a == Advance(ctx, at)
  <1>1. ctx \in Contexts /\ SessionFits(ctx)
    BY DEF IInv, TypeOK, Settled
  <1>2. /\ a \in Contexts /\ a.now >= ctx.now
        /\ a.level = ctx.level /\ a.tier = ctx.tier /\ a.session = ctx.session
        /\ a.enabledAt = ctx.enabledAt /\ a.lastFix = ctx.lastFix
    BY <1>1 DEF Advance, Contexts
  <1> HIDE DEF a
  <1>3. CASE a.now < a.session.expires
    <2>1. Ticked(at) = a
      BY <1>3 DEF Ticked, Expire, a
    <2>2. SessionFits(a)
      BY <1>1, <1>2, <1>3 DEF SessionFits, Contexts, Sessions
    <2>3. a.session # NoSession
      BY <1>2, <1>3 DEF NoSession, None, Contexts
    <2> QED  BY <2>1, <2>2, <2>3, <1>2 DEF Facts, a, Contexts
  <1>4. CASE ~(a.now < a.session.expires)
    <2>1. Ticked(at) = [a EXCEPT !.session = NoSession]
      BY <1>4 DEF Ticked, Expire, a
    <2>2. NoSession \in Sessions
      BY DEF Sessions
    <2>3. /\ Ticked(at) \in Contexts /\ Ticked(at).session = NoSession
          /\ Ticked(at).now = a.now /\ Ticked(at).level = a.level /\ Ticked(at).tier = a.tier
          /\ Ticked(at).enabledAt = a.enabledAt /\ Ticked(at).lastFix = a.lastFix
      BY <2>1, <2>2, <1>2 DEF Contexts
    <2>4. ctx.session # NoSession => ctx.session.expires <= Ticked(at).now
      BY <2>3, <1>2, <1>4 DEF Contexts, Sessions
    <2> QED  BY <2>3, <2>4, <1>2 DEF Facts, SessionFits, a, Contexts
  <1> QED  BY <1>3, <1>4

\* Every event of the environment hands facts to derive.
LEMMA EveryStepReduces ==
    ASSUME IInv, Next
    PROVE  \E at \in Nat : \E facts \in Facts(at) : Reduce(at, facts)
  <1> USE TrackingConstants
  <1>1. PICK at \in 0..LastTime :
        \/ \E p \in Permissions : PermissionChanged(at, p)
        \/ \E consent \in {"SHARING", "PAUSED", "DISABLED"} : SharingChanged(at, consent)
        \/ \E motion \in Motions : MotionChanged(at, motion)
        \/ \E level \in Levels \cup {None}, lowPower \in BOOLEAN :
              BatteryChanged(at, level, lowPower)
        \/ \E online \in BOOLEAN : ConnectivityChanged(at, online)
        \/ \E duration \in Durations : LiveSessionStarted(at, duration)
        \/ LiveSessionStopped(at)
        \/ LocationRecorded(at)
        \/ \E maxStale \in StaleLimits : ConfigChanged(at, maxStale)
        \/ Tick(at)
    BY DEF Next
  <1> DEFINE c == Ticked(at)
  <1>2. /\ c \in Facts(at) /\ c.now = Advance(ctx, at).now /\ c.now \in Nat
        /\ c.level = ctx.level /\ c.tier = ctx.tier
        /\ c.enabledAt = ctx.enabledAt /\ c.lastFix = ctx.lastFix
        /\ c.session \in {ctx.session, NoSession}
        /\ ctx.session # NoSession /\ c.session = NoSession => ctx.session.expires <= c.now
    BY TickedIsFacts
  <1> HIDE DEF c
  <1>3. c \in Contexts /\ SessionFits(c)
    BY <1>2 DEF Facts
  <1>4. ASSUME NEW p \in Permissions, PermissionChanged(at, p)
        PROVE  [c EXCEPT !.permission = p] \in Facts(at)
    BY <1>2, <1>3 DEF Facts, Contexts, SessionFits
  <1>5. ASSUME NEW consent \in Consents
        PROVE  [c EXCEPT !.sharing = consent] \in Facts(at)
    BY <1>2, <1>3 DEF Facts, Contexts, SessionFits
  <1>6. ASSUME NEW motion \in Motions
        PROVE  [c EXCEPT !.motion = motion] \in Facts(at)
    BY <1>2, <1>3 DEF Facts, Contexts, SessionFits
  <1>7. ASSUME NEW level \in Levels \cup {None}, NEW lowPower \in BOOLEAN
        PROVE  [c EXCEPT !.level = level, !.lowPower = lowPower,
                         !.tier = NextBatteryTier(@, level)] \in Facts(at)
    <2>1. NextBatteryTier(c.tier, level) \in Tiers
      BY <1>3, NextTierType DEF Contexts
    <2> QED  BY <2>1, <1>2, <1>3 DEF Facts, Contexts, SessionFits
  <1>8. ASSUME NEW online \in BOOLEAN
        PROVE  [c EXCEPT !.online = online] \in Facts(at)
    BY <1>2, <1>3 DEF Facts, Contexts, SessionFits
  <1>9. ASSUME NEW duration \in Durations, SessionAdmissible(c, duration)
        PROVE  [c EXCEPT !.session = [start |-> c.now,
                  expires |-> c.now + GrantedSeconds(duration, EffectiveTier(c))]] \in Facts(at)
    <2>1. GrantedSeconds(duration, EffectiveTier(c)) \in 1..MaxLive
      BY DEF GrantedSeconds, Clamp
    <2>2. c.session = NoSession
      BY <1>9 DEF SessionAdmissible
    <2> DEFINE granted == GrantedSeconds(duration, EffectiveTier(c))
               new == [start |-> c.now, expires |-> c.now + granted]
    <2> HIDE DEF granted
    <2>3. new \in Sessions /\ new.start = c.now /\ new.expires = c.now + granted
      BY <2>1, <1>2 DEF Sessions, granted
    <2> HIDE DEF new
    <2>4. [c EXCEPT !.session = new] \in Facts(at)
      BY <2>1, <2>2, <2>3, <1>2, <1>3 DEF Facts, Contexts, SessionFits, granted
    <2> QED  BY <2>4 DEF new, granted
  <1>10. [c EXCEPT !.session = NoSession] \in Facts(at)
    BY <1>2, <1>3 DEF Facts, Contexts, SessionFits, Sessions
  <1>11. [c EXCEPT !.lastFix = c.now] \in Facts(at)
    BY <1>2, <1>3 DEF Facts, Contexts, SessionFits
  <1>12. ASSUME NEW maxStale \in StaleLimits
         PROVE  [c EXCEPT !.maxStale = Clamp(maxStale, StaleMin, StaleMax)] \in Facts(at)
    BY <1>2, <1>3 DEF Facts, Contexts, SessionFits, Clamp
  <1> SUFFICES \E facts \in Facts(at) : Reduce(at, facts)
    OBVIOUS
  <1>13. CASE \E p \in Permissions : PermissionChanged(at, p)
    BY <1>13, <1>4 DEF PermissionChanged, c
  <1>14. CASE \E consent \in {"SHARING", "PAUSED", "DISABLED"} : SharingChanged(at, consent)
    BY <1>14, <1>5 DEF SharingChanged, Consents, c
  <1>15. CASE \E motion \in Motions : MotionChanged(at, motion)
    BY <1>15, <1>6 DEF MotionChanged, c
  <1>16. CASE \E level \in Levels \cup {None}, lowPower \in BOOLEAN :
                BatteryChanged(at, level, lowPower)
    BY <1>16, <1>7 DEF BatteryChanged, c
  <1>17. CASE \E online \in BOOLEAN : ConnectivityChanged(at, online)
    BY <1>17, <1>8 DEF ConnectivityChanged, c
  <1>18. CASE \E duration \in Durations : LiveSessionStarted(at, duration)
    BY <1>18, <1>2, <1>9 DEF LiveSessionStarted, c
  <1>19. CASE LiveSessionStopped(at)
    BY <1>19, <1>10 DEF LiveSessionStopped, c
  <1>20. CASE LocationRecorded(at)
    BY <1>20, <1>11 DEF LocationRecorded, c
  <1>21. CASE \E maxStale \in StaleLimits : ConfigChanged(at, maxStale)
    BY <1>21, <1>12 DEF ConfigChanged, c
  <1>22. CASE Tick(at)
    BY <1>22, <1>2 DEF Tick, c
  <1> QED  BY <1>1, <1>13, <1>14, <1>15, <1>16, <1>17, <1>18, <1>19, <1>20, <1>21, <1>22

LEMMA StepSettles ==
    ASSUME IInv, [Next]_vars
    PROVE  /\ IInv'
           /\ ctx.session # NoSession =>
                 ctx'.session \in {ctx.session, NoSession} \/ ctx.session.expires <= newest'
           /\ \/ ctx'.level = ctx.level /\ ctx'.tier = ctx.tier
              \/ ctx'.tier = NextBatteryTier(ctx.tier, ctx'.level)
  <1>1. CASE Next
    BY <1>1, EveryStepReduces, ReduceSettles
  <1>2. CASE UNCHANGED vars
    BY <1>2 DEF vars, IInv, TypeOK, Settled, SessionFits, Permitted, Ladder, EffectiveTier, IsStale
  <1> QED  BY <1>1, <1>2

\* The invariant of every behaviour, with any bound on stamps.
THEOREM Invariance == Spec => []IInv
  <1>1. IInv /\ [Next]_vars => IInv'
    BY StepSettles
  <1> QED  BY InitialState, <1>1, PTL DEF Spec

\* The context keeps its type whatever events arrive.
THEOREM TypeCorrect == Spec => []TypeOK
  <1>1. IInv => TypeOK
    BY DEF IInv
  <1> QED  BY Invariance, <1>1, PTL

\* No late or missing event leaves a live session running beyond its window,
\* its ten minutes, or the consent, permission and battery it needs.
THEOREM LiveIsLimited == Spec => []LiveWithinLimits
  <1>1. IInv => LiveWithinLimits
    <2> SUFFICES ASSUME IInv PROVE LiveWithinLimits  OBVIOUS
    <2>1. ctx.session # NoSession <=> ctx.state = "LIVE"
      BY DEF IInv, Settled, Ladder, Permitted, AmbientStateFor
    <2> QED  BY <2>1 DEF IInv, Settled, SessionFits, LiveWithinLimits
  <1> QED  BY Invariance, <1>1, PTL

\* A running session is never replaced or stretched.
THEOREM SessionsAreExclusive == Spec => SessionsDoNotOverlap
  <1>1. IInv /\ [Next]_vars =>
          [ctx.session # NoSession =>
              ctx'.session \in {ctx.session, NoSession} \/ ctx.session.expires <= newest']_vars
    BY StepSettles
  <1> QED  BY Invariance, <1>1, PTL DEF Spec, SessionsDoNotOverlap

\* A phone that fell silent never reports an ambient state.
THEOREM SilenceIsReported == Spec => []FreshnessIsHonest
  <1>1. IInv => FreshnessIsHonest
    <2> SUFFICES ASSUME IInv, ctx.state \in Ambient PROVE newest - heard <= ctx.maxStale
      BY DEF FreshnessIsHonest
    <2>1. Permitted(ctx) /\ ~IsStale(ctx)
      BY DEF IInv, Settled, Ladder, Ambient, Permitted
    <2>2. EnabledSince(ctx) = ctx.enabledAt
      BY <2>1 DEF EnabledSince, IInv, Settled
    <2>3. heard = IF ctx.lastFix = None THEN EnabledSince(ctx) ELSE ctx.lastFix
      BY <2>1, <2>2 DEF IInv, Settled
    <2> QED  BY <2>1, <2>3 DEF IsStale, IInv, TypeOK, Settled, Contexts
  <1> QED  BY Invariance, <1>1, PTL

\* nextBatteryTier is two triggers with a margin, in every sequence of reports.
THEOREM BandsAreTwoTriggers == Spec => BandsAreTriggers
  <1> USE TrackingConstants
  <1>1. Init => CriticalBand!Init /\ LowBand!Init
    <2> SUFFICES ASSUME Init PROVE CriticalBand!Init /\ LowBand!Init  OBVIOUS
    <2>1. IInv /\ ctx.tier = NextBatteryTier("NORMAL", ctx.level)
      BY InitialState
    <2> QED  BY <2>1 DEF IInv, TypeOK, Contexts, CriticalBand!Init, LowBand!Init,
               NextBatteryTier, CriticalThreshold, LeaveCritical, LowThreshold, LeaveLow, None
  <1>2. IInv /\ [Next]_vars => /\ [CriticalBand!Next]_<<ctx.level, ctx.tier = "CRITICAL">>
                               /\ [LowBand!Next]_<<ctx.level, ctx.tier # "NORMAL">>
    <2> SUFFICES ASSUME IInv, [Next]_vars
                 PROVE  /\ [CriticalBand!Next]_<<ctx.level, ctx.tier = "CRITICAL">>
                        /\ [LowBand!Next]_<<ctx.level, ctx.tier # "NORMAL">>
      OBVIOUS
    <2>1. /\ IInv'
          /\ \/ ctx'.level = ctx.level /\ ctx'.tier = ctx.tier
             \/ ctx'.tier = NextBatteryTier(ctx.tier, ctx'.level)
      BY StepSettles
    <2>2. CASE ctx'.level = ctx.level /\ ctx'.tier = ctx.tier
      BY <2>2
    <2>3. CASE ctx'.tier = NextBatteryTier(ctx.tier, ctx'.level)
      <3>1. /\ ctx'.level \in Levels \cup {None} /\ ctx'.tier \in Tiers /\ ctx.tier \in Tiers
        BY <2>1 DEF IInv, TypeOK, Contexts
      <3>2. CriticalBand!Read(ctx'.level)
        BY <3>1, <2>3 DEF CriticalBand!Read, NextBatteryTier, CriticalThreshold, LeaveCritical,
                 LowThreshold, LeaveLow, None, Tiers
      <3>3. LowBand!Read(ctx'.level)
        BY <3>1, <2>3 DEF LowBand!Read, NextBatteryTier, CriticalThreshold, LeaveCritical,
                 LowThreshold, LeaveLow, None, Tiers
      <3> QED  BY <3>1, <3>2, <3>3 DEF CriticalBand!Next, LowBand!Next
    <2> QED  BY <2>1, <2>2, <2>3
  <1> QED  BY Invariance, <1>1, <1>2, PTL DEF Spec, BandsAreTriggers, CriticalBand!Spec, LowBand!Spec
=============================================================================
