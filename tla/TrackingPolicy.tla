--------------------------- MODULE TrackingPolicy ---------------------------
(***************************************************************************)
(* The tracking state machine of packages/location-core: a context of       *)
(* independent facts, a pure reducer over twelve events, and a ladder that  *)
(* derives the one reported state.  Events come from the operating system   *)
(* and the user, in any order and possibly late (their stamp is behind the  *)
(* clock of the context).                                                   *)
(*                                                                          *)
(* Abstracted: a permission is whether location services are on and what is *)
(* authorised (the rest only degrades); charging, session ids, and why the  *)
(* last session ended or was refused, which nothing decides on; the table   *)
(* of sampling parameters that each state selects.                          *)
(***************************************************************************)
EXTENDS Integers

CONSTANTS
    Levels,        \* battery levels of this run, in percent
    Permissions,   \* permission reports of this run
    Motions,       \* motion reports of this run
    Durations,     \* session lengths asked for
    StaleLimits,   \* maxStaleSeconds values a configuration carries
    StaleMin, StaleMax,  \* the guardrails they are clamped into
    MaxLive,       \* LIMITS.MAX_LIVE_SESSION_SECONDS
    LastTime       \* BOUND: the latest stamp of an event

None == -1         \* null, where the code has number | null
NoSession == [start |-> None, expires |-> None]

Authorizations == {"NOT_DETERMINED", "DENIED", "RESTRICTED", "WHEN_IN_USE", "ALWAYS"}
AllPermissions == [services : BOOLEAN, authorization : Authorizations]
AllMotions == {"UNKNOWN", "STATIONARY", "WALKING", "RUNNING", "CYCLING", "AUTOMOTIVE"}
Consents == {"NEVER_ENABLED", "SHARING", "PAUSED", "DISABLED"}
Tiers == {"NORMAL", "LOW", "CRITICAL"}

ASSUME TrackingConstants ==
    /\ Levels \subseteq 0..100
    /\ Permissions \subseteq AllPermissions
    /\ Motions \subseteq AllMotions
    /\ Durations \subseteq Int
    /\ StaleLimits \subseteq Int
    /\ StaleMin \in Nat /\ StaleMax \in Nat /\ StaleMin <= StaleMax
    /\ MaxLive \in Nat /\ MaxLive >= 2
    /\ LastTime \in Nat

-----------------------------------------------------------------------------
(* What the facts are made of.                                              *)

Ambient == {"STATIONARY", "WALKING", "TRANSIT", "PASSIVE"}
States == Ambient \cup {"DISABLED", "PERMISSION_REQUIRED", "CRITICAL_BATTERY",
                        "LIVE", "LOW_BATTERY", "OFFLINE", "STALE"}

Sufficient(p) == p.services /\ p.authorization \in {"ALWAYS", "WHEN_IN_USE"}

AmbientStateFor(motion) ==
    CASE motion = "STATIONARY" -> "STATIONARY"
      [] motion \in {"WALKING", "RUNNING"} -> "WALKING"
      [] motion \in {"CYCLING", "AUTOMOTIVE"} -> "TRANSIT"
      [] OTHER -> "PASSIVE"

\* BATTERY, in percent.  0.1 + 0.05 is more than 0.15 in double arithmetic, so
\* that fifteen per cent does not clear the critical margin; 0.2 + 0.05 = 0.25.
CriticalThreshold == 10
LowThreshold == 20
LeaveCritical == 16
LeaveLow == 25

NextTierNoMargin(current, level) ==
    CASE level = None -> current
      [] level # None /\ level <= CriticalThreshold -> "CRITICAL"
      [] level > CriticalThreshold /\ level <= LowThreshold -> "LOW"
      [] level > LowThreshold /\ level < LeaveLow ->
            IF current = "NORMAL" THEN "NORMAL" ELSE "LOW"
      [] OTHER -> "NORMAL"

NextTierUnknown(current, level) ==
    IF level = None THEN "UNKNOWN" ELSE NextTierNoMargin(current, level)

\* nextBatteryTier: a worse band at once, a better one past the margin only.
NextBatteryTier(current, level) ==
    IF level = None THEN current
    ELSE CASE current = "CRITICAL" ->
                IF level >= LeaveLow THEN "NORMAL"
                ELSE IF level >= LeaveCritical THEN "LOW" ELSE "CRITICAL"
           [] current = "LOW" ->
                IF level <= CriticalThreshold THEN "CRITICAL"
                ELSE IF level >= LeaveLow THEN "NORMAL" ELSE "LOW"
           [] OTHER ->
                IF level <= CriticalThreshold THEN "CRITICAL"
                ELSE IF level <= LowThreshold THEN "LOW" ELSE "NORMAL"

\* Low Power Mode floors the band at LOW, after the hysteresis.
EffectiveTier(ctx) ==
    IF ctx.lowPower /\ ctx.tier = "NORMAL" THEN "LOW" ELSE ctx.tier

Clamp(n, low, high) == IF n < low THEN low ELSE IF n > high THEN high ELSE n

-----------------------------------------------------------------------------
VARIABLES
    ctx,      \* TrackingContext
    newest,   \* history: the latest stamp of any event so far
    heard     \* history: when a fix last arrived, or tracking was last permitted

vars == <<ctx, newest, heard>>

Sessions == [start : Nat, expires : Nat] \cup {NoSession}
Contexts ==
    [state : States, sharing : Consents, permission : AllPermissions, motion : AllMotions,
     level : Levels \cup {None}, tier : Tiers, lowPower : BOOLEAN, online : BOOLEAN,
     session : Sessions, lastFix : Nat \cup {None}, enabledAt : Nat \cup {None},
     stale : BOOLEAN, maxStale : Nat, now : Nat]

Permitted(c) == c.sharing = "SHARING" /\ Sufficient(c.permission)

\* liveSessionRejection = null.
SessionAdmissibleTwice(c, duration) ==
    Permitted(c) /\ EffectiveTier(c) # "CRITICAL" /\ duration > 0

SessionAdmissible(c, duration) ==
    /\ Permitted(c)
    /\ EffectiveTier(c) # "CRITICAL"
    /\ c.session = NoSession
    /\ duration > 0

GrantedSeconds(duration, tier) ==
    Clamp(duration, 1, IF tier = "LOW" THEN MaxLive \div 2 ELSE MaxLive)

ExpireLate(c) == IF c.now <= c.session.expires THEN c ELSE [c EXCEPT !.session = NoSession]

\* expireLiveSession
Expire(c) ==
    IF c.now < c.session.expires THEN c ELSE [c EXCEPT !.session = NoSession]

-----------------------------------------------------------------------------
(* derive: what the facts leave of a session, the staleness, the ladder.    *)

SessionKept(c) ==
    IF Permitted(c) /\ EffectiveTier(c) # "CRITICAL" THEN c.session ELSE NoSession

EnabledSince(c) ==
    IF ~Permitted(c) THEN None ELSE IF c.enabledAt = None THEN c.now ELSE c.enabledAt

\* Before the first fix the clock starts when tracking became permitted.
IsStale(c) ==
    /\ Permitted(c)
    /\ c.now - (IF c.lastFix = None THEN EnabledSince(c) ELSE c.lastFix) > c.maxStale

Ladder(c) ==
    CASE c.sharing # "SHARING" -> "DISABLED"
      [] c.sharing = "SHARING" /\ ~Permitted(c) -> "PERMISSION_REQUIRED"
      [] Permitted(c) /\ EffectiveTier(c) = "CRITICAL" -> "CRITICAL_BATTERY"
      [] OTHER ->
            IF c.session # NoSession THEN "LIVE"
            ELSE IF EffectiveTier(c) = "LOW" THEN "LOW_BATTERY"
            ELSE IF ~c.online THEN "OFFLINE"
            ELSE IF IsStale(c) THEN "STALE"
            ELSE AmbientStateFor(c.motion)

Derive(c) ==
    [c EXCEPT !.session = SessionKept(c), !.enabledAt = EnabledSince(c),
              !.stale = IsStale(c), !.state = Ladder(c)]

ClockFollowsStamp(c, at) == [c EXCEPT !.now = at]

\* The clock of the context never goes back, however late an event is.
Advance(c, at) == [c EXCEPT !.now = IF at > c.now THEN at ELSE c.now]

\* reduceTracking, up to the event: the clock moves, a due session ends.
Ticked(at) == Expire(Advance(ctx, at))

-----------------------------------------------------------------------------
\* createTrackingContext: a first start, or a rehydration with what was kept.
Init ==
    /\ \E sharing \in Consents, permission \in Permissions, motion \in Motions,
          level \in Levels \cup {None}, online \in BOOLEAN, maxStale \in StaleLimits,
          lastFix \in {None, 0}, session \in {NoSession, [start |-> 0, expires |-> MaxLive]},
          now \in {0, MaxLive} :
          ctx = Derive(Expire(
                  [state |-> "DISABLED", sharing |-> sharing, permission |-> permission,
                   motion |-> motion, level |-> level, tier |-> NextBatteryTier("NORMAL", level),
                   lowPower |-> FALSE, online |-> online, session |-> session,
                   lastFix |-> lastFix, enabledAt |-> None, stale |-> FALSE,
                   maxStale |-> Clamp(maxStale, StaleMin, StaleMax), now |-> now]))
    /\ newest = ctx.now
    /\ heard = IF ctx.lastFix # None THEN ctx.lastFix ELSE ctx.now

\* Every event ends in derive; `facts` is what applyEvent returns.
Reduce(at, facts) ==
    /\ ctx' = Derive(facts)
    /\ newest' = IF at > newest THEN at ELSE newest
    /\ heard' = IF \/ facts.lastFix # ctx.lastFix
                   \/ ctx'.enabledAt # None /\ ctx.enabledAt = None /\ facts.lastFix = None
                THEN newest' ELSE heard

PermissionChanged(at, p) == Reduce(at, [Ticked(at) EXCEPT !.permission = p])

\* SHARING_RESUMED, SHARING_PAUSED, SHARING_DISABLED.
SharingChanged(at, consent) == Reduce(at, [Ticked(at) EXCEPT !.sharing = consent])

MotionChanged(at, motion) == Reduce(at, [Ticked(at) EXCEPT !.motion = motion])

BatteryChanged(at, level, lowPower) ==
    Reduce(at, [Ticked(at) EXCEPT !.level = level, !.lowPower = lowPower,
                                  !.tier = NextBatteryTier(@, level)])

ConnectivityChanged(at, online) == Reduce(at, [Ticked(at) EXCEPT !.online = online])

LiveSessionStarted(at, duration) ==
    LET c == Ticked(at)
        granted == GrantedSeconds(duration, EffectiveTier(c)) IN
    Reduce(at, IF SessionAdmissible(c, duration)
               THEN [c EXCEPT !.session = [start |-> c.now, expires |-> c.now + granted]]
               ELSE c)

LiveSessionStopped(at) == Reduce(at, [Ticked(at) EXCEPT !.session = NoSession])

LocationRecorded(at) == Reduce(at, [Ticked(at) EXCEPT !.lastFix = Ticked(at).now])

ConfigChanged(at, maxStale) ==
    Reduce(at, [Ticked(at) EXCEPT !.maxStale = Clamp(maxStale, StaleMin, StaleMax)])

Tick(at) == Reduce(at, Ticked(at))

Next == \E at \in 0..LastTime :
    \/ \E p \in Permissions : PermissionChanged(at, p)
    \/ \E consent \in {"SHARING", "PAUSED", "DISABLED"} : SharingChanged(at, consent)
    \/ \E motion \in Motions : MotionChanged(at, motion)
    \/ \E level \in Levels \cup {None}, lowPower \in BOOLEAN :
          BatteryChanged(at, level, lowPower)
    \/ \E online \in BOOLEAN : ConnectivityChanged(at, online)
    \/ \E duration \in Durations : LiveSessionStarted(at, duration)
    \/ LiveSessionStopped(at)
    \/ LocationRecorded(at)
    \/ \E maxStale \in StaleLimits : ConfigChanged(at, maxStale)
    \/ Tick(at)

Spec == Init /\ [][Next]_vars

-----------------------------------------------------------------------------
(* Properties.                                                              *)

\* The context and the two histories keep their types.
TypeOK ==
    /\ ctx \in Contexts
    /\ newest \in Nat
    /\ heard \in Nat

CriticalBand == INSTANCE Hysteresis WITH
    Unknown <- None, Threshold <- CriticalThreshold, Release <- LeaveCritical,
    level <- ctx.level, set <- ctx.tier = "CRITICAL"

LowBand == INSTANCE Hysteresis WITH
    Unknown <- None, Threshold <- LowThreshold, Release <- LeaveLow,
    level <- ctx.level, set <- ctx.tier # "NORMAL"

\* Whatever the battery reports, in whatever order, and whatever happens between
\* two reports, the three bands of nextBatteryTier are two independent triggers
\* with a margin: neither flaps on its threshold, skips a band or forgets one.
BandsAreTriggers == CriticalBand!Spec /\ LowBand!Spec

\* A running live session is within the window it was granted and the limit of
\* ten minutes, on a phone that shares, may locate and is not critically low;
\* no late event leaves one running beyond that or revives it (expireLiveSession
\* and derive), and LIVE is what such a phone reports, and no other.
LiveWithinLimits ==
    /\ ctx.session # NoSession <=> ctx.state = "LIVE"
    /\ ctx.session # NoSession =>
          /\ Permitted(ctx) /\ EffectiveTier(ctx) # "CRITICAL"
          /\ newest < ctx.session.expires
          /\ ctx.session.start <= newest
          /\ ctx.session.expires <= ctx.session.start + MaxLive

\* A session that still runs is never replaced or stretched, only ended: a
\* second start takes effect only when the first session's window is over.
SessionsDoNotOverlap ==
    [][ctx.session # NoSession =>
          ctx'.session \in {ctx.session, NoSession} \/ ctx.session.expires <= newest']_vars

\* A phone that reports an ambient state has been heard from, or was permitted
\* to track, no longer ago than its configuration tolerates: no late event
\* rewinds the clock, and no pause, restart or change of configuration hides
\* that it has fallen silent.
FreshnessIsHonest ==
    ctx.state \in Ambient => newest - heard <= ctx.maxStale
=============================================================================
