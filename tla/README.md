# Kinmap: a TLA+ model of consent-based family location sharing

This directory models the server side of kinmap and the parts of its client
libraries that carry protocol logic. It states what those parts must guarantee,
model-checks the statements with TLC on small instances and proves the most
important ones with TLAPS for every instance.

## 1. The system

Kinmap is a TypeScript monorepo. A phone records positions, queues them while
offline and uploads them in encrypted batches. A set of Lambda handlers behind
API Gateway keeps families, memberships, consent and live-location sessions in
DynamoDB tables. Queues connect the ingestion path to workers that evaluate
geofences, send notifications, apply subscription events and erase accounts.
Almost every handler is read, decide, conditional write: the guard is evaluated
on rows read earlier, and only the write's DynamoDB condition is atomic. The
properties of this project are about the gap between the two.

### Inventory

| component | state it keeps | operations | what is hard about it |
|---|---|---|---|
| family-service | `families` (owner), `memberships` (role, status, sharing, allow- and deny-list) | create, patch, remove, transfer, block, unblock, report | handlers interleave; index reads lag; only one write is transactional |
| invitation-service | `invitations` (status, redemptionCount, revokedAt, expiry) | create, list, revoke, preview, accept | quota and capacity are counted before the write; expiry races acceptance |
| api: live sessions | `liveSessions` (status, expiresAt, mute) | create, accept, reject, stop, poll | a deadline races an answer; the sweep races everything |
| api: privacy and sharing | `memberships.sharing*`, `users.sharing*` | pause, resume, hide | serial writes over several rows |
| api: account | `users.status`, `deletionJobs` | delete, cancel, patch | a request that spans five tables without a transaction |
| api: idempotency | `idempotency` records | claim, complete, replay | concurrent retries, a crash between effect and record |
| deletion-worker | `deletionJobs` (step, cursor) and everything it erases | run a job, resume it | at-least-once delivery, crash between steps |
| scheduled-maintenance | none of its own | expire sessions, invitations, dispatch deletions, sweep | races the handlers whose rows it sweeps |
| location-ingestion | `current`, `history`, upload windows | ingest a batch | duplicate and reordered uploads, consent read before the write |
| location-query | none | current, history, timeline | authorisation on every read |
| geofence-worker | per-device-and-place state with a version | evaluate a position | compare-and-set, redelivery, command published after the commit |
| notification-worker | dedupe claims | deliver a command | claim before send, retry after a failed send |
| subscription-worker | subscription rows, read-only marks | apply, reconcile | out-of-order webhooks, no compare-and-set |
| audit-worker, auth-events, mail-forwarder | append-only records, user profile | consume events | delivery only |
| packages/auth | none | the authorisation pipeline | it is the guard of every handler |
| packages/location-core | offline queue, tracking state machine, sampling policy | enqueue, flush, reduce | long event sequences, limits, retries |
| packages/crypto | data-key cache | encrypt, decrypt | cache limits and expiry |
| packages/api-client | token and retry state | request, refresh, retry | concurrent refresh, retry of what was done |
| apps/mobile, apps/web | UI, SQLite store, native engine | | UI and platform code |
| infrastructure | CDK stacks | | configuration |

What makes each component correct:

- **family-service**: one owner per family at every moment; nobody removes the
  owner; an ended membership neither comes back nor makes its owner locatable.
- **invitation-service**: a token is redeemed at most once, never after it was
  revoked or has expired; seats and quota are never exceeded; a pending invitation
  can be redeemed.
- **live sessions**: nobody is watched without consent, nor beyond the window
  they consented to; a closed session stays closed; a mute is permanent; one
  observer at a time; every open session ends.
- **privacy and sharing**: a pause takes effect in every family; hiding is mutual.
- **account, deletion-worker**: a requested erasure is carried out to the end, in
  the promised order, skipping nothing, and leaves every family with one owner or
  dissolves it; a cancelled one erases nothing.
- **idempotency**: one effect per key; a replay answers what the first call did.
- **location-ingestion, location-core**: the current position never moves back;
  nothing is stored without consent; an accepted event is not lost or duplicated.
- **geofence-worker, notification-worker**: one alert per crossing, and one
  delivery per alert and recipient, if the recipient may see it.
- **subscription-worker**: the entitlement follows the newest store event; a
  downgrade marks a family read-only and never deletes.

## 2. The plan

| order | module | models | abstract specification, main properties | theorems |
|---|---|---|---|---|
| done | `FamilyMembership` | the memberships of one family under concurrent handlers | one owner, ended is invisible | types, single owner, ended is never located, one active owner while requests do not meet |
| done | `LiveSession` | the sessions of one target, sweep, TTL, lagging index | consent, final closing, mute, limit, termination | types and all safety |
| done | `DeletionJob`, `Erasure` | sweep, queue, overlapping runs of one job | implements `Erasure`; one heir, an owner throughout, no empty family | types, never skips, implements `Erasure`, the three about families |
| done | `AlertCommands`, `Geofence`, `Notification`, `Alerts`, `Announcements` | hysteresis with compare-and-set, command queue, claim and send; `Alerts` composes them | implements `Announcements`: real, alternating, told at most once | types, real crossings, the barred hear nothing, implements `Announcements` |
| done | `TrackingPolicy`, `Hysteresis` | the tracking state machine and battery bands | limits of a live session, honest freshness, bands implement `Hysteresis` | types, all four properties |
| done | `UploadCalls`, `OutboundQueue`, `Ingestion`, `Uploads`, `Delivery` | the phone's queue and the ingestion endpoint; `Uploads` composes them | implements `Delivery`: nothing is lost in silence; the current fix never trails the history; every fix leaves | types, the history is covered, a pause stops, implements `Delivery` |
| done | `Idempotency`, `AccountDeletion` | requests to delete and to cancel, behind the idempotency protocol | accepted is recorded, deadlines told are kept, a cancellation is complete, one answer per key | types, all four properties |
| open | `Subscription` | reconciliation of store events, read-only marks | the newest event wins; checked against a reference fold | |
| open | `MutualHiding` | hiding and the privacy endpoint on the same rows | symmetry | |
| open | `Invitation` | create, revoke, accept, expiry sweep | a single-use token; capacity | |

Each module is parameterised by constants with named assumptions, has one action
per handler or write, and keeps its invariants as conjunctions of named parts, so
that it can be proved about; recursion is written as functions. To keep the whole
suite quick, the number of runs stays at a dozen: the properties of one module
share a run where their bounds agree, and a run that only documented a
disagreement gave way to a hazard note and section 6. Every safety property a run
checks is also a theorem; liveness stays with TLC.

## 3. The modules

### FamilyMembership

The rows of one family, as `services/family-service` writes them (with the join
of invitation-service and the sharing switch of services/api). `row` is the
memberships table, `index` the byUser index that may trail it, `owner` is
`families.ownerUserId`, and `req` holds the local variables of every request in
flight. A request starts, reads rows one at a time (`AuthorizeRequester` and
`AuthorizeTarget` of packages/auth, `LoadActor`, `LoadTarget` of the handler),
and commits with the condition its DynamoDB call carries: `Remove` and `Patch`
ask only that the row exists, `TransferOwnership` is the one transaction. Every
refusal and every thrown error is `Abandon`, possible at every step. The pure
rules (`RemovalAllowed`, `RoleChangeAllowed`, `PatchAllowed`, `CanLocate`) are
translated from `membership-rules.ts` and `authorization.ts`. `ended` is a history
variable: who ever left or was removed.

### LiveSession

The sessions of one target. A handler takes its time once (`now`), loads the row,
settles it against the deadline and writes conditionally; time moves on in
between. The maintenance sweep scans, then takes the time, then updates row by
row, and may die; DynamoDB's TTL reaps rows whose `expiresAt` has passed. The
index of sessions by target may trail the table. `withdrawn`, `consent` and `muted`
are history variables: what parties were told or decided.

### DeletionJob and Erasure

One account's erasure: `Dispatch` is the scheduled sweep, `Deliver` the queue and
the load of the row, and a worker is one invocation with its own copy of the job
and its dispositions. Each write to storage that leaves something observable in
between (promote, hand over, remove, dissolve in three, a day of history, every
save) is an action; the sweeps of one table, which are repeated as a whole, are
one action each. `Throws` makes any storage call fail, `Crash` ends an invocation
and gives its message back, and `OtherLeaves` and `OtherTransfers` are what
family-service may do meanwhile. `Erasure` states the promise of `job.ts` in five
actions (hide, erase, close the sign-in, forget); `Promise` is the refinement
mapping and `ErasureInOrder` the refinement.

### AlertCommands, Geofence, Notification, Alerts and Announcements

The alerts of one subject. `Geofence` and `Notification` are the two workers; they
share the variables of `AlertCommands`, the queue between them and the subject's
sharing, and `Alerts` puts them side by side. A geofence invocation receives a fix,
lists the fences, and for each one reads the row, evaluates (`NextRow`,
`Confirms`, `Candidate`, translated from `evaluateGeofence`) and writes with a
compare-and-set (`Wins`). A fix is an instant and, per place, what the evaluator
sees of it: inside, outside or in the ambiguous band, and accurate or not; the
reading is settled when the fix is first decrypted. `PublishAndReturn` may lose any of the
commands, since the handler swallows the failure. A notification invocation
lists candidates and takes each through the stages of `pipeline.ts`, one read or
write per step; `Skip` is everything that ends a delivery for the recipient's own
reasons. SQS is a set of messages that stay until they are acknowledged and can be
received again, by anybody, until then; `Republish` is the retried upload of a fix
already handled. `applied`, `crossings` and `barred` are history variables: the
fixes a row took, the transitions it confirmed, and what stood between an
invocation and its recipient ever since it turned to them. `Announcements` is
what both together promise.

### TrackingPolicy and Hysteresis

The pure reducer of `packages/location-core/src/state-machine.ts`. `ctx` is the
`TrackingContext`, and each of the twelve events is an action that goes through
`Reduce`: the monotonic clock (`Advance`), the expiry of a live session
(`Expire`), the event's own assignments, and the precedence ladder (`Ladder`). An
event carries any stamp, behind or ahead of the clock. `NextBatteryTier` is
translated on and around each threshold, on integer percentages, with the one
place where double arithmetic differs built in (0.1 + 0.05 exceeds 0.15).
`Hysteresis` is a single trigger with a margin; `BandsAreTriggers` says the three
bands are two of them.

### UploadCalls, OutboundQueue, Ingestion, Uploads and Delivery

The path of one phone's fixes into the history. `OutboundQueue` is
`packages/location-core/src/queue.ts` with every storage call an action of its
own: `producer` and `flusher` hold the locals of `reserveSequenceNumber` and
`enqueue`, and of `flush`, which interleave between their awaits. The package has
no caller in the repository yet, so the host is assumed to do what the class
allows without a lock of its own: one enqueue and one flush at a time, on a
storage whose calls are atomic and outlive the app. `Ingestion` is
`ingestLocationBatch`, await by await, in any number of invocations. `UploadCalls`
holds what they share, the calls in flight. The phone may give up on a call the
server still carries out (`UploadFails`, `AnswerLost`), so the server may handle
a batch and its retry at the same time and in either order. Time is abstracted: the
throttle holds until it elapses, the upload window may be open or closed at any
time, a backoff has no length. `dropped` and the field `paused` are history
variables. `Delivery` is what both together promise.

### Idempotency and AccountDeletion

`Idempotency` is `withIdempotency` with its store: the conditional claim, the read
back of a key that was taken, completion and release. `AccountDeletion` runs the
handler of `DELETE /v1/account` between `Claim` and `Complete`, one action per
table it writes, next to `POST /v1/account/deletion/cancel`. Requests fail at any
call (`HandlerThrows`), die at any point (`Dies`) and are repeated with the same
key or another. The byUser index of the jobs shows any part of the rows that
exist (`Listings`), and a row it shows may have been cancelled since. `promise` is a
history variable: what the person was last told and may rely on, which is
nothing when requests of the two kinds overlapped or the index misled one. `told`
collects the deadlines promised this way, by every attempt that was answered, until a
cancellation. `HideAndRevoke` is one action for the three writes that hide the person
(sharing rows, account, devices), and nothing in the module shows the person again:
`AcceptedIsRecorded` says that an attempt got as far as hiding, not what a reader sees
between the three.

## 4. The runs

| run | what it shows |
|---|---|
| `fm_concurrent` | Two handlers, four requests, a lagging index: never a second OWNER row; an ended membership is never a way to locate somebody; and as long as no two handlers overlapped and the index kept up, exactly one ACTIVE owner. |
| `ls_concurrent` | One session, any two handlers, a lagging index, sweep and TTL: consent, final closing and mutes survive every order. |
| `ls_ends` | Two requesters and sessions, one handler at a time: the limit of one open session and the mute are kept, and every open session ends though a sweep dies. |
| `dj_resume` | Two overlapping runs with a crash, a failure and a membership change: nothing is skipped, the order is kept (refinement), one heir, the family keeps its owner, and runs nobody interrupted leave no family empty. |
| `dj_ends` | A job in the worker's format reaches its last step through two crashes and two failures. |
| `dj_no_step` (violation) | A job as the API writes it has no `step` and is never started. |
| `al_alerts` | Two workers on each side of the command queue, a failure, a change of consent: arrivals and departures are real (a dwell without contradiction), alternate, and reach a phone at most once (refinement of `Announcements`), never one that was barred all along. |
| `al_retry` (violation) | A push refused for now keeps its command on the queue, where the claim makes every redelivery a duplicate. |
| `tp_policy` | Every sequence of the twelve events with stamps in any order: a live session stays within its window and its permissions and is never stretched, a phone that fell silent says so, and the battery bands are two triggers with a margin (refinement of `Hysteresis`). |
| `up_delivery` | Two fixes, two calls in flight, sharing switched once: no fix leaves the phone in silence (refinement of `Delivery`), the current fix is never behind the history, and a pause the index shows stops every later upload. |
| `up_leaves` | One call at a time, a queue of one record, a fix that ages, one the server rejects, and an app that dies once: every fix leaves the phone in the end, and none in silence. |
| `ac_requests` | Two requests at a time under two keys, two faults, two cancellations: an accepted deletion is recorded and hidden, every deadline told is the due date of a PENDING job, a completed cancellation leaves no job, a key has one answer. |

**Bounds, and why they are enough.** Three people are an owner, somebody
they manage and a third who can be transferred to; two handlers show every race
of a read and a write, since each handler writes once (a third would need two
writes to land between one read and its write, which four sequential requests
next to one slow handler already give). Two ticks of cap against three of
arrivals let a session lapse while handlers older than the lapse are alive. Two
days of history with a slice of one make the reschedule and its last slice
happen; one family with two others offers a choice of heir; the liveness run has
two families and three days. Two fixes and two
calls give a batch and its retry on the server at once, an older batch after a newer one, an
eviction while an upload is awaited and a partly confirmed batch; two attempts
make the last one fail. `up_leaves` makes the queue hold one record, so that the
second capture evicts. Two requests and two faults let two attempts miss each
other's job and a third find both; three jobs are all they can enqueue before a
cancellation. `tp_policy` takes readings on
every threshold, and within and past both margins. The alerts run starts from nothing, or where
two fixes have been applied and an arrival waits for its dwell (`ArrivalUnderWay`, a
state those two fixes lead to), so that three receptions out of three fixes in
any order are enough for an arrival and a departure, a departure given up, or one
fix handled by both workers; two receptions give one command to both
notification workers or two commands to one. `MaxFixReceives`,
`MaxCommandReceives`, `MaxChanges`, `MaxStarts`, `LastArrival`, `SweepCrashes`,
`MaxDispatches`, `MaxCrashes`, `MaxFailures`, `MaxMoves`, `MaxToggles`,
`Perishable`, `MaxFaults`, `MaxCancels`, `MaxJobs` and, in `AccountDeletion`,
`LastArrival` are bounds of the
environment, not of the code. Symmetry is over requests, workers and (for the
families) people whose identity nothing else distinguishes, in safety runs only.
Deadlock is not checked: with the environment's bounds exhausted these systems
come to rest.

**Fairness.** `ls_ends` assumes that time passes and that the maintenance job,
which an EventBridge schedule starts again and again, makes progress;
it assumes nothing of clients. `dj_ends` and `dj_no_step` assume the sweep
dispatches a PENDING job and that each invocation is scheduled to its next step or
dies, as Lambda and the visibility timeout of SQS guarantee; failures and
crashes are bounded because after five receives SQS gives the message to a
dead-letter queue, which is an operator's business. `up_leaves` assumes that the
host flushes again and again, that a flush that began goes on unless the app dies,
that a throttle ends, and that every call is answered or given up; it assumes
nothing of what the server answers, so a server that always fails is included:
the attempts of a fix are counted, and it is given up in the end.

## 5. What is proved

The theorems of `FamilyMembershipProofs`, `LiveSessionProofs`, `DeletionJobProofs`,
`SuccessionProofs`, `AlertsProofs`, `TrackingPolicyProofs`, `UploadsProofs` and
`AccountDeletionProofs` hold for every value of the constants under the named
assumptions of the modules. Every safety invariant, every step property and every
refinement of a passing run is among them.

- *FamilyMembership.* `TypeCorrect`, `SingleOwner`, `EndedInvisible` and
  `OneOwnerAlone`. None of the last three is inductive. `OwnerRowIsTheOwner` needs that between the two writes of
  `createFamily` nobody holds the OWNER role and no other creation is under way
  (`CreationIsExclusive`); a slow transfer cannot break it because its condition
  re-reads `ownerUserId` and both rows, whatever the handler had read. Invisibility
  needs `EndedRowsAreClosed`: a row that ever ended is remembered, still exists and
  has an empty allow-list, which no writer opens again, so it cannot be looked
  through even if a stale PATCH makes it ACTIVE. `OneOwnerAlone` is about the
  behaviours of `MCFamilyMembership` in which requests have not met, nor begun on an index behind its
  table: there the rows a handler decided on are still the rows it writes
  (`HandlerKnows`), for the only other writer, a redemption, adds rows and changes
  none, and so the rules that spare the owner spare the stored owner. Members may
  join at any moment, and the index may then lag behind them (`IndexFollows`).
- *LiveSession.* `TypeCorrect`, `WithdrawalIsFinal`, `WatchingNeedsConsent`,
  `MutesLast` and `ClosingIsFinal`, and for one handler at a time `LimitIsKept` and
  `MutedAskNoMore`. The invariant says what each status of a row
  implies (`RowMakesSense`: a running one was accepted when it started, an
  undecided one has no consent yet, a mute sits in a rejected row that never expires),
  what a handler in flight can still be about (`HandlerMakesSense`), and that a
  withdrawn session is neither open nor free again. Nothing is needed about the
  status a handler has read: a stale read is harmless because the condition of the
  write tests the stored status again. The step properties follow from the same invariant.
  The limit and the mute are assumed to be asked for by one handler at a time, with
  an index that does not lag (`Alone`), since TLC breaks both otherwise. Even so the
  handler counts at the time it arrived, not at the time it writes: the invariant
  says there is room for the row it will create, and that a row it is about to
  accept was among the open ones counted then (`HandlerFits`). It holds to the
  write because time, the sweep and TTL only ever close (`LaterIsFewer`,
  `ClosingIsFewer`).
- *DeletionJob.* `TypeCorrect`, `ErasureNeverSkips` and `ErasureIsOrdered`. The invariant says the same
  of every copy of the job, the stored one and the one each overlapping invocation
  holds: what is behind its step (and its history cursor) is erased, and what an
  invocation believes of the subject's memberships is still true. It is preserved
  because the stores only shrink (`Shrink`, `GoodStays`), and a copy moves on only
  when its step is done (`Advance`, `CompleteIsGood`). The same invariant gives the
  refinement of `Erasure` (`StepRefines`): a sweep is a step of the promise because
  its step number says what is already gone, and no step of anybody else brings a
  row of the subject back.

- *TrackingPolicy.* `TypeCorrect`, `LiveIsLimited`, `SessionsAreExclusive`,
  `SilenceIsReported` and `BandsAreTwoTriggers`. Because every event goes through
  `Reduce`, the facts about `Advance`, `Expire` and `Ladder` are lemmas proved once,
  and the proof of a step has one case per event only for what the event assigns.
- *AccountDeletion.* `TypeCorrect`, `AcceptedRecorded`, `CancellationComplete`,
  `AnswersAgree` and `DeadlinesKept`. The promises are not inductive: what a request
  is told at its end rests on what every request on the way had done or seen. The
  invariant adds that requests of the two kinds that meet know of each other
  (`KindsMeet`), that a request to delete that nobody overtook has a PENDING job
  once it is past listing (`DeletersDeliver`), and that a request to cancel that
  nobody overtook holds every PENDING job in its list and has no request to delete
  beside it (`CancellersKnow`). For the deadlines it says that the date such a request
is about to answer is the due date of a PENDING job, as is every date already told
(`DeadlinesKnown`): it carries over because only a cancellation takes a job away, and
by then nothing is promised and whoever is deleting has been overtaken. For the keys it says that a record in progress
  belongs to the one request that runs under it, and that until it is completed no
  answer was given (`KeyIsHeld`): this is what the conditional put buys, and it
  fails for a key whose row vanished between the put and the read, which
  `unclaimed` leaves out. A request that ends (`EndingKeepsKinds`) and one that goes
  on (`GoingOnKeepsKinds`) are one lemma each, used by every action.

- *The families of an erased account* (`SuccessionProofs`). `OnlyOneHeir`,
  `OwnerThroughout` and `NoneLeftEmpty`. Any number of invocations of one job work on
  a family at once, each with a plan of its own age. The invariant says that, as long as
  nobody else moves, a family is in one of three conditions (an owner who stays; to be handed to the one
  member any invocation would choose; nobody else in it), and that every plan
  anybody holds fits the condition its family is in now, however old the plan is
  (`PlanSettled`, `PlanToHandOver`, `PlanToDissolve`). The choice is the same for all because rank and then the
  smallest id leave one candidate (`SuccessorIsChosen`), and a handover half done
  marks the heir every later plan names. The properties are claimed while
  `counts.moves = 0`: a member who leaves after the plan was made makes it hand the
  family to somebody gone (section 6). `NoEmptyFamily` is claimed for
  runs that neither crash nor fail.
- *Alerts.* `TypeCorrect`, `CrossingsWereReal`, `TheBarredHearNothing` and
  `EachIsAnnouncedOnce`, the refinement of `Announcements`. The invariant ties a fence row to the
  fixes it took: a candidate side goes back to a fix that showed it with none since
  against it, and the last transition is to the side the row is on (`RowFits`,
  `RowFollows`). The compare-and-set is what carries a stale read to its write:
  the stored version is never below the one read, and where they are equal the
  rows are (`GeoKnows`). At the other end a claim has one holder, and what a
  device got was claimed (`ClaimsAreExclusive`, `PushesAreClaimed`), so a command delivered
  again finds its claim. That somebody barred all along hears nothing needs what an
  invocation has already read to be still recorded against its recipient
  (`StillBarred`).
- *Uploads.* `TypeCorrect`, `HistoryIsCovered`, `PauseStops` and `NothingIsLost`, the
  refinement of `Delivery`. The invariant says that whatever is in a batch, on
  the phone or in a call, is pending, stored or counted as dropped; that an answer
  taken for a confirmation is about the batch the flush holds, late answers to an
  earlier one included (`AwaitedIsSent`); and that a call's accepted fixes
  are covered by the current one before they are appended (`CallIsHonest`). Facts
  about data that would need induction are had without it: the newest of a finite
  set from the well-foundedness of strict subsets (`NewestIsGreatest`), the size of a
  batch from an injection into its bound.

Only model-checked: the liveness properties `EveryOpenSessionEnds`, `JobCompletes`
and `EveryEventLeaves` (the prover has neither fairness nor ENABLED). `AnnouncedOnce` needs both dwells to be positive, which
`GeofenceConstants` assumes and the configuration does not enforce
(`geofence-worker/src/env.ts` takes any number): with a dwell of zero and two fixes
of one instant, one fix could cross twice.

## 6. Where the code and its documents disagree

The two violation runs are findings, each against a sentence of the repository.
Others were seen with TLC and are kept as hazards with a note, without a run of
their own: a removal authorised before an ownership transfer to its target commits
after it and leaves the family without an active owner (`ExactlyOneOwner` with two
handlers); a crash between the last member's row and the family's leaves a family
nobody belongs to (`NoEmptyFamily` with a crash); a cancellation that dies, or that a
lagging index misleads, between the account and its jobs leaves a job that will be
dispatched for an ACTIVE account, and its retry is answered CONFLICT; a sequence
number reserved while a flush awaits its upload is handed out again, because the
flush writes back the metadata it had read; a PATCH to ACTIVE authorised before a removal commits after it and brings the
removed member back; two concurrent requests both find no open live session and both
create one; a block decided on a stale index can make a new owner leave; a message
redelivered after COMPLETED makes the stored step go back and the erasure run
again; a failed save of the finished job stores FAILED for ever; a family can be
handed to somebody who left since the plan was made; and the places of a family
are not inherited when the job resumes after the memberships went. The
deduplication key of an alert does not name the place, so that of two fences crossed by
one fix only one is announced. Invitations
are created with `revokedAt: null` while redemption demands that the attribute be
absent, so none can be accepted.

The deadline of an erasure is said to be set exactly once and never pushed further out
by a retry (`account.ts:301-303`). `markPendingDeletion` keeps to this for the date on
the account row, but what is carried out, and answered, is the date of the job, and
that is the date of the attempt that enqueues it: a request that fails after the mark
and is repeated a day later is answered, and erased, a day later than the row says and
the app shows. TLC refutes "no PENDING job is due after `purgeAt`" in a dozen steps of one
request, so it is not claimed. What does hold is that every date an accepted request was
told has a job due then (`ToldDeadlinesAreKept`); two attempts that both find no job
leave two, and the earlier one erases before the later date that was told.

## 7. What is not modelled

Text, layout, logging, metrics and audit records; encryption (opaque to these
properties); rate limits and entitlements, each of which can only refuse; user
interfaces and native engines; deployment. DynamoDB, SQS, Lambda and the
schedule are modelled from how `src/` uses them: conditional writes are atomic,
indexes may lag, messages are delivered at least once, invocations may die.

Of the parts with a protocol of their own three are left. invitation-service is
not modelled because its accept can never succeed as written (section 6): there is
no behaviour to state a property of, and `FamilyMembership` takes the join it was
meant to perform as one action. subscription-worker reads, folds and writes one
row without a condition; what that exposes is listed as a hazard. Mutual hiding
(the deny-lists family-service and the privacy endpoint both write) is outside
`FamilyMembership`, whose visibility rule speaks of role, status, pause and
allow-list. The remaining endpoints are single reads and writes of one row. Most of
the repository's lines are screens, native engines, infrastructure definitions and
scripts, which have no state these properties speak of.
