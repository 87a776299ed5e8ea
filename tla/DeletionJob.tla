---------------------------- MODULE DeletionJob ----------------------------
(***************************************************************************)
(* The erasure of one account: the dispatching sweep, the queue, and        *)
(* services/deletion-worker's run over the job's steps.  A worker is one    *)
(* invocation of the Lambda; messages are redelivered when it dies.         *)
(*                                                                          *)
(* One action per write to storage, and one per save of the job.  A step    *)
(* that sweeps one table is one action: its deletes are repeatable and the  *)
(* step is repeated as a whole.  Abstracted: pacing, metrics, timestamps,   *)
(* attempts and error codes, the midnight shift of the history window (the  *)
(* lookback exceeds the retention), one saved place of the subject's per    *)
(* family, and a byUser index that is up to date.                           *)
(***************************************************************************)
EXTENDS Integers, Sequences, FiniteSets

CONSTANTS
    Families,       \* the families the account may belong to
    Others,         \* other people, numbered by seniority
    Workers,        \* invocations that can run at the same time
    Lookback,       \* day partitions of history (1 is the newest)
    Budget,         \* maxHistoryDaysPerInvocation
    FirstStep,      \* the job's step as enqueued; Absent: no such attribute
    MaxDispatches,  \* BOUND: times the sweep finds the job still PENDING
    MaxCrashes,     \* BOUND: invocations that die
    MaxFailures,    \* BOUND: storage calls that throw
    MaxMoves        \* BOUND: membership changes other people make meanwhile

Subject == 0
Members == Others \cup {Subject}
Absent == 0

DELETION_STEPS_SharingSecond ==
    <<"REMOVE_MEMBERSHIPS", "REVOKE_SHARING", "REVOKE_DEVICES", "DELETE_CURRENT_LOCATIONS",
      "DELETE_LOCATION_HISTORY", "DELETE_SAVED_PLACES", "DELETE_NOTIFICATION_PREFERENCES",
      "DELETE_LIVE_SESSIONS", "DELETE_GEOFENCE_STATE", "DELETE_IDENTITY",
      "WRITE_TOMBSTONE", "CONFIRM", "COMPLETED">>

DELETION_STEPS ==
    <<"REVOKE_SHARING", "REMOVE_MEMBERSHIPS", "REVOKE_DEVICES", "DELETE_CURRENT_LOCATIONS",
      "DELETE_LOCATION_HISTORY", "DELETE_SAVED_PLACES", "DELETE_NOTIFICATION_PREFERENCES",
      "DELETE_LIVE_SESSIONS", "DELETE_GEOFENCE_STATE", "DELETE_IDENTITY",
      "WRITE_TOMBSTONE", "CONFIRM", "COMPLETED">>

\* Steps are stored by name; the model stores their place in the order.
TERMINAL_STEP == 13
Steps == 1..TERMINAL_STEP

\* The steps that empty one table, or delete one record, keyed by the user id.
SweepSteps == {"REVOKE_DEVICES", "DELETE_CURRENT_LOCATIONS", "DELETE_NOTIFICATION_PREFERENCES",
               "DELETE_LIVE_SESSIONS", "DELETE_GEOFENCE_STATE", "DELETE_IDENTITY",
               "WRITE_TOMBSTONE"}

ASSUME DeletionConstants ==
    /\ Families # {}
    /\ Others \subseteq Nat \ {0} /\ Lookback \in Nat \ {0} /\ Budget \in Nat \ {0}
    /\ FirstStep \in {Absent, 1}
    /\ {MaxDispatches, MaxCrashes, MaxFailures, MaxMoves} \subseteq Nat

\* Seniority orders people: of any group somebody is the most senior.
ASSUME MostSenior ==
    \A group \in SUBSET Others : group # {} => \E u \in group : \A v \in group : u <= v

VARIABLES
    job,        \* the DeletionJobs row: status, step and cursor
    messages,   \* messages for this job on the queue
    worker,     \* [Workers -> what the invocation holds]
    row,        \* FamilyMemberships: [Families -> [Members -> role and status]]
    owner,      \* Families.ownerUserId; Gone when the row is deleted
    shared,     \* families whose members may see the subject
    place,      \* createdBy of the place the subject saved in each family
    history,    \* day partitions with rows of the subject
    kept,       \* sweep steps whose rows are still stored
    counts      \* dispatches, crashes, failures and moves so far

world == <<row, owner, shared, place, history, kept>>
vars == <<job, messages, worker, world, counts>>

Roles == {"NONE", "OWNER", "ADMIN", "ADULT"}
Rows == [role : Roles, status : {"ACTIVE", "LEFT"}]
Gone == -1
NoRow == [role |-> "NONE", status |-> "LEFT"]
Dispositions == [action : {"NONE", "LEAVE", "TRANSFER_OWNERSHIP", "DISSOLVE"}, heir : Members]
Jobs == [status : {"PENDING", "RUNNING", "FAILED", "COMPLETED"},
         step : {Absent} \cup Steps, cursor : 0..Lookback]

\* planned: whether this invocation has computed its dispositions yet.
Invocations ==
    [at : {"IDLE", "START", "STEP", "FAMILIES", "HANDOVER", "REMOVE", "MEMBERS", "PLACES",
           "FAMILY", "DAYS", "CURSOR", "SAVE", "FAILED"},
     step : {Absent} \cup Steps, cursor : 0..Lookback, until : 0..Lookback, planned : BOOLEAN,
     plan : [Families -> Dispositions], left : SUBSET Families, family : Families]
NoPlan == [f \in Families |-> [action |-> "NONE", heir |-> Subject]]
Idle == [at |-> "IDLE", step |-> Absent, cursor |-> 0, until |-> 0, planned |-> FALSE,
         plan |-> NoPlan, left |-> {}, family |-> CHOOSE f \in Families : TRUE]

-----------------------------------------------------------------------------
\* FAMILY_ROLE_RANK; MEMBER, below ADULT, is not told apart from it.
Rank(role) == CASE role = "OWNER" -> 3 [] role = "ADMIN" -> 2 [] role = "ADULT" -> 1 [] OTHER -> 0

ActiveOthers(f) == {u \in Others : row[f][u].status = "ACTIVE"}

AnyOthers(f) == {u \in Others : row[f][u].role # "NONE"}

LowestRanked(f, candidates) ==
    CHOOSE u \in candidates : \A v \in candidates :
        \/ Rank(row[f][u].role) < Rank(row[f][v].role)
        \/ Rank(row[f][u].role) = Rank(row[f][v].role) /\ u <= v

\* chooseSuccessor: highest rank first, then seniority.
ChooseSuccessor(f, candidates) ==
    CHOOSE u \in candidates : \A v \in candidates :
        \/ Rank(row[f][u].role) > Rank(row[f][v].role)
        \/ Rank(row[f][u].role) = Rank(row[f][v].role) /\ u <= v

PlanRemovalCountingFormer(f) ==
    LET own == row[f][Subject] IN
    CASE own.role = "NONE" -> [action |-> "NONE", heir |-> Subject]
      [] own.role \in {"ADMIN", "ADULT"} \/ (own.role = "OWNER" /\ own.status # "ACTIVE")
           -> [action |-> "LEAVE", heir |-> Subject]
      [] own.role = "OWNER" /\ own.status = "ACTIVE" ->
           IF AnyOthers(f) = {} THEN [action |-> "DISSOLVE", heir |-> Subject]
           ELSE [action |-> "TRANSFER_OWNERSHIP", heir |-> ChooseSuccessor(f, AnyOthers(f))]

\* planMembershipRemoval, for one family.
PlanRemoval(f) ==
    LET own == row[f][Subject] IN
    CASE own.role = "NONE" -> [action |-> "NONE", heir |-> Subject]
      [] own.role \in {"ADMIN", "ADULT"} \/ (own.role = "OWNER" /\ own.status # "ACTIVE")
           -> [action |-> "LEAVE", heir |-> Subject]
      [] own.role = "OWNER" /\ own.status = "ACTIVE" ->
           IF ActiveOthers(f) = {} THEN [action |-> "DISSOLVE", heir |-> Subject]
           ELSE [action |-> "TRANSFER_OWNERSHIP", heir |-> ChooseSuccessor(f, ActiveOthers(f))]

\* dispositionsFor: computed when first needed, kept for the invocation.
DispositionsFor(h) == IF h.planned THEN h.plan ELSE [f \in Families |-> PlanRemoval(f)]

SliceEndUnclamped(cursor) == cursor + Budget

\* nextHistoryDays: the last day of this invocation's slice.
SliceEnd(cursor) == IF cursor + Budget < Lookback THEN cursor + Budget ELSE Lookback

\* completeStep, on the invocation's copy; a save follows.
CompleteStep(h) == [h EXCEPT !.step = @ + 1, !.cursor = 0, !.until = 0, !.at = "SAVE"]

\* The row a save writes: the worker's copy, whatever the row holds by now.
Saved(h) == [status |-> IF h.step = TERMINAL_STEP THEN "COMPLETED" ELSE "RUNNING",
             step |-> h.step, cursor |-> h.cursor]

MarkFailedSkippingStep(h) == [status |-> "FAILED", step |-> h.step + 1, cursor |-> 0]

\* markFailed: the step and the cursor stay where they are.
MarkFailed(h) == [status |-> "FAILED", step |-> h.step, cursor |-> h.cursor]

RescheduledNever(n) == n

\* reschedule: another message for the same job.
Rescheduled(n) == n + 1

On(w, step) == worker[w].at = "STEP" /\ DELETION_STEPS[worker[w].step] = step

Complete(w) == worker' = [worker EXCEPT ![w] = CompleteStep(@)]

Goto(w, location) == worker' = [worker EXCEPT ![w].at = location]

Finish(w) == worker' = [worker EXCEPT ![w] = Idle]

-----------------------------------------------------------------------------
\* The account as it is when the job is due: an owner with an ACTIVE OWNER row
\* in every family, and other people who are members or have left.
Init ==
    /\ owner \in [Families -> Members]
    /\ row \in [Families -> [Members -> Rows]]
    /\ \A f \in Families, u \in Members :
          /\ u = owner[f] <=> row[f][u].role = "OWNER"
          /\ u = owner[f] => row[f][u].status = "ACTIVE"
          /\ row[f][u].role = "NONE" => row[f][u] = NoRow
    /\ shared \in SUBSET {f \in Families : row[f][Subject].role # "NONE"}
    /\ place = [f \in Families |-> Subject]
    /\ history = 1..Lookback
    /\ kept = SweepSteps
    /\ job = [status |-> "PENDING", step |-> FirstStep, cursor |-> 0]
    /\ messages = 0
    /\ worker = [w \in Workers |-> Idle]
    /\ counts = [dispatches |-> 0, crashes |-> 0, failures |-> 0, moves |-> 0]

\* dispatchDeletions: at least once while the row says PENDING.
Dispatch ==
    /\ job.status = "PENDING"
    /\ counts.dispatches < MaxDispatches
    /\ counts' = [counts EXCEPT !.dispatches = @ + 1]
    /\ messages' = messages + 1
    /\ UNCHANGED <<job, worker, world>>

\* processJob: load the row.  A row without a step is "not found", a completed
\* one is a no-op, and either way the message is consumed.
Deliver(w) ==
    /\ worker[w].at = "IDLE" /\ messages > 0
    /\ messages' = messages - 1
    /\ IF job.step \in {Absent, TERMINAL_STEP} THEN UNCHANGED worker
       ELSE worker' = [worker EXCEPT ![w] = [Idle EXCEPT
                !.at = IF job.status = "PENDING" THEN "START" ELSE "STEP",
                !.step = job.step, !.cursor = job.cursor]]
    /\ UNCHANGED <<job, world, counts>>

\* The first save of a job that has not started.
Start(w) ==
    /\ worker[w].at = "START"
    /\ job' = Saved(worker[w])
    /\ Goto(w, "STEP")
    /\ UNCHANGED <<messages, world, counts>>

\* The save after each step, which ends the run after the last one.
Save(w) ==
    /\ worker[w].at = "SAVE"
    /\ job' = Saved(worker[w])
    /\ IF worker[w].step = TERMINAL_STEP THEN Finish(w) ELSE Goto(w, "STEP")
    /\ UNCHANGED <<messages, world, counts>>

-----------------------------------------------------------------------------
RevokeSharing(w) ==
    /\ On(w, "REVOKE_SHARING")
    /\ shared' = {}
    /\ Complete(w)
    /\ UNCHANGED <<job, messages, row, owner, place, history, kept, counts>>

\* computeDispositions, for the loop over the families.
PlanFamilies(w) ==
    LET plan == DispositionsFor(worker[w]) IN
    /\ On(w, "REMOVE_MEMBERSHIPS")
    /\ worker' = [worker EXCEPT ![w].at = "FAMILIES", ![w].planned = TRUE, ![w].plan = plan,
                                ![w].left = {f \in Families : plan[f].action # "NONE"}]
    /\ UNCHANGED <<job, messages, world, counts>>

\* transferOwnership's first update: the heir's row, whatever its status.
PromoteSuccessor(w, f) ==
    LET u == worker[w].plan[f].heir IN
    /\ worker[w].at = "FAMILIES" /\ f \in worker[w].left
    /\ worker[w].plan[f].action = "TRANSFER_OWNERSHIP"
    /\ IF row[f][u].role # "NONE"
       THEN /\ row' = [row EXCEPT ![f][u].role = "OWNER"]
            /\ worker' = [worker EXCEPT ![w].at = "HANDOVER", ![w].family = f]
       ELSE Goto(w, "FAILED") /\ UNCHANGED row
    /\ UNCHANGED <<job, messages, owner, shared, place, history, kept, counts>>

\* transferOwnership's second update: the family's ownerUserId.
HandOver(w) ==
    LET f == worker[w].family IN
    /\ worker[w].at = "HANDOVER"
    /\ IF owner[f] # Gone
       THEN owner' = [owner EXCEPT ![f] = worker[w].plan[f].heir] /\ Goto(w, "REMOVE")
       ELSE Goto(w, "FAILED") /\ UNCHANGED owner
    /\ UNCHANGED <<job, messages, row, shared, place, history, kept, counts>>

\* removeMembership; the row takes its sharing attributes with it.
RemoveMembership(w, f) ==
    LET h == worker[w] IN
    /\ \/ h.at = "FAMILIES" /\ f \in h.left /\ h.plan[f].action # "TRANSFER_OWNERSHIP"
       \/ h.at = "REMOVE" /\ f = h.family
    /\ row' = [row EXCEPT ![f][Subject] = NoRow]
    /\ shared' = shared \ {f}
    /\ worker' = [worker EXCEPT ![w].left = @ \ {f}, ![w].family = f,
          ![w].at = IF h.plan[f].action = "DISSOLVE" THEN "MEMBERS" ELSE "FAMILIES"]
    /\ UNCHANGED <<job, messages, owner, place, history, kept, counts>>

\* dissolveFamily, in three writes: the remaining rows, the places, the family.
DissolveMembers(w) ==
    LET f == worker[w].family IN
    /\ worker[w].at = "MEMBERS"
    /\ row' = [row EXCEPT ![f] = [u \in Members |-> NoRow]]
    /\ Goto(w, "PLACES")
    /\ UNCHANGED <<job, messages, owner, shared, place, history, kept, counts>>

DissolvePlaces(w) ==
    /\ worker[w].at = "PLACES"
    /\ place' = [place EXCEPT ![worker[w].family] = Gone]
    /\ Goto(w, "FAMILY")
    /\ UNCHANGED <<job, messages, row, owner, shared, history, kept, counts>>

DissolveFamily(w) ==
    /\ worker[w].at = "FAMILY"
    /\ owner' = [owner EXCEPT ![worker[w].family] = Gone]
    /\ Goto(w, "FAMILIES")
    /\ UNCHANGED <<job, messages, row, shared, place, history, kept, counts>>

FamiliesDone(w) ==
    /\ worker[w].at = "FAMILIES" /\ worker[w].left = {}
    /\ Complete(w)
    /\ UNCHANGED <<job, messages, world, counts>>

-----------------------------------------------------------------------------
(* DELETE_LOCATION_HISTORY: a slice of days, a checkpoint after each.       *)

SliceHistory(w) ==
    /\ On(w, "DELETE_LOCATION_HISTORY")
    /\ worker' = [worker EXCEPT ![w].at = "DAYS", ![w].until = SliceEnd(worker[w].cursor)]
    /\ UNCHANGED <<job, messages, world, counts>>

DeleteHistoryDay(w) ==
    LET day == worker[w].cursor + 1 IN
    /\ worker[w].at = "DAYS" /\ worker[w].cursor < worker[w].until
    /\ history' = history \ {day}
    /\ worker' = [worker EXCEPT ![w].cursor = day, ![w].at = "CURSOR"]
    /\ UNCHANGED <<job, messages, row, owner, shared, place, kept, counts>>

SaveCursor(w) ==
    /\ worker[w].at = "CURSOR"
    /\ job' = Saved(worker[w])
    /\ Goto(w, "DAYS")
    /\ UNCHANGED <<messages, world, counts>>

\* The slice was the last one, or the rest is left to another message.
SliceDone(w) ==
    /\ worker[w].at = "DAYS" /\ worker[w].cursor = worker[w].until
    /\ IF worker[w].until = Lookback
       THEN Complete(w) /\ UNCHANGED messages
       ELSE Finish(w) /\ messages' = Rescheduled(messages)
    /\ UNCHANGED <<job, world, counts>>

-----------------------------------------------------------------------------
\* purgeSavedPlaces: delete those of dissolved families, hand over those of
\* transferred ones, and pass over every other.  The last use of the plan.
PurgeSavedPlaces(w) ==
    LET plan == DispositionsFor(worker[w])
        Purged(f) == CASE place[f] # Subject -> place[f]
                       [] plan[f].action = "DISSOLVE" -> Gone
                       [] plan[f].action = "TRANSFER_OWNERSHIP" -> plan[f].heir
                       [] OTHER -> place[f] IN
    /\ On(w, "DELETE_SAVED_PLACES")
    /\ place' = [f \in Families |-> Purged(f)]
    /\ worker' = [worker EXCEPT ![w] = [CompleteStep(@) EXCEPT !.planned = FALSE, !.plan = NoPlan]]
    /\ UNCHANGED <<job, messages, row, owner, shared, history, kept, counts>>

\* Devices, current locations, preferences, live sessions, geofence state, the
\* identity, and the users row with the tombstone in its place.
Sweep(w) ==
    /\ worker[w].at = "STEP" /\ DELETION_STEPS[worker[w].step] \in SweepSteps
    /\ kept' = kept \ {DELETION_STEPS[worker[w].step]}
    /\ Complete(w)
    /\ UNCHANGED <<job, messages, row, owner, shared, place, history, counts>>

Confirm(w) ==
    /\ On(w, "CONFIRM")
    /\ Complete(w)
    /\ UNCHANGED <<job, messages, world, counts>>

-----------------------------------------------------------------------------
\* What the invocation does next is a call that can fail.
CallsStorage(h) ==
    \/ h.at = "STEP" /\ DELETION_STEPS[h.step] \notin {"DELETE_LOCATION_HISTORY", "CONFIRM"}
    \/ h.at = "FAMILIES" /\ h.left # {}
    \/ h.at = "DAYS" /\ (h.cursor < h.until \/ h.until < Lookback)
    \/ h.at \in {"HANDOVER", "REMOVE", "MEMBERS", "PLACES", "FAMILY", "CURSOR", "SAVE"}

Throws(w) ==
    /\ CallsStorage(worker[w])
    /\ counts.failures < MaxFailures
    /\ counts' = [counts EXCEPT !.failures = @ + 1]
    /\ Goto(w, "FAILED")
    /\ UNCHANGED <<job, messages, world>>

\* The catch: save the failure and leave the job to another message.
SaveFailed(w) ==
    /\ worker[w].at = "FAILED"
    /\ job' = MarkFailed(worker[w])
    /\ messages' = Rescheduled(messages)
    /\ Finish(w)
    /\ UNCHANGED <<world, counts>>

\* The invocation dies or times out: the queue shows its message again.
Crash(w) ==
    /\ worker[w].at # "IDLE"
    /\ counts.crashes < MaxCrashes
    /\ counts' = [counts EXCEPT !.crashes = @ + 1]
    /\ messages' = messages + 1
    /\ Finish(w)
    /\ UNCHANGED <<job, world>>

\* family-service meanwhile: a member leaves, or an owner hands the family on.
OtherLeaves(f, u) ==
    /\ counts.moves < MaxMoves
    /\ row[f][u].status = "ACTIVE" /\ row[f][u].role # "OWNER"
    /\ row' = [row EXCEPT ![f][u].status = "LEFT"]
    /\ counts' = [counts EXCEPT !.moves = @ + 1]
    /\ UNCHANGED <<job, messages, worker, owner, shared, place, history, kept>>

OtherTransfers(f, u, v) ==
    /\ counts.moves < MaxMoves
    /\ owner[f] = u /\ row[f][u] = [role |-> "OWNER", status |-> "ACTIVE"]
    /\ v # u /\ row[f][v].status = "ACTIVE"
    /\ row' = [row EXCEPT ![f][u].role = "ADMIN", ![f][v].role = "OWNER"]
    /\ owner' = [owner EXCEPT ![f] = v]
    /\ counts' = [counts EXCEPT !.moves = @ + 1]
    /\ UNCHANGED <<job, messages, worker, shared, place, history, kept>>

-----------------------------------------------------------------------------
Work(w) ==
    \/ Deliver(w) \/ Start(w) \/ Save(w)
    \/ RevokeSharing(w)
    \/ PlanFamilies(w)
    \/ \E f \in Families : PromoteSuccessor(w, f) \/ RemoveMembership(w, f)
    \/ HandOver(w)
    \/ DissolveMembers(w) \/ DissolvePlaces(w) \/ DissolveFamily(w)
    \/ FamiliesDone(w)
    \/ SliceHistory(w) \/ DeleteHistoryDay(w) \/ SaveCursor(w) \/ SliceDone(w)
    \/ PurgeSavedPlaces(w)
    \/ Sweep(w)
    \/ Confirm(w)
    \/ SaveFailed(w)

Next ==
    \/ Dispatch
    \/ \E w \in Workers : Work(w) \/ Throws(w) \/ Crash(w)
    \/ \E f \in Families, u \in Others : OtherLeaves(f, u)
    \/ \E f \in Families, u \in Others, v \in Members : OtherTransfers(f, u, v)

Spec == Init /\ [][Next]_vars

\* The schedule keeps sweeping, the queue keeps delivering, Lambda keeps running.
FairSpec == Spec /\ WF_vars(Dispatch) /\ \A w \in Workers : WF_vars(Work(w))

-----------------------------------------------------------------------------
(* Properties.                                                              *)

\* The job row, the invocations and the tables keep their types.
TypeOK ==
    /\ job \in Jobs
    /\ messages \in Nat
    /\ worker \in [Workers -> Invocations]
    /\ row \in [Families -> [Members -> Rows]]
    /\ owner \in [Families -> Members \cup {Gone}]
    /\ shared \subseteq Families
    /\ place \in [Families -> Members \cup {Gone}]
    /\ history \subseteq 1..Lookback
    /\ kept \subseteq SweepSteps
    /\ counts \in [dispatches : Nat, crashes : Nat, failures : Nat, moves : Nat]

\* What a step leaves behind when it is done (it promises nothing of the
\* places: a resumed run no longer knows the families it left).
Done(step) ==
    CASE step = "REVOKE_SHARING" -> shared = {}
      [] step = "REMOVE_MEMBERSHIPS" -> \A f \in Families : row[f][Subject].role = "NONE"
      [] step = "DELETE_LOCATION_HISTORY" -> history = {}
      [] step \in SweepSteps -> step \notin kept
      [] OTHER -> TRUE

\* A resumed job never skips: what the row says is behind it has been erased,
\* whatever crashes, failures, redeliveries and concurrent runs came before.
NeverSkips == \A i \in Steps : i < job.step => Done(DELETION_STEPS[i])

\* A retry picks the same successor: no family gets two new owners, while other
\* people change nothing.
OneHeir ==
    counts.moves = 0 =>
        \A f \in Families : Cardinality({u \in Others : row[f][u].role = "OWNER"}) <= 1

\* While anybody else is an ACTIVE member, the person a family names as its
\* owner is an ACTIVE member with the OWNER role, at every instant of the run
\* (while other people change nothing: a plan is as old as its invocation).
FamilyKeepsItsOwner ==
    counts.moves = 0 => \A f \in Families : ActiveOthers(f) # {} =>
        owner[f] # Gone /\ row[f][owner[f]] = [role |-> "OWNER", status |-> "ACTIVE"]

\* The run erases in the promised order.
Promise == INSTANCE Erasure WITH
    Items <- (SweepSteps \ {"DELETE_IDENTITY", "WRITE_TOMBSTONE"}) \cup {"HISTORY", "MEMBERSHIPS"},
    shown <- shared # {},
    data <- (kept \ {"DELETE_IDENTITY", "WRITE_TOMBSTONE"})
              \cup (IF history = {} THEN {} ELSE {"HISTORY"})
              \cup (IF Done("REMOVE_MEMBERSHIPS") THEN {} ELSE {"MEMBERSHIPS"}),
    signIn <- "DELETE_IDENTITY" \in kept,
    known <- "WRITE_TOMBSTONE" \in kept

ErasureInOrder == Promise!Spec

\* A requested erasure is carried out to its last step.
JobCompletes == <>(job.step = TERMINAL_STEP)

\* "A family must never silently survive with nobody in it" (membership-plan.ts):
\* when the job has reached its end and no invocation is left at work, every family
\* that still exists has an ACTIVE member, however the runs overlapped, as long as
\* none was interrupted and nobody else moved.
NoEmptyFamily ==
    /\ job.step = TERMINAL_STEP
    /\ \A w \in Workers : worker[w].at = "IDLE"
    /\ counts.crashes + counts.failures + counts.moves = 0
    => \A f \in Families : owner[f] # Gone => \E u \in Members : row[f][u].status = "ACTIVE"
=============================================================================
