-------------------------- MODULE AccountDeletion --------------------------
(***************************************************************************)
(* services/api: DELETE /v1/account, behind its idempotency key, and        *)
(* POST /v1/account/deletion/cancel, for one account, during the days of    *)
(* grace.  A request is one handler; it can fail at any call, die at any    *)
(* point, and be repeated by the client.                                    *)
(*                                                                          *)
(* What becomes of a job that is due is DeletionJob's.  Abstracted: audit   *)
(* records, the reasons a person gives, and the suspended and deleted       *)
(* account.                                                                 *)
(***************************************************************************)
EXTENDS Idempotency

CONSTANTS
    Grace,         \* accountDeletionGraceDays
    LastArrival,   \* BOUND: the last day a request arrives on
    MaxJobs,       \* BOUND: jobs that are ever enqueued
    MaxFaults,     \* BOUND: invocations that die, and calls that fail
    MaxCancels     \* BOUND: requests to cancel

ASSUME DeletionRequestConstants ==
    /\ Grace \in Nat \ {0}
    /\ {LastArrival, MaxJobs, MaxFaults, MaxCancels} \subseteq Nat

VARIABLES
    account,     \* the Users row: status and scheduledPurgeAt
    jobs,        \* the DeletionJobs rows
    visible,     \* memberships share, or a device may upload
    clock,
    work,        \* the locals of each request
    promise,     \* history: what the person was last told, and may rely on
    told,        \* history: the deadlines promised with DELETION, to any request
    counts       \* faults and cancels so far

state == <<account, jobs, visible>>
vars == <<protocol, state, clock, work, promise, told, counts>>

Arrivals == 0..LastArrival
Days == 0..(LastArrival + Grace)

\* Responses are told apart by the deadline they name.
ASSUME BodiesNameDeadlines == Days \subseteq Bodies

JobIds == 1..MaxJobs
JobStatuses == {"ABSENT", "PENDING", "CANCELLED"}
NoJob == [status |-> "ABSENT", due |-> 0]

Promises == {"NONE", "DELETION", "CANCELLATION"}

\* Of a handler: when it began, the jobs it still has to cancel, and whether a
\* request of the other kind overlapped it or the index misled it (a history flag).
Works == [now : Arrivals, jobs : SUBSET JobIds, overtaken : BOOLEAN]
NoWork == [now |-> 0, jobs |-> {}, overtaken |-> FALSE]

KeyStages == {"CLAIM", "READ_BACK", "RELEASE", "COMPLETE"}
DeleteStages == {"RUN", "LIST", "ENQUEUE", "HIDE"}
CancelStages == {"CANCEL", "LIST_TO_CANCEL", "CANCEL_JOBS"}
Handlers == [at : {"IDLE"} \cup KeyStages \cup DeleteStages \cup CancelStages,
             key : Keys \cup {NoKey}, body : Bodies]

Cancelling == {r \in Requests : req[r].at \in CancelStages}
Deleting == {r \in Requests : req[r].at \in KeyStages \cup DeleteStages}

Overtaken(S) == [r \in Requests |->
    IF r \in S THEN [work[r] EXCEPT !.overtaken = TRUE] ELSE work[r]]

Init ==
    /\ InitProtocol
    /\ account = [status |-> "ACTIVE", purgeAt |-> 0]
    /\ jobs = [j \in JobIds |-> NoJob]
    /\ visible = TRUE
    /\ clock = 0
    /\ work = [r \in Requests |-> NoWork]
    /\ promise = "NONE"
    /\ told = {}
    /\ counts = [faults |-> 0, cancels |-> 0]

-----------------------------------------------------------------------------
(* DELETE /v1/account                                                       *)

DeleteArrives(r, k) ==
    /\ req[r].at = "IDLE"
    /\ req' = [req EXCEPT ![r] = [Idle EXCEPT !.at = "CLAIM", !.key = k]]
    /\ work' = [Overtaken(Cancelling) EXCEPT
                    ![r] = [NoWork EXCEPT !.now = clock, !.overtaken = Cancelling # {}]]
    /\ promise' = IF promise = "CANCELLATION" THEN "NONE" ELSE promise
    /\ UNCHANGED <<record, answers, unclaimed, state, clock, told, counts>>

\* What a handler knew goes with it.
Forget(r) == work' = IF req'[r] = Idle THEN [work EXCEPT ![r] = NoWork] ELSE work

PurgeAtAfterTheDay(r) == work[r].now + Grace + 1

\* planAccountDeletion: scheduledPurgeAt, from the time the request came in.
PurgeAt(r) == work[r].now + Grace

Markable == account.status = "ACTIVE"

ToEnqueueOnceMarked == IF Markable THEN "LIST" ELSE "HIDE"

\* Marked or not, the handler goes on to the jobs: an earlier attempt may have
\* failed between the two.
AfterMark == "LIST"

\* markPendingDeletion: only an ACTIVE account; otherwise ALREADY_PENDING.
Mark(r) ==
    /\ req[r].at = "RUN"
    /\ account' = IF Markable
                  THEN [status |-> "PENDING_DELETION", purgeAt |-> PurgeAt(r)]
                  ELSE account
    /\ Goto(r, AfterMark)
    /\ UNCHANGED <<jobs, visible, work>>

\* What listForUser finds PENDING: the byUser index may lag behind any row, be it
\* new or cancelled since.
PendingJobs == {j \in JobIds : jobs[j].status = "PENDING"}
Listings == SUBSET {j \in JobIds : jobs[j] # NoJob}

DeadlineOfThePlan(r, j) == PurgeAt(r)

\* A PENDING job stands for this request too; its deadline is the one promised.
DeadlineOf(r, j) == jobs[j].due

ListJobs(r) ==
    /\ req[r].at = "LIST"
    /\ \E pending \in Listings :
          \/ /\ pending = {}
             /\ Goto(r, "ENQUEUE")
             /\ UNCHANGED work
          \/ \E j \in pending :
                /\ req' = [req EXCEPT ![r].at = "HIDE", ![r].body = DeadlineOf(r, j)]
                /\ work' = [work EXCEPT ![r].overtaken = @ \/ jobs[j].status # "PENDING"]
    /\ UNCHANGED state

Enqueue(r) ==
    /\ req[r].at = "ENQUEUE"
    /\ \E j \in JobIds :
          /\ jobs[j] = NoJob /\ \A i \in JobIds : jobs[i] = NoJob => j <= i
          /\ jobs' = [jobs EXCEPT ![j] = [status |-> "PENDING", due |-> PurgeAt(r)]]
    /\ req' = [req EXCEPT ![r].at = "HIDE", ![r].body = PurgeAt(r)]
    /\ UNCHANGED <<account, visible, work>>

\* writeSharing, setSharing and revokeAll.
HideAndRevoke(r) ==
    /\ req[r].at = "HIDE"
    /\ visible' = FALSE
    /\ Goto(r, "COMPLETE")
    /\ UNCHANGED <<account, jobs, work>>

\* A call of the handler throws.
HandlerThrows(r) ==
    /\ req[r].at \in DeleteStages
    /\ counts.faults < MaxFaults
    /\ counts' = [counts EXCEPT !.faults = @ + 1]
    /\ Goto(r, "RELEASE")
    /\ UNCHANGED <<state, work>>

HandlerStep(r) ==
    /\ \/ (Mark(r) \/ ListJobs(r) \/ Enqueue(r) \/ HideAndRevoke(r)) /\ UNCHANGED counts
       \/ HandlerThrows(r)
    /\ UNCHANGED <<record, answers, unclaimed, clock, promise, told>>

\* The 202, unless the record to complete is gone.
Respond(r) ==
    /\ Complete(r) /\ Forget(r)
    /\ \/ /\ record[req[r].key] # Absent /\ ~work[r].overtaken
          /\ promise' = "DELETION"
          /\ told' = told \cup {req[r].body}
       \/ /\ record[req[r].key] = Absent \/ work[r].overtaken
          /\ UNCHANGED <<promise, told>>
    /\ UNCHANGED <<state, clock, counts>>

KeyStep(r) ==
    /\ Claim(r) \/ ReadBack(r) \/ Release(r)
    /\ Forget(r)
    /\ UNCHANGED <<state, clock, promise, told, counts>>

-----------------------------------------------------------------------------
(* POST /v1/account/deletion/cancel                                         *)

CancelArrives(r) ==
    /\ req[r].at = "IDLE"
    /\ counts.cancels < MaxCancels
    /\ counts' = [counts EXCEPT !.cancels = @ + 1]
    /\ Goto(r, "CANCEL")
    /\ work' = [Overtaken(Deleting) EXCEPT ![r].overtaken = Deleting # {}]
    /\ UNCHANGED <<record, answers, unclaimed, state, clock, promise, told>>

\* cancelDeletion, or CONFLICT: not scheduled for deletion.
CancelAccount(r) ==
    /\ req[r].at = "CANCEL"
    /\ \/ /\ account.status = "PENDING_DELETION"
          /\ account' = [status |-> "ACTIVE", purgeAt |-> 0]
          /\ promise' = "NONE" /\ told' = {}
          /\ Goto(r, "LIST_TO_CANCEL")
          /\ UNCHANGED work
       \/ /\ account.status = "ACTIVE"
          /\ req' = [req EXCEPT ![r] = Idle]
          /\ Forget(r)
          /\ UNCHANGED <<account, promise, told>>
    /\ UNCHANGED jobs

ToCancelFirst(found) == {j \in found : \A i \in found : j <= i}

\* cancelPending: every job found PENDING, one write for each.
ToCancel(found) == found

ListToCancel(r) ==
    /\ req[r].at = "LIST_TO_CANCEL"
    /\ Goto(r, "CANCEL_JOBS")
    /\ \E pending \in Listings :
          work' = [work EXCEPT ![r].jobs = ToCancel(pending),
                      ![r].overtaken = @ \/ ~(PendingJobs \subseteq pending)]
    /\ UNCHANGED <<account, jobs, promise, told>>

CancelJob(r) ==
    /\ req[r].at = "CANCEL_JOBS"
    /\ \/ \E j \in work[r].jobs :
             /\ jobs' = [jobs EXCEPT ![j].status = IF @ = "PENDING" THEN "CANCELLED" ELSE @]
             /\ work' = [work EXCEPT ![r].jobs = @ \ {j}]
             /\ UNCHANGED <<req, promise>>
       \/ /\ work[r].jobs = {}
          /\ req' = [req EXCEPT ![r] = Idle]
          /\ Forget(r)
          /\ promise' = IF work[r].overtaken THEN promise ELSE "CANCELLATION"
          /\ UNCHANGED jobs
    /\ UNCHANGED <<account, told>>

CancelStep(r) ==
    /\ CancelAccount(r) \/ ListToCancel(r) \/ CancelJob(r)
    /\ UNCHANGED <<record, answers, unclaimed, visible, clock, counts>>

-----------------------------------------------------------------------------
\* The invocation ends; a claimed key stays IN_PROGRESS.
Dies(r) ==
    /\ req[r] # Idle
    /\ counts.faults < MaxFaults
    /\ counts' = [counts EXCEPT !.faults = @ + 1]
    /\ req' = [req EXCEPT ![r] = Idle]
    /\ Forget(r)
    /\ UNCHANGED <<record, answers, unclaimed, state, clock, promise, told>>

NextDay ==
    /\ clock < LastArrival
    /\ clock' = clock + 1
    /\ UNCHANGED <<protocol, state, work, promise, told, counts>>

Next ==
    \/ \E r \in Requests :
          \/ \E k \in Keys : DeleteArrives(r, k)
          \/ KeyStep(r) \/ HandlerStep(r) \/ Respond(r)
          \/ CancelArrives(r) \/ CancelStep(r) \/ Dies(r)
    \/ NextDay

Spec == Init /\ [][Next]_vars

-----------------------------------------------------------------------------
TypeOK ==
    /\ record \in [Keys -> Records]
    /\ req \in [Requests -> Handlers]
    /\ work \in [Requests -> Works]
    /\ answers \in [Keys -> SUBSET Bodies] /\ unclaimed \subseteq Keys
    /\ account \in [status : {"ACTIVE", "PENDING_DELETION"}, purgeAt : Days]
    /\ jobs \in [JobIds -> [status : JobStatuses, due : Days]]
    /\ visible \in BOOLEAN /\ promise \in Promises /\ told \subseteq Bodies /\ clock \in Arrivals
    /\ counts \in [faults : 0..MaxFaults, cancels : 0..MaxCancels]

\* "A durable job, so the request cannot be lost", and "immediate revocations"
\* (domain/deletion.ts): a deletion the person was told is accepted, and that no
\* cancellation overlapped or followed, has a job that is to be carried out, and
\* nobody sees the person, whichever attempts failed or died on the way.
AcceptedIsRecorded ==
    promise = "DELETION" => ~visible /\ PendingJobs # {}

\* "Signing in before it cancels the deletion" (domain/deletion.ts): a cancellation
\* that was carried out, that the index did not mislead and no request to delete
\* overlapped or followed, leaves no job to be dispatched, however many jobs the
\* requests, retries and deaths before it had enqueued.
CancellationIsComplete == promise = "CANCELLATION" => PendingJobs = {}

\* "Hard purge time" (scheduledPurgeAt of the response, packages/schemas/src/
\* account.ts): every deadline that an accepted request was told, the first or a retry,
\* is the due date of a job that is to be carried out, whatever failed or died in
\* between, until the deletion is cancelled.  Of requests a cancellation overlapped,
\* or to which the index showed a job as PENDING that was not, nothing is claimed.
\*
\* Not claimed: that this is the date on the account row, "set exactly once"
\* (routes/account.ts).  An attempt that fails after Mark leaves the job to a retry,
\* which dates it from its own arrival.
ToldDeadlinesAreKept == \A d \in told : \E j \in PendingJobs : jobs[j].due = d
=============================================================================
