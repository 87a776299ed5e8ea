----------------------- MODULE AccountDeletionProofs -----------------------
(***************************************************************************)
(* Theorems about AccountDeletion, for any requests, keys, days of grace    *)
(* and bounds.                                                              *)
(***************************************************************************)
EXTENDS AccountDeletion, FiniteSetTheorems, TLAPS

\* A request to delete carries a key.
KeysAreKnown == \A r \in Deleting : req[r].key \in Keys

\* Requests of the two kinds that meet know of each other, and so does the promise.
KindsMeet ==
    /\ Cancelling # {} => \A r \in Deleting : work[r].overtaken
    /\ (\E r \in Requests : req[r].at \in {"LIST_TO_CANCEL", "CANCEL_JOBS"})
          => promise # "DELETION"
    /\ promise = "CANCELLATION" => Deleting = {}

\* What a request to delete has done, unless it was overtaken.
DeletersDeliver ==
    /\ \A r \in Requests : req[r].at \in {"HIDE", "COMPLETE"} /\ ~work[r].overtaken
                              => PendingJobs # {}
    /\ \A r \in Requests : req[r].at = "COMPLETE" => ~visible

\* What a request to cancel can rely on, unless it was overtaken.
CancellersKnow ==
    \A r \in Cancelling : ~work[r].overtaken =>
        /\ Deleting = {}
        /\ req[r].at = "CANCEL_JOBS" => PendingJobs \subseteq work[r].jobs

PromisesHold == AcceptedIsRecorded /\ CancellationIsComplete

\* The deadlines of the jobs to be carried out, and what rests on them: the answer a
\* request that nobody overtook is about to give, and the answers already given.
Dues == {jobs[j].due : j \in PendingJobs}
DeadlinesKnown ==
    /\ \A r \in Requests : req[r].at \in {"HIDE", "COMPLETE"} /\ ~work[r].overtaken
                              => req[r].body \in Dues
    /\ told # {} => promise = "DELETION"
    /\ told \subseteq Dues

\* A key is held by the one request that runs under it, and its answers are the
\* recorded one, unless a request ever ran without a record.
Running == {"RUN", "LIST", "ENQUEUE", "HIDE", "COMPLETE", "RELEASE"}
RunningUnder(k) == {r \in Requests : req[r].at \in Running /\ req[r].key = k}
KeyIsHeld(k) ==
    /\ \A r, q \in RunningUnder(k) : r = q
    /\ \A r \in RunningUnder(k) : record[k].status = "IN_PROGRESS"
    /\ answers[k] \subseteq IF record[k].status = "COMPLETED" THEN {record[k].body} ELSE {}
KeysAreHeld == \A k \in Keys \ unclaimed : KeyIsHeld(k)

Kinds == KeysAreKnown /\ KindsMeet /\ DeletersDeliver /\ CancellersKnow /\ PromisesHold

IInv == TypeOK /\ Kinds /\ DeadlinesKnown /\ KeysAreHeld

-----------------------------------------------------------------------------
(* Types                                                                    *)

\* Resting, a request is of its type, whatever it was at.
LEMMA IdleType == Idle \in Handlers /\ NoWork \in Works
  BY BodiesHaveNone, DeletionRequestConstants
     DEF Idle, NoWork, Handlers, Works, Arrivals, JobIds

\* The deadline a request to delete sets is a day the model knows.
LEMMA PurgeAtType ==
    ASSUME TypeOK, NEW r \in Requests
    PROVE  PurgeAt(r) \in Days /\ PurgeAt(r) \in Bodies
  BY DeletionRequestConstants, BodiesNameDeadlines
     DEF TypeOK, PurgeAt, Days, Works, Arrivals

\* What is done to locals keeps their type.
LEMMA ForgetType ==
    ASSUME TypeOK, NEW r \in Requests, Forget(r)
    PROVE  work' \in [Requests -> Works]
  BY IdleType DEF TypeOK, Forget

LEMMA OvertakenType ==
    ASSUME TypeOK, NEW S PROVE Overtaken(S) \in [Requests -> Works]
  <1>1. \A r \in Requests : [work[r] EXCEPT !.overtaken = TRUE] \in Works
    BY DEF TypeOK, Works
  <1> QED  BY <1>1 DEF TypeOK, Overtaken

\* A request that goes on to another stage keeps its type.
LEMMA GotoType ==
    ASSUME TypeOK, NEW r \in Requests, NEW at, Goto(r, at),
           at \in KeyStages \cup DeleteStages \cup CancelStages
    PROVE  req' \in [Requests -> Handlers]
  BY DEF TypeOK, Goto, Handlers

\* What a request does with its key keeps every type.
LEMMA KeyStepType ==
    ASSUME TypeOK, KeysAreKnown, NEW r \in Requests, KeyStep(r) \/ Respond(r)
    PROVE  TypeOK'
  <1> USE DEF TypeOK, state
  <1>1. Forget(r) /\ UNCHANGED <<account, jobs, visible, clock, counts>>
    BY DEF KeyStep, Respond
  <1>2. promise' \in Promises /\ told' \subseteq Bodies
    BY DEF KeyStep, Respond, Promises, Handlers
  <1>3. req[r].at \in KeyStages => req[r].key \in Keys
    BY DEF KeysAreKnown, Deleting
  <1>4. record' \in [Keys -> Records] /\ req' \in [Requests -> Handlers]
        /\ answers' \in [Keys -> SUBSET Bodies] /\ unclaimed' \subseteq Keys
    <2>1. CASE Claim(r)
      <3>1. \A k \in Keys : [record[k] EXCEPT !.status = "IN_PROGRESS"] \in Records
        BY DEF Records
      <3>2. Goto(r, "RUN") \/ Goto(r, "READ_BACK")
        BY <2>1 DEF Claim
      <3>3. req' \in [Requests -> Handlers]
        BY <3>2, GotoType DEF KeyStages, DeleteStages
      <3> QED  BY <2>1, <3>1, <3>3 DEF Claim
    <2>2. CASE ReadBack(r)
      <3>1. \A k \in Keys : record[k].body \in Bodies
        BY DEF Records
      <3>2. req' \in [Requests -> Handlers]
        <4>1. Goto(r, "RUN") \/ req' = [req EXCEPT ![r] = Idle]
          BY <2>2 DEF ReadBack
        <4> QED  BY <4>1, GotoType, IdleType DEF DeleteStages
      <3>3. req[r].key \in Keys
        BY <1>3, <2>2 DEF ReadBack, KeyStages
      <3> QED  BY <2>2, <3>1, <3>2, <3>3 DEF ReadBack
    <2>3. CASE Release(r)
      BY <2>3, IdleType, BodiesHaveNone DEF Release, Records, Absent
    <2>4. CASE Complete(r)
      <3>1. req[r].body \in Bodies
        BY DEF Handlers
      <3>2. [status |-> "COMPLETED", body |-> req[r].body] \in Records
        BY <3>1 DEF Records
      <3> QED  BY <2>4, <3>1, <3>2, IdleType DEF Complete
    <2> QED  BY <2>1, <2>2, <2>3, <2>4 DEF KeyStep, Respond
  <1> QED  BY <1>1, <1>2, <1>4, ForgetType

\* The handler of a request to delete keeps every type.
LEMMA HandlerStepType ==
    ASSUME TypeOK, NEW r \in Requests, HandlerStep(r)
    PROVE  TypeOK'
  <1> USE DEF TypeOK, state
  <1>1. UNCHANGED <<record, answers, unclaimed, clock, promise, told>>
    BY DEF HandlerStep
  <1>2. \A b \in Bodies :
           [req EXCEPT ![r].at = "HIDE", ![r].body = b] \in [Requests -> Handlers]
    BY DEF Handlers, DeleteStages
  <1>3. \A b \in BOOLEAN : [work EXCEPT ![r].overtaken = b] \in [Requests -> Works]
    BY DEF Works
  <1>4. Goto(r, "LIST") \/ Goto(r, "ENQUEUE") \/ Goto(r, "COMPLETE") \/ Goto(r, "RELEASE")
           => req' \in [Requests -> Handlers]
    BY GotoType DEF KeyStages, DeleteStages
  <1>5. CASE Mark(r) /\ UNCHANGED counts
    BY <1>1, <1>4, <1>5, PurgeAtType DEF Mark, AfterMark
  <1>6. CASE ListJobs(r) /\ UNCHANGED counts
    <2>1. \A j \in JobIds : jobs[j].due \in Bodies
      BY BodiesNameDeadlines
    <2>2. work' \in [Requests -> Works]
      <3>1. CASE UNCHANGED work
        BY <3>1
      <3>2. CASE \E j \in JobIds :
                   work' = [work EXCEPT ![r].overtaken = @ \/ jobs[j].status # "PENDING"]
        <4>1. PICK j \in JobIds :
                   work' = [work EXCEPT ![r].overtaken = @ \/ jobs[j].status # "PENDING"]
          BY <3>2
        <4> QED  BY <4>1 DEF Works
      <3> QED  BY <1>6, <3>1, <3>2 DEF ListJobs, Listings
    <2>3. req' \in [Requests -> Handlers]
      <3>1. Goto(r, "ENQUEUE") \/ \E j \in JobIds :
                 req' = [req EXCEPT ![r].at = "HIDE", ![r].body = jobs[j].due]
        BY <1>6 DEF ListJobs, Listings, DeadlineOf
      <3>2. ASSUME NEW j \in JobIds, req' = [req EXCEPT ![r].at = "HIDE", ![r].body = jobs[j].due]
            PROVE  req' \in [Requests -> Handlers]
        <4>1. jobs[j].due \in Bodies
          BY <2>1
        <4> QED  BY <1>2, <3>2, <4>1
      <3> QED  BY <1>4, <3>1, <3>2
    <2> QED  BY <1>1, <1>6, <2>2, <2>3 DEF ListJobs
  <1>7. CASE Enqueue(r) /\ UNCHANGED counts
    <2>1. req' \in [Requests -> Handlers]
      BY <1>2, <1>7, PurgeAtType DEF Enqueue
    <2>2. jobs' \in [JobIds -> [status : JobStatuses, due : Days]]
      <3>1. [status |-> "PENDING", due |-> PurgeAt(r)] \in [status : JobStatuses, due : Days]
        BY PurgeAtType DEF JobStatuses
      <3>2. PICK j \in JobIds : jobs' = [jobs EXCEPT ![j] = [status |-> "PENDING", due |-> PurgeAt(r)]]
        BY <1>7 DEF Enqueue
      <3> QED  BY <3>1, <3>2
    <2> QED  BY <1>1, <1>7, <2>1, <2>2 DEF Enqueue
  <1>8. CASE HideAndRevoke(r) /\ UNCHANGED counts
    BY <1>1, <1>4, <1>8 DEF HideAndRevoke
  <1>9. CASE HandlerThrows(r)
    <2>1. counts' \in [faults : 0..MaxFaults, cancels : 0..MaxCancels]
      BY <1>9, DeletionRequestConstants DEF HandlerThrows
    <2> QED  BY <1>1, <1>4, <1>9, <2>1 DEF HandlerThrows
  <1> QED  BY <1>5, <1>6, <1>7, <1>8, <1>9 DEF HandlerStep

\* Requests that arrive, that cancel or that die, and the days, keep every type.
LEMMA OtherStepType ==
    ASSUME TypeOK,
           NextDay \/ \E r \in Requests :
               (\E k \in Keys : DeleteArrives(r, k)) \/ CancelArrives(r) \/ CancelStep(r) \/ Dies(r)
    PROVE  TypeOK'
  <1> USE DEF TypeOK, state
  <1>1. CASE NextDay
    BY <1>1, DeletionRequestConstants DEF NextDay, protocol, Arrivals
  <1>2. ASSUME NEW r \in Requests, NEW k \in Keys, DeleteArrives(r, k) PROVE TypeOK'
    <2>1. req' \in [Requests -> Handlers]
      <3>1. [Idle EXCEPT !.at = "CLAIM", !.key = k] \in Handlers
        BY BodiesHaveNone DEF Idle, Handlers, KeyStages
      <3> QED  BY <1>2, <3>1 DEF DeleteArrives
    <2>2. work' \in [Requests -> Works]
      <3>1. [NoWork EXCEPT !.now = clock, !.overtaken = Cancelling # {}] \in Works
        BY DEF NoWork, Works
      <3> QED  BY <1>2, <3>1, OvertakenType DEF DeleteArrives
    <2> QED  BY <1>2, <2>1, <2>2 DEF DeleteArrives, Promises
  <1>3. ASSUME NEW r \in Requests, CancelArrives(r) PROVE TypeOK'
    <2>1. req' \in [Requests -> Handlers]
      BY <1>3 DEF CancelArrives, Goto, Handlers, CancelStages
    <2>2. work' \in [Requests -> Works]
      <3>1. \A w \in Works, b \in BOOLEAN : [w EXCEPT !.overtaken = b] \in Works
        BY DEF Works
      <3> QED  BY <1>3, <3>1, OvertakenType DEF CancelArrives
    <2>3. counts' \in [faults : 0..MaxFaults, cancels : 0..MaxCancels]
      BY <1>3, DeletionRequestConstants DEF CancelArrives
    <2> QED  BY <1>3, <2>1, <2>2, <2>3 DEF CancelArrives
  <1>4. ASSUME NEW r \in Requests, CancelStep(r) PROVE TypeOK'
    <2>1. UNCHANGED <<record, answers, unclaimed, visible, clock, counts>>
      BY <1>4 DEF CancelStep
    <2>2. \A at \in CancelStages : [req EXCEPT ![r].at = at] \in [Requests -> Handlers]
      BY DEF Handlers
    <2>3. [req EXCEPT ![r] = Idle] \in [Requests -> Handlers]
      BY IdleType
    <2>4. CASE CancelAccount(r)
      <3>1. 0 \in Days
        BY DeletionRequestConstants DEF Days
      <3>2. work' \in [Requests -> Works]
        BY <2>4, ForgetType DEF CancelAccount
      <3> QED  BY <2>1, <2>2, <2>3, <2>4, <3>1, <3>2
               DEF CancelAccount, Goto, CancelStages, Promises
    <2>5. CASE ListToCancel(r)
      <3>1. work' \in [Requests -> Works]
        <4>1. \A S \in SUBSET JobIds, b \in BOOLEAN :
                 [work EXCEPT ![r].jobs = S, ![r].overtaken = b] \in [Requests -> Works]
          BY DEF Works
        <4>2. PICK pending \in Listings :
                 work' = [work EXCEPT ![r].jobs = ToCancel(pending),
                             ![r].overtaken = @ \/ ~(PendingJobs \subseteq pending)]
          BY <2>5 DEF ListToCancel
        <4>3. ToCancel(pending) \in SUBSET JobIds
          BY <4>2 DEF Listings, ToCancel
        <4>4. work[r].overtaken \in BOOLEAN
          BY DEF Works
        <4> QED  BY <4>1, <4>2, <4>3, <4>4
      <3> QED  BY <2>1, <2>2, <2>5, <3>1 DEF ListToCancel, Goto, CancelStages
    <2>6. CASE CancelJob(r)
      <3>1. CASE \E j \in work[r].jobs :
                    /\ jobs' = [jobs EXCEPT ![j].status = IF @ = "PENDING" THEN "CANCELLED" ELSE @]
                    /\ work' = [work EXCEPT ![r].jobs = @ \ {j}]
                    /\ UNCHANGED <<req, promise>>
        <4>1. PICK j \in work[r].jobs :
                    /\ jobs' = [jobs EXCEPT ![j].status = IF @ = "PENDING" THEN "CANCELLED" ELSE @]
                    /\ work' = [work EXCEPT ![r].jobs = @ \ {j}]
                    /\ UNCHANGED <<req, promise>>
          BY <3>1
        <4>2. jobs' \in [JobIds -> [status : JobStatuses, due : Days]]
          BY <4>1 DEF JobStatuses
        <4>3. work' \in [Requests -> Works]
          BY <4>1 DEF Works
        <4> QED  BY <2>1, <2>6, <4>1, <4>2, <4>3 DEF CancelJob
      <3>2. CASE req' = [req EXCEPT ![r] = Idle] /\ Forget(r) /\ UNCHANGED jobs
                 /\ promise' \in {promise, "CANCELLATION"}
        BY <2>1, <2>3, <2>6, <3>2, ForgetType DEF CancelJob, Promises
      <3> QED  BY <2>6, <3>1, <3>2 DEF CancelJob
    <2> QED  BY <1>4, <2>4, <2>5, <2>6 DEF CancelStep
  <1>5. ASSUME NEW r \in Requests, Dies(r) PROVE TypeOK'
    <2>1. counts' \in [faults : 0..MaxFaults, cancels : 0..MaxCancels]
      BY <1>5, DeletionRequestConstants DEF Dies
    <2> QED  BY <1>5, <2>1, IdleType, ForgetType DEF Dies
  <1> QED  BY <1>1, <1>2, <1>3, <1>4, <1>5

-----------------------------------------------------------------------------
(* Requests of the two kinds                                                *)

\* The two kinds of handler have no stage in common, and resting is neither.
LEMMA KindsDiffer ==
    ASSUME TypeOK
    PROVE  /\ \A r \in Requests : req[r].at \in {"IDLE"} \cup KeyStages \cup DeleteStages \cup CancelStages
           /\ Cancelling \cap Deleting = {}
           /\ \A r \in Cancelling \cup Deleting : req[r] # Idle
  BY DEF TypeOK, Handlers, Cancelling, Deleting, KeyStages, DeleteStages, CancelStages, Idle

\* A request that ends, having told the person nothing, leaves the others what they
\* rely on.
LEMMA EndingKeepsKinds ==
    ASSUME TypeOK, Kinds, NEW r \in Requests,
           req' = [req EXCEPT ![r] = Idle], Forget(r),
           UNCHANGED <<jobs, visible, promise>>
    PROVE  Kinds'
  <1>1. /\ req'[r] = Idle /\ work'[r] = NoWork
        /\ \A q \in Requests \ {r} : req'[q] = req[q] /\ work'[q] = work[q]
    BY DEF TypeOK, Forget
  <1>2. /\ Cancelling' = Cancelling \ {r} /\ Deleting' = Deleting \ {r}
        /\ PendingJobs' = PendingJobs
    BY <1>1 DEF Cancelling, Deleting, PendingJobs, Idle, KeyStages, DeleteStages, CancelStages
  <1>3. KeysAreKnown'
    BY <1>1, <1>2 DEF Kinds, KeysAreKnown, Deleting
  <1>4. KindsMeet'
    BY <1>1, <1>2 DEF Kinds, KindsMeet, Deleting, Idle
  <1>5. DeletersDeliver'
    BY <1>1, <1>2 DEF Kinds, DeletersDeliver, Idle
  <1>6. CancellersKnow'
    <2> SUFFICES ASSUME NEW q \in Cancelling', ~work'[q].overtaken
                 PROVE  /\ Deleting' = {}
                        /\ req'[q].at = "CANCEL_JOBS" => PendingJobs' \subseteq work'[q].jobs
      BY DEF CancellersKnow
    <2>1. q \in Cancelling /\ q # r /\ q \in Requests
      BY <1>2 DEF Cancelling
    <2> QED  BY <1>1, <1>2, <2>1 DEF Kinds, CancellersKnow
  <1>7. PromisesHold'
    BY <1>2 DEF Kinds, PromisesHold, AcceptedIsRecorded, CancellationIsComplete
  <1> QED  BY <1>3, <1>4, <1>5, <1>6, <1>7 DEF Kinds

\* A request to delete that goes on, without having seen to a job, hidden the
\* person or finished, changes nothing the others rely on.
LEMMA GoingOnKeepsKinds ==
    ASSUME TypeOK, Kinds, NEW r \in Deleting,
           req' \in [Requests -> Handlers],
           req'[r].key = req[r].key,
           req'[r].at \in KeyStages \cup DeleteStages,
           \A q \in Requests \ {r} : req'[q] = req[q] /\ work'[q] = work[q],
           work[r].overtaken => work'[r].overtaken,
           PendingJobs \subseteq PendingJobs',
           ~visible => ~visible',
           req'[r].at \in {"HIDE", "COMPLETE"} /\ ~work'[r].overtaken => PendingJobs' # {},
           req'[r].at = "COMPLETE" => ~visible',
           promise' = promise
    PROVE  Kinds'
  <1>1. /\ Cancelling' = Cancelling /\ Deleting' = Deleting /\ r \in Requests
        /\ r \notin Cancelling
    BY KindsDiffer DEF Cancelling, Deleting, KeyStages, DeleteStages, CancelStages
  <1>2. KeysAreKnown'
    BY <1>1 DEF Kinds, KeysAreKnown, Deleting
  <1>3. KindsMeet'
    <2>1. Cancelling' # {} => \A q \in Deleting' : work'[q].overtaken
      BY <1>1 DEF Kinds, KindsMeet, Deleting
    <2>2. (\E q \in Requests : req'[q].at \in {"LIST_TO_CANCEL", "CANCEL_JOBS"})
             => promise' # "DELETION"
      <3>1. req'[r].at \notin {"LIST_TO_CANCEL", "CANCEL_JOBS"}
        BY DEF KeyStages, DeleteStages
      <3> QED  BY <3>1 DEF Kinds, KindsMeet
    <2> QED  BY <1>1, <2>1, <2>2 DEF Kinds, KindsMeet
  <1>4. DeletersDeliver'
    BY <1>1 DEF Kinds, DeletersDeliver
  <1>5. CancellersKnow'
    BY <1>1 DEF Kinds, CancellersKnow, Cancelling
  <1>6. PromisesHold'
    BY <1>1 DEF Kinds, KindsMeet, PromisesHold, AcceptedIsRecorded, CancellationIsComplete
  <1> QED  BY <1>2, <1>3, <1>4, <1>5, <1>6 DEF Kinds

\* What a request does with its key.
LEMMA KeyStepKeepsKinds ==
    ASSUME TypeOK, Kinds, NEW r \in Requests, KeyStep(r), TypeOK'
    PROVE  Kinds'
  <1>1. UNCHANGED <<jobs, visible, promise>> /\ Forget(r)
    BY DEF KeyStep, state
  <1>2. r \in Deleting
    BY DEF KeyStep, Claim, ReadBack, Release, Deleting, KeyStages
  <1>3. CASE req' = [req EXCEPT ![r] = Idle]
    BY <1>1, <1>3, EndingKeepsKinds
  <1>4. CASE Goto(r, "RUN") \/ Goto(r, "READ_BACK")
    <2>1. /\ req' \in [Requests -> Handlers]
          /\ req'[r].key = req[r].key /\ req'[r].at \in {"RUN", "READ_BACK"}
          /\ \A q \in Requests \ {r} : req'[q] = req[q]
      BY <1>4 DEF TypeOK, Goto, Handlers
    <2>2. work' = work
      BY <1>1, <2>1 DEF Forget, Idle
    <2>3. PendingJobs' = PendingJobs
      BY <1>1 DEF PendingJobs
    <2> QED  BY <1>1, <1>2, <2>1, <2>2, <2>3, GoingOnKeepsKinds DEF KeyStages, DeleteStages
  <1> QED  BY <1>3, <1>4 DEF KeyStep, Claim, ReadBack, Release

\* The handler of a request to delete: a job is seen to before it can finish.
LEMMA HandlerStepKeepsKinds ==
    ASSUME TypeOK, Kinds, NEW r \in Requests, HandlerStep(r), TypeOK'
    PROVE  Kinds'
  <1>1. /\ UNCHANGED promise
        /\ req' \in [Requests -> Handlers]
    BY DEF HandlerStep, TypeOK
  <1>2. r \in Deleting
    BY DEF HandlerStep, Mark, ListJobs, Enqueue, HideAndRevoke, HandlerThrows, Deleting, DeleteStages
  <1>3. \A at : Goto(r, at) => /\ req'[r].at = at /\ req'[r].key = req[r].key
                               /\ \A q \in Requests \ {r} : req'[q] = req[q]
    BY DEF TypeOK, Goto, Handlers
  <1>4. CASE Mark(r)
    <2>1. /\ req'[r].at = "LIST" /\ req'[r].key = req[r].key
          /\ \A q \in Requests \ {r} : req'[q] = req[q]
      BY <1>3, <1>4 DEF Mark, AfterMark
    <2>2. UNCHANGED <<jobs, visible, work>> /\ PendingJobs' = PendingJobs
      BY <1>4 DEF Mark, PendingJobs
    <2> QED  BY <1>1, <1>2, <2>1, <2>2, GoingOnKeepsKinds DEF DeleteStages
  <1>5. CASE ListJobs(r)
    <2>1. UNCHANGED <<jobs, visible>> /\ PendingJobs' = PendingJobs
      BY <1>5 DEF ListJobs, PendingJobs, state
    <2>2. CASE Goto(r, "ENQUEUE") /\ UNCHANGED work
      <3>1. /\ req'[r].at = "ENQUEUE" /\ req'[r].key = req[r].key
            /\ \A q \in Requests \ {r} : req'[q] = req[q]
        BY <1>3, <2>2
      <3> QED  BY <1>1, <1>2, <2>1, <2>2, <3>1, GoingOnKeepsKinds DEF DeleteStages
    <2>3. ASSUME NEW j \in JobIds,
                 req' = [req EXCEPT ![r].at = "HIDE", ![r].body = jobs[j].due],
                 work' = [work EXCEPT ![r].overtaken = @ \/ jobs[j].status # "PENDING"]
          PROVE  Kinds'
      <3>1. /\ req'[r].at = "HIDE" /\ req'[r].key = req[r].key
            /\ \A q \in Requests \ {r} : req'[q] = req[q] /\ work'[q] = work[q]
        BY <2>3 DEF TypeOK, Handlers
      <3>2. work'[r].overtaken = (work[r].overtaken \/ jobs[j].status # "PENDING")
        BY <2>3 DEF TypeOK, Works
      <3>3. ~work'[r].overtaken => PendingJobs' # {}
        BY <2>1, <3>2 DEF PendingJobs
      <3> QED  BY <1>1, <1>2, <2>1, <3>1, <3>2, <3>3, GoingOnKeepsKinds DEF DeleteStages
    <2> QED  BY <1>5, <2>2, <2>3 DEF ListJobs, Listings, DeadlineOf
  <1>6. CASE Enqueue(r)
    <2>1. /\ req'[r].at = "HIDE" /\ req'[r].key = req[r].key
          /\ \A q \in Requests \ {r} : req'[q] = req[q]
      BY <1>6 DEF Enqueue, TypeOK, Handlers
    <2>2. PICK j \in JobIds : jobs[j] = NoJob
              /\ jobs' = [jobs EXCEPT ![j] = [status |-> "PENDING", due |-> PurgeAt(r)]]
      BY <1>6 DEF Enqueue
    <2>3. j \in PendingJobs' /\ PendingJobs \subseteq PendingJobs'
      BY <2>2 DEF PendingJobs, TypeOK
    <2>4. UNCHANGED <<visible, work>>
      BY <1>6 DEF Enqueue
    <2> QED  BY <1>1, <1>2, <2>1, <2>3, <2>4, GoingOnKeepsKinds DEF DeleteStages
  <1>7. CASE HideAndRevoke(r)
    <2>1. /\ req'[r].at = "COMPLETE" /\ req'[r].key = req[r].key
          /\ \A q \in Requests \ {r} : req'[q] = req[q]
      BY <1>3, <1>7 DEF HideAndRevoke
    <2>2. UNCHANGED work /\ PendingJobs' = PendingJobs /\ ~visible'
      BY <1>7 DEF HideAndRevoke, PendingJobs
    <2>3. ~work[r].overtaken => PendingJobs # {}
      BY <1>7 DEF HideAndRevoke, Kinds, DeletersDeliver
    <2> QED  BY <1>1, <1>2, <2>1, <2>2, <2>3, GoingOnKeepsKinds DEF KeyStages
  <1>8. CASE HandlerThrows(r)
    <2>1. /\ req'[r].at = "RELEASE" /\ req'[r].key = req[r].key
          /\ \A q \in Requests \ {r} : req'[q] = req[q]
      BY <1>3, <1>8 DEF HandlerThrows
    <2>2. UNCHANGED <<jobs, visible, work>> /\ PendingJobs' = PendingJobs
      BY <1>8 DEF HandlerThrows, PendingJobs, state
    <2> QED  BY <1>1, <1>2, <2>1, <2>2, GoingOnKeepsKinds DEF KeyStages
  <1> QED  BY <1>4, <1>5, <1>6, <1>7, <1>8 DEF HandlerStep

\* The response: a deletion is promised only if no cancellation overlapped it.
LEMMA RespondKeepsKinds ==
    ASSUME TypeOK, Kinds, NEW r \in Requests, Respond(r)
    PROVE  Kinds'
  <1>1. /\ req' = [req EXCEPT ![r] = Idle] /\ Forget(r)
        /\ UNCHANGED <<jobs, visible>> /\ req[r].at = "COMPLETE"
    BY DEF Respond, Complete, state
  <1>2. CASE UNCHANGED promise
    BY <1>1, <1>2, EndingKeepsKinds
  <1>3. CASE ~work[r].overtaken /\ promise' = "DELETION"
    <2>1. r \in Deleting
      BY <1>1 DEF Deleting, KeyStages
    <2>2. Cancelling = {} /\ ~visible /\ PendingJobs # {}
      BY <1>1, <1>3, <2>1 DEF Kinds, KindsMeet, DeletersDeliver
    <2>3. /\ req'[r] = Idle /\ work'[r] = NoWork
          /\ \A q \in Requests \ {r} : req'[q] = req[q] /\ work'[q] = work[q]
      BY <1>1 DEF TypeOK, Forget
    <2>4. /\ Cancelling' = {} /\ Deleting' \subseteq Deleting /\ r \notin Deleting'
          /\ PendingJobs' = PendingJobs /\ ~visible'
      BY <1>1, <2>2, <2>3
         DEF Cancelling, Deleting, PendingJobs, Idle, KeyStages, DeleteStages, CancelStages
    <2>5. \A q \in Requests : req'[q].at \notin {"LIST_TO_CANCEL", "CANCEL_JOBS"}
      BY <2>4 DEF Cancelling, CancelStages
    <2>6. KeysAreKnown' /\ DeletersDeliver'
      BY <2>3, <2>4 DEF Kinds, KeysAreKnown, DeletersDeliver, Idle, Deleting
    <2>7. KindsMeet' /\ CancellersKnow' /\ PromisesHold'
      BY <1>3, <2>2, <2>4, <2>5
         DEF KindsMeet, CancellersKnow, PromisesHold, AcceptedIsRecorded, CancellationIsComplete
    <2> QED  BY <2>6, <2>7 DEF Kinds
  <1> QED  BY <1>2, <1>3 DEF Respond

\* A request to delete arrives: who is cancelling is overtaken, and so is it.
LEMMA DeleteArrivesKeepsKinds ==
    ASSUME TypeOK, Kinds, NEW r \in Requests, NEW k \in Keys, DeleteArrives(r, k)
    PROVE  Kinds'
  <1>1. /\ req'[r].at = "CLAIM" /\ req'[r].key = k /\ req[r].at = "IDLE"
        /\ \A q \in Requests \ {r} : req'[q] = req[q]
        /\ work'[r].overtaken = (Cancelling # {})
        /\ \A q \in Requests \ {r} : work'[q] = Overtaken(Cancelling)[q]
        /\ UNCHANGED <<jobs, visible>>
        /\ promise' \in {promise, "NONE"} /\ promise' # "CANCELLATION"
    BY DEF DeleteArrives, TypeOK, Idle, NoWork, Overtaken, state
  <1>2. /\ Cancelling' = Cancelling /\ Deleting' = Deleting \cup {r}
        /\ PendingJobs' = PendingJobs
    BY <1>1 DEF Cancelling, Deleting, PendingJobs, KeyStages, DeleteStages, CancelStages
  <1>3. \A q \in Requests \ {r} : IF q \in Cancelling THEN work'[q].overtaken
                                   ELSE work'[q] = work[q]
    BY <1>1 DEF Overtaken, TypeOK, Works
  <1>4. KeysAreKnown'
    BY <1>1, <1>2 DEF Kinds, KeysAreKnown, Deleting
  <1>5. KindsMeet'
    <2>1. Cancelling # {} => \A q \in Deleting \cup {r} : work'[q].overtaken
      BY <1>1, <1>3, KindsDiffer DEF Kinds, KindsMeet, Deleting
    <2>2. (\E q \in Requests : req'[q].at \in {"LIST_TO_CANCEL", "CANCEL_JOBS"})
             => promise' # "DELETION"
      BY <1>1 DEF Kinds, KindsMeet
    <2> QED  BY <1>1, <1>2, <2>1, <2>2 DEF KindsMeet
  <1>6. DeletersDeliver'
    <2>1. \A q \in Requests : req'[q].at \in {"HIDE", "COMPLETE"} /\ ~work'[q].overtaken
             => q # r /\ work'[q] = work[q] /\ req'[q] = req[q]
      BY <1>1, <1>3
    <2> QED  BY <1>1, <1>2, <2>1 DEF Kinds, DeletersDeliver
  <1>7. CancellersKnow'
    <2>1. \A q \in Cancelling' : work'[q].overtaken
      BY <1>1, <1>2, <1>3 DEF Cancelling, CancelStages
    <2> QED  BY <2>1 DEF CancellersKnow
  <1>8. PromisesHold'
    BY <1>1, <1>2 DEF Kinds, PromisesHold, AcceptedIsRecorded, CancellationIsComplete
  <1> QED  BY <1>4, <1>5, <1>6, <1>7, <1>8 DEF Kinds

\* A request to cancel arrives: who is deleting is overtaken, and so is it.
LEMMA CancelArrivesKeepsKinds ==
    ASSUME TypeOK, Kinds, NEW r \in Requests, CancelArrives(r)
    PROVE  Kinds'
  <1>1. /\ req'[r].at = "CANCEL" /\ req[r].at = "IDLE"
        /\ \A q \in Requests \ {r} : req'[q] = req[q]
        /\ work'[r].overtaken = (Deleting # {})
        /\ \A q \in Requests \ {r} : work'[q] = Overtaken(Deleting)[q]
        /\ UNCHANGED <<jobs, visible, promise>>
    <2>1. /\ req' = [req EXCEPT ![r].at = "CANCEL"] /\ req[r].at = "IDLE"
          /\ work' = [Overtaken(Deleting) EXCEPT ![r].overtaken = Deleting # {}]
          /\ UNCHANGED <<jobs, visible, promise>>
      BY DEF CancelArrives, Goto, state
    <2>2. Overtaken(Deleting)[r] \in Works /\ DOMAIN Overtaken(Deleting) = Requests
      BY OvertakenType
    <2>3. work'[r] = [Overtaken(Deleting)[r] EXCEPT !.overtaken = Deleting # {}]
      BY <2>1, <2>2
    <2> QED  BY <2>1, <2>2, <2>3 DEF TypeOK, Handlers, Works
  <1>2. /\ Cancelling' = Cancelling \cup {r} /\ Deleting' = Deleting
        /\ PendingJobs' = PendingJobs
    BY <1>1 DEF Cancelling, Deleting, PendingJobs, KeyStages, DeleteStages, CancelStages
  <1>3. \A q \in Requests \ {r} : IF q \in Deleting THEN work'[q].overtaken
                                   ELSE work'[q] = work[q]
    BY <1>1 DEF Overtaken, TypeOK, Works
  <1>4. r \notin Deleting
    BY <1>1 DEF Deleting, KeyStages, DeleteStages
  <1>5. KeysAreKnown'
    BY <1>1, <1>2, <1>4 DEF Kinds, KeysAreKnown, Deleting
  <1>6. KindsMeet'
    <2>1. \A q \in Deleting' : work'[q].overtaken
      BY <1>2, <1>3, <1>4 DEF Deleting
    <2>2. (\E q \in Requests : req'[q].at \in {"LIST_TO_CANCEL", "CANCEL_JOBS"})
             => promise' # "DELETION"
      BY <1>1 DEF Kinds, KindsMeet
    <2> QED  BY <1>1, <1>2, <2>1, <2>2 DEF Kinds, KindsMeet
  <1>7. DeletersDeliver'
    <2>1. \A q \in Requests : req'[q].at \in {"HIDE", "COMPLETE"} => q # r /\ req'[q] = req[q]
      BY <1>1
    <2>2. \A q \in Requests : req'[q].at \in {"HIDE", "COMPLETE"} => work'[q].overtaken
      BY <1>3, <2>1 DEF Deleting, KeyStages, DeleteStages
    <2> QED  BY <1>1, <2>1, <2>2 DEF Kinds, DeletersDeliver
  <1>8. CancellersKnow'
    <2> SUFFICES ASSUME NEW q \in Cancelling', ~work'[q].overtaken
                 PROVE  /\ Deleting' = {}
                        /\ req'[q].at = "CANCEL_JOBS" => PendingJobs' \subseteq work'[q].jobs
      BY DEF CancellersKnow
    <2>1. CASE q = r
      BY <1>1, <1>2, <2>1
    <2>2. CASE q # r
      <3>1. q \in Cancelling /\ q \in Requests \ {r} /\ q \notin Deleting
        BY <1>2, <2>2, KindsDiffer DEF Cancelling
      <3> QED  BY <1>1, <1>2, <1>3, <3>1 DEF Kinds, CancellersKnow
    <2> QED  BY <2>1, <2>2
  <1>9. PromisesHold'
    BY <1>1, <1>2 DEF Kinds, PromisesHold, AcceptedIsRecorded, CancellationIsComplete
  <1> QED  BY <1>5, <1>6, <1>7, <1>8, <1>9 DEF Kinds

\* The account is ACTIVE again, and nothing is promised until the jobs are seen to.
LEMMA CancelAccountKeepsKinds ==
    ASSUME TypeOK, Kinds, NEW r \in Requests, CancelStep(r), CancelAccount(r)
    PROVE  Kinds'
  <1>1. UNCHANGED <<jobs, visible>>
    BY DEF CancelStep, CancelAccount
  <1>2. CASE req' = [req EXCEPT ![r] = Idle]
    <2>1. Forget(r) /\ UNCHANGED promise
      <3>1. ~Goto(r, "LIST_TO_CANCEL")
        BY <1>2 DEF TypeOK, Goto, Handlers, Idle
      <3> QED  BY <3>1 DEF CancelAccount
    <2> QED  BY <1>1, <1>2, <2>1, EndingKeepsKinds
  <1>3. CASE Goto(r, "LIST_TO_CANCEL") /\ promise' = "NONE" /\ UNCHANGED work
    <2>1. /\ req'[r].at = "LIST_TO_CANCEL" /\ req[r].at = "CANCEL"
          /\ \A q \in Requests \ {r} : req'[q] = req[q]
      BY <1>3 DEF CancelAccount, Goto, TypeOK, Handlers
    <2>2. /\ Cancelling' = Cancelling /\ Deleting' = Deleting /\ r \notin Deleting
          /\ PendingJobs' = PendingJobs
      BY <1>1, <2>1 DEF Cancelling, Deleting, PendingJobs, KeyStages, DeleteStages, CancelStages
    <2>3. KeysAreKnown' /\ KindsMeet'
      BY <1>3, <2>1, <2>2 DEF Kinds, KeysAreKnown, KindsMeet, Deleting
    <2>4. DeletersDeliver'
      BY <1>1, <1>3, <2>1, <2>2 DEF Kinds, DeletersDeliver
    <2>5. CancellersKnow'
      BY <1>3, <2>1, <2>2 DEF Kinds, CancellersKnow, Cancelling
    <2>6. PromisesHold'
      BY <1>3 DEF PromisesHold, AcceptedIsRecorded, CancellationIsComplete
    <2> QED  BY <2>3, <2>4, <2>5, <2>6 DEF Kinds
  <1> QED  BY <1>2, <1>3 DEF CancelAccount

\* The list of jobs to cancel holds every one there is, or the request was misled.
LEMMA ListToCancelKeepsKinds ==
    ASSUME TypeOK, Kinds, NEW r \in Requests, CancelStep(r), ListToCancel(r)
    PROVE  Kinds'
  <1>1. UNCHANGED <<jobs, visible, promise>>
    BY DEF CancelStep, ListToCancel
  <1>2. PICK pending \in Listings :
            work' = [work EXCEPT ![r].jobs = ToCancel(pending),
                        ![r].overtaken = @ \/ ~(PendingJobs \subseteq pending)]
    BY DEF ListToCancel
  <1>3. /\ req'[r].at = "CANCEL_JOBS" /\ req[r].at = "LIST_TO_CANCEL"
        /\ \A q \in Requests \ {r} : req'[q] = req[q] /\ work'[q] = work[q]
        /\ work'[r].jobs = pending
        /\ work'[r].overtaken = (work[r].overtaken \/ ~(PendingJobs \subseteq pending))
    BY <1>2 DEF ListToCancel, Goto, TypeOK, Handlers, Works, ToCancel
  <1>4. /\ Cancelling' = Cancelling /\ Deleting' = Deleting /\ r \in Cancelling \ Deleting
        /\ PendingJobs' = PendingJobs
    BY <1>1, <1>3 DEF Cancelling, Deleting, PendingJobs, KeyStages, DeleteStages, CancelStages
  <1>5. KeysAreKnown' /\ KindsMeet'
    BY <1>1, <1>3, <1>4 DEF Kinds, KeysAreKnown, KindsMeet, Deleting
  <1>6. DeletersDeliver'
    BY <1>1, <1>3, <1>4 DEF Kinds, DeletersDeliver
  <1>7. CancellersKnow'
    BY <1>3, <1>4 DEF Kinds, CancellersKnow, Cancelling
  <1>8. PromisesHold'
    BY <1>1, <1>4 DEF Kinds, PromisesHold, AcceptedIsRecorded, CancellationIsComplete
  <1> QED  BY <1>5, <1>6, <1>7, <1>8 DEF Kinds

\* A job is cancelled, or none is left and the person may rely on it.
LEMMA CancelJobKeepsKinds ==
    ASSUME TypeOK, Kinds, NEW r \in Requests, CancelStep(r), CancelJob(r)
    PROVE  Kinds'
  <1>1. req[r].at = "CANCEL_JOBS" /\ UNCHANGED visible /\ r \in Cancelling
    BY DEF CancelStep, CancelJob, Cancelling, CancelStages
  <1>2. \A q \in Deleting : work[q].overtaken
    BY <1>1 DEF Kinds, KindsMeet
  <1>3. promise # "DELETION"
    BY <1>1 DEF Kinds, KindsMeet
  <1>4. ASSUME NEW j \in work[r].jobs,
               jobs' = [jobs EXCEPT ![j].status = IF @ = "PENDING" THEN "CANCELLED" ELSE @],
               work' = [work EXCEPT ![r].jobs = @ \ {j}], UNCHANGED <<req, promise>>
        PROVE  Kinds'
    <2>1. PendingJobs' = PendingJobs \ {j}
      BY <1>4 DEF PendingJobs, TypeOK, Works
    <2>2. /\ Cancelling' = Cancelling /\ Deleting' = Deleting
          /\ work'[r].jobs = work[r].jobs \ {j}
          /\ \A q \in Requests : work'[q].overtaken = work[q].overtaken
          /\ \A q \in Requests \ {r} : work'[q] = work[q]
      BY <1>4 DEF Cancelling, Deleting, TypeOK, Works
    <2>3. KeysAreKnown' /\ KindsMeet'
      BY <1>4, <2>2 DEF Kinds, KeysAreKnown, KindsMeet, Deleting
    <2>4. DeletersDeliver'
      <3>1. \A q \in Requests : req[q].at \in {"HIDE", "COMPLETE"} => work[q].overtaken
        BY <1>2 DEF Deleting, KeyStages, DeleteStages
      <3> QED  BY <1>1, <1>4, <2>2, <3>1 DEF Kinds, DeletersDeliver
    <2>5. CancellersKnow'
      BY <1>4, <2>1, <2>2 DEF Kinds, CancellersKnow, Cancelling
    <2>6. PromisesHold'
      BY <1>3, <1>4, <2>1 DEF Kinds, PromisesHold, AcceptedIsRecorded, CancellationIsComplete
    <2> QED  BY <2>3, <2>4, <2>5, <2>6 DEF Kinds
  <1>5. ASSUME work[r].jobs = {}, req' = [req EXCEPT ![r] = Idle], Forget(r), UNCHANGED jobs,
               promise' = IF work[r].overtaken THEN promise ELSE "CANCELLATION"
        PROVE  Kinds'
    <2>1. CASE work[r].overtaken
      BY <1>1, <1>5, <2>1, EndingKeepsKinds
    <2>2. CASE ~work[r].overtaken
      <3>1. Deleting = {} /\ PendingJobs = {}
        BY <1>1, <1>5, <2>2 DEF Kinds, CancellersKnow
      <3>2. /\ req'[r] = Idle
            /\ \A q \in Requests \ {r} : req'[q] = req[q] /\ work'[q] = work[q]
        BY <1>5 DEF TypeOK, Forget
      <3>3. /\ Cancelling' = Cancelling \ {r} /\ Deleting' = {} /\ PendingJobs' = {}
            /\ promise' = "CANCELLATION"
        BY <1>5, <2>2, <3>1, <3>2
           DEF Cancelling, Deleting, PendingJobs, Idle, KeyStages, DeleteStages, CancelStages
      <3>4. KeysAreKnown' /\ KindsMeet'
        BY <3>3 DEF KeysAreKnown, KindsMeet
      <3>5. DeletersDeliver'
        <4>1. \A q \in Requests : req'[q].at \notin {"HIDE", "COMPLETE"}
          BY <3>3 DEF Deleting, KeyStages, DeleteStages
        <4> QED  BY <4>1 DEF DeletersDeliver
      <3>6. CancellersKnow' /\ PromisesHold'
        BY <3>3 DEF CancellersKnow, PromisesHold, AcceptedIsRecorded, CancellationIsComplete
      <3> QED  BY <3>4, <3>5, <3>6 DEF Kinds
    <2> QED  BY <2>1, <2>2
  <1> QED  BY <1>4, <1>5 DEF CancelJob

\* Every step of Next.
LEMMA NextKeepsKinds ==
    ASSUME TypeOK, Kinds, Next, TypeOK' PROVE Kinds'
  <1>1. ASSUME NEW r \in Requests, NEW k \in Keys, DeleteArrives(r, k) PROVE Kinds'
    BY <1>1, DeleteArrivesKeepsKinds
  <1>2. ASSUME NEW r \in Requests, KeyStep(r) PROVE Kinds'
    BY <1>2, KeyStepKeepsKinds
  <1>3. ASSUME NEW r \in Requests, HandlerStep(r) PROVE Kinds'
    BY <1>3, HandlerStepKeepsKinds
  <1>4. ASSUME NEW r \in Requests, Respond(r) PROVE Kinds'
    BY <1>4, RespondKeepsKinds
  <1>5. ASSUME NEW r \in Requests, CancelArrives(r) PROVE Kinds'
    BY <1>5, CancelArrivesKeepsKinds
  <1>6. ASSUME NEW r \in Requests, CancelStep(r) PROVE Kinds'
    BY <1>6, CancelAccountKeepsKinds, ListToCancelKeepsKinds, CancelJobKeepsKinds DEF CancelStep
  <1>7. ASSUME NEW r \in Requests, Dies(r) PROVE Kinds'
    BY <1>7, EndingKeepsKinds DEF Dies, state
  <1>8. CASE NextDay
    BY <1>8 DEF NextDay, protocol, state, Kinds, KeysAreKnown, KindsMeet, DeletersDeliver,
               CancellersKnow, PromisesHold, AcceptedIsRecorded, CancellationIsComplete,
               Cancelling, Deleting, PendingJobs
  <1> QED  BY <1>1, <1>2, <1>3, <1>4, <1>5, <1>6, <1>7, <1>8 DEF Next

-----------------------------------------------------------------------------
(* Deadlines                                                                *)

\* A step of one request that takes no job away keeps what rests on the jobs.
LEMMA DuesStayKnown ==
    ASSUME DeadlinesKnown, NEW r \in Requests, Dues \subseteq Dues',
           \A q \in Requests \ {r} : /\ req'[q] = req[q]
                                     /\ work[q].overtaken => work'[q].overtaken,
           req'[r].at \in {"HIDE", "COMPLETE"} /\ ~work'[r].overtaken => req'[r].body \in Dues',
           \/ told' = {}
           \/ told' = told /\ promise' = promise
           \/ told' \subseteq Dues /\ promise' = "DELETION"
    PROVE  DeadlinesKnown'
  <1>1. told' # {} => promise' = "DELETION"
    BY DEF DeadlinesKnown
  <1>2. told' \subseteq Dues'
    BY DEF DeadlinesKnown
  <1>3. ASSUME NEW q \in Requests, req'[q].at \in {"HIDE", "COMPLETE"}, ~work'[q].overtaken
        PROVE  req'[q].body \in Dues'
    BY <1>3 DEF DeadlinesKnown
  <1> QED  BY <1>1, <1>2, <1>3 DEF DeadlinesKnown

\* A request that ends tells the deadline of a job, or nothing.
LEMMA EndingKeepsDeadlines ==
    ASSUME TypeOK, DeadlinesKnown, NEW r \in Requests,
           req' = [req EXCEPT ![r] = Idle], Forget(r), UNCHANGED jobs,
           \/ told' = {}
           \/ told' = told /\ promise' = promise
           \/ told' \subseteq Dues /\ promise' = "DELETION"
    PROVE  DeadlinesKnown'
  <1>1. /\ req'[r] = Idle
        /\ \A q \in Requests \ {r} : req'[q] = req[q] /\ work'[q] = work[q]
    BY DEF TypeOK, Forget
  <1>2. Dues' = Dues
    BY DEF Dues, PendingJobs
  <1> QED  BY <1>1, <1>2, DuesStayKnown DEF Idle

\* The key; the answer tells the deadline of a job nobody has taken since.
LEMMA KeyStepKeepsDeadlines ==
    ASSUME TypeOK, DeadlinesKnown, NEW r \in Requests, KeyStep(r) \/ Respond(r)
    PROVE  DeadlinesKnown'
  <1>1. Forget(r) /\ UNCHANGED jobs
    BY DEF KeyStep, Respond, state
  <1>2. CASE Respond(r)
    <2>1. req' = [req EXCEPT ![r] = Idle] /\ req[r].at = "COMPLETE"
      BY <1>2 DEF Respond, Complete
    <2>2. \/ told' = told /\ promise' = promise
          \/ told' \subseteq Dues /\ promise' = "DELETION"
      BY <1>2, <2>1 DEF Respond, DeadlinesKnown
    <2> QED  BY <1>1, <2>1, <2>2, EndingKeepsDeadlines
  <1>3. CASE KeyStep(r)
    <2>1. UNCHANGED <<promise, told>>
      BY <1>3 DEF KeyStep
    <2>2. CASE req' = [req EXCEPT ![r] = Idle]
      BY <1>1, <2>1, <2>2, EndingKeepsDeadlines
    <2>3. CASE Goto(r, "RUN") \/ Goto(r, "READ_BACK")
      <3>1. /\ req'[r].at \in {"RUN", "READ_BACK"}
            /\ \A q \in Requests \ {r} : req'[q] = req[q]
        BY <2>3 DEF TypeOK, Goto, Handlers
      <3>2. work' = work /\ Dues' = Dues
        BY <1>1, <3>1 DEF Forget, Idle, Dues, PendingJobs
      <3> QED  BY <2>1, <3>1, <3>2, DuesStayKnown
    <2> QED  BY <1>3, <2>2, <2>3 DEF KeyStep, Claim, ReadBack, Release
  <1> QED  BY <1>2, <1>3

\* The handler takes its deadline from the job it found, or gives the job its own.
LEMMA HandlerStepKeepsDeadlines ==
    ASSUME TypeOK, DeadlinesKnown, NEW r \in Requests, HandlerStep(r)
    PROVE  DeadlinesKnown'
  <1>1. UNCHANGED <<promise, told>>
    BY DEF HandlerStep
  <1>2. \A at : Goto(r, at) => /\ req'[r].at = at /\ req'[r].body = req[r].body
                               /\ \A q \in Requests \ {r} : req'[q] = req[q]
    BY DEF TypeOK, Goto, Handlers
  <1>3. ASSUME UNCHANGED <<jobs, work>>,
               Goto(r, "LIST") \/ Goto(r, "ENQUEUE") \/ Goto(r, "RELEASE")
        PROVE  DeadlinesKnown'
    <2>1. /\ req'[r].at \in {"LIST", "ENQUEUE", "RELEASE"}
          /\ \A q \in Requests \ {r} : req'[q] = req[q]
      BY <1>2, <1>3
    <2>2. Dues' = Dues
      BY <1>3 DEF Dues, PendingJobs
    <2> QED  BY <1>1, <1>3, <2>1, <2>2, DuesStayKnown
  <1>4. CASE Mark(r) \/ HandlerThrows(r)
    BY <1>3, <1>4 DEF Mark, AfterMark, HandlerThrows, state
  <1>5. CASE ListJobs(r)
    <2>1. UNCHANGED jobs
      BY <1>5 DEF ListJobs, state
    <2>2. ASSUME NEW j \in JobIds,
                 req' = [req EXCEPT ![r].at = "HIDE", ![r].body = jobs[j].due],
                 work' = [work EXCEPT ![r].overtaken = @ \/ jobs[j].status # "PENDING"]
          PROVE  DeadlinesKnown'
      <3>1. /\ req'[r].body = jobs[j].due
            /\ \A q \in Requests \ {r} : req'[q] = req[q] /\ work'[q] = work[q]
        BY <2>2 DEF TypeOK, Handlers
      <3>2. ~work'[r].overtaken => jobs[j].status = "PENDING"
        BY <2>2 DEF TypeOK, Works
      <3>3. Dues' = Dues /\ (~work'[r].overtaken => req'[r].body \in Dues)
        BY <2>1, <3>1, <3>2 DEF Dues, PendingJobs
      <3> QED  BY <1>1, <3>1, <3>3, DuesStayKnown
    <2> QED  BY <1>3, <1>5, <2>1, <2>2 DEF ListJobs, Listings, DeadlineOf
  <1>6. CASE Enqueue(r)
    <2>1. PICK j \in JobIds : jobs[j] = NoJob
              /\ jobs' = [jobs EXCEPT ![j] = [status |-> "PENDING", due |-> PurgeAt(r)]]
      BY <1>6 DEF Enqueue
    <2>2. /\ req'[r].body = PurgeAt(r) /\ UNCHANGED work
          /\ \A q \in Requests \ {r} : req'[q] = req[q]
      BY <1>6 DEF Enqueue, TypeOK, Handlers
    <2>3. j \in PendingJobs' /\ jobs'[j].due = PurgeAt(r)
      BY <2>1 DEF PendingJobs, TypeOK
    <2>4. \A i \in PendingJobs : i \in PendingJobs' /\ jobs'[i].due = jobs[i].due
      BY <2>1 DEF PendingJobs, NoJob, TypeOK
    <2>5. Dues \subseteq Dues' /\ PurgeAt(r) \in Dues'
      BY <2>3, <2>4 DEF Dues
    <2> QED  BY <1>1, <2>2, <2>5, DuesStayKnown
  <1>7. CASE HideAndRevoke(r)
    <2>1. /\ req[r].at = "HIDE" /\ UNCHANGED work /\ Dues' = Dues
          /\ req'[r].body = req[r].body /\ \A q \in Requests \ {r} : req'[q] = req[q]
      BY <1>2, <1>7 DEF HideAndRevoke, Dues, PendingJobs
    <2> QED  BY <1>1, <2>1, DuesStayKnown DEF DeadlinesKnown
  <1> QED  BY <1>4, <1>5, <1>6, <1>7 DEF HandlerStep

\* A request of either kind arrives: it has nothing to answer yet.
LEMMA ArrivingKeepsDeadlines ==
    ASSUME TypeOK, DeadlinesKnown, NEW r \in Requests,
           (\E k \in Keys : DeleteArrives(r, k)) \/ CancelArrives(r)
    PROVE  DeadlinesKnown'
  <1>1. /\ UNCHANGED <<jobs, told>>
        /\ req'[r].at \in {"CLAIM", "CANCEL"}
        /\ \A q \in Requests \ {r} : req'[q] = req[q]
    <2>1. CASE \E k \in Keys : DeleteArrives(r, k)
      <3>1. /\ UNCHANGED <<jobs, told>>
            /\ \E k \in Keys : req' = [req EXCEPT ![r] = [Idle EXCEPT !.at = "CLAIM", !.key = k]]
        BY <2>1 DEF DeleteArrives, state
      <3> QED  BY <3>1 DEF TypeOK, Idle
    <2>2. CASE CancelArrives(r)
      <3>1. UNCHANGED <<jobs, told>> /\ req' = [req EXCEPT ![r].at = "CANCEL"]
        BY <2>2 DEF CancelArrives, Goto, state
      <3> QED  BY <3>1 DEF TypeOK, Handlers
    <2> QED  BY <2>1, <2>2
  <1>2. \A S : \A q \in Requests : work[q].overtaken => Overtaken(S)[q].overtaken
    BY DEF Overtaken, TypeOK, Works
  <1>3. PICK S : \A q \in Requests \ {r} : work'[q] = Overtaken(S)[q]
    <2>1. CASE \E k \in Keys : DeleteArrives(r, k)
      BY <2>1 DEF DeleteArrives, Overtaken
    <2>2. CASE CancelArrives(r)
      BY <2>2 DEF CancelArrives, Overtaken
    <2> QED  BY <2>1, <2>2
  <1>4. told' = {} \/ (told' = told /\ promise' = promise)
    BY DEF DeleteArrives, CancelArrives, DeadlinesKnown
  <1>5. Dues' = Dues
    BY <1>1 DEF Dues, PendingJobs
  <1> QED  BY <1>1, <1>2, <1>3, <1>4, <1>5, DuesStayKnown

\* A cancellation takes jobs away only once nothing is promised any more, and from
\* no request to delete that it has not overtaken.
LEMMA CancelStepKeepsDeadlines ==
    ASSUME TypeOK, Kinds, DeadlinesKnown, NEW r \in Requests, CancelStep(r)
    PROVE  DeadlinesKnown'
  <1>1. CASE UNCHANGED jobs /\ (told' = {} \/ (told' = told /\ promise' = promise))
    <2>1. Dues' = Dues
      BY <1>1 DEF Dues, PendingJobs
    <2>2. CASE req' = [req EXCEPT ![r] = Idle] /\ Forget(r)
      BY <1>1, <2>2, EndingKeepsDeadlines
    <2>3. ASSUME Goto(r, "LIST_TO_CANCEL") \/ Goto(r, "CANCEL_JOBS"),
                 \A q \in Requests \ {r} : work'[q] = work[q]
          PROVE  DeadlinesKnown'
      <3>1. /\ req'[r].at \in {"LIST_TO_CANCEL", "CANCEL_JOBS"}
            /\ \A q \in Requests \ {r} : req'[q] = req[q]
        BY <2>3 DEF Goto, TypeOK, Handlers
      <3> QED  BY <1>1, <2>1, <2>3, <3>1, DuesStayKnown
    <2>4. CASE CancelAccount(r)
      BY <2>2, <2>3, <2>4 DEF CancelAccount
    <2>5. CASE ListToCancel(r)
      <3>1. \A q \in Requests \ {r} : work'[q] = work[q]
        BY <2>5 DEF ListToCancel, TypeOK
      <3> QED  BY <2>3, <2>5, <3>1 DEF ListToCancel
    <2>6. CASE CancelJob(r)
      <3>1. req[r].at = "CANCEL_JOBS"
        BY <2>6 DEF CancelJob
      <3>2. CASE \E j \in work[r].jobs :
                    work' = [work EXCEPT ![r].jobs = @ \ {j}] /\ UNCHANGED req
        <4>1. \A q \in Requests \ {r} : req'[q] = req[q] /\ work'[q] = work[q]
          BY <3>2 DEF TypeOK
        <4>2. req'[r].at = "CANCEL_JOBS"
          BY <3>1, <3>2
        <4> QED  BY <1>1, <2>1, <4>1, <4>2, DuesStayKnown
      <3> QED  BY <2>2, <2>6, <3>2 DEF CancelJob
    <2> QED  BY <2>4, <2>5, <2>6 DEF CancelStep
  <1>2. CASE CancelJob(r)
    <2>1. r \in Cancelling /\ promise # "DELETION"
      BY <1>2 DEF CancelJob, Cancelling, CancelStages, Kinds, KindsMeet
    <2>2. told = {} /\ told' = {}
      BY <1>2, <2>1 DEF CancelJob, DeadlinesKnown
    <2>3. CASE UNCHANGED jobs
      BY <1>1, <2>2, <2>3
    <2>4. CASE \E j \in work[r].jobs :
                  work' = [work EXCEPT ![r].jobs = @ \ {j}] /\ UNCHANGED req
      <3>1. \A q \in Requests : req[q].at \in {"HIDE", "COMPLETE"} => work[q].overtaken
        BY <2>1 DEF Kinds, KindsMeet, Deleting, KeyStages, DeleteStages
      <3>2. \A q \in Requests : work'[q].overtaken = work[q].overtaken
        BY <2>4 DEF TypeOK, Works
      <3> QED  BY <2>2, <2>4, <3>1, <3>2 DEF DeadlinesKnown
    <2> QED  BY <1>2, <2>3, <2>4 DEF CancelJob
  <1>3. CASE CancelAccount(r) \/ ListToCancel(r)
    BY <1>1, <1>3 DEF CancelAccount, ListToCancel
  <1> QED  BY <1>2, <1>3 DEF CancelStep

\* Every step of Next.
LEMMA NextKeepsDeadlines ==
    ASSUME TypeOK, Kinds, DeadlinesKnown, Next PROVE DeadlinesKnown'
  <1>1. ASSUME NEW r \in Requests, KeyStep(r) \/ Respond(r) PROVE DeadlinesKnown'
    BY <1>1, KeyStepKeepsDeadlines
  <1>2. ASSUME NEW r \in Requests, HandlerStep(r) PROVE DeadlinesKnown'
    BY <1>2, HandlerStepKeepsDeadlines
  <1>3. ASSUME NEW r \in Requests, (\E k \in Keys : DeleteArrives(r, k)) \/ CancelArrives(r)
        PROVE  DeadlinesKnown'
    BY <1>3, ArrivingKeepsDeadlines
  <1>4. ASSUME NEW r \in Requests, CancelStep(r) PROVE DeadlinesKnown'
    BY <1>4, CancelStepKeepsDeadlines
  <1>5. ASSUME NEW r \in Requests, Dies(r) PROVE DeadlinesKnown'
    BY <1>5, EndingKeepsDeadlines DEF Dies, state
  <1>6. CASE NextDay
    BY <1>6 DEF NextDay, protocol, state, DeadlinesKnown, Dues, PendingJobs
  <1> QED  BY <1>1, <1>2, <1>3, <1>4, <1>5, <1>6 DEF Next

-----------------------------------------------------------------------------
(* Keys                                                                     *)

\* A request that leaves the table alone, and begins to run under no key, leaves
\* every key held as it was.
LEMMA RunningOnKeepsKeys ==
    ASSUME KeysAreHeld, UNCHANGED <<record, answers, unclaimed>>,
           \A q \in Requests : req'[q].at \in Running
               => req[q].at \in Running /\ req'[q].key = req[q].key
    PROVE  KeysAreHeld'
  <1>1. \A k \in Keys : RunningUnder(k)' \subseteq RunningUnder(k)
    BY DEF RunningUnder
  <1> QED  BY <1>1 DEF KeysAreHeld, KeyIsHeld

\* A claim is made where no record was, and so where nobody ran.
LEMMA ClaimKeepsKeys ==
    ASSUME TypeOK, KeysAreKnown, KeysAreHeld, NEW r \in Requests, Claim(r)
    PROVE  KeysAreHeld'
  <1>1. PICK k \in Keys : k = req[r].key
    BY DEF KeysAreKnown, Deleting, KeyStages, Claim
  <1>2. /\ \A q \in Requests \ {r} : req'[q] = req[q]
        /\ req'[r].key = k /\ req'[r].at \in {"RUN", "READ_BACK"}
    BY <1>1 DEF Claim, Goto, TypeOK, Handlers
  <1>3. CASE record[k] = Absent
    <2> SUFFICES ASSUME NEW h \in Keys \ unclaimed PROVE KeyIsHeld(h)'
      BY <1>3 DEF KeysAreHeld, Claim
    <2>1. KeyIsHeld(h)
      BY DEF KeysAreHeld
    <2>2. CASE h = k
      <3>1. RunningUnder(k) = {} /\ answers[k] = {}
        BY <1>3, <2>1, <2>2 DEF KeyIsHeld, Absent
      <3>2. RunningUnder(k)' \subseteq {r}
        BY <1>2, <3>1 DEF RunningUnder
      <3>3. record'[k].status = "IN_PROGRESS" /\ answers' = answers
        BY <1>1, <1>3 DEF Claim, TypeOK, Records
      <3> QED  BY <2>2, <3>1, <3>2, <3>3 DEF KeyIsHeld
    <2>3. CASE h # k
      <3>1. record'[h] = record[h] /\ answers' = answers
        BY <1>1, <2>3 DEF Claim, TypeOK
      <3>2. RunningUnder(h)' = RunningUnder(h)
        BY <1>1, <1>2, <2>3 DEF RunningUnder
      <3> QED  BY <2>1, <3>1, <3>2 DEF KeyIsHeld
    <2> QED  BY <2>2, <2>3
  <1>4. CASE record[k] # Absent
    <2>1. UNCHANGED <<record, answers, unclaimed>> /\ Goto(r, "READ_BACK")
      BY <1>1, <1>4 DEF Claim
    <2>2. req'[r].at \notin Running
      BY <2>1 DEF Goto, TypeOK, Handlers, Running
    <2> QED  BY <1>2, <2>1, <2>2, RunningOnKeepsKeys
  <1> QED  BY <1>3, <1>4

\* The record read back is replayed; a key run under without one is unclaimed.
LEMMA ReadBackKeepsKeys ==
    ASSUME TypeOK, KeysAreKnown, KeysAreHeld, NEW r \in Requests, ReadBack(r)
    PROVE  KeysAreHeld'
  <1>1. PICK k \in Keys : k = req[r].key
    BY DEF KeysAreKnown, Deleting, KeyStages, ReadBack
  <1>2. /\ \A q \in Requests \ {r} : req'[q] = req[q]
        /\ req'[r].at = "IDLE" \/ (req'[r].at = "RUN" /\ req'[r].key = k /\ unclaimed' = unclaimed \cup {k})
        /\ UNCHANGED record /\ unclaimed \subseteq unclaimed'
    BY <1>1 DEF ReadBack, Goto, TypeOK, Handlers, Idle
  <1> SUFFICES ASSUME NEW h \in Keys \ unclaimed' PROVE KeyIsHeld(h)'
    BY DEF KeysAreHeld
  <1>3. KeyIsHeld(h)
    BY <1>2 DEF KeysAreHeld
  <1>4. RunningUnder(h)' \subseteq RunningUnder(h)
    BY <1>1, <1>2 DEF RunningUnder, Running
  <1>5. answers'[h] \subseteq IF record[h].status = "COMPLETED" THEN {record[h].body} ELSE {}
    BY <1>1, <1>3 DEF ReadBack, Replays, KeyIsHeld, TypeOK
  <1> QED  BY <1>2, <1>3, <1>4, <1>5 DEF KeyIsHeld

\* A claim is released by the one request that held it.
LEMMA ReleaseKeepsKeys ==
    ASSUME TypeOK, KeysAreKnown, KeysAreHeld, NEW r \in Requests, Release(r)
    PROVE  KeysAreHeld'
  <1>1. PICK k \in Keys : k = req[r].key /\ r \in RunningUnder(k)
    BY DEF KeysAreKnown, Deleting, KeyStages, Release, RunningUnder, Running
  <1>2. /\ \A q \in Requests \ {r} : req'[q] = req[q]
        /\ req'[r].at = "IDLE" /\ UNCHANGED <<answers, unclaimed>>
        /\ \A h \in Keys \ {k} : record'[h] = record[h]
    BY <1>1 DEF Release, TypeOK, Idle
  <1> SUFFICES ASSUME NEW h \in Keys \ unclaimed PROVE KeyIsHeld(h)'
    BY <1>2 DEF KeysAreHeld
  <1>3. KeyIsHeld(h)
    BY DEF KeysAreHeld
  <1>4. RunningUnder(h)' = RunningUnder(h) \ {r}
    BY <1>1, <1>2 DEF RunningUnder, Running
  <1>5. CASE h = k
    <2>1. RunningUnder(k)' = {} /\ answers[k] = {}
      BY <1>1, <1>3, <1>4, <1>5 DEF KeyIsHeld
    <2> QED  BY <1>2, <1>5, <2>1 DEF KeyIsHeld
  <1>6. CASE h # k
    <2>1. RunningUnder(h)' = RunningUnder(h)
      BY <1>1, <1>4, <1>6 DEF RunningUnder
    <2> QED  BY <1>2, <1>3, <1>6, <2>1 DEF KeyIsHeld
  <1> QED  BY <1>5, <1>6

\* The response is recorded by the one request that held the key, before any other
\* was given.
LEMMA CompleteKeepsKeys ==
    ASSUME TypeOK, KeysAreKnown, KeysAreHeld, NEW r \in Requests, Complete(r)
    PROVE  KeysAreHeld'
  <1>1. PICK k \in Keys : k = req[r].key /\ r \in RunningUnder(k)
    BY DEF KeysAreKnown, Deleting, KeyStages, Complete, RunningUnder, Running
  <1>2. /\ \A q \in Requests \ {r} : req'[q] = req[q]
        /\ req'[r].at = "IDLE" /\ UNCHANGED unclaimed
        /\ \A h \in Keys \ {k} : record'[h] = record[h] /\ answers'[h] = answers[h]
    BY <1>1 DEF Complete, TypeOK, Idle
  <1> SUFFICES ASSUME NEW h \in Keys \ unclaimed PROVE KeyIsHeld(h)'
    BY <1>2 DEF KeysAreHeld
  <1>3. KeyIsHeld(h)
    BY DEF KeysAreHeld
  <1>4. RunningUnder(h)' = RunningUnder(h) \ {r}
    BY <1>1, <1>2 DEF RunningUnder, Running
  <1>5. CASE h = k
    <2>1. RunningUnder(k)' = {} /\ answers[k] = {} /\ record[k] # Absent
      BY <1>1, <1>3, <1>4, <1>5 DEF KeyIsHeld, Absent
    <2>2. /\ record'[k] = [status |-> "COMPLETED", body |-> req[r].body]
          /\ answers'[k] = {req[r].body}
      BY <1>1, <2>1 DEF Complete, TypeOK
    <2> QED  BY <1>5, <2>1, <2>2 DEF KeyIsHeld
  <1>6. CASE h # k
    <2>1. RunningUnder(h)' = RunningUnder(h)
      BY <1>1, <1>4, <1>6 DEF RunningUnder
    <2> QED  BY <1>2, <1>3, <1>6, <2>1 DEF KeyIsHeld
  <1> QED  BY <1>5, <1>6

\* Every step of Next: only a claim, or a row that is gone, lets a request run.
LEMMA NextKeepsKeys ==
    ASSUME TypeOK, KeysAreKnown, KeysAreHeld, Next PROVE KeysAreHeld'
  <1>1. ASSUME NEW r \in Requests, KeyStep(r) \/ Respond(r) PROVE KeysAreHeld'
    BY <1>1, ClaimKeepsKeys, ReadBackKeepsKeys, ReleaseKeepsKeys, CompleteKeepsKeys
       DEF KeyStep, Respond
  <1>2. ASSUME NEW r \in Requests, HandlerStep(r) PROVE KeysAreHeld'
    <2>1. UNCHANGED <<record, answers, unclaimed>> /\ req[r].at \in Running
      BY <1>2 DEF HandlerStep, Mark, ListJobs, Enqueue, HideAndRevoke, HandlerThrows,
                  DeleteStages, Running
    <2>2. req'[r].key = req[r].key /\ \A q \in Requests \ {r} : req'[q] = req[q]
      <3>1. \A at : Goto(r, at) => /\ req'[r].key = req[r].key
                                   /\ \A q \in Requests \ {r} : req'[q] = req[q]
        BY DEF Goto, TypeOK, Handlers
      <3>2. CASE Mark(r) \/ HideAndRevoke(r) \/ HandlerThrows(r)
        BY <3>1, <3>2 DEF Mark, HideAndRevoke, HandlerThrows
      <3>3. CASE ListJobs(r)
        BY <3>3 DEF ListJobs, Goto, TypeOK, Handlers
      <3>4. CASE Enqueue(r)
        BY <3>4 DEF Enqueue, TypeOK, Handlers
      <3> QED  BY <1>2, <3>2, <3>3, <3>4 DEF HandlerStep
    <2> QED  BY <2>1, <2>2, RunningOnKeepsKeys
  <1>3. ASSUME NEW r \in Requests,
               UNCHANGED <<record, answers, unclaimed>>,
               req'[r].at \notin Running,
               \A q \in Requests \ {r} : req'[q] = req[q]
        PROVE  KeysAreHeld'
    BY <1>3, RunningOnKeepsKeys
  <1>4. ASSUME NEW r \in Requests,
               (\E k \in Keys : DeleteArrives(r, k)) \/ CancelArrives(r) \/ Dies(r)
        PROVE  KeysAreHeld'
    <2>1. UNCHANGED <<record, answers, unclaimed>>
      BY <1>4 DEF DeleteArrives, CancelArrives, Dies
    <2>2. req'[r].at \in {"CLAIM", "CANCEL", "IDLE"} /\ \A q \in Requests \ {r} : req'[q] = req[q]
      <3>1. CASE \E k \in Keys : DeleteArrives(r, k)
        BY <3>1 DEF DeleteArrives, Idle, TypeOK
      <3>2. CASE CancelArrives(r)
        BY <3>2 DEF CancelArrives, Goto, TypeOK, Handlers
      <3>3. CASE Dies(r)
        BY <3>3 DEF Dies, Idle, TypeOK
      <3> QED  BY <1>4, <3>1, <3>2, <3>3
    <2> QED  BY <1>3, <2>1, <2>2 DEF Running
  <1>5. ASSUME NEW r \in Requests, CancelStep(r) PROVE KeysAreHeld'
    <2>1. UNCHANGED <<record, answers, unclaimed>>
      BY <1>5 DEF CancelStep
    <2>2. req[r].at \in CancelStages
      BY <1>5 DEF CancelStep, CancelAccount, ListToCancel, CancelJob, CancelStages
    <2>3. \/ req' = [req EXCEPT ![r] = Idle] \/ UNCHANGED req
          \/ Goto(r, "LIST_TO_CANCEL") \/ Goto(r, "CANCEL_JOBS")
      BY <1>5 DEF CancelStep, CancelAccount, ListToCancel, CancelJob
    <2>4. req'[r].at \notin Running /\ \A q \in Requests \ {r} : req'[q] = req[q]
      BY <2>2, <2>3 DEF Goto, Idle, Running, CancelStages, TypeOK, Handlers
    <2> QED  BY <1>3, <2>1, <2>4
  <1>6. CASE NextDay
    BY <1>6, RunningOnKeepsKeys DEF NextDay, protocol
  <1> QED  BY <1>1, <1>2, <1>4, <1>5, <1>6 DEF Next

-----------------------------------------------------------------------------
\* Nobody has asked for anything.
LEMMA InitIInv == Init => IInv
  <1> SUFFICES ASSUME Init PROVE IInv
    OBVIOUS
  <1> USE DEF Init, InitProtocol
  <1>1. TypeOK
    <2>1. [k \in Keys |-> Absent] \in [Keys -> Records]
      BY BodiesHaveNone DEF Absent, Records
    <2>2. 0 \in Days /\ 0 \in Arrivals /\ 0 \in 0..MaxFaults /\ 0 \in 0..MaxCancels
      BY DeletionRequestConstants DEF Days, Arrivals
    <2>3. NoJob \in [status : JobStatuses, due : Days]
      BY <2>2 DEF NoJob, JobStatuses
    <2> QED  BY <2>1, <2>2, <2>3, IdleType DEF TypeOK, Promises
  <1>2. Cancelling = {} /\ Deleting = {} /\ PendingJobs = {}
    BY DEF Cancelling, Deleting, PendingJobs, Idle, NoJob, KeyStages, DeleteStages, CancelStages
  <1>3. KeysAreKnown /\ KindsMeet /\ DeletersDeliver /\ CancellersKnow
    BY <1>2 DEF KeysAreKnown, KindsMeet, DeletersDeliver, CancellersKnow, Idle
  <1>4. PromisesHold
    BY DEF PromisesHold, AcceptedIsRecorded, CancellationIsComplete
  <1>5. KeysAreHeld
    BY DEF KeysAreHeld, KeyIsHeld, RunningUnder, Running, Idle
  <1>6. DeadlinesKnown
    BY DEF DeadlinesKnown, Idle
  <1> QED  BY <1>1, <1>3, <1>4, <1>5, <1>6 DEF IInv, Kinds

\* The invariant is inductive.
LEMMA NextIInv == IInv /\ [Next]_vars => IInv'
  <1> SUFFICES ASSUME IInv, [Next]_vars PROVE IInv'
    OBVIOUS
  <1>1. TypeOK /\ KeysAreKnown /\ Kinds /\ DeadlinesKnown /\ KeysAreHeld
    BY DEF IInv, Kinds
  <1>2. CASE Next
    <2>1. TypeOK'
      BY <1>1, <1>2, KeyStepType, HandlerStepType, OtherStepType DEF Next
    <2>2. Kinds'
      BY <1>1, <1>2, <2>1, NextKeepsKinds
    <2>3. KeysAreHeld'
      BY <1>1, <1>2, NextKeepsKeys
    <2>4. DeadlinesKnown'
      BY <1>1, <1>2, NextKeepsDeadlines
    <2> QED  BY <2>1, <2>2, <2>3, <2>4 DEF IInv
  <1>3. CASE UNCHANGED vars
    BY <1>3 DEF vars, protocol, state, IInv, Kinds, TypeOK, KeysAreKnown, KindsMeet, DeletersDeliver,
               CancellersKnow, PromisesHold, AcceptedIsRecorded, CancellationIsComplete,
               KeysAreHeld, KeyIsHeld, RunningUnder, DeadlinesKnown, Dues,
               Cancelling, Deleting, PendingJobs
  <1> QED  BY <1>2, <1>3

\* Requests of the two kinds, the promises and the keys are as the invariant says.
THEOREM SpecIInv == Spec => []IInv
  <1> QED  BY InitIInv, NextIInv, PTL DEF Spec

\* The variables have their types: what a handler knows, the table of keys, the
\* account and its jobs (routes/account.ts).
THEOREM TypeCorrect == Spec => []TypeOK
  <1>1. IInv => TypeOK
    BY DEF IInv
  <1> QED  BY <1>1, SpecIInv, PTL

\* A deletion the person was told is accepted, and that no cancellation overlapped
\* or followed, has a job to be carried out, and nobody sees the person.
THEOREM AcceptedRecorded == Spec => []AcceptedIsRecorded
  <1>1. IInv => AcceptedIsRecorded
    BY DEF IInv, Kinds, PromisesHold
  <1> QED  BY <1>1, SpecIInv, PTL

\* A cancellation that was carried out, that the index did not mislead and no
\* request to delete overlapped or followed, leaves no job to be dispatched.
THEOREM CancellationComplete == Spec => []CancellationIsComplete
  <1>1. IInv => CancellationIsComplete
    BY DEF IInv, Kinds, PromisesHold
  <1> QED  BY <1>1, SpecIInv, PTL

\* Every response ever given to a key is the same one, provided every request that
\* ran under the key had a record of its own (lib/idempotency.ts).
THEOREM AnswersAgree == Spec => []OneAnswerPerKey
  <1>1. IInv => OneAnswerPerKey
    <2> SUFFICES ASSUME IInv, NEW k \in Keys \ unclaimed PROVE Cardinality(answers[k]) <= 1
      BY DEF OneAnswerPerKey
    <2>1. KeyIsHeld(k)
      BY DEF IInv, KeysAreHeld
    <2>2. answers[k] = {} \/ answers[k] = {record[k].body}
      BY <2>1 DEF KeyIsHeld
    <2>3. Cardinality({}) = 0 /\ Cardinality({record[k].body}) = 1
      BY FS_EmptySet, FS_Singleton
    <2> QED  BY <2>2, <2>3
  <1> QED  BY <1>1, SpecIInv, PTL

\* Every deadline that an accepted request was told, unless a cancellation overlapped
\* it or the index misled it, is the due date of a job that is to be carried out,
\* whatever failed, died or was repeated, until a cancellation.
THEOREM DeadlinesKept == Spec => []ToldDeadlinesAreKept
  <1>1. IInv => ToldDeadlinesAreKept
    BY DEF IInv, DeadlinesKnown, Dues, ToldDeadlinesAreKept
  <1> QED  BY <1>1, SpecIInv, PTL
=============================================================================
