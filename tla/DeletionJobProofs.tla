------------------------- MODULE DeletionJobProofs -------------------------
(***************************************************************************)
(* For every number of families, people, overlapping runs, crashes,         *)
(* failures and membership changes: the job's types, and that a resumed     *)
(* erasure never skips a step.                                              *)
(*                                                                          *)
(* The invariant says of every copy of the job, the stored one and the one  *)
(* each invocation holds, that what is behind its step is erased.  It is    *)
(* preserved because nothing that was erased comes back (Shrinks) and a     *)
(* copy moves on only when its step is done (Advance).                      *)
(***************************************************************************)
EXTENDS DeletionJob, TLAPS

\* Done for all steps before n, spelled out.
Erased(n, sh, ro, ke, hi) ==
    /\ n > 1 => sh = {}
    /\ n > 2 => \A f \in Families : ro[f][Subject].role = "NONE"
    /\ n > 3 => "REVOKE_DEVICES" \notin ke
    /\ n > 4 => "DELETE_CURRENT_LOCATIONS" \notin ke
    /\ n > 5 => hi = {}
    /\ n > 7 => "DELETE_NOTIFICATION_PREFERENCES" \notin ke
    /\ n > 8 => "DELETE_LIVE_SESSIONS" \notin ke
    /\ n > 9 => "DELETE_GEOFENCE_STATE" \notin ke
    /\ n > 10 => "DELETE_IDENTITY" \notin ke
    /\ n > 11 => "WRITE_TOMBSTONE" \notin ke

\* What each place of an invocation knows.
InFamilies == {"FAMILIES", "HANDOVER", "REMOVE", "MEMBERS", "PLACES", "FAMILY"}
InHistory == {"DAYS", "CURSOR"}

Control(h) ==
    /\ h.at # "IDLE" => h.step \in Steps
    /\ h.at \in {"START", "STEP"} => h.step < TERMINAL_STEP
    /\ h.at \in InFamilies => h.step = 2
    /\ h.at \in InHistory => h.step = 5 /\ h.cursor <= h.until

\* What an invocation believes about the subject's memberships is still true.
Knows(h, ro) ==
    /\ h.at \in InFamilies => \A f \in Families \ h.left : ro[f][Subject].role = "NONE"
    /\ h.planned => \A f \in Families : h.plan[f].action = "NONE" => ro[f][Subject].role = "NONE"

\* A copy of the job is right about the stores.
GoodJob(j, sh, ro, ke, hi) == Erased(j.step, sh, ro, ke, hi) /\ \A day \in hi : day > j.cursor

GoodWorker(h, sh, ro, ke, hi) == Control(h) /\ Knows(h, ro) /\ GoodJob(h, sh, ro, ke, hi)

RowsMakeSense(ro) ==
    \A f \in Families, u \in Members : ro[f][u].role = "NONE" => ro[f][u].status = "LEFT"

IInv ==
    /\ TypeOK
    /\ RowsMakeSense(row)
    /\ GoodJob(job, shared, row, kept, history)
    /\ \A w \in Workers : GoodWorker(worker[w], shared, row, kept, history)

\* Nothing of the subject's comes back.
Shrink(sh, ro, ke, hi, sh2, ro2, ke2, hi2) ==
    /\ sh2 \subseteq sh /\ ke2 \subseteq ke /\ hi2 \subseteq hi
    /\ \A f \in Families : ro[f][Subject].role = "NONE" => ro2[f][Subject].role = "NONE"

-----------------------------------------------------------------------------
\* The deletion constants, in the form the steps below cite.
LEMMA Constants ==
    /\ Families # {}
    /\ Subject \in Members /\ Gone \notin Members
    /\ Lookback \in Nat /\ Lookback > 0 /\ Budget \in Nat /\ Budget > 0
    /\ FirstStep \in {0, 1}
BY DeletionConstants DEF Members, Subject, Gone, Absent

\* The idle invocation is an invocation.
LEMMA IdleType == Idle \in Invocations
<1>1. NoPlan \in [Families -> Dispositions]
  BY Constants DEF NoPlan, Dispositions
<1>2. (CHOOSE f \in Families : TRUE) \in Families
  BY Constants
<1>3. {} \in SUBSET Families
  OBVIOUS
<1> QED
  BY <1>1, <1>2, <1>3, Constants DEF Idle, Invocations, Absent, Steps, TERMINAL_STEP

\* chooseSuccessor picks the candidate of the highest rank, the senior among equals.
LEMMA SuccessorIsChosen ==
    ASSUME TypeOK, NEW f \in Families, NEW C \in SUBSET Others, C # {}
    PROVE  LET s == ChooseSuccessor(f, C) IN
           /\ s \in C
           /\ \A v \in C :
               \/ Rank(row[f][s].role) > Rank(row[f][v].role)
               \/ Rank(row[f][s].role) = Rank(row[f][v].role) /\ s <= v
<1> DEFINE Of(k) == {u \in C : Rank(row[f][u].role) = k}
           Best(u) == \A v \in C :
               \/ Rank(row[f][u].role) > Rank(row[f][v].role)
               \/ Rank(row[f][u].role) = Rank(row[f][v].role) /\ u <= v
<1>1. \A u \in C : Rank(row[f][u].role) \in 0..3
  BY DEF TypeOK, Rank, Rows, Roles, Members
<1>2. \A k \in 0..3 : Of(k) # {} => \E u \in Of(k) : \A v \in Of(k) : u <= v
  BY MostSenior
<1>3. ASSUME NEW k \in 0..3, Of(k) # {}, \A v \in C : Rank(row[f][v].role) <= k
      PROVE  \E u \in C : Best(u)
  <2>1. PICK u \in Of(k) : \A v \in Of(k) : u <= v
    BY <1>2, <1>3
  <2>2. \A v \in C : Rank(row[f][v].role) = k \/ Rank(row[f][v].role) < k
    BY <1>1, <1>3
  <2>3. Best(u)
    BY <2>1, <2>2
  <2> QED
    BY <2>1, <2>3
<1>4. \E k \in 0..3 : Of(k) # {} /\ \A v \in C : Rank(row[f][v].role) <= k
  BY <1>1
<1>5. \E u \in C : Best(u)
  BY <1>3, <1>4
<1> QED
  BY <1>5 DEF ChooseSuccessor

\* planMembershipRemoval returns a disposition, and forgets no membership.
LEMMA PlanType ==
    ASSUME TypeOK, NEW f \in Families
    PROVE  /\ PlanRemoval(f) \in Dispositions
           /\ PlanRemoval(f).action = "NONE" => row[f][Subject].role = "NONE"
<1> DEFINE own == row[f][Subject]
<1>1. own \in Rows
  BY Constants DEF TypeOK
<1>2. CASE own.role = "NONE"
  BY <1>2, Constants DEF PlanRemoval, Dispositions
<1>3. CASE own.role \in {"ADMIN", "ADULT"} \/ (own.role = "OWNER" /\ own.status # "ACTIVE")
  BY <1>3, Constants DEF PlanRemoval, Dispositions
<1>4. CASE own.role = "OWNER" /\ own.status = "ACTIVE"
  <2>1. ActiveOthers(f) # {} => ChooseSuccessor(f, ActiveOthers(f)) \in Members
    BY SuccessorIsChosen DEF ActiveOthers, Members
  <2> QED
    BY <1>4, <2>1, Constants DEF PlanRemoval, Dispositions
<1> QED
  BY <1>1, <1>2, <1>3, <1>4 DEF Rows, Roles

\* A copy that is right stays right while the stores only shrink.
LEMMA GoodStays ==
    ASSUME NEW h, NEW sh, NEW ro, NEW ke, NEW hi, NEW sh2, NEW ro2, NEW ke2, NEW hi2,
           Shrink(sh, ro, ke, hi, sh2, ro2, ke2, hi2)
    PROVE  /\ Erased(h.step, sh, ro, ke, hi) => Erased(h.step, sh2, ro2, ke2, hi2)
           /\ GoodJob(h, sh, ro, ke, hi) => GoodJob(h, sh2, ro2, ke2, hi2)
           /\ GoodWorker(h, sh, ro, ke, hi) => GoodWorker(h, sh2, ro2, ke2, hi2)
<1>1. Erased(h.step, sh, ro, ke, hi) => Erased(h.step, sh2, ro2, ke2, hi2)
  BY DEF Erased, Shrink
<1>2. Knows(h, ro) => Knows(h, ro2)
  BY DEF Knows, Shrink
<1> QED
  BY <1>1, <1>2 DEF GoodJob, GoodWorker, Shrink

\* A copy moves on when its step is done.
LEMMA Advance ==
    ASSUME NEW n \in 1..12, NEW sh, NEW ro, NEW ke, NEW hi, Erased(n, sh, ro, ke, hi),
           n = 1 => sh = {},
           n = 2 => \A f \in Families : ro[f][Subject].role = "NONE",
           n = 5 => hi = {},
           n \notin {1, 2, 5, 6, 12} => DELETION_STEPS[n] \notin ke
    PROVE  Erased(n + 1, sh, ro, ke, hi)
<1>1. n \in {1,2,3,4,5,6,7,8,9,10,11,12}
  OBVIOUS
<1> QED
  BY <1>1 DEF Erased, DELETION_STEPS

-----------------------------------------------------------------------------
THEOREM Initially == Init => IInv
<1> SUFFICES ASSUME Init PROVE IInv
  OBVIOUS
<1>1. TypeOK
  BY IdleType, Constants DEF Init, TypeOK, Jobs, Absent, Steps, TERMINAL_STEP
<1>2. RowsMakeSense(row)
  BY DEF Init, NoRow, RowsMakeSense
<1>3. job.step \in {0, 1} /\ job.cursor = 0 /\ \A day \in history : day > 0
  BY Constants DEF Init, Absent
<1>4. \A w \in Workers : worker[w].at = "IDLE" /\ worker[w].step = 0 /\ worker[w].cursor = 0
                          /\ worker[w].planned = FALSE
  BY DEF Init, Idle, Absent
<1>5. \A n \in {0, 1} : Erased(n, shared, row, kept, history)
  BY DEF Erased
<1> QED
  BY <1>1, <1>2, <1>3, <1>4, <1>5
  DEF IInv, GoodJob, GoodWorker, Control, Knows, InFamilies, InHistory

-----------------------------------------------------------------------------
\* A step keeps the invariant when it keeps the types, shrinks the stores, and
\* leaves the job and the one invocation that moved right about them.
LEMMA StepIsSafe ==
    ASSUME IInv, TypeOK', RowsMakeSense(row'),
           Shrink(shared, row, kept, history, shared', row', kept', history'),
           job' = job \/ GoodJob(job', shared', row', kept', history'),
           NEW w \in Workers, NEW h, worker' = [worker EXCEPT ![w] = h],
           GoodWorker(h, shared', row', kept', history')
    PROVE  IInv'
<1>1. GoodJob(job', shared', row', kept', history')
  BY GoodStays DEF IInv
<1>2. ASSUME NEW v \in Workers PROVE GoodWorker(worker'[v], shared', row', kept', history')
  <2>1. GoodWorker(worker[v], shared', row', kept', history')
    BY GoodStays DEF IInv
  <2>2. worker'[v] = IF v = w THEN h ELSE worker[v]
    BY DEF IInv, TypeOK
  <2> QED
    BY <2>1, <2>2
<1> QED
  BY <1>1, <1>2 DEF IInv

\* The steps by their place in the order.
LEMMA StepNames ==
    ASSUME NEW n \in 1..12
    PROVE  /\ DELETION_STEPS[n] = "REVOKE_SHARING" => n = 1
           /\ DELETION_STEPS[n] = "REMOVE_MEMBERSHIPS" => n = 2
           /\ DELETION_STEPS[n] = "DELETE_LOCATION_HISTORY" => n = 5
           /\ DELETION_STEPS[n] = "DELETE_SAVED_PLACES" => n = 6
           /\ DELETION_STEPS[n] = "CONFIRM" => n = 12
           /\ DELETION_STEPS[n] \in SweepSteps => n \notin {1, 2, 5, 6, 12}
<1>1. n \in {1,2,3,4,5,6,7,8,9,10,11,12}
  OBVIOUS
<1> QED
  BY <1>1 DEF DELETION_STEPS, SweepSteps

\* completeStep leaves a copy that is right, when the step it leaves is done.
LEMMA CompleteIsGood ==
    ASSUME NEW h \in Invocations, NEW sh, NEW ro, NEW ke, NEW hi,
           hi \subseteq 1..Lookback, h.step \in 1..12, GoodWorker(h, sh, ro, ke, hi),
           h.step = 1 => sh = {},
           h.step = 2 => \A f \in Families : ro[f][Subject].role = "NONE",
           h.step = 5 => hi = {},
           h.step \notin {1, 2, 5, 6, 12} => DELETION_STEPS[h.step] \notin ke
    PROVE  /\ CompleteStep(h) \in Invocations
           /\ GoodWorker(CompleteStep(h), sh, ro, ke, hi)
<1> DEFINE g == CompleteStep(h)
<1>a. h.step + 1 \in {Absent} \cup Steps /\ 0 \in 0..Lookback
  BY Constants DEF Steps, TERMINAL_STEP
<1>b. g = [h EXCEPT !.step = h.step + 1, !.cursor = 0, !.until = 0, !.at = "SAVE"]
  BY DEF CompleteStep
<1>1. g \in Invocations /\ g.step = h.step + 1 /\ g.cursor = 0 /\ g.at = "SAVE"
      /\ (g.planned => h.planned) /\ g.plan = h.plan
  BY <1>a, <1>b DEF Invocations
<1>2. Erased(g.step, sh, ro, ke, hi)
  BY <1>1, Advance DEF GoodWorker, GoodJob
<1>3. \A day \in hi : day > g.cursor
  BY <1>1
<1>4. Control(g) /\ Knows(g, ro)
  BY <1>1 DEF Control, Knows, GoodWorker, InFamilies, InHistory, Steps, TERMINAL_STEP
<1> QED
  BY <1>1, <1>2, <1>3, <1>4 DEF GoodWorker, GoodJob

\* Moving to another place of the run leaves a copy right, when what that place
\* takes for granted holds.
LEMMA GotoIsGood ==
    ASSUME NEW h \in Invocations, NEW sh, NEW ro, NEW ke, NEW hi, GoodWorker(h, sh, ro, ke, hi),
           h.at # "IDLE",
           NEW place2 \in {"FAMILIES", "REMOVE", "PLACES", "FAMILY", "DAYS", "FAILED"},
           place2 \in InFamilies => h.at \in InFamilies,
           place2 \in InHistory => h.at \in InHistory
    PROVE  /\ [h EXCEPT !.at = place2] \in Invocations
           /\ GoodWorker([h EXCEPT !.at = place2], sh, ro, ke, hi)
<1> DEFINE g == [h EXCEPT !.at = place2]
<1>1. /\ g \in Invocations /\ g.at = place2 /\ g.step = h.step /\ g.cursor = h.cursor
      /\ g.until = h.until /\ g.left = h.left /\ g.plan = h.plan /\ (g.planned => h.planned)
  BY DEF Invocations
<1>2. Control(g)
  BY <1>1 DEF GoodWorker, Control, InFamilies, InHistory
<1>3. Knows(g, ro)
  BY <1>1 DEF GoodWorker, Knows
<1>4. GoodJob(g, sh, ro, ke, hi)
  BY <1>1 DEF GoodWorker, GoodJob
<1> QED
  BY <1>1, <1>2, <1>3, <1>4 DEF GoodWorker

\* An invocation that ends leaves nothing to be wrong about.
LEMMA IdleIsGood == ASSUME NEW sh, NEW ro, NEW ke, NEW hi, hi \subseteq 1..Lookback
                    PROVE  GoodWorker(Idle, sh, ro, ke, hi)
<1>1. Idle.at = "IDLE" /\ Idle.step = 0 /\ Idle.cursor = 0 /\ Idle.planned = FALSE
  BY DEF Idle, Absent
<1>2. \A day \in hi : day > 0
  BY Constants
<1>3. Control(Idle) /\ Knows(Idle, ro)
  BY <1>1 DEF Control, Knows, InFamilies, InHistory
<1>4. Erased(0, sh, ro, ke, hi)
  BY DEF Erased
<1>5. GoodJob(Idle, sh, ro, ke, hi)
  BY <1>1, <1>2, <1>4 DEF GoodJob
<1> QED
  BY <1>3, <1>5 DEF GoodWorker

\* Nothing changes in the stores.
LEMMA NoShrink == ASSUME UNCHANGED <<shared, row, kept, history>>
                  PROVE  Shrink(shared, row, kept, history, shared', row', kept', history')
BY DEF Shrink

\* A change by somebody else: the job and the invocations stay as they are.
LEMMA MoveIsSafe ==
    ASSUME IInv, TypeOK', RowsMakeSense(row'), UNCHANGED <<job, worker>>,
           Shrink(shared, row, kept, history, shared', row', kept', history')
    PROVE  IInv'
<1>1. GoodJob(job', shared', row', kept', history')
  BY GoodStays DEF IInv
<1>2. ASSUME NEW v \in Workers PROVE GoodWorker(worker'[v], shared', row', kept', history')
  <2>1. GoodWorker(worker[v], shared', row', kept', history')
    BY GoodStays DEF IInv
  <2> QED
    BY <2>1
<1> QED
  BY <1>1, <1>2 DEF IInv

\* The same, for an invocation that only moves to another place of the run.
LEMMA GotoIsSafe ==
    ASSUME IInv, worker' \in [Workers -> Invocations] => TypeOK', RowsMakeSense(row'),
           Shrink(shared, row, kept, history, shared', row', kept', history'),
           job' = job \/ GoodJob(job', shared', row', kept', history'),
           NEW w \in Workers, worker[w].at # "IDLE",
           NEW place2 \in {"FAMILIES", "REMOVE", "PLACES", "FAMILY", "DAYS", "FAILED"},
           place2 \in InFamilies => worker[w].at \in InFamilies,
           place2 \in InHistory => worker[w].at \in InHistory,
           Goto(w, place2)
    PROVE  IInv'
<1> DEFINE h == [worker[w] EXCEPT !.at = place2]
<1>1. worker \in [Workers -> Invocations] /\ GoodWorker(worker[w], shared, row, kept, history)
  BY DEF IInv, TypeOK
<1>2. GoodWorker(worker[w], shared', row', kept', history')
  BY <1>1, GoodStays
<1>3. h \in Invocations /\ GoodWorker(h, shared', row', kept', history')
  BY <1>1, <1>2, GotoIsGood
<1>4. worker' = [worker EXCEPT ![w] = h]
  BY <1>1 DEF Goto
<1>5. worker' \in [Workers -> Invocations]
  BY <1>1, <1>3, <1>4
<1> QED
  BY <1>3, <1>4, <1>5, StepIsSafe

\* And for one that ends.
LEMMA FinishIsSafe ==
    ASSUME IInv, worker' \in [Workers -> Invocations] => TypeOK',
           UNCHANGED <<shared, row, kept, history>>,
           job' = job \/ GoodJob(job', shared, row, kept, history),
           NEW w \in Workers, Finish(w)
    PROVE  IInv'
<1>1. worker' = [worker EXCEPT ![w] = Idle] /\ worker' \in [Workers -> Invocations]
  BY IdleType DEF Finish, IInv, TypeOK
<1>2. GoodWorker(Idle, shared', row', kept', history')
  BY <1>1, IdleIsGood DEF TypeOK
<1>3. RowsMakeSense(row') /\ (job' = job \/ GoodJob(job', shared', row', kept', history'))
  BY DEF IInv
<1> QED
  BY <1>1, <1>2, <1>3, StepIsSafe, NoShrink

\* And for one that has finished a step.
LEMMA CompleteIsSafe ==
    ASSUME IInv, worker' \in [Workers -> Invocations] => TypeOK', UNCHANGED row, job' = job,
           Shrink(shared, row, kept, history, shared', row', kept', history'),
           NEW w \in Workers, worker[w].step \in 1..12, Complete(w),
           worker[w].step = 1 => shared' = {},
           worker[w].step = 2 => \A f \in Families : row[f][Subject].role = "NONE",
           worker[w].step = 5 => history' = {},
           worker[w].step \notin {1, 2, 5, 6, 12} => DELETION_STEPS[worker[w].step] \notin kept'
    PROVE  IInv'
<1> DEFINE h == CompleteStep(worker[w])
<1>1. worker \in [Workers -> Invocations] /\ GoodWorker(worker[w], shared, row, kept, history)
  BY DEF IInv, TypeOK
<1>2. GoodWorker(worker[w], shared', row', kept', history')
  BY <1>1, GoodStays
<1>3. history' \subseteq 1..Lookback
  BY DEF Shrink, IInv, TypeOK
<1>4. worker[w].step = 2 => \A f \in Families : row'[f][Subject].role = "NONE"
  OBVIOUS
<1>5. h \in Invocations /\ GoodWorker(h, shared', row', kept', history')
  BY <1>1, <1>2, <1>3, <1>4, CompleteIsGood
<1>6. worker' = [worker EXCEPT ![w] = h]
  BY <1>1 DEF Complete
<1>7. worker' \in [Workers -> Invocations] /\ RowsMakeSense(row')
  BY <1>1, <1>5, <1>6 DEF IInv
<1> QED
  BY <1>5, <1>6, <1>7, StepIsSafe

\* dispositionsFor is right whether the plan is new or the invocation's own.
LEMMA PlanIsRight ==
    ASSUME IInv, NEW w \in Workers, NEW plan, plan = DispositionsFor(worker[w])
    PROVE  /\ plan \in [Families -> Dispositions]
           /\ \A f \in Families : plan[f].action = "NONE" => row[f][Subject].role = "NONE"
<1>0. TypeOK /\ worker[w] \in Invocations
  BY DEF IInv, TypeOK
<1>1. CASE worker[w].planned
  <2>1. plan = worker[w].plan
    BY <1>1 DEF DispositionsFor
  <2> QED
    BY <1>0, <1>1, <2>1 DEF IInv, GoodWorker, Knows, Invocations
<1>2. CASE ~worker[w].planned
  <2>1. plan = [f \in Families |-> PlanRemoval(f)]
    BY <1>2 DEF DispositionsFor
  <2> QED
    BY <1>0, <2>1, PlanType
<1> QED
  BY <1>1, <1>2

-----------------------------------------------------------------------------
THEOREM Inductive == IInv /\ [Next]_vars => IInv'
<1> SUFFICES ASSUME IInv, [Next]_vars PROVE IInv'
  OBVIOUS
<1> USE DEF world
<1>0. TypeOK /\ RowsMakeSense(row) /\ \A w \in Workers : worker[w] \in Invocations
  BY DEF IInv, TypeOK
<1>1. CASE Dispatch
  BY <1>1, <1>0 DEF Dispatch, IInv, TypeOK
<1>2. ASSUME NEW w \in Workers, Deliver(w) PROVE IInv'
  <2>1. CASE UNCHANGED worker
    BY <1>2, <1>0, <2>1 DEF Deliver, IInv, TypeOK
  <2>2. CASE job.step \notin {Absent, TERMINAL_STEP}
    <3> DEFINE h == [Idle EXCEPT !.at = IF job.status = "PENDING" THEN "START" ELSE "STEP",
                                 !.step = job.step, !.cursor = job.cursor]
    <3>1. worker' = [worker EXCEPT ![w] = h] /\ UNCHANGED <<job, world, counts>>
      BY <1>2, <2>2 DEF Deliver
    <3>a. job.step \in 1..12 /\ job.step \in {Absent} \cup Steps /\ job.cursor \in 0..Lookback
      BY <1>0, <2>2 DEF TypeOK, Jobs, Steps, TERMINAL_STEP, Absent
    <3>b. ~Idle.planned
      BY DEF Idle
    <3>2. /\ h \in Invocations
          /\ h.at \in {"START", "STEP"} /\ h.step = job.step /\ h.cursor = job.cursor
          /\ ~h.planned /\ h.step \in 1..12
      BY <3>a, <3>b, IdleType DEF Invocations
    <3>3. TypeOK'
      BY <1>0, <1>2, <3>1, <3>2 DEF TypeOK, Deliver
    <3>4. GoodWorker(h, shared, row, kept, history)
      BY <3>2 DEF IInv, GoodWorker, GoodJob, Control, Knows, InFamilies, InHistory, Steps,
                  TERMINAL_STEP
    <3> QED
      BY <1>0, <3>1, <3>3, <3>4, StepIsSafe, NoShrink
  <2> QED
    BY <1>2, <2>1, <2>2 DEF Deliver
<1>3. ASSUME NEW w \in Workers, Start(w) PROVE IInv'
  <2> DEFINE h == [worker[w] EXCEPT !.at = "STEP"]
  <2>1. worker' = [worker EXCEPT ![w] = h] /\ UNCHANGED <<messages, world, counts>>
    BY <1>3, <1>0 DEF Start, Goto, TypeOK
  <2>2. h \in Invocations /\ job' \in Jobs
    BY <1>0, <1>3 DEF Start, Saved, Invocations, Jobs
  <2>3. TypeOK'
    BY <1>0, <2>1, <2>2 DEF TypeOK
  <2>4. GoodWorker(h, shared, row, kept, history) /\ GoodJob(job', shared, row, kept, history)
    BY <1>0, <1>3 DEF IInv, GoodWorker, GoodJob, Control, Knows, InFamilies, InHistory, Start,
                      Saved, Invocations
  <2> QED
    BY <1>0, <2>1, <2>3, <2>4, StepIsSafe, NoShrink
<1>4. ASSUME NEW w \in Workers, Save(w) PROVE IInv'
  <2> DEFINE h == IF worker[w].step = TERMINAL_STEP THEN Idle ELSE [worker[w] EXCEPT !.at = "STEP"]
  <2>1. worker' = [worker EXCEPT ![w] = h] /\ UNCHANGED <<messages, world, counts>>
    BY <1>4, <1>0 DEF Save, Goto, Finish, TypeOK
  <2>2. h \in Invocations /\ job' \in Jobs
    BY <1>0, <1>4, IdleType DEF Save, Saved, Invocations, Jobs
  <2>3. TypeOK'
    BY <1>0, <2>1, <2>2 DEF TypeOK
  <2>4. GoodWorker(Idle, shared, row, kept, history)
    BY <1>0 DEF GoodWorker, GoodJob, Control, Knows, Erased, Idle, InFamilies, InHistory, TypeOK,
                Absent
  <2>5. GoodWorker(h, shared, row, kept, history) /\ GoodJob(job', shared, row, kept, history)
    BY <1>0, <1>4, <2>4 DEF IInv, GoodWorker, GoodJob, Control, Knows, InFamilies, InHistory, Save,
                      Saved, Invocations, Steps, TERMINAL_STEP
  <2> QED
    BY <1>0, <2>1, <2>3, <2>5, StepIsSafe, NoShrink
<1>5. ASSUME NEW w \in Workers, RevokeSharing(w) PROVE IInv'
  <2>1. worker[w].step = 1
    BY <1>0, <1>5, StepNames DEF RevokeSharing, On, IInv, GoodWorker, Control, Steps, TERMINAL_STEP
  <2>2. Shrink(shared, row, kept, history, shared', row', kept', history')
    BY <1>5 DEF RevokeSharing, Shrink
  <2>3. /\ worker' \in [Workers -> Invocations] => TypeOK'
        /\ UNCHANGED row /\ job' = job /\ shared' = {} /\ Complete(w)
    BY <1>0, <1>5 DEF RevokeSharing, TypeOK
  <2> QED
    BY <2>1, <2>2, <2>3, CompleteIsSafe
<1>6. ASSUME NEW w \in Workers, PlanFamilies(w) PROVE IInv'
  <2> DEFINE plan == DispositionsFor(worker[w])
             h == [worker[w] EXCEPT !.at = "FAMILIES", !.planned = TRUE, !.plan = plan,
                                    !.left = {f \in Families : plan[f].action # "NONE"}]
  <2>1. worker' = [worker EXCEPT ![w] = h] /\ UNCHANGED <<job, messages, world, counts>>
    BY <1>6, <1>0 DEF PlanFamilies, TypeOK
  <2>2. worker[w].step = 2
    BY <1>0, <1>6, StepNames DEF PlanFamilies, On, IInv, GoodWorker, Control, Steps, TERMINAL_STEP
  <2>3. /\ plan \in [Families -> Dispositions]
        /\ \A f \in Families : plan[f].action = "NONE" => row[f][Subject].role = "NONE"
    BY PlanIsRight
  <2>4. /\ h \in Invocations /\ h.at = "FAMILIES" /\ h.step = worker[w].step
        /\ h.cursor = worker[w].cursor /\ h.plan = plan
        /\ h.left = {f \in Families : plan[f].action # "NONE"}
    BY <1>0, <2>3 DEF Invocations
  <2>5. GoodWorker(h, shared, row, kept, history)
    BY <2>2, <2>3, <2>4 DEF IInv, GoodWorker, GoodJob, Control, Knows, InFamilies, InHistory, Steps,
                            TERMINAL_STEP
  <2>6. TypeOK'
    BY <1>0, <2>1, <2>4 DEF TypeOK
  <2> QED
    BY <1>0, <2>1, <2>5, <2>6, StepIsSafe, NoShrink
<1>7. ASSUME NEW w \in Workers, NEW f \in Families, PromoteSuccessor(w, f) PROVE IInv'
  <2> DEFINE u == worker[w].plan[f].heir
  <2>0. u \in Members /\ worker[w].step = 2
    BY <1>0, <1>7 DEF Invocations, Dispositions, PromoteSuccessor, IInv, GoodWorker, Control,
                      InFamilies
  <2>1. CASE row[f][u].role # "NONE"
    <3> DEFINE h == [worker[w] EXCEPT !.at = "HANDOVER", !.family = f]
    <3>1. worker' = [worker EXCEPT ![w] = h] /\ row' = [row EXCEPT ![f][u].role = "OWNER"]
          /\ UNCHANGED <<job, messages, owner, shared, place, history, kept, counts>>
      BY <1>7, <1>0, <2>1 DEF PromoteSuccessor, TypeOK
    <3>2. /\ row' \in [Families -> [Members -> Rows]] /\ RowsMakeSense(row')
          /\ \A g \in Families : row[g][Subject].role = "NONE" => row'[g][Subject].role = "NONE"
      <4>1. row' = [row EXCEPT ![f] = [row[f] EXCEPT ![u] = [row[f][u] EXCEPT !.role = "OWNER"]]]
        BY <3>1, <1>0, <2>0 DEF TypeOK
      <4>2. [row[f][u] EXCEPT !.role = "OWNER"] \in Rows
        BY <1>0, <2>0 DEF TypeOK, Rows, Roles
      <4>3. row' \in [Families -> [Members -> Rows]]
        BY <1>0, <2>0, <4>1, <4>2 DEF TypeOK
      <4>4. \A g \in Families, v \in Members :
               row'[g][v] = IF g = f /\ v = u THEN [row[f][u] EXCEPT !.role = "OWNER"] ELSE row[g][v]
        BY <1>0, <2>0, <4>1 DEF TypeOK
      <4>5. [row[f][u] EXCEPT !.role = "OWNER"].role = "OWNER"
        BY <1>0, <2>0 DEF TypeOK, Rows
      <4>6. RowsMakeSense(row')
        <5> SUFFICES ASSUME NEW g \in Families, NEW v \in Members, row'[g][v].role = "NONE"
                     PROVE  row'[g][v].status = "LEFT"
          BY DEF RowsMakeSense
        <5>1. row'[g][v] = row[g][v]
          BY <4>4, <4>5
        <5> QED
          BY <1>0, <5>1 DEF RowsMakeSense
      <4>7. ASSUME NEW g \in Families, row[g][Subject].role = "NONE"
            PROVE  row'[g][Subject].role = "NONE"
        BY <2>1, <4>4, <4>7, Constants
      <4> QED
        BY <4>3, <4>6, <4>7
    <3>3. Shrink(shared, row, kept, history, shared', row', kept', history')
      BY <3>1, <3>2 DEF Shrink
    <3>4. h \in Invocations
      BY <1>0 DEF Invocations
    <3>5. GoodWorker(h, shared, row, kept, history)
      BY <1>0, <1>7, <2>0 DEF PromoteSuccessor, IInv, GoodWorker, GoodJob, Control, Knows, InFamilies,
                        InHistory, Invocations, Steps, TERMINAL_STEP
    <3>6. GoodWorker(h, shared', row', kept', history')
      BY <3>3, <3>5, GoodStays
    <3>7. TypeOK'
      BY <1>0, <3>1, <3>2, <3>4 DEF TypeOK
    <3> QED
      BY <1>0, <3>1, <3>2, <3>3, <3>6, <3>7, StepIsSafe
  <2>2. CASE row[f][u].role = "NONE"
    BY <1>0, <1>7, <2>2, GotoIsSafe, NoShrink DEF PromoteSuccessor, TypeOK, InFamilies, InHistory
  <2> QED
    BY <2>1, <2>2
<1>8. ASSUME NEW w \in Workers, HandOver(w) PROVE IInv'
  <2>1. worker[w].at = "HANDOVER" /\ worker[w].family \in Families
        /\ worker[w].plan[worker[w].family].heir \in Members
    BY <1>0, <1>8 DEF HandOver, Invocations, Dispositions
  <2>2. UNCHANGED <<job, messages, row, shared, place, history, kept, counts>>
        /\ owner' \in [Families -> Members \cup {Gone}]
    BY <1>0, <1>8, <2>1 DEF HandOver, TypeOK
  <2>3. worker' \in [Workers -> Invocations] => TypeOK'
    BY <1>0, <2>2 DEF TypeOK
  <2>4. Goto(w, "REMOVE") \/ Goto(w, "FAILED")
    BY <1>8 DEF HandOver
  <2> QED
    BY <1>0, <2>1, <2>2, <2>3, <2>4, GotoIsSafe, NoShrink DEF InFamilies, InHistory
<1>9. ASSUME NEW w \in Workers, NEW f \in Families, RemoveMembership(w, f) PROVE IInv'
  <2> DEFINE next == IF worker[w].plan[f].action = "DISSOLVE" THEN "MEMBERS" ELSE "FAMILIES"
             h == [worker[w] EXCEPT !.left = worker[w].left \ {f}, !.family = f, !.at = next]
  <2>1. worker' = [worker EXCEPT ![w] = h] /\ row' = [row EXCEPT ![f] = [row[f] EXCEPT ![Subject] = NoRow]]
        /\ shared' = shared \ {f} /\ UNCHANGED <<job, messages, owner, place, history, kept, counts>>
    BY <1>0, <1>9, Constants DEF RemoveMembership, TypeOK
  <2>2. /\ h \in Invocations /\ h.at \in {"MEMBERS", "FAMILIES"} /\ h.left = worker[w].left \ {f}
        /\ h.step = worker[w].step /\ h.cursor = worker[w].cursor /\ h.plan = worker[w].plan
        /\ (h.planned => worker[w].planned)
    BY <1>0 DEF Invocations
  <2>3. worker[w].at \in InFamilies
    BY <1>9 DEF RemoveMembership, InFamilies
  <2>4. NoRow \in Rows /\ NoRow.role = "NONE" /\ NoRow.status = "LEFT"
    BY DEF NoRow, Rows, Roles
  <2>5. \A g \in Families, u \in Members :
           row'[g][u] = IF g = f /\ u = Subject THEN NoRow ELSE row[g][u]
    BY <1>0, <2>1, Constants DEF TypeOK
  <2>6. row' \in [Families -> [Members -> Rows]] /\ RowsMakeSense(row')
    BY <1>0, <2>1, <2>4, <2>5, Constants DEF TypeOK, RowsMakeSense
  <2>7. Shrink(shared, row, kept, history, shared', row', kept', history')
    BY <2>1, <2>4, <2>5, Constants DEF Shrink
  <2>8. GoodWorker(worker[w], shared', row', kept', history')
    BY <2>7, GoodStays DEF IInv
  <2>9. Control(h)
    BY <2>2, <2>3, <2>8 DEF GoodWorker, Control, InFamilies, InHistory
  <2>10. Knows(h, row')
    BY <2>2, <2>3, <2>4, <2>5, <2>8, Constants DEF GoodWorker, Knows
  <2>11. GoodWorker(h, shared', row', kept', history')
    BY <2>2, <2>8, <2>9, <2>10 DEF GoodWorker, GoodJob
  <2>12. TypeOK'
    BY <1>0, <2>1, <2>2, <2>6 DEF TypeOK
  <2> QED
    BY <2>1, <2>6, <2>7, <2>11, <2>12, StepIsSafe
<1>10. ASSUME NEW w \in Workers, DissolveMembers(w) PROVE IInv'
  <2> DEFINE f == worker[w].family
  <2>1. f \in Families /\ worker[w].at = "MEMBERS" /\ Goto(w, "PLACES")
        /\ row' = [row EXCEPT ![f] = [u \in Members |-> NoRow]]
        /\ UNCHANGED <<job, messages, owner, shared, place, history, kept, counts>>
    BY <1>0, <1>10 DEF DissolveMembers, Invocations
  <2>2. NoRow \in Rows /\ NoRow.role = "NONE" /\ NoRow.status = "LEFT"
    BY DEF NoRow, Rows, Roles
  <2>3. \A g \in Families, u \in Members : row'[g][u] = IF g = f THEN NoRow ELSE row[g][u]
    BY <1>0, <2>1 DEF TypeOK
  <2>4. row' \in [Families -> [Members -> Rows]] /\ RowsMakeSense(row')
    BY <1>0, <2>1, <2>2, <2>3 DEF TypeOK, RowsMakeSense
  <2>5. Shrink(shared, row, kept, history, shared', row', kept', history')
    BY <2>1, <2>2, <2>3, Constants DEF Shrink
  <2>6. worker' \in [Workers -> Invocations] => TypeOK'
    BY <1>0, <2>1, <2>4 DEF TypeOK
  <2> QED
    BY <2>1, <2>4, <2>5, <2>6, GotoIsSafe DEF InFamilies, InHistory
<1>11. ASSUME NEW w \in Workers, DissolvePlaces(w) PROVE IInv'
  <2>1. worker[w].at = "PLACES" /\ worker[w].family \in Families /\ Goto(w, "FAMILY")
        /\ UNCHANGED <<job, messages, row, owner, shared, history, kept, counts>>
        /\ place' = [place EXCEPT ![worker[w].family] = Gone]
    BY <1>0, <1>11 DEF DissolvePlaces, Invocations
  <2>2. worker' \in [Workers -> Invocations] => TypeOK'
    BY <1>0, <2>1 DEF TypeOK
  <2> QED
    BY <1>0, <2>1, <2>2, GotoIsSafe, NoShrink DEF InFamilies, InHistory
<1>12. ASSUME NEW w \in Workers, DissolveFamily(w) PROVE IInv'
  <2>1. worker[w].at = "FAMILY" /\ worker[w].family \in Families /\ Goto(w, "FAMILIES")
        /\ UNCHANGED <<job, messages, row, shared, place, history, kept, counts>>
        /\ owner' = [owner EXCEPT ![worker[w].family] = Gone]
    BY <1>0, <1>12 DEF DissolveFamily, Invocations
  <2>2. worker' \in [Workers -> Invocations] => TypeOK'
    BY <1>0, <2>1 DEF TypeOK
  <2> QED
    BY <1>0, <2>1, <2>2, GotoIsSafe, NoShrink DEF InFamilies, InHistory
<1>13. ASSUME NEW w \in Workers, FamiliesDone(w) PROVE IInv'
  <2>1. worker[w].at = "FAMILIES" /\ worker[w].left = {} /\ Complete(w)
        /\ UNCHANGED <<job, messages, world, counts>>
    BY <1>13 DEF FamiliesDone
  <2>2. worker[w].step = 2 /\ \A f \in Families : row[f][Subject].role = "NONE"
    BY <2>1 DEF IInv, GoodWorker, Control, Knows, InFamilies
  <2>3. worker' \in [Workers -> Invocations] => TypeOK'
    BY <1>0, <2>1 DEF TypeOK
  <2> QED
    BY <2>1, <2>2, <2>3, CompleteIsSafe, NoShrink
<1>14. ASSUME NEW w \in Workers, SliceHistory(w) PROVE IInv'
  <2> DEFINE h == [worker[w] EXCEPT !.at = "DAYS", !.until = SliceEnd(worker[w].cursor)]
  <2>1. worker' = [worker EXCEPT ![w] = h] /\ UNCHANGED <<job, messages, world, counts>>
    BY <1>0, <1>14 DEF SliceHistory, TypeOK
  <2>2. worker[w].step = 5
    BY <1>0, <1>14, StepNames
    DEF SliceHistory, On, IInv, GoodWorker, Control, Steps, TERMINAL_STEP
  <2>3. worker[w].cursor \in 0..Lookback
    BY <1>0 DEF Invocations
  <2>4. SliceEnd(worker[w].cursor) \in 0..Lookback /\ worker[w].cursor <= SliceEnd(worker[w].cursor)
    BY <2>3, Constants DEF SliceEnd
  <2>5. /\ h \in Invocations /\ h.at = "DAYS" /\ h.until = SliceEnd(worker[w].cursor)
        /\ h.step = worker[w].step /\ h.cursor = worker[w].cursor
        /\ h.plan = worker[w].plan /\ (h.planned => worker[w].planned)
    BY <1>0, <2>4 DEF Invocations
  <2>6. GoodWorker(h, shared, row, kept, history)
    BY <2>2, <2>4, <2>5
    DEF IInv, GoodWorker, GoodJob, Control, Knows, InFamilies, InHistory, Steps, TERMINAL_STEP
  <2>7. TypeOK'
    BY <1>0, <2>1, <2>5 DEF TypeOK
  <2> QED
    BY <1>0, <2>1, <2>6, <2>7, StepIsSafe, NoShrink
<1>15. ASSUME NEW w \in Workers, DeleteHistoryDay(w) PROVE IInv'
  <2> DEFINE day == worker[w].cursor + 1
             h == [worker[w] EXCEPT !.cursor = day, !.at = "CURSOR"]
  <2>1. /\ worker' = [worker EXCEPT ![w] = h] /\ history' = history \ {day}
        /\ worker[w].at = "DAYS" /\ worker[w].cursor < worker[w].until
        /\ UNCHANGED <<job, messages, row, owner, shared, place, kept, counts>>
    BY <1>0, <1>15 DEF DeleteHistoryDay, TypeOK
  <2>2. worker[w].cursor \in 0..Lookback /\ worker[w].until \in 0..Lookback
    BY <1>0 DEF Invocations
  <2>3. day \in 0..Lookback /\ day <= worker[w].until
    BY <2>1, <2>2, Constants
  <2>4. /\ h \in Invocations /\ h.at = "CURSOR" /\ h.cursor = day /\ h.until = worker[w].until
        /\ h.step = worker[w].step /\ h.plan = worker[w].plan /\ (h.planned => worker[w].planned)
    BY <1>0, <2>3 DEF Invocations
  <2>5. Shrink(shared, row, kept, history, shared', row', kept', history')
    BY <2>1 DEF Shrink
  <2>6. GoodWorker(worker[w], shared', row', kept', history')
    BY <2>5, GoodStays DEF IInv
  <2>7. \A d \in history' : d > h.cursor
    <3>1. \A d \in history' : d \in Int /\ d > worker[w].cursor /\ d # day
      BY <1>0, <2>1, <2>6 DEF GoodWorker, GoodJob, TypeOK
    <3> QED
      BY <2>2, <2>4, <3>1
  <2>8. Control(h) /\ Knows(h, row')
    BY <2>1, <2>3, <2>4, <2>6 DEF GoodWorker, Control, Knows, InFamilies, InHistory
  <2>9. GoodWorker(h, shared', row', kept', history')
    BY <2>4, <2>6, <2>7, <2>8 DEF GoodWorker, GoodJob
  <2>10. TypeOK'
    BY <1>0, <2>1, <2>4 DEF TypeOK
  <2> QED
    BY <1>0, <2>1, <2>5, <2>9, <2>10, StepIsSafe
<1>16. ASSUME NEW w \in Workers, SaveCursor(w) PROVE IInv'
  <2>1. worker[w].at = "CURSOR" /\ Goto(w, "DAYS") /\ job' = Saved(worker[w])
        /\ UNCHANGED <<messages, world, counts>>
    BY <1>16 DEF SaveCursor
  <2>2. job' \in Jobs /\ GoodJob(job', shared, row, kept, history)
    BY <1>0, <2>1 DEF Saved, Jobs, Invocations, IInv, GoodWorker, GoodJob
  <2>3. worker' \in [Workers -> Invocations] => TypeOK'
    BY <1>0, <2>1, <2>2 DEF TypeOK
  <2> QED
    BY <1>0, <2>1, <2>2, <2>3, GotoIsSafe, NoShrink DEF InFamilies, InHistory
<1>17. ASSUME NEW w \in Workers, SliceDone(w) PROVE IInv'
  <2>1. /\ worker[w].at = "DAYS" /\ worker[w].cursor = worker[w].until
        /\ UNCHANGED <<job, world, counts>> /\ messages' \in Nat
    BY <1>0, <1>17 DEF SliceDone, Rescheduled, TypeOK
  <2>2. worker' \in [Workers -> Invocations] => TypeOK'
    BY <1>0, <2>1 DEF TypeOK
  <2>3. CASE worker[w].until = Lookback /\ Complete(w)
    <3>1. worker[w].step = 5
      BY <2>1 DEF IInv, GoodWorker, Control, InHistory
    <3>2. history = {}
      <4>1. \A day \in history : day > Lookback /\ day \in 1..Lookback
        BY <1>0, <2>1, <2>3 DEF IInv, GoodWorker, GoodJob, TypeOK
      <4> QED
        BY <4>1, Constants
    <3> QED
      BY <2>1, <2>2, <2>3, <3>1, <3>2, CompleteIsSafe, NoShrink
  <2>4. CASE Finish(w)
    BY <2>1, <2>2, <2>4, FinishIsSafe
  <2> QED
    BY <1>17, <2>3, <2>4 DEF SliceDone
<1>18. ASSUME NEW w \in Workers, PurgeSavedPlaces(w) PROVE IInv'
  <2> DEFINE plan == DispositionsFor(worker[w])
             c == CompleteStep(worker[w])
             h == [c EXCEPT !.planned = FALSE, !.plan = NoPlan]
  <2>1. /\ worker' = [worker EXCEPT ![w] = h]
        /\ UNCHANGED <<job, messages, row, owner, shared, history, kept, counts>>
    BY <1>0, <1>18 DEF PurgeSavedPlaces, TypeOK
  <2>2. worker[w].step = 6
    BY <1>0, <1>18, StepNames
    DEF PurgeSavedPlaces, On, IInv, GoodWorker, Control, Steps, TERMINAL_STEP
  <2>3. /\ plan \in [Families -> Dispositions]
        /\ \A f \in Families : plan[f].action = "NONE" => row[f][Subject].role = "NONE"
    BY PlanIsRight
  <2>4. place' \in [Families -> Members \cup {Gone}]
    <3> DEFINE Purged(f) == CASE place[f] # Subject -> place[f]
                              [] plan[f].action = "DISSOLVE" -> Gone
                              [] plan[f].action = "TRANSFER_OWNERSHIP" -> plan[f].heir
                              [] OTHER -> place[f]
    <3>1. place' = [f \in Families |-> Purged(f)]
      BY <1>18 DEF PurgeSavedPlaces
    <3>2. ASSUME NEW f \in Families PROVE Purged(f) \in Members \cup {Gone}
      <4>1. place[f] \in Members \cup {Gone} /\ plan[f].heir \in Members
        BY <1>0, <2>3 DEF TypeOK, Dispositions
      <4>2. Purged(f) \in {place[f], Gone, plan[f].heir}
        OBVIOUS
      <4> QED
        BY <4>1, <4>2
    <3> QED
      BY <3>1, <3>2
  <2>5. c \in Invocations /\ GoodWorker(c, shared, row, kept, history) /\ c.at = "SAVE"
    <3>1. history \subseteq 1..Lookback /\ GoodWorker(worker[w], shared, row, kept, history)
      BY <1>0 DEF TypeOK, IInv
    <3>2. c.at = "SAVE"
      BY <1>0 DEF CompleteStep, Invocations
    <3>3. /\ worker[w] \in Invocations /\ worker[w].step \in 1..12
          /\ worker[w].step \notin {1, 2, 5} /\ worker[w].step \in {1, 2, 5, 6, 12}
      BY <1>0, <2>2
    <3> QED
      BY <3>1, <3>2, <3>3, CompleteIsGood
  <2>6. /\ h \in Invocations /\ h.at = c.at /\ ~h.planned
        /\ h.step = c.step /\ h.cursor = c.cursor
    <3>1. NoPlan \in [Families -> Dispositions]
      BY Constants DEF NoPlan, Dispositions
    <3> QED
      BY <2>5, <3>1 DEF Invocations
  <2>7. GoodWorker(h, shared, row, kept, history)
    BY <2>5, <2>6 DEF GoodWorker, GoodJob, Control, Knows, InFamilies, InHistory
  <2>8. TypeOK'
    BY <1>0, <2>1, <2>4, <2>6 DEF TypeOK
  <2> QED
    BY <1>0, <2>1, <2>7, <2>8, StepIsSafe, NoShrink
<1>19. ASSUME NEW w \in Workers, Sweep(w) PROVE IInv'
  <2>1. /\ worker[w].at = "STEP" /\ DELETION_STEPS[worker[w].step] \in SweepSteps
        /\ kept' = kept \ {DELETION_STEPS[worker[w].step]} /\ Complete(w)
        /\ UNCHANGED <<job, messages, row, owner, shared, place, history, counts>>
    BY <1>19 DEF Sweep
  <2>2. worker[w].step \in 1..12
    BY <1>0, <2>1 DEF IInv, GoodWorker, Control, Steps, TERMINAL_STEP
  <2>3. worker[w].step \notin {1, 2, 5, 6, 12}
    BY <2>1, <2>2, StepNames
  <2>4. Shrink(shared, row, kept, history, shared', row', kept', history')
    BY <2>1 DEF Shrink
  <2>5. DELETION_STEPS[worker[w].step] \notin kept'
    BY <2>1
  <2>6. (worker' \in [Workers -> Invocations] => TypeOK') /\ UNCHANGED row /\ job' = job
    BY <1>0, <2>1 DEF TypeOK
  <2> QED
    BY <2>1, <2>2, <2>3, <2>4, <2>5, <2>6, CompleteIsSafe
<1>20. ASSUME NEW w \in Workers, Confirm(w) PROVE IInv'
  <2>1. Complete(w) /\ UNCHANGED <<job, messages, world, counts>>
    BY <1>20 DEF Confirm
  <2>2. worker[w].step = 12
    BY <1>0, <1>20, StepNames DEF Confirm, On, IInv, GoodWorker, Control, Steps, TERMINAL_STEP
  <2>3. (worker' \in [Workers -> Invocations] => TypeOK') /\ UNCHANGED row /\ job' = job
    BY <1>0, <2>1 DEF TypeOK
  <2>4. /\ worker[w].step \in 1..12
        /\ worker[w].step \notin {1, 2, 5} /\ worker[w].step \in {1, 2, 5, 6, 12}
    BY <2>2
  <2>5. Shrink(shared, row, kept, history, shared', row', kept', history')
    BY <2>1, NoShrink
  <2> QED
    BY <2>1, <2>3, <2>4, <2>5, CompleteIsSafe
<1>21. ASSUME NEW w \in Workers, SaveFailed(w) PROVE IInv'
  <2>1. /\ worker[w].at = "FAILED" /\ Finish(w) /\ job' = MarkFailed(worker[w])
        /\ messages' = Rescheduled(messages) /\ UNCHANGED <<world, counts>>
    BY <1>21 DEF SaveFailed
  <2>2. job' \in Jobs /\ GoodJob(job', shared, row, kept, history)
    BY <1>0, <2>1 DEF MarkFailed, Jobs, Invocations, IInv, GoodWorker, GoodJob
  <2>3. worker' \in [Workers -> Invocations] => TypeOK'
    BY <1>0, <2>1, <2>2 DEF TypeOK, Rescheduled
  <2> QED
    BY <2>1, <2>2, <2>3, FinishIsSafe
<1>22. ASSUME NEW w \in Workers, Throws(w) PROVE IInv'
  <2>1. Goto(w, "FAILED") /\ UNCHANGED <<job, messages, world>>
        /\ counts' = [counts EXCEPT !.failures = counts.failures + 1]
    BY <1>22 DEF Throws
  <2>2. worker[w].at # "IDLE"
    BY <1>22 DEF Throws, CallsStorage
  <2>3. worker' \in [Workers -> Invocations] => TypeOK'
    BY <1>0, <2>1 DEF TypeOK
  <2> QED
    BY <1>0, <2>1, <2>2, <2>3, GotoIsSafe, NoShrink DEF InFamilies, InHistory
<1>23. ASSUME NEW w \in Workers, Crash(w) PROVE IInv'
  <2>1. Finish(w) /\ UNCHANGED <<job, world>> /\ messages' = messages + 1
        /\ counts' = [counts EXCEPT !.crashes = counts.crashes + 1]
    BY <1>23 DEF Crash
  <2>2. worker' \in [Workers -> Invocations] => TypeOK'
    BY <1>0, <2>1 DEF TypeOK
  <2> QED
    BY <2>1, <2>2, FinishIsSafe
<1>24. ASSUME NEW f \in Families, NEW u \in Others, OtherLeaves(f, u) PROVE IInv'
  <2>1. /\ row' = [row EXCEPT ![f] = [row[f] EXCEPT ![u] = [row[f][u] EXCEPT !.status = "LEFT"]]]
        /\ counts' = [counts EXCEPT !.moves = counts.moves + 1] /\ u \in Members
        /\ UNCHANGED <<job, messages, worker, owner, shared, place, history, kept>>
    BY <1>0, <1>24 DEF OtherLeaves, TypeOK, Members
  <2>2. \A g \in Families, v \in Members :
           /\ row'[g][v] \in Rows
           /\ row'[g][v].role = row[g][v].role
           /\ row'[g][v].status \in {row[g][v].status, "LEFT"}
    <3>0. row[f][u] \in Rows
      BY <1>0, <2>1 DEF TypeOK
    <3>1. [row[f][u] EXCEPT !.status = "LEFT"] \in Rows
      BY <3>0 DEF Rows
    <3>2. /\ [row[f][u] EXCEPT !.status = "LEFT"].role = row[f][u].role
          /\ [row[f][u] EXCEPT !.status = "LEFT"].status = "LEFT"
      BY <1>0, <2>1 DEF TypeOK, Rows
    <3>3. \A g \in Families, v \in Members : row'[g][v] =
             IF g = f /\ v = u THEN [row[f][u] EXCEPT !.status = "LEFT"] ELSE row[g][v]
      BY <1>0, <2>1 DEF TypeOK
    <3>4. \A g \in Families, v \in Members : row[g][v] \in Rows
      BY <1>0 DEF TypeOK
    <3> QED
      BY <3>1, <3>2, <3>3, <3>4, Zenon
  <2>3. TypeOK'
    <3>1. row' \in [Families -> [Members -> Rows]]
      BY <1>0, <2>1, <2>2 DEF TypeOK
    <3> QED
      BY <1>0, <2>1, <3>1 DEF TypeOK
  <2>4. RowsMakeSense(row')
    BY <1>0, <2>2 DEF RowsMakeSense
  <2>5. Shrink(shared, row, kept, history, shared', row', kept', history')
    BY <2>1, <2>2, Constants DEF Shrink
  <2> QED
    BY <2>1, <2>3, <2>4, <2>5, MoveIsSafe
<1>25. ASSUME NEW f \in Families, NEW u \in Others, NEW v \in Members, OtherTransfers(f, u, v)
       PROVE  IInv'
  <2> DEFINE was == [row[f][u] EXCEPT !.role = "ADMIN"]
             is == [row[f][v] EXCEPT !.role = "OWNER"]
  <2>1. /\ row' = [row EXCEPT ![f] = [row[f] EXCEPT ![u] = was, ![v] = is]]
        /\ owner' = [owner EXCEPT ![f] = v] /\ u \in Members /\ v # u
        /\ row[f][u].role = "OWNER" /\ row[f][v].status = "ACTIVE"
        /\ counts' = [counts EXCEPT !.moves = counts.moves + 1]
        /\ UNCHANGED <<job, messages, worker, shared, place, history, kept>>
    <3>1. row \in [Families -> [Members -> Rows]] /\ u \in Members
      BY <1>0 DEF TypeOK, Members
    <3>2. row' = [row EXCEPT ![f] = [row[f] EXCEPT ![u] = was, ![v] = is]]
      BY <1>25, <3>1 DEF OtherTransfers
    <3>3. row[f][u].role = "OWNER" /\ row[f][v].status = "ACTIVE" /\ v # u
      BY <1>25 DEF OtherTransfers
    <3>4. /\ owner' = [owner EXCEPT ![f] = v]
          /\ counts' = [counts EXCEPT !.moves = counts.moves + 1]
          /\ UNCHANGED <<job, messages, worker, shared, place, history, kept>>
      BY <1>25 DEF OtherTransfers
    <3> QED
      BY <3>1, <3>2, <3>3, <3>4
  <2>2. was \in Rows /\ was.role = "ADMIN" /\ is \in Rows /\ is.role = "OWNER"
    BY <1>0, <2>1 DEF TypeOK, Rows, Roles
  <2>3. row[f][v].role # "NONE"
    BY <1>0, <2>1 DEF RowsMakeSense
  <2>4. \A g \in Families, x \in Members : row'[g][x] =
           IF g = f /\ x = v THEN is ELSE IF g = f /\ x = u THEN was ELSE row[g][x]
    BY <1>0, <2>1 DEF TypeOK
  <2>5. RowsMakeSense(row') /\ row' \in [Families -> [Members -> Rows]]
    <3>1. ASSUME NEW g \in Families, NEW x \in Members
          PROVE  row'[g][x] \in Rows /\ (row'[g][x].role = "NONE" => row'[g][x] = row[g][x])
      <4>1. row[g][x] \in Rows
        BY <1>0 DEF TypeOK
      <4> QED
        BY <2>2, <2>4, <4>1
    <3>2. row' \in [Families -> [Members -> Rows]]
      BY <1>0, <2>1, <3>1 DEF TypeOK
    <3> QED
      BY <1>0, <3>1, <3>2 DEF RowsMakeSense
  <2>6. Shrink(shared, row, kept, history, shared', row', kept', history')
    <3>1. ASSUME NEW g \in Families, row[g][Subject].role = "NONE"
          PROVE  row'[g][Subject].role = "NONE"
      <4>1. ~(g = f /\ Subject = v) /\ ~(g = f /\ Subject = u)
        BY <2>1, <2>3, <3>1
      <4> QED
        BY <2>4, <3>1, <4>1, Constants
    <3> QED
      BY <2>1, <3>1 DEF Shrink
  <2>7. TypeOK'
    <3>1. owner' \in [Families -> Members \cup {Gone}]
      BY <1>0, <2>1 DEF TypeOK
    <3>2. counts' \in [dispatches : Nat, crashes : Nat, failures : Nat, moves : Nat]
      BY <1>0, <2>1 DEF TypeOK
    <3> QED
      BY <1>0, <2>1, <2>5, <3>1, <3>2 DEF TypeOK
  <2> QED
    BY <2>1, <2>5, <2>6, <2>7, MoveIsSafe
<1>26. CASE UNCHANGED vars
  BY <1>26, <1>0 DEF vars, IInv, TypeOK
<1> QED
  BY <1>1, <1>2, <1>3, <1>4, <1>5, <1>6, <1>7, <1>8, <1>9, <1>10, <1>11, <1>12, <1>13, <1>14,
     <1>15, <1>16, <1>17, <1>18, <1>19, <1>20, <1>21, <1>22, <1>23, <1>24, <1>25, <1>26
  DEF Next, Work

-----------------------------------------------------------------------------
\* The invariant holds in every reachable state.
THEOREM Invariance == Spec => []IInv
<1> QED
  BY Initially, Inductive, PTL DEF Spec

\* The job row, every invocation and the tables keep their types, however many
\* runs of services/deletion-worker overlap.
THEOREM TypeCorrect == Spec => []TypeOK
<1>1. IInv => TypeOK
  BY DEF IInv
<1> QED
  BY <1>1, Invariance, PTL

\* What is behind the stored step is erased.
LEMMA BehindIsDone == IInv => NeverSkips
<1> SUFFICES ASSUME IInv, NEW i \in Steps, i < job.step PROVE Done(DELETION_STEPS[i])
  BY DEF NeverSkips
<1>1. job.step \in 1..13 /\ i \in {1,2,3,4,5,6,7,8,9,10,11,12}
  BY DEF IInv, TypeOK, Jobs, Steps, TERMINAL_STEP, Absent
<1>2. Erased(job.step, shared, row, kept, history)
  BY DEF IInv, GoodJob
<1>3. CASE i = 1
  <2>1. DELETION_STEPS[i] = "REVOKE_SHARING" /\ shared = {}
    BY <1>1, <1>2, <1>3 DEF DELETION_STEPS, Erased
  <2> QED
    BY <2>1 DEF Done, SweepSteps
<1>4. CASE i = 2
  <2>1. /\ DELETION_STEPS[i] = "REMOVE_MEMBERSHIPS"
        /\ \A f \in Families : row[f][Subject].role = "NONE"
    BY <1>1, <1>2, <1>4 DEF DELETION_STEPS, Erased
  <2> QED
    BY <2>1 DEF Done, SweepSteps
<1>5. CASE i = 5
  <2>1. DELETION_STEPS[i] = "DELETE_LOCATION_HISTORY" /\ history = {}
    BY <1>1, <1>2, <1>5 DEF DELETION_STEPS, Erased
  <2> QED
    BY <2>1 DEF Done, SweepSteps
<1>6. CASE i \in {6, 12}
  BY <1>6 DEF Done, DELETION_STEPS, SweepSteps
<1>7. CASE i \in {3, 4, 7, 8, 9, 10, 11}
  <2>1. DELETION_STEPS[i] \notin kept
    BY <1>1, <1>2, <1>7 DEF DELETION_STEPS, Erased
  <2>2. DELETION_STEPS[i] \in SweepSteps
    BY <1>7 DEF DELETION_STEPS, SweepSteps
  <2>3. DELETION_STEPS[i] \notin {"REVOKE_SHARING", "REMOVE_MEMBERSHIPS", "DELETE_LOCATION_HISTORY"}
    BY <2>2 DEF SweepSteps
  <2> QED
    BY <2>1, <2>2, <2>3 DEF Done
<1> QED
  BY <1>1, <1>3, <1>4, <1>5, <1>6, <1>7

\* A resumed erasure never skips a step: whatever order crashes, redeliveries,
\* failed calls, other people's changes and overlapping runs come in, all that is
\* behind the step the job row stores (processJob, completeStep, save) is erased.
THEOREM ErasureNeverSkips == Spec => []NeverSkips
<1> QED
  BY Invariance, BehindIsDone, PTL

-----------------------------------------------------------------------------
(* DeletionJob implements Erasure.                                          *)

NoMemberships == \A f \in Families : row[f][Subject].role = "NONE"

\* What Done says of the memberships, in this state and the next.
LEMMA MembershipsDone ==
    /\ Done("REMOVE_MEMBERSHIPS") <=> NoMemberships
    /\ Done("REMOVE_MEMBERSHIPS")' <=> NoMemberships'
BY DEF Done, NoMemberships, SweepSteps

\* A step that changes nothing the abstract erasure sees is a stutter.
LEMMA Stutters ==
    ASSUME UNCHANGED <<kept, history>>, shared' = {} <=> shared = {},
           NoMemberships' <=> NoMemberships
    PROVE  UNCHANGED Promise!vars
BY MembershipsDone DEF Promise!vars

\* The kinds of data that are still stored, as the refinement maps them.
Data == (kept \ {"DELETE_IDENTITY", "WRITE_TOMBSTONE"})
           \cup (IF history = {} THEN {} ELSE {"HISTORY"})
           \cup (IF Done("REMOVE_MEMBERSHIPS") THEN {} ELSE {"MEMBERSHIPS"})

\* One kind of data goes while the person is invisible.
LEMMA Erases ==
    ASSUME shared = {}, shared' = {}, NEW kind \in Data, Data' = Data \ {kind},
           "DELETE_IDENTITY" \in kept' <=> "DELETE_IDENTITY" \in kept,
           "WRITE_TOMBSTONE" \in kept' <=> "WRITE_TOMBSTONE" \in kept
    PROVE  Promise!Next
<1>1. Promise!Erase
  BY DEF Promise!Erase, Data
<1> QED
  BY <1>1 DEF Promise!Next

\* The subject's rows can only go, once nobody can see them.
LEMMA RowsGo ==
    ASSUME shared = {}, shared' = {}, UNCHANGED <<kept, history>>, kept \subseteq SweepSteps,
           NoMemberships => NoMemberships'
    PROVE  Promise!Next \/ UNCHANGED Promise!vars
<1>1. CASE NoMemberships' <=> NoMemberships
  BY <1>1, Stutters
<1>2. CASE NoMemberships' /\ ~NoMemberships
  <2>1. Done("REMOVE_MEMBERSHIPS")' /\ ~Done("REMOVE_MEMBERSHIPS")
    BY <1>2, MembershipsDone
  <2>2. "MEMBERSHIPS" \notin kept
    BY DEF SweepSteps
  <2>3. "MEMBERSHIPS" \in Data /\ Data' = Data \ {"MEMBERSHIPS"}
    BY <2>1, <2>2 DEF Data
  <2> QED
    BY <2>3, Erases
<1> QED
  BY <1>1, <1>2

\* The last day of the history goes, or another one.
LEMMA HistoryGoes ==
    ASSUME shared = {}, UNCHANGED <<shared, kept, row>>, history' \subseteq history,
           kept \subseteq SweepSteps
    PROVE  Promise!Next \/ UNCHANGED Promise!vars
<1>0. NoMemberships' <=> NoMemberships
  BY DEF NoMemberships
<1>1. Done("REMOVE_MEMBERSHIPS")' <=> Done("REMOVE_MEMBERSHIPS")
  BY <1>0, MembershipsDone
<1>2. CASE history' = {} <=> history = {}
  BY <1>1, <1>2 DEF Promise!vars
<1>3. CASE history' = {} /\ history # {}
  <2>1. "HISTORY" \notin kept
    BY DEF SweepSteps
  <2>2. "HISTORY" \in Data /\ Data' = Data \ {"HISTORY"}
    BY <1>1, <1>3, <2>1 DEF Data
  <2> QED
    BY <2>2, Erases
<1> QED
  BY <1>2, <1>3

\* A sweep that is due finds everything the promise asks for before it.
LEMMA SweepKeepsOrder ==
    ASSUME NEW n \in 1..12, DELETION_STEPS[n] \in SweepSteps,
           Erased(n, shared, row, kept, history), kept \subseteq SweepSteps,
           kept' = kept \ {DELETION_STEPS[n]}, UNCHANGED <<shared, row, history>>
    PROVE  Promise!Next \/ UNCHANGED Promise!vars
<1> DEFINE k == DELETION_STEPS[n]
<1>1. n \in {3, 4, 7, 8, 9, 10, 11}
  <2>1. n \in {1,2,3,4,5,6,7,8,9,10,11,12} /\ n \notin {1, 2, 5, 6, 12}
    BY StepNames
  <2> QED
    BY <2>1
<1>2. shared = {} /\ shared' = {}
  BY <1>1 DEF Erased
<1>3. Done("REMOVE_MEMBERSHIPS") /\ Done("REMOVE_MEMBERSHIPS")'
  <2>1. NoMemberships /\ NoMemberships'
    BY <1>1 DEF Erased, NoMemberships
  <2> QED
    BY <2>1, MembershipsDone
<1>4. CASE k \notin kept
  BY <1>2, <1>3, <1>4 DEF Promise!vars
<1>5. CASE k \in kept /\ n \in {3, 4, 7, 8, 9}
  <2>1. k \notin {"DELETE_IDENTITY", "WRITE_TOMBSTONE", "HISTORY", "MEMBERSHIPS"}
    BY <1>5 DEF DELETION_STEPS
  <2>2. k \in Data /\ Data' = Data \ {k}
    BY <1>3, <1>5, <2>1 DEF Data
  <2> QED
    BY <1>2, <2>1, <2>2, Erases
<1>6. CASE k \in kept /\ n = 10
  <2>1. k = "DELETE_IDENTITY"
    BY <1>6 DEF DELETION_STEPS
  <2>2. /\ history = {} /\ kept \subseteq {"DELETE_IDENTITY", "WRITE_TOMBSTONE"}
    BY <1>6 DEF Erased, SweepSteps
  <2>3. Data = {} /\ Data' = {}
    BY <1>3, <2>2 DEF Data
  <2>4. Promise!CloseSignIn
    BY <1>2, <2>1, <2>3 DEF Promise!CloseSignIn, Data
  <2> QED
    BY <2>4 DEF Promise!Next
<1>7. CASE k \in kept /\ n = 11
  <2>1. k = "WRITE_TOMBSTONE" /\ "DELETE_IDENTITY" \notin kept
    BY <1>7 DEF DELETION_STEPS, Erased
  <2>2. Promise!Forget
    BY <1>2, <1>3, <2>1 DEF Promise!Forget
  <2> QED
    BY <2>2 DEF Promise!Next
<1> QED
  BY <1>1, <1>4, <1>5, <1>6, <1>7

\* Writing two members of one family changes those two rows and no other.
LEMMA TwoRows ==
    ASSUME NEW r \in [Families -> [Members -> Rows]], NEW f \in Families,
           NEW u \in Members, NEW v \in Members, u # v, NEW a, NEW b
    PROVE  \A g \in Families, x \in Members :
              [r EXCEPT ![f] = [r[f] EXCEPT ![u] = a, ![v] = b]][g][x] =
                 IF g = f /\ x = v THEN b ELSE IF g = f /\ x = u THEN a ELSE r[g][x]
OBVIOUS

\* Every step of the job is a step of the promise, or invisible to it.
LEMMA StepRefines == IInv /\ [Next]_vars => Promise!Next \/ UNCHANGED Promise!vars
<1> SUFFICES ASSUME IInv, [Next]_vars PROVE Promise!Next \/ UNCHANGED Promise!vars
  OBVIOUS
<1>0. /\ row \in [Families -> [Members -> Rows]] /\ kept \subseteq SweepSteps
      /\ RowsMakeSense(row) /\ \A w \in Workers : worker[w] \in Invocations
  BY DEF IInv, TypeOK
<1>1. ASSUME UNCHANGED <<shared, row, kept, history>>
      PROVE  Promise!Next \/ UNCHANGED Promise!vars
  <2>1. NoMemberships' <=> NoMemberships
    BY <1>1 DEF NoMemberships
  <2> QED
    BY <1>1, <2>1, Stutters
<1>2. \A w \in Workers : /\ Erased(worker[w].step, shared, row, kept, history)
                         /\ worker[w].at \in InFamilies => worker[w].step = 2
                         /\ worker[w].at \in InHistory => worker[w].step = 5
                         /\ worker[w].at = "STEP" => worker[w].step \in 1..12
  BY DEF IInv, GoodWorker, GoodJob, Control, Steps, TERMINAL_STEP
<1>3. \A w \in Workers : worker[w].at \in InFamilies \cup InHistory => shared = {}
  BY <1>2 DEF Erased
<1>4. ASSUME NEW w \in Workers, RevokeSharing(w)
      PROVE  Promise!Next \/ UNCHANGED Promise!vars
  <2>1. shared' = {} /\ UNCHANGED <<row, kept, history>>
    BY <1>4 DEF RevokeSharing
  <2>2. Done("REMOVE_MEMBERSHIPS")' <=> Done("REMOVE_MEMBERSHIPS")
    <3>1. NoMemberships' <=> NoMemberships
      BY <2>1 DEF NoMemberships
    <3> QED
      BY <3>1, MembershipsDone
  <2>3. CASE shared = {}
    BY <1>1, <2>1, <2>3
  <2>4. CASE shared # {}
    <3>1. Promise!Hide
      BY <2>1, <2>2, <2>4 DEF Promise!Hide
    <3> QED
      BY <3>1 DEF Promise!Next
  <2> QED
    BY <2>3, <2>4
<1>5. ASSUME NEW w \in Workers, NEW f \in Families, PromoteSuccessor(w, f)
      PROVE  Promise!Next \/ UNCHANGED Promise!vars
  <2> DEFINE u == worker[w].plan[f].heir
  <2>1. CASE UNCHANGED row
    BY <1>1, <1>5, <2>1 DEF PromoteSuccessor
  <2>2. CASE row[f][u].role # "NONE" /\ row' = [row EXCEPT ![f][u].role = "OWNER"]
    <3>1. u \in Members
      BY <1>0, <1>5 DEF Invocations, Dispositions, PromoteSuccessor
    <3>2. \A g \in Families, v \in Members : row'[g][v].role =
             IF g = f /\ v = u THEN "OWNER" ELSE row[g][v].role
      BY <1>0, <2>2, <3>1 DEF Rows
    <3>3. NoMemberships' <=> NoMemberships
      BY <2>2, <3>2, Constants DEF NoMemberships
    <3> QED
      BY <1>5, <3>3, Stutters DEF PromoteSuccessor
  <2> QED
    BY <1>5, <2>1, <2>2 DEF PromoteSuccessor
<1>6. ASSUME NEW w \in Workers, NEW f \in Families, RemoveMembership(w, f)
      PROVE  Promise!Next \/ UNCHANGED Promise!vars
  <2>1. shared = {} /\ shared' = {}
    BY <1>3, <1>6 DEF RemoveMembership, InFamilies
  <2>2. NoMemberships => NoMemberships'
    BY <1>0, <1>6, Constants DEF RemoveMembership, NoMemberships, NoRow
  <2> QED
    BY <1>0, <1>6, <2>1, <2>2, RowsGo DEF RemoveMembership
<1>7. ASSUME NEW w \in Workers, DissolveMembers(w)
      PROVE  Promise!Next \/ UNCHANGED Promise!vars
  <2>1. shared = {} /\ shared' = {}
    BY <1>3, <1>7 DEF DissolveMembers, InFamilies
  <2>2. NoMemberships => NoMemberships'
    BY <1>0, <1>7, Constants DEF DissolveMembers, NoMemberships, NoRow
  <2> QED
    BY <1>0, <1>7, <2>1, <2>2, RowsGo DEF DissolveMembers
<1>8. ASSUME NEW w \in Workers, DeleteHistoryDay(w)
      PROVE  Promise!Next \/ UNCHANGED Promise!vars
  BY <1>0, <1>3, <1>8, HistoryGoes DEF DeleteHistoryDay, InHistory
<1>9. ASSUME NEW w \in Workers, Sweep(w)
      PROVE  Promise!Next \/ UNCHANGED Promise!vars
  <2> DEFINE n == worker[w].step
  <2>1. n \in 1..12 /\ Erased(n, shared, row, kept, history) /\ DELETION_STEPS[n] \in SweepSteps
        /\ kept' = kept \ {DELETION_STEPS[n]} /\ UNCHANGED <<shared, row, history>>
    BY <1>2, <1>9 DEF Sweep
  <2> QED
    BY <1>0, <2>1, SweepKeepsOrder
<1>10. ASSUME NEW f \in Families, NEW u \in Others, OtherLeaves(f, u)
       PROVE  Promise!Next \/ UNCHANGED Promise!vars
  <2>1. NoMemberships' <=> NoMemberships
    <3>1. \A g \in Families : row'[g][Subject].role = row[g][Subject].role
      BY <1>0, <1>10, Constants DEF OtherLeaves, Members, Rows
    <3> QED
      BY <3>1 DEF NoMemberships
  <2> QED
    BY <1>10, <2>1, Stutters DEF OtherLeaves
<1>11. ASSUME NEW f \in Families, NEW u \in Others, NEW v \in Members, OtherTransfers(f, u, v)
       PROVE  Promise!Next \/ UNCHANGED Promise!vars
  <2>1. u \in Members /\ v # u /\ row[f][u].role = "OWNER" /\ row[f][v].role # "NONE"
        /\ row' = [row EXCEPT ![f][u].role = "ADMIN", ![f][v].role = "OWNER"]
    <3>1. row[f][u].role = "OWNER" /\ row[f][v].status = "ACTIVE" /\ v # u
      BY <1>11 DEF OtherTransfers
    <3>2. row[f][v].role # "NONE"
      BY <1>0, <3>1 DEF RowsMakeSense
    <3> QED
      BY <1>11, <3>1, <3>2 DEF OtherTransfers, Members
  <2>2. \E was, is : /\ was.role = "ADMIN" /\ is.role = "OWNER"
                    /\ row' = [row EXCEPT ![f] = [row[f] EXCEPT ![u] = was, ![v] = is]]
    <3> DEFINE was == [row[f][u] EXCEPT !.role = "ADMIN"]
               is  == [row[f][v] EXCEPT !.role = "OWNER"]
    <3>1. row' = [row EXCEPT ![f] = [row[f] EXCEPT ![u] = was, ![v] = is]]
      BY <1>0, <2>1
    <3>2. was.role = "ADMIN" /\ is.role = "OWNER"
      <4>1. row[f][u] \in Rows /\ row[f][v] \in Rows
        BY <1>0, <2>1
      <4> QED
        BY <4>1 DEF Rows
    <3> QED
      BY <3>1, <3>2
  <2>3. PICK was, is : /\ was.role = "ADMIN" /\ is.role = "OWNER"
                       /\ row' = [row EXCEPT ![f] = [row[f] EXCEPT ![u] = was, ![v] = is]]
    BY <2>2
  <2>4. \A g \in Families, x \in Members :
           row'[g][x] = IF g = f /\ x = v THEN is ELSE IF g = f /\ x = u THEN was ELSE row[g][x]
    <3>1. row \in [Families -> [Members -> Rows]] /\ u \in Members /\ u # v
      BY <1>0, <2>1
    <3>2. \A g \in Families, x \in Members :
             [row EXCEPT ![f] = [row[f] EXCEPT ![u] = was, ![v] = is]][g][x] =
                IF g = f /\ x = v THEN is ELSE IF g = f /\ x = u THEN was ELSE row[g][x]
      BY <3>1, TwoRows
    <3> QED
      BY <2>3, <3>2
  <2>5. NoMemberships' <=> NoMemberships
    BY <2>1, <2>3, <2>4, Constants DEF NoMemberships
  <2> QED
    BY <1>11, <2>5, Stutters DEF OtherTransfers
<1>12. ASSUME NEW w \in Workers, Work(w) PROVE Promise!Next \/ UNCHANGED Promise!vars
  BY <1>1, <1>4, <1>5, <1>6, <1>7, <1>8, <1>9, <1>12
  DEF Work, world, Deliver, Start, Save, PlanFamilies, HandOver, DissolvePlaces, DissolveFamily,
      FamiliesDone, SliceHistory, SaveCursor, SliceDone, PurgeSavedPlaces, Confirm, SaveFailed
<1> QED
  BY <1>1, <1>10, <1>11, <1>12 DEF Next, vars, world, Dispatch, Throws, Crash

\* The run of the deletion worker keeps the order job.ts promises: invisible
\* first, the identity after everything keyed by it, the tombstone last.
THEOREM ErasureIsOrdered == Spec => ErasureInOrder
<1>1. Init => Promise!Init
  <2> SUFFICES ASSUME Init PROVE Promise!Init
    OBVIOUS
  <2>1. kept = SweepSteps
    BY DEF Init
  <2> QED
    BY <2>1 DEF Promise!Init, SweepSteps
<1>2. IInv /\ [Next]_vars => [Promise!Next]_(Promise!vars)
  BY StepRefines
<1> QED
  BY <1>1, <1>2, Invariance, PTL DEF Spec, ErasureInOrder, Promise!Spec
=============================================================================
