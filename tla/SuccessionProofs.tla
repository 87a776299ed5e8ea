------------------------- MODULE SuccessionProofs -------------------------
(***************************************************************************)
(* What becomes of the families of an account that is erased, for any       *)
(* number of families, people, overlapping runs, crashes and failures,      *)
(* while other people change nothing: a family gets one heir, is never      *)
(* without an owner while somebody is in it, and, when no run was           *)
(* interrupted, is not left behind empty.                                   *)
(*                                                                          *)
(* A family is in one of three conditions: it has an owner who stays        *)
(* (Settled), it is to be handed to the one heir any run would choose       *)
(* (ToHandOver), or nobody else is in it (ToDissolve).  The only way out of *)
(* the second is into the first, and every plan a run holds fits the        *)
(* condition its family is in, however old the plan is.                     *)
(***************************************************************************)
EXTENDS DeletionJobProofs, FiniteSetTheorems

Dissolving == {"MEMBERS", "PLACES", "FAMILY"}

OwnerRow == [role |-> "OWNER", status |-> "ACTIVE"]

\* The run has lost neither an invocation nor a call.
Undisturbed == counts.crashes + counts.failures = 0

\* Whom chooseSuccessor chooses in family f.
IsSuccessor(f, s) ==
    /\ s \in ActiveOthers(f)
    /\ \A v \in ActiveOthers(f) :
        \/ Rank(row[f][s].role) > Rank(row[f][v].role)
        \/ Rank(row[f][s].role) = Rank(row[f][v].role) /\ s <= v

\* An invocation among the families acts on a plan it has made.
WorkerFits(h) ==
    /\ h.at \in InFamilies => h.planned /\ \A f \in h.left : h.plan[f].action # "NONE"
    /\ h.at \in {"HANDOVER", "REMOVE"} => h.plan[h.family].action = "TRANSFER_OWNERSHIP"
    /\ h.at \in Dissolving => h.plan[h.family].action = "DISSOLVE"

\* The dispositions of family f that fit each of its conditions.
PlanSettled(f, d) ==
    d.action # "DISSOLVE" /\ (d.action = "TRANSFER_OWNERSHIP" => d.heir = owner[f])
PlanToHandOver(f, d) == d.action = "TRANSFER_OWNERSHIP" /\ IsSuccessor(f, d.heir)
PlanToDissolve(f, d) == d.action \in {"NONE", "DISSOLVE"}

Settled(f) ==
    /\ owner[f] \in Others /\ row[f][owner[f]] = OwnerRow
    /\ \A u \in Others : row[f][u].role = "OWNER" => u = owner[f]

ToHandOver(f) ==
    /\ owner[f] = Subject /\ row[f][Subject] = OwnerRow /\ ActiveOthers(f) # {}
    /\ \A u \in Others : row[f][u].role = "OWNER" => IsSuccessor(f, u)
    /\ \A w \in Workers : worker[w].at \in {"HANDOVER", "REMOVE"} /\ worker[w].family = f =>
          worker[w].at = "HANDOVER" /\ row[f][worker[w].plan[f].heir].role = "OWNER"

ToDissolve(f) ==
    /\ owner[f] \in {Subject, Gone} /\ row[f][Subject] \in {OwnerRow, NoRow}
    /\ ActiveOthers(f) = {} /\ \A u \in Others : row[f][u].role # "OWNER"
    /\ Undisturbed =>
          \/ owner[f] = Gone \/ row[f][Subject] = OwnerRow
          \/ \E w \in Workers : worker[w].at \in Dissolving /\ worker[w].family = f

Succession(f) ==
    \/ /\ Settled(f)
       /\ \A w \in Workers : worker[w].planned => PlanSettled(f, worker[w].plan[f])
    \/ /\ ToHandOver(f)
       /\ \A w \in Workers : worker[w].planned => PlanToHandOver(f, worker[w].plan[f])
    \/ /\ ToDissolve(f)
       /\ \A w \in Workers : worker[w].planned => PlanToDissolve(f, worker[w].plan[f])

FamiliesInv ==
    /\ IInv
    /\ \A w \in Workers : WorkerFits(worker[w])
    /\ counts.moves = 0 => \A f \in Families : Succession(f)

-----------------------------------------------------------------------------
(* The heir                                                                 *)

\* The subject and the mark of a deleted family are nobody else.
LEMMA NobodyElse == Subject \notin Others /\ Gone \notin Others /\ Others \subseteq Nat /\ Subject # Gone
BY DeletionConstants DEF Subject, Gone

\* Ranks are numbers, and only an owner has the highest.
LEMMA RankMeans ==
    ASSUME TypeOK, NEW f \in Families, NEW u \in Members
    PROVE  /\ Rank(row[f][u].role) \in 0..3
           /\ Rank(row[f][u].role) = 3 <=> row[f][u].role = "OWNER"
BY DEF TypeOK, Rank, Rows, Roles

\* chooseSuccessor chooses a successor.
LEMMA Chosen ==
    ASSUME TypeOK, NEW f \in Families, ActiveOthers(f) # {}
    PROVE  IsSuccessor(f, ChooseSuccessor(f, ActiveOthers(f)))
<1>1. ActiveOthers(f) \in SUBSET Others
  BY DEF ActiveOthers
<1> QED
  BY <1>1, SuccessorIsChosen DEF IsSuccessor

\* There is one successor.
LEMMA OneSuccessor ==
    ASSUME TypeOK, NEW f \in Families, NEW s, NEW u, IsSuccessor(f, s), IsSuccessor(f, u)
    PROVE  s = u
<1>1. s \in Others /\ u \in Others /\ s \in Members /\ u \in Members /\ s \in Nat /\ u \in Nat
  BY NobodyElse DEF IsSuccessor, ActiveOthers, Members
<1>2. Rank(row[f][s].role) \in Nat /\ Rank(row[f][u].role) \in Nat
  BY <1>1, RankMeans
<1> QED
  BY <1>1, <1>2 DEF IsSuccessor

\* An ACTIVE owner among the others is the successor, if there is no other owner.
LEMMA OwnerSucceeds ==
    ASSUME TypeOK, NEW f \in Families, NEW o \in Others, row[f][o] = OwnerRow,
           \A u \in Others : row[f][u].role = "OWNER" => u = o
    PROVE  IsSuccessor(f, o)
<1>1. Others \subseteq Members
  BY DEF Members
<1>2. Rank(row[f][o].role) = 3 /\ o \in ActiveOthers(f)
  BY <1>1, RankMeans DEF OwnerRow, ActiveOthers
<1>3. ASSUME NEW v \in ActiveOthers(f), v # o PROVE Rank(row[f][v].role) < 3
  <2>1. v \in Others /\ v \in Members /\ row[f][v].role # "OWNER"
    BY <1>1, <1>3 DEF ActiveOthers
  <2> QED
    BY <2>1, RankMeans
<1> QED
  BY <1>2, <1>3, NobodyElse DEF IsSuccessor

\* planMembershipRemoval fits the condition the family is in.
LEMMA PlanSuits ==
    ASSUME TypeOK, NEW f \in Families
    PROVE  /\ Settled(f) => PlanSettled(f, PlanRemoval(f))
           /\ ToHandOver(f) => PlanToHandOver(f, PlanRemoval(f))
           /\ ToDissolve(f) => PlanToDissolve(f, PlanRemoval(f))
<1> DEFINE own == row[f][Subject]
           chosen == ChooseSuccessor(f, ActiveOthers(f))
<1>0. own \in Rows
  BY Constants DEF TypeOK
<1>1. ASSUME Settled(f) PROVE PlanSettled(f, PlanRemoval(f))
  <2>1. IsSuccessor(f, owner[f])
    BY <1>1, OwnerSucceeds DEF Settled
  <2>2. ActiveOthers(f) # {}
    BY <2>1 DEF IsSuccessor
  <2>3. chosen = owner[f]
    BY <2>1, <2>2, Chosen, OneSuccessor
  <2>4. PlanRemoval(f) \in {[action |-> "NONE", heir |-> Subject], [action |-> "LEAVE", heir |-> Subject],
                            [action |-> "TRANSFER_OWNERSHIP", heir |-> chosen]}
    BY <1>0, <2>2 DEF PlanRemoval, Rows, Roles
  <2> QED
    BY <2>3, <2>4 DEF PlanSettled
<1>2. ASSUME ToHandOver(f) PROVE PlanToHandOver(f, PlanRemoval(f))
  <2>1. ActiveOthers(f) # {} /\ own = OwnerRow
    BY <1>2 DEF ToHandOver
  <2>2. PlanRemoval(f) = [action |-> "TRANSFER_OWNERSHIP", heir |-> chosen]
    BY <2>1 DEF PlanRemoval, OwnerRow
  <2>3. IsSuccessor(f, chosen)
    BY <2>1, Chosen
  <2> QED
    BY <2>2, <2>3 DEF PlanToHandOver
<1>3. ASSUME ToDissolve(f) PROVE PlanToDissolve(f, PlanRemoval(f))
  BY <1>3 DEF ToDissolve, PlanRemoval, OwnerRow, NoRow, PlanToDissolve
<1> QED
  BY <1>1, <1>2, <1>3

-----------------------------------------------------------------------------
(* The steps                                                                *)

\* Whom chooseSuccessor chooses depends on the family's rows.
LEMMA SameRows ==
    ASSUME NEW f \in Families, row'[f] = row[f]
    PROVE  /\ ActiveOthers(f)' = ActiveOthers(f)
           /\ \A s : IsSuccessor(f, s)' <=> IsSuccessor(f, s)
<1>1. ActiveOthers(f)' = ActiveOthers(f)
  BY DEF ActiveOthers
<1> QED
  BY <1>1 DEF IsSuccessor

\* A family stays in its condition while its rows stay, the plan of the invocation
\* at work is the old one or a new one that fits, and the invocation does not
\* begin to hand the family over, nor leave it half dissolved.
LEMMA FamilyStays ==
    ASSUME TypeOK, NEW f \in Families, Succession(f), row'[f] = row[f], owner'[f] = owner[f],
           NEW w \in Workers, NEW h, h = worker[w], NEW k, worker' = [worker EXCEPT ![w] = k],
           k.planned => \/ h.planned /\ k.plan[f] = h.plan[f]
                        \/ /\ Settled(f) => PlanSettled(f, k.plan[f])
                           /\ ToHandOver(f) => PlanToHandOver(f, k.plan[f])
                           /\ ToDissolve(f) => PlanToDissolve(f, k.plan[f]),
           ~(k.at \in {"HANDOVER", "REMOVE"} /\ k.family = f),
           Undisturbed' => /\ Undisturbed
                           /\ h.at \in Dissolving /\ h.family = f => k.at \in Dissolving /\ k.family = f
    PROVE  Succession(f)'
<1>1. worker'[w] = k /\ \A v \in Workers \ {w} : worker'[v] = worker[v]
  BY DEF TypeOK
<1>2. \A u \in Others : row'[f][u] = row[f][u]
  OBVIOUS
<1>3. CASE Settled(f) /\ \A v \in Workers : worker[v].planned => PlanSettled(f, worker[v].plan[f])
  <2>1. Settled(f)'
    BY <1>3 DEF Settled, OwnerRow
  <2>2. \A v \in Workers : worker'[v].planned => PlanSettled(f, worker'[v].plan[f])
    BY <1>1, <1>3
  <2>3. \A v \in Workers : (worker[v].planned => PlanSettled(f, worker[v].plan[f]))'
    BY <2>2 DEF PlanSettled
  <2> QED
    BY <2>1, <2>3 DEF Succession
<1>4. CASE ToHandOver(f) /\ \A v \in Workers : worker[v].planned => PlanToHandOver(f, worker[v].plan[f])
  <2>1. \A v \in Workers : worker'[v].at \in {"HANDOVER", "REMOVE"} /\ worker'[v].family = f =>
            worker'[v].at = "HANDOVER" /\ row'[f][worker'[v].plan[f].heir].role = "OWNER"
    BY <1>1, <1>4 DEF ToHandOver
  <2>2. ToHandOver(f)'
    BY <1>4, <2>1, SameRows DEF ToHandOver, OwnerRow
  <2>3. \A v \in Workers : worker'[v].planned => PlanToHandOver(f, worker'[v].plan[f])
    BY <1>1, <1>4
  <2>4. \A v \in Workers : (worker[v].planned => PlanToHandOver(f, worker[v].plan[f]))'
    BY <2>3, SameRows DEF PlanToHandOver
  <2> QED
    BY <2>2, <2>4 DEF Succession
<1>5. CASE ToDissolve(f) /\ \A v \in Workers : worker[v].planned => PlanToDissolve(f, worker[v].plan[f])
  <2>1. Undisturbed' =>
          \/ owner'[f] = Gone \/ row'[f][Subject] = OwnerRow
          \/ \E v \in Workers : worker'[v].at \in Dissolving /\ worker'[v].family = f
    <3> SUFFICES ASSUME Undisturbed', owner[f] # Gone, row[f][Subject] # OwnerRow
                 PROVE  \E v \in Workers : worker'[v].at \in Dissolving /\ worker'[v].family = f
      OBVIOUS
    <3>1. PICK v \in Workers : worker[v].at \in Dissolving /\ worker[v].family = f
      BY <1>5 DEF ToDissolve
    <3>2. CASE v = w
      BY <1>1, <3>1, <3>2
    <3>3. CASE v # w
      BY <1>1, <3>1, <3>3
    <3> QED
      BY <3>2, <3>3
  <2>2. ToDissolve(f)'
    BY <1>5, <2>1, SameRows DEF ToDissolve, OwnerRow, NoRow, Undisturbed
  <2>3. \A v \in Workers : worker'[v].planned => PlanToDissolve(f, worker'[v].plan[f])
    BY <1>1, <1>5
  <2> QED
    BY <2>2, <2>3 DEF Succession, PlanToDissolve
<1> QED
  BY <1>3, <1>4, <1>5 DEF Succession

\* A step that is over with the families, or has not come to them.
LEMMA CalmStep ==
    ASSUME FamiliesInv, IInv', UNCHANGED <<row, owner>>, counts'.moves = counts.moves,
           NEW w \in Workers, NEW h, h = worker[w], NEW k, worker' = [worker EXCEPT ![w] = k],
           k.at \notin InFamilies, k.planned => h.planned /\ k.plan = h.plan,
           Undisturbed' => Undisturbed /\ h.at \notin Dissolving
    PROVE  FamiliesInv'
<1>0. TypeOK
  BY DEF FamiliesInv, IInv
<1>1. \A v \in Workers : WorkerFits(worker'[v])
  <2>1. worker'[w] = k /\ \A v \in Workers \ {w} : worker'[v] = worker[v]
    BY <1>0 DEF TypeOK
  <2>2. WorkerFits(k)
    BY DEF WorkerFits, InFamilies, Dissolving
  <2> QED
    BY <2>1, <2>2 DEF FamiliesInv
<1>2. ASSUME counts'.moves = 0, NEW f \in Families PROVE Succession(f)'
  <2>1. Succession(f)
    BY <1>2 DEF FamiliesInv
  <2>2. k.at \notin {"HANDOVER", "REMOVE"}
    BY DEF InFamilies
  <2> QED
    BY <1>0, <2>1, <2>2, FamilyStays
<1> QED
  BY <1>1, <1>2 DEF FamiliesInv, WorkerFits

\* What every step needs to know first.
LEMMA Basics ==
    ASSUME FamiliesInv, NEW w \in Workers
    PROVE  /\ TypeOK /\ worker \in [Workers -> Invocations] /\ worker[w] \in Invocations
           /\ WorkerFits(worker[w])
           /\ row \in [Families -> [Members -> Rows]] /\ owner \in [Families -> Members \cup {Gone}]
           /\ worker[w].family \in Families
BY DEF FamiliesInv, IInv, TypeOK, Invocations

\* An invocation that moves among the families and keeps its plan.
LEMMA FamiliesStep ==
    ASSUME FamiliesInv, IInv', UNCHANGED counts,
           NEW w \in Workers, NEW h, h = worker[w], NEW k, worker' = [worker EXCEPT ![w] = k],
           WorkerFits(k), k.planned => h.planned /\ k.plan = h.plan,
           NEW f \in Families,
           \A g \in Families \ {f} : row'[g] = row[g] /\ owner'[g] = owner[g],
           k.at \in {"HANDOVER", "REMOVE"} => k.family = f,
           h.at \in Dissolving => h.family = f,
           counts.moves = 0 => Succession(f)'
    PROVE  FamiliesInv'
<1>0. TypeOK
  BY DEF FamiliesInv, IInv
<1>1. \A v \in Workers : WorkerFits(worker'[v])
  <2>1. worker'[w] = k /\ \A v \in Workers \ {w} : worker'[v] = worker[v]
    BY <1>0 DEF TypeOK
  <2> QED
    BY <2>1 DEF FamiliesInv
<1>2. ASSUME counts'.moves = 0, NEW g \in Families, g # f PROVE Succession(g)'
  <2>1. Succession(g)
    BY <1>2 DEF FamiliesInv
  <2>2. row'[g] = row[g] /\ owner'[g] = owner[g]
    BY <1>2
  <2>3. ~(k.at \in {"HANDOVER", "REMOVE"} /\ k.family = g) /\ ~(h.at \in Dissolving /\ h.family = g)
    BY <1>2
  <2> QED
    BY <1>0, <2>1, <2>2, <2>3, FamilyStays DEF Undisturbed
<1> QED
  BY <1>1, <1>2 DEF FamiliesInv, WorkerFits

\* computeDispositions: the plan an invocation makes fits every family.
LEMMA PlanStep ==
    ASSUME FamiliesInv, IInv', NEW w \in Workers, PlanFamilies(w)
    PROVE  FamiliesInv'
<1>0. TypeOK /\ worker \in [Workers -> Invocations] /\ worker[w] \in Invocations
  BY Basics
<1>1. PICK h : h = worker[w]
  OBVIOUS
<1>2. PICK plan : plan = DispositionsFor(h)
  OBVIOUS
<1>3. PICK k : k = [h EXCEPT !.at = "FAMILIES", !.planned = TRUE, !.plan = plan,
                             !.left = {f \in Families : plan[f].action # "NONE"}]
  OBVIOUS
<1>4. /\ worker' = [worker EXCEPT ![w] = k] /\ UNCHANGED <<row, owner, counts>>
      /\ h.at = "STEP"
  BY <1>0, <1>1, <1>2, <1>3 DEF PlanFamilies, On, world
<1>5. /\ k.at = "FAMILIES" /\ k.planned = TRUE /\ k.plan = plan
      /\ \A f \in k.left : k.plan[f].action # "NONE"
  BY <1>0, <1>1, <1>3 DEF Invocations
<1>6. ASSUME counts.moves = 0, NEW f \in Families PROVE Succession(f)'
  <2>1. Succession(f)
    BY <1>6 DEF FamiliesInv
  <2>2. \/ h.planned /\ k.plan[f] = h.plan[f]
        \/ k.plan[f] = PlanRemoval(f)
    BY <1>2, <1>5 DEF DispositionsFor
  <2>3. \/ h.planned /\ k.plan[f] = h.plan[f]
        \/ /\ Settled(f) => PlanSettled(f, k.plan[f])
           /\ ToHandOver(f) => PlanToHandOver(f, k.plan[f])
           /\ ToDissolve(f) => PlanToDissolve(f, k.plan[f])
    BY <1>0, <2>2, PlanSuits
  <2>4. row'[f] = row[f] /\ owner'[f] = owner[f] /\ k.at \notin {"HANDOVER", "REMOVE"}
        /\ h.at \notin Dissolving /\ (Undisturbed' => Undisturbed)
    BY <1>4, <1>5 DEF Dissolving, Undisturbed
  <2> QED
    BY <1>0, <1>1, <1>4, <2>1, <2>3, <2>4, FamilyStays
<1>7. \A v \in Workers : WorkerFits(worker'[v])
  <2>1. worker'[w] = k /\ \A v \in Workers \ {w} : worker'[v] = worker[v]
    BY <1>0, <1>4
  <2>2. WorkerFits(k)
    BY <1>5 DEF WorkerFits, Dissolving
  <2> QED
    BY <2>1, <2>2 DEF FamiliesInv
<1> QED
  BY <1>4, <1>6, <1>7 DEF FamiliesInv, WorkerFits

\* The heir who is promoted is the one any run chooses, now and afterwards.
LEMMA HeirPromoted ==
    ASSUME TypeOK, NEW f \in Families, ToHandOver(f), NEW s, IsSuccessor(f, s),
           row' = [row EXCEPT ![f][s].role = "OWNER"]
    PROVE  /\ ActiveOthers(f)' # {} /\ row'[f][Subject] = row[f][Subject]
           /\ row'[f][s] = OwnerRow /\ IsSuccessor(f, s)'
           /\ \A u \in Others : row'[f][u].role = "OWNER" => u = s
<1>0. s \in Others /\ s \in Members /\ s # Subject /\ Others \subseteq Members /\ Subject \in Members
      /\ s \in ActiveOthers(f)
  BY NobodyElse DEF IsSuccessor, ActiveOthers, Members
<1>1. row \in [Families -> [Members -> Rows]] /\ row[f][s] \in Rows /\ row[f][s].status = "ACTIVE"
  BY <1>0 DEF TypeOK, ActiveOthers
<1>2. row'[f][s] = [row[f][s] EXCEPT !.role = "OWNER"] /\ \A u \in Members \ {s} : row'[f][u] = row[f][u]
  BY <1>0, <1>1
<1>3. row'[f][s] = OwnerRow
  BY <1>1, <1>2 DEF OwnerRow, Rows
<1>4. \A u \in Others : row[f][u].role = "OWNER" => u = s
  BY OneSuccessor DEF ToHandOver
<1>5. \A u \in Others : row'[f][u].role = "OWNER" => u = s
  BY <1>0, <1>2, <1>4
<1>6. ActiveOthers(f)' = ActiveOthers(f)
  <2>1. \A u \in Others : row'[f][u].status = row[f][u].status
    BY <1>0, <1>1, <1>2, <1>3 DEF OwnerRow
  <2> QED
    BY <2>1 DEF ActiveOthers
<1>7. Rank(row'[f][s].role) = 3
  BY <1>3 DEF Rank, OwnerRow
<1>8. ASSUME NEW v \in ActiveOthers(f), v # s PROVE Rank(row'[f][v].role) < 3
  <2>1. v \in Others /\ v \in Members
    BY <1>0 DEF ActiveOthers
  <2>2. row'[f][v] = row[f][v] /\ row[f][v].role # "OWNER"
    BY <1>2, <1>4, <1>8, <2>1
  <2>3. Rank(row[f][v].role) < 3
    BY <2>1, <2>2, RankMeans
  <2> QED
    BY <2>2, <2>3
<1>9. IsSuccessor(f, s)'
  <2>1. \A v \in ActiveOthers(f) :
            \/ Rank(row'[f][s].role) > Rank(row'[f][v].role)
            \/ Rank(row'[f][s].role) = Rank(row'[f][v].role) /\ s <= v
    BY <1>0, <1>7, <1>8, NobodyElse
  <2> QED
    BY <1>0, <1>6, <2>1 DEF IsSuccessor
<1> QED
  BY <1>0, <1>2, <1>3, <1>5, <1>6, <1>9

\* transferOwnership's first update makes the heir an owner; where the family has
\* been handed over already it changes nothing.
LEMMA PromoteStep ==
    ASSUME FamiliesInv, IInv', NEW w \in Workers, NEW f \in Families, PromoteSuccessor(w, f),
           row[f][worker[w].plan[f].heir].role # "NONE"
    PROVE  FamiliesInv'
<1>0. /\ TypeOK /\ worker \in [Workers -> Invocations] /\ worker[w] \in Invocations
      /\ row \in [Families -> [Members -> Rows]] /\ WorkerFits(worker[w])
  BY Basics
<1>1. PICK h, s : h = worker[w] /\ s = h.plan[f].heir
  OBVIOUS
<1>2. PICK k : k = [h EXCEPT !.at = "HANDOVER", !.family = f]
  OBVIOUS
<1>3. /\ worker' = [worker EXCEPT ![w] = k] /\ UNCHANGED <<owner, counts>>
      /\ row' = [row EXCEPT ![f][s].role = "OWNER"]
      /\ h.at = "FAMILIES" /\ f \in h.left /\ h.plan[f].action = "TRANSFER_OWNERSHIP"
  BY <1>0, <1>1, <1>2 DEF PromoteSuccessor, world
<1>4. /\ k.at = "HANDOVER" /\ k.family = f /\ k.planned = h.planned /\ k.plan = h.plan /\ k.left = h.left
      /\ h.planned
  BY <1>0, <1>1, <1>2, <1>3 DEF Invocations, WorkerFits, InFamilies
<1>5. WorkerFits(k)
  BY <1>0, <1>1, <1>3, <1>4 DEF WorkerFits, InFamilies, Dissolving
<1>6. \A g \in Families \ {f} : row'[g] = row[g] /\ owner'[g] = owner[g]
  BY <1>0, <1>3
<1>7. ASSUME counts.moves = 0 PROVE Succession(f)'
  <2>0. Succession(f) /\ worker'[w] = k /\ \A v \in Workers \ {w} : worker'[v] = worker[v]
    BY <1>0, <1>3, <1>7 DEF FamiliesInv
  <2>1. CASE Settled(f)
    <3>1. \A v \in Workers : worker[v].planned => PlanSettled(f, worker[v].plan[f])
      BY <2>0, <2>1, NobodyElse DEF Succession, Settled, ToHandOver, ToDissolve
    <3>2. s = owner[f] /\ s \in Members
      BY <1>1, <1>3, <1>4, <2>1, <3>1 DEF PlanSettled, Settled, Members
    <3>3. row'[f] = row[f]
      <4>1. [row[f][s] EXCEPT !.role = "OWNER"] = row[f][s]
        BY <2>1, <3>2 DEF Settled, OwnerRow
      <4>2. row'[f] = [row[f] EXCEPT ![s] = [row[f][s] EXCEPT !.role = "OWNER"]]
        BY <1>0, <1>3
      <4> QED
        BY <1>0, <3>2, <4>1, <4>2
    <3>4. Settled(f)'
      BY <1>3, <2>1, <3>3 DEF Settled, OwnerRow
    <3>5. \A v \in Workers : worker'[v].planned => PlanSettled(f, worker'[v].plan[f])
      BY <1>1, <1>4, <2>0, <3>1
    <3> QED
      BY <1>3, <3>4, <3>5 DEF Succession, PlanSettled
  <2>2. CASE ToHandOver(f)
    <3>1. \A v \in Workers : worker[v].planned => PlanToHandOver(f, worker[v].plan[f])
      BY <2>0, <2>2, NobodyElse DEF Succession, Settled, ToHandOver, ToDissolve
    <3>2. IsSuccessor(f, s)
      BY <1>1, <1>4, <3>1 DEF PlanToHandOver
    <3>3. /\ ActiveOthers(f)' # {} /\ row'[f][Subject] = row[f][Subject]
          /\ row'[f][s] = OwnerRow /\ IsSuccessor(f, s)'
          /\ \A u \in Others : row'[f][u].role = "OWNER" => u = s
      BY <1>0, <1>3, <2>2, <3>2, HeirPromoted
    <3>4. \A v \in Workers : worker'[v].planned =>
              worker'[v].plan[f].action = "TRANSFER_OWNERSHIP" /\ worker'[v].plan[f].heir = s
      BY <1>0, <1>1, <1>4, <2>0, <3>1, <3>2, OneSuccessor DEF PlanToHandOver
    <3>5. \A v \in Workers : worker'[v].at \in {"HANDOVER", "REMOVE"} /\ worker'[v].family = f =>
              worker'[v].at = "HANDOVER" /\ row'[f][worker'[v].plan[f].heir].role = "OWNER"
      <4> SUFFICES ASSUME NEW v \in Workers, worker'[v].at \in {"HANDOVER", "REMOVE"}, worker'[v].family = f
                   PROVE  worker'[v].at = "HANDOVER" /\ row'[f][worker'[v].plan[f].heir].role = "OWNER"
        OBVIOUS
      <4>1. worker'[v].at = "HANDOVER"
        BY <1>4, <2>0, <2>2 DEF ToHandOver
      <4>2. worker'[v].planned
        BY <1>4, <2>0, <4>1 DEF FamiliesInv, WorkerFits, InFamilies
      <4> QED
        BY <3>3, <3>4, <4>1, <4>2 DEF OwnerRow
    <3>6. ToHandOver(f)'
      BY <1>3, <2>2, <3>3, <3>5 DEF ToHandOver, OwnerRow
    <3>7. \A v \in Workers : (worker[v].planned => PlanToHandOver(f, worker[v].plan[f]))'
      BY <3>3, <3>4 DEF PlanToHandOver
    <3> QED
      BY <3>6, <3>7 DEF Succession
  <2>3. CASE ~Settled(f) /\ ~ToHandOver(f)
    BY <1>1, <1>3, <1>4, <2>0, <2>3 DEF Succession, PlanToDissolve
  <2> QED
    BY <2>1, <2>2, <2>3
<1>8. h.at \notin Dissolving
  BY <1>3 DEF Dissolving
<1> QED
  BY <1>1, <1>3, <1>4, <1>5, <1>6, <1>7, <1>8, FamiliesStep

\* transferOwnership's second update names the heir as the owner.
LEMMA HandOverStep ==
    ASSUME FamiliesInv, IInv', NEW w \in Workers, HandOver(w), owner[worker[w].family] # Gone
    PROVE  FamiliesInv'
<1>0. /\ TypeOK /\ worker \in [Workers -> Invocations] /\ worker[w] \in Invocations
      /\ row \in [Families -> [Members -> Rows]] /\ owner \in [Families -> Members \cup {Gone}]
      /\ WorkerFits(worker[w])
  BY Basics
<1>1. PICK h : h = worker[w]
  OBVIOUS
<1>2. PICK f \in Families : f = h.family
  BY <1>0, <1>1 DEF Invocations
<1>3. PICK s, k : s = h.plan[f].heir /\ k = [h EXCEPT !.at = "REMOVE"]
  OBVIOUS
<1>4. /\ worker' = [worker EXCEPT ![w] = k] /\ UNCHANGED <<row, counts>>
      /\ owner' = [owner EXCEPT ![f] = s] /\ h.at = "HANDOVER"
  BY <1>0, <1>1, <1>2, <1>3 DEF HandOver, Goto
<1>5. /\ k.at = "REMOVE" /\ k.family = f /\ k.planned = h.planned /\ k.plan = h.plan /\ k.left = h.left
      /\ h.planned /\ h.plan[f].action = "TRANSFER_OWNERSHIP"
  BY <1>0, <1>1, <1>2, <1>3, <1>4 DEF Invocations, WorkerFits, InFamilies
<1>6. WorkerFits(k)
  BY <1>0, <1>1, <1>4, <1>5 DEF WorkerFits, InFamilies, Dissolving
<1>7. \A g \in Families \ {f} : row'[g] = row[g] /\ owner'[g] = owner[g]
  BY <1>0, <1>4
<1>8. ASSUME counts.moves = 0 PROVE Succession(f)'
  <2>0. /\ Succession(f) /\ worker'[w] = k /\ \A v \in Workers \ {w} : worker'[v] = worker[v]
        /\ owner'[f] = s
    BY <1>0, <1>4, <1>8 DEF FamiliesInv
  <2>1. CASE Settled(f)
    <3>1. \A v \in Workers : worker[v].planned => PlanSettled(f, worker[v].plan[f])
      BY <2>0, <2>1, NobodyElse DEF Succession, Settled, ToHandOver, ToDissolve
    <3>2. owner'[f] = owner[f]
      BY <1>1, <1>3, <1>5, <2>0, <3>1 DEF PlanSettled
    <3>3. Settled(f)'
      BY <1>4, <2>1, <3>2 DEF Settled, OwnerRow
    <3>4. \A v \in Workers : worker'[v].planned => PlanSettled(f, worker'[v].plan[f])
      BY <1>1, <1>5, <2>0, <3>1
    <3> QED
      BY <3>2, <3>3, <3>4 DEF Succession, PlanSettled
  <2>2. CASE ToHandOver(f)
    <3>1. \A v \in Workers : worker[v].planned => PlanToHandOver(f, worker[v].plan[f])
      BY <2>0, <2>2, NobodyElse DEF Succession, Settled, ToHandOver, ToDissolve
    <3>2. IsSuccessor(f, s) /\ row[f][s].role = "OWNER"
      BY <1>1, <1>2, <1>3, <1>4, <1>5, <2>2, <3>1 DEF PlanToHandOver, ToHandOver
    <3>3. s \in Others /\ row[f][s] = OwnerRow
      BY <1>0, <3>2 DEF IsSuccessor, ActiveOthers, OwnerRow, Members, Rows
    <3>4. Settled(f)'
      <4>1. \A u \in Others : row[f][u].role = "OWNER" => u = s
        BY <1>0, <2>2, <3>2, OneSuccessor DEF ToHandOver
      <4> QED
        BY <1>4, <2>0, <3>3, <4>1 DEF Settled, OwnerRow
    <3>5. \A v \in Workers : worker'[v].planned =>
              worker'[v].plan[f].action = "TRANSFER_OWNERSHIP" /\ worker'[v].plan[f].heir = s
      BY <1>0, <1>1, <1>5, <2>0, <3>1, <3>2, OneSuccessor DEF PlanToHandOver
    <3> QED
      BY <2>0, <3>4, <3>5 DEF Succession, PlanSettled
  <2>3. CASE ~Settled(f) /\ ~ToHandOver(f)
    BY <1>1, <1>5, <2>0, <2>3 DEF Succession, PlanToDissolve
  <2> QED
    BY <2>1, <2>2, <2>3
<1>9. h.at \notin Dissolving
  BY <1>4 DEF Dissolving
<1> QED
  BY <1>1, <1>4, <1>5, <1>6, <1>7, <1>8, <1>9, FamiliesStep

\* removeMembership: the subject goes after the handover, or from a family that
\* keeps its owner, or the invocation goes on to dissolve it.
LEMMA RemoveStep ==
    ASSUME FamiliesInv, IInv', NEW w \in Workers, NEW f \in Families, RemoveMembership(w, f)
    PROVE  FamiliesInv'
<1>0. /\ TypeOK /\ worker \in [Workers -> Invocations] /\ worker[w] \in Invocations
      /\ row \in [Families -> [Members -> Rows]] /\ WorkerFits(worker[w])
  BY Basics
<1>1. PICK h : h = worker[w]
  OBVIOUS
<1>2. PICK at : at = IF h.plan[f].action = "DISSOLVE" THEN "MEMBERS" ELSE "FAMILIES"
  OBVIOUS
<1>3. PICK k : k = [h EXCEPT !.left = h.left \ {f}, !.family = f, !.at = at]
  OBVIOUS
<1>4. /\ worker' = [worker EXCEPT ![w] = k] /\ UNCHANGED <<owner, counts>>
      /\ row' = [row EXCEPT ![f][Subject] = NoRow]
      /\ \/ h.at = "FAMILIES" /\ f \in h.left /\ h.plan[f].action # "TRANSFER_OWNERSHIP"
         \/ h.at = "REMOVE" /\ f = h.family
  BY <1>0, <1>1, <1>2, <1>3 DEF RemoveMembership
<1>5. /\ k.at = at /\ k.family = f /\ k.planned = h.planned /\ k.plan = h.plan /\ k.left = h.left \ {f}
      /\ h.planned
      /\ h.at = "FAMILIES" => h.plan[f].action \notin {"NONE", "TRANSFER_OWNERSHIP"}
      /\ h.at = "REMOVE" => h.plan[f].action = "TRANSFER_OWNERSHIP"
  BY <1>0, <1>1, <1>3, <1>4 DEF Invocations, WorkerFits, InFamilies
<1>6. WorkerFits(k)
  BY <1>0, <1>1, <1>2, <1>4, <1>5 DEF WorkerFits, InFamilies, Dissolving
<1>7. \A g \in Families \ {f} : row'[g] = row[g] /\ owner'[g] = owner[g]
  BY <1>0, <1>4
<1>8. ASSUME counts.moves = 0 PROVE Succession(f)'
  <2>0. /\ Succession(f) /\ worker'[w] = k /\ \A v \in Workers \ {w} : worker'[v] = worker[v]
    BY <1>0, <1>4, <1>8 DEF FamiliesInv
  <2>1. row'[f][Subject] = NoRow /\ \A u \in Others : row'[f][u] = row[f][u]
    BY <1>0, <1>4, NobodyElse DEF Members
  <2>2. CASE Settled(f) /\ \A v \in Workers : worker[v].planned => PlanSettled(f, worker[v].plan[f])
    <3>1. Settled(f)'
      BY <1>4, <2>1, <2>2 DEF Settled, OwnerRow
    <3>2. \A v \in Workers : worker'[v].planned => PlanSettled(f, worker'[v].plan[f])
      BY <1>1, <1>5, <2>0, <2>2
    <3> QED
      BY <1>4, <3>1, <3>2 DEF Succession, PlanSettled
  <2>3. CASE ToHandOver(f) /\ \A v \in Workers : worker[v].planned => PlanToHandOver(f, worker[v].plan[f])
    BY <1>1, <1>4, <1>5, <2>3 DEF ToHandOver, PlanToHandOver
  <2>4. CASE ToDissolve(f) /\ \A v \in Workers : worker[v].planned => PlanToDissolve(f, worker[v].plan[f])
    <3>1. h.plan[f].action = "DISSOLVE" /\ at = "MEMBERS"
      BY <1>1, <1>2, <1>4, <1>5, <2>4 DEF PlanToDissolve
    <3>2. ActiveOthers(f)' = {}
      BY <2>1, <2>4 DEF ToDissolve, ActiveOthers
    <3>3. \E v \in Workers : worker'[v].at \in Dissolving /\ worker'[v].family = f
      BY <1>5, <2>0, <3>1 DEF Dissolving
    <3>4. ToDissolve(f)'
      BY <1>4, <2>1, <2>4, <3>2, <3>3 DEF ToDissolve, NoRow
    <3>5. \A v \in Workers : worker'[v].planned => PlanToDissolve(f, worker'[v].plan[f])
      BY <1>1, <1>5, <2>0, <2>4
    <3> QED
      BY <3>4, <3>5 DEF Succession, PlanToDissolve
  <2> QED
    BY <2>0, <2>2, <2>3, <2>4 DEF Succession
<1>9. h.at \notin Dissolving /\ k.at \notin {"HANDOVER", "REMOVE"}
  BY <1>2, <1>4, <1>5 DEF Dissolving
<1> QED
  BY <1>1, <1>4, <1>5, <1>6, <1>7, <1>8, <1>9, FamiliesStep

\* dissolveFamily: whoever is at it goes on until the family is gone.
LEMMA DissolveStep ==
    ASSUME FamiliesInv, IInv', NEW w \in Workers, NEW f \in Families, f = worker[w].family,
           DissolveMembers(w) \/ DissolvePlaces(w) \/ DissolveFamily(w)
    PROVE  FamiliesInv'
<1>0. /\ TypeOK /\ worker \in [Workers -> Invocations] /\ worker[w] \in Invocations
      /\ row \in [Families -> [Members -> Rows]] /\ owner \in [Families -> Members \cup {Gone}]
      /\ WorkerFits(worker[w])
  BY Basics
<1>1. PICK h : h = worker[w]
  OBVIOUS
<1>2. f = h.family
  BY <1>1
<1>3. PICK at \in {"PLACES", "FAMILY", "FAMILIES"} :
          /\ worker' = [worker EXCEPT ![w].at = at] /\ UNCHANGED counts
          /\ h.at \in Dissolving
          /\ \/ at # "FAMILIES" /\ UNCHANGED <<row, owner>>
             \/ at # "FAMILIES" /\ UNCHANGED owner /\ row' = [row EXCEPT ![f] = [u \in Members |-> NoRow]]
             \/ at = "FAMILIES" /\ UNCHANGED row /\ owner' = [owner EXCEPT ![f] = Gone]
  BY <1>0, <1>1, <1>2 DEF DissolveMembers, DissolvePlaces, DissolveFamily, Goto, Dissolving
<1>4. PICK k : k = [h EXCEPT !.at = at]
  OBVIOUS
<1>5. worker' = [worker EXCEPT ![w] = k]
  BY <1>0, <1>1, <1>3, <1>4
<1>6. /\ k.at = at /\ k.family = f /\ k.planned = h.planned /\ k.plan = h.plan /\ k.left = h.left
      /\ h.planned /\ h.plan[f].action = "DISSOLVE"
  BY <1>0, <1>1, <1>2, <1>3, <1>4 DEF Invocations, WorkerFits, InFamilies, Dissolving
<1>7. WorkerFits(k)
  BY <1>0, <1>1, <1>3, <1>6 DEF WorkerFits, InFamilies, Dissolving
<1>8. \A g \in Families \ {f} : row'[g] = row[g] /\ owner'[g] = owner[g]
  BY <1>0, <1>3
<1>9. ASSUME counts.moves = 0 PROVE Succession(f)'
  <2>0. /\ Succession(f) /\ worker'[w] = k /\ \A v \in Workers \ {w} : worker'[v] = worker[v]
    BY <1>0, <1>5, <1>9 DEF FamiliesInv
  <2>1. ToDissolve(f) /\ \A v \in Workers : worker[v].planned => PlanToDissolve(f, worker[v].plan[f])
    BY <1>1, <1>6, <2>0 DEF Succession, PlanSettled, PlanToHandOver
  <2>2. \A v \in Workers : worker'[v].planned => PlanToDissolve(f, worker'[v].plan[f])
    BY <1>1, <1>6, <2>0, <2>1
  <2>3. \/ row'[f] = row[f]
        \/ \A u \in Members : row'[f][u] = NoRow
    BY <1>0, <1>3
  <2>4. /\ row'[f][Subject] \in {OwnerRow, NoRow} /\ ActiveOthers(f)' = {}
        /\ \A u \in Others : row'[f][u].role # "OWNER"
    <3>1. Subject \in Members /\ Others \subseteq Members
      BY DEF Members
    <3>2. CASE row'[f] = row[f]
      BY <2>1, <3>2, SameRows DEF ToDissolve
    <3>3. CASE \A u \in Members : row'[f][u] = NoRow
      BY <3>1, <3>3 DEF NoRow, ActiveOthers
    <3> QED
      BY <2>3, <3>2, <3>3
  <2>5. owner'[f] = Gone \/ (worker'[w].at \in Dissolving /\ worker'[w].family = f)
    BY <1>0, <1>3, <1>6, <2>0 DEF Dissolving
  <2>6. owner'[f] \in {Subject, Gone}
    BY <1>0, <1>3, <2>1 DEF ToDissolve
  <2>7. ToDissolve(f)'
    BY <2>4, <2>5, <2>6 DEF ToDissolve, OwnerRow, NoRow
  <2> QED
    BY <2>2, <2>7 DEF Succession, PlanToDissolve
<1>10. UNCHANGED counts
  BY <1>3
<1>11. k.planned => h.planned /\ k.plan = h.plan
  BY <1>6
<1>12. k.at \in {"HANDOVER", "REMOVE"} => k.family = f
  BY <1>6
<1>13. h.at \in Dissolving => h.family = f
  BY <1>2
<1>14. counts.moves = 0 => Succession(f)'
  BY <1>9
<1> QED
  BY <1>1, <1>5, <1>7, <1>8, <1>10, <1>11, <1>12, <1>13, <1>14, FamiliesStep

-----------------------------------------------------------------------------
(* The theorems                                                             *)

\* Nobody among the families has moved, and no invocation either.
LEMMA StillStep ==
    ASSUME FamiliesInv, IInv', UNCHANGED <<row, owner, worker>>,
           counts'.moves = 0 => counts.moves = 0, Undisturbed' => Undisturbed
    PROVE  FamiliesInv'
<1>1. \A w \in Workers : WorkerFits(worker[w])'
  BY DEF FamiliesInv, WorkerFits
<1>2. ASSUME counts'.moves = 0, NEW f \in Families PROVE Succession(f)'
  <2>1. Succession(f)
    BY <1>2 DEF FamiliesInv
  <2>2. Settled(f) <=> Settled(f)'
    BY DEF Settled, OwnerRow
  <2>3. ToHandOver(f) <=> ToHandOver(f)'
    BY SameRows DEF ToHandOver, OwnerRow
  <2>4. ToDissolve(f) => ToDissolve(f)'
    BY SameRows DEF ToDissolve, OwnerRow, NoRow, Dissolving
  <2>5. \A d : /\ PlanSettled(f, d) => PlanSettled(f, d)'
               /\ PlanToHandOver(f, d) => PlanToHandOver(f, d)'
    BY SameRows DEF PlanSettled, PlanToHandOver
  <2> QED
    BY <2>1, <2>2, <2>3, <2>4, SameRows DEF Succession, PlanSettled, PlanToHandOver, PlanToDissolve
<1> QED
  BY <1>1, <1>2 DEF FamiliesInv

\* What the ends of a step leave in hand is not among the families.
LEMMA CalmEnds ==
    ASSUME FamiliesInv, IInv', UNCHANGED <<row, owner>>, counts'.moves = counts.moves,
           NEW w \in Workers, Undisturbed' => Undisturbed /\ worker[w].at \notin Dissolving,
           \/ Complete(w) \/ Finish(w)
           \/ \E at \in {"STEP", "DAYS", "FAILED"} : Goto(w, at)
    PROVE  FamiliesInv'
<1>0. worker \in [Workers -> Invocations] /\ worker[w] \in Invocations
  BY Basics
<1>1. PICK h : h = worker[w]
  OBVIOUS
<1>2. CASE Complete(w)
  <2>1. PICK k : k = CompleteStep(h)
    OBVIOUS
  <2>2. k.at = "SAVE" /\ k.planned = h.planned /\ k.plan = h.plan
    BY <1>0, <1>1, <2>1 DEF CompleteStep, Invocations
  <2>3. worker' = [worker EXCEPT ![w] = k]
    BY <1>0, <1>1, <1>2, <2>1 DEF Complete
  <2>4. k.at \notin InFamilies
    BY <2>2 DEF InFamilies
  <2> QED
    BY <1>1, <2>2, <2>3, <2>4, CalmStep
<1>3. CASE Finish(w)
  <2>1. Idle.at = "IDLE" /\ Idle.planned = FALSE
    BY DEF Idle
  <2>2. worker' = [worker EXCEPT ![w] = Idle] /\ Idle.at \notin InFamilies
    BY <1>3, <2>1 DEF Finish, InFamilies
  <2> QED
    BY <1>1, <2>1, <2>2, CalmStep
<1>4. ASSUME NEW at \in {"STEP", "DAYS", "FAILED"}, Goto(w, at) PROVE FamiliesInv'
  <2>1. PICK k : k = [h EXCEPT !.at = at]
    OBVIOUS
  <2>2. k.at = at /\ k.planned = h.planned /\ k.plan = h.plan
    BY <1>0, <1>1, <2>1 DEF Invocations
  <2>3. worker' = [worker EXCEPT ![w] = k]
    BY <1>0, <1>1, <1>4, <2>1 DEF Goto
  <2>4. k.at \notin InFamilies
    BY <2>2 DEF InFamilies
  <2> QED
    BY <1>1, <2>2, <2>3, <2>4, CalmStep
<1> QED
  BY <1>2, <1>3, <1>4

\* A job is received.
LEMMA DeliverStep ==
    ASSUME FamiliesInv, IInv', NEW w \in Workers, Deliver(w)
    PROVE  FamiliesInv'
<1>0. worker \in [Workers -> Invocations] /\ worker[w] \in Invocations /\ worker[w].at = "IDLE"
      /\ UNCHANGED <<row, owner, counts>>
  BY Basics DEF Deliver, world
<1>1. CASE UNCHANGED worker
  BY <1>0, <1>1, StillStep DEF Undisturbed
<1>2. CASE ~UNCHANGED worker
  <2>1. PICK at \in {"START", "STEP"} :
            worker' = [worker EXCEPT ![w] = [Idle EXCEPT
                !.at = at, !.step = job.step, !.cursor = job.cursor]]
    <3>1. PICK at : at = IF job.status = "PENDING" THEN "START" ELSE "STEP"
      OBVIOUS
    <3>2. worker' = [worker EXCEPT ![w] = [Idle EXCEPT
                !.at = at, !.step = job.step, !.cursor = job.cursor]]
      BY <1>2, <3>1 DEF Deliver
    <3> QED
      BY <3>1, <3>2
  <2>2. PICK k : k = [Idle EXCEPT !.at = at, !.step = job.step, !.cursor = job.cursor]
    OBVIOUS
  <2>3. k.at = at /\ k.planned = FALSE
    BY <2>2 DEF Idle
  <2>4. k.at \notin InFamilies /\ worker[w].at \notin Dissolving
    BY <1>0, <2>3 DEF InFamilies, Dissolving
  <2> QED
    BY <1>0, <2>1, <2>2, <2>3, <2>4, CalmStep DEF Undisturbed
<1> QED
  BY <1>1, <1>2

\* The history and the places are no matter of the families' members.
LEMMA StoresStep ==
    ASSUME FamiliesInv, IInv', NEW w \in Workers,
           SliceHistory(w) \/ DeleteHistoryDay(w) \/ PurgeSavedPlaces(w)
    PROVE  FamiliesInv'
<1>0. worker \in [Workers -> Invocations] /\ worker[w] \in Invocations
  BY Basics
<1>1. UNCHANGED <<row, owner, counts>> /\ worker[w].at \notin Dissolving
  BY DEF SliceHistory, DeleteHistoryDay, PurgeSavedPlaces, world, On, Dissolving
<1>2. PICK h : h = worker[w]
  OBVIOUS
<1>3. \E k : /\ worker' = [worker EXCEPT ![w] = k] /\ k.at \notin InFamilies
             /\ k.planned => h.planned /\ k.plan = h.plan
  <2>1. CASE SliceHistory(w)
    <3>1. PICK k, until : k = [h EXCEPT !.at = "DAYS", !.until = until] /\ worker' = [worker EXCEPT ![w] = k]
      BY <1>0, <1>2, <2>1 DEF SliceHistory
    <3>2. k.at = "DAYS" /\ k.planned = h.planned /\ k.plan = h.plan
      BY <1>0, <1>2, <3>1 DEF Invocations
    <3> QED
      BY <3>1, <3>2 DEF InFamilies
  <2>2. CASE DeleteHistoryDay(w)
    <3>1. PICK k, day : k = [h EXCEPT !.cursor = day, !.at = "CURSOR"] /\ worker' = [worker EXCEPT ![w] = k]
      BY <1>0, <1>2, <2>2 DEF DeleteHistoryDay
    <3>2. k.at = "CURSOR" /\ k.planned = h.planned /\ k.plan = h.plan
      BY <1>0, <1>2, <3>1 DEF Invocations
    <3> QED
      BY <3>1, <3>2 DEF InFamilies
  <2>3. CASE PurgeSavedPlaces(w)
    <3>1. PICK k : k = [CompleteStep(h) EXCEPT !.planned = FALSE, !.plan = NoPlan]
      OBVIOUS
    <3>2. k.at = "SAVE" /\ k.planned = FALSE
      BY <1>0, <1>2, <3>1 DEF CompleteStep, Invocations
    <3>3. worker' = [worker EXCEPT ![w] = k]
      BY <1>0, <1>2, <2>3, <3>1 DEF PurgeSavedPlaces
    <3> QED
      BY <3>2, <3>3 DEF InFamilies
  <2> QED
    BY <2>1, <2>2, <2>3
<1> QED
  BY <1>1, <1>2, <1>3, CalmStep DEF Undisturbed

\* A family is settled, to be handed over or to be dissolved when the job is due.
LEMMA FamiliesInitially == Init => FamiliesInv
<1> SUFFICES ASSUME Init PROVE FamiliesInv
  OBVIOUS
<1>1. IInv /\ TypeOK
  BY Initially DEF IInv
<1>2. \A w \in Workers : worker[w] = Idle
  BY DEF Init
<1>3. Idle.at = "IDLE" /\ Idle.planned = FALSE
  BY DEF Idle
<1>4. \A w \in Workers : WorkerFits(worker[w])
  BY <1>2, <1>3 DEF WorkerFits, InFamilies, Dissolving
<1>5. ASSUME NEW f \in Families PROVE Settled(f) \/ ToHandOver(f) \/ ToDissolve(f)
  <2>1. /\ owner[f] \in Members
        /\ \A u \in Members : /\ u = owner[f] <=> row[f][u].role = "OWNER"
                              /\ u = owner[f] => row[f][u].status = "ACTIVE"
    BY DEF Init
  <2>2. row[f][owner[f]] = OwnerRow
    <3>1. row[f][owner[f]] \in Rows
      BY <1>1, <2>1 DEF TypeOK
    <3> QED
      BY <2>1, <3>1 DEF OwnerRow, Rows
  <2>3. CASE owner[f] \in Others
    BY <2>1, <2>2, <2>3 DEF Settled, Members
  <2>4. CASE owner[f] = Subject
    <3>1. \A u \in Others : row[f][u].role # "OWNER"
      BY <2>1, <2>4, NobodyElse DEF Members
    <3>2. CASE ActiveOthers(f) # {}
      BY <1>2, <1>3, <2>2, <2>4, <3>1, <3>2 DEF ToHandOver
    <3>3. CASE ActiveOthers(f) = {}
      BY <2>2, <2>4, <3>1, <3>3 DEF ToDissolve
    <3> QED
      BY <3>2, <3>3
  <2> QED
    BY <2>1, <2>3, <2>4 DEF Members
<1>6. \A f \in Families : Succession(f)
  BY <1>2, <1>3, <1>5 DEF Succession
<1> QED
  BY <1>1, <1>4, <1>6 DEF FamiliesInv

\* Every step of every run preserves it.
LEMMA FamiliesInductive == FamiliesInv /\ [Next]_vars => FamiliesInv'
<1> SUFFICES ASSUME FamiliesInv, [Next]_vars PROVE FamiliesInv'
  OBVIOUS
<1>0. /\ IInv' /\ TypeOK
      /\ counts.moves \in Nat /\ counts.crashes \in Nat /\ counts.failures \in Nat
      /\ counts \in [dispatches : Nat, crashes : Nat, failures : Nat, moves : Nat]
  BY Inductive DEF FamiliesInv, IInv, TypeOK
<1>1. CASE Dispatch \/ UNCHANGED vars
  <2>1. UNCHANGED <<row, owner, worker>>
    BY <1>1 DEF Dispatch, vars, world
  <2>2. counts'.moves = counts.moves /\ counts'.crashes = counts.crashes /\ counts'.failures = counts.failures
    BY <1>0, <1>1 DEF Dispatch, vars
  <2> QED
    BY <1>0, <2>1, <2>2, StillStep DEF Undisturbed
<1>2. ASSUME NEW w \in Workers, Work(w) PROVE FamiliesInv'
  <2> USE DEF world, Undisturbed
  <2>1. CASE Deliver(w)
    BY <1>0, <2>1, DeliverStep
  <2>2. CASE Start(w) \/ Save(w)
    BY <1>0, <2>2, CalmEnds DEF Start, Save, Dissolving
  <2>3. CASE RevokeSharing(w) \/ Sweep(w) \/ Confirm(w)
    BY <1>0, <2>3, CalmEnds DEF RevokeSharing, Sweep, Confirm, On, Dissolving
  <2>4. CASE PlanFamilies(w)
    BY <1>0, <2>4, PlanStep
  <2>5. ASSUME NEW f \in Families, PromoteSuccessor(w, f) PROVE FamiliesInv'
    <3>1. CASE row[f][worker[w].plan[f].heir].role # "NONE"
      BY <1>0, <2>5, <3>1, PromoteStep
    <3>2. CASE row[f][worker[w].plan[f].heir].role = "NONE"
      BY <1>0, <2>5, <3>2, CalmEnds DEF PromoteSuccessor, Dissolving
    <3> QED
      BY <3>1, <3>2
  <2>6. ASSUME NEW f \in Families, RemoveMembership(w, f) PROVE FamiliesInv'
    BY <1>0, <2>6, RemoveStep
  <2>7. CASE HandOver(w)
    <3>1. CASE owner[worker[w].family] # Gone
      BY <1>0, <2>7, <3>1, HandOverStep
    <3>2. CASE owner[worker[w].family] = Gone
      BY <1>0, <2>7, <3>2, CalmEnds DEF HandOver, Dissolving
    <3> QED
      BY <3>1, <3>2
  <2>8. CASE DissolveMembers(w) \/ DissolvePlaces(w) \/ DissolveFamily(w)
    <3>1. worker[w].family \in Families
      BY Basics
    <3> QED
      BY <1>0, <2>8, <3>1, DissolveStep
  <2>9. CASE FamiliesDone(w)
    BY <1>0, <2>9, CalmEnds DEF FamiliesDone, Dissolving
  <2>10. CASE SliceHistory(w) \/ DeleteHistoryDay(w) \/ PurgeSavedPlaces(w)
    BY <1>0, <2>10, StoresStep
  <2>11. CASE SaveCursor(w)
    BY <1>0, <2>11, CalmEnds DEF SaveCursor, Dissolving
  <2>12. CASE SliceDone(w) \/ SaveFailed(w)
    BY <1>0, <2>12, CalmEnds DEF SliceDone, SaveFailed, Dissolving
  <2> QED
    BY <1>2, <2>1, <2>2, <2>3, <2>4, <2>5, <2>6, <2>7, <2>8, <2>9, <2>10, <2>11, <2>12 DEF Work
<1>3. ASSUME NEW w \in Workers, Throws(w) \/ Crash(w) PROVE FamiliesInv'
  <2>1. UNCHANGED <<row, owner>> /\ (Finish(w) \/ Goto(w, "FAILED"))
    BY <1>3 DEF Throws, Crash, world
  <2>2. \/ counts' = [counts EXCEPT !.failures = counts.failures + 1]
        \/ counts' = [counts EXCEPT !.crashes = counts.crashes + 1]
    BY <1>3 DEF Throws, Crash
  <2>3. counts'.moves = counts.moves /\ counts'.crashes + counts'.failures # 0
    BY <1>0, <2>2
  <2> QED
    BY <1>0, <2>1, <2>3, CalmEnds DEF Undisturbed
<1>4. CASE \E f \in Families, u \in Others :
            OtherLeaves(f, u) \/ \E v \in Members : OtherTransfers(f, u, v)
  <2>1. UNCHANGED worker /\ counts' = [counts EXCEPT !.moves = counts.moves + 1]
    BY <1>4 DEF OtherLeaves, OtherTransfers
  <2>2. counts'.moves # 0
    BY <1>0, <2>1
  <2>3. \A w \in Workers : WorkerFits(worker[w])'
    BY <2>1 DEF FamiliesInv, WorkerFits
  <2> QED
    BY <1>0, <2>2, <2>3 DEF FamiliesInv
<1> QED
  <2>1. \/ Dispatch \/ UNCHANGED vars
        \/ \E w \in Workers : Work(w) \/ Throws(w) \/ Crash(w)
        \/ \E f \in Families, u \in Others :
              OtherLeaves(f, u) \/ \E v \in Members : OtherTransfers(f, u, v)
    BY DEF Next
  <2> QED
    BY <1>1, <1>2, <1>3, <1>4, <2>1

\* The condition of every family, in every reachable state.
THEOREM FamiliesInvariance == Spec => []FamiliesInv
<1> QED
  BY FamiliesInitially, FamiliesInductive, PTL DEF Spec

\* However runs overlap, fail and are resumed between the two updates of
\* transferOwnership, they promote one and the same successor.
THEOREM OnlyOneHeir == Spec => []OneHeir
<1>1. FamiliesInv => OneHeir
  <2> SUFFICES ASSUME FamiliesInv, counts.moves = 0, NEW f \in Families
               PROVE  Cardinality({u \in Others : row[f][u].role = "OWNER"}) <= 1
    BY DEF OneHeir
  <2>1. PICK S : S = {u \in Others : row[f][u].role = "OWNER"}
    OBVIOUS
  <2>2. TypeOK /\ Succession(f)
    BY DEF FamiliesInv, IInv
  <2>3. \A u, v \in S : u = v
    BY <2>1, <2>2, OneSuccessor DEF Succession, Settled, ToHandOver, ToDissolve
  <2>4. CASE S = {}
    BY <2>1, <2>4, FS_EmptySet
  <2>5. CASE S # {}
    <3>1. PICK u \in S : S = {u}
      BY <2>3, <2>5
    <3>2. Cardinality(S) = 1
      BY <3>1, FS_Singleton
    <3> QED
      BY <2>1, <3>2
  <2> QED
    BY <2>4, <2>5
<1> QED
  BY <1>1, FamiliesInvariance, PTL

\* A family with somebody in it names an ACTIVE owner at every instant of the run:
\* transferOwnership and removeMembership write in the order that keeps it so.
THEOREM OwnerThroughout == Spec => []FamilyKeepsItsOwner
<1>1. FamiliesInv => FamilyKeepsItsOwner
  <2> SUFFICES ASSUME FamiliesInv, counts.moves = 0, NEW f \in Families, ActiveOthers(f) # {}
               PROVE  owner[f] # Gone /\ row[f][owner[f]] = OwnerRow
    BY DEF FamilyKeepsItsOwner, OwnerRow
  <2>1. Succession(f)
    BY DEF FamiliesInv
  <2> QED
    BY <2>1, NobodyElse DEF Succession, Settled, ToHandOver, ToDissolve
<1> QED
  BY <1>1, FamiliesInvariance, PTL

\* When the runs are over and none was interrupted, dissolveFamily has finished
\* with every family it began: none is left behind with nobody in it.
THEOREM NoneLeftEmpty == Spec => []NoEmptyFamily
<1>1. FamiliesInv => NoEmptyFamily
  <2> SUFFICES ASSUME FamiliesInv, \A w \in Workers : worker[w].at = "IDLE",
                      counts.crashes + counts.failures + counts.moves = 0,
                      NEW f \in Families, owner[f] # Gone
               PROVE  \E u \in Members : row[f][u].status = "ACTIVE"
    BY DEF NoEmptyFamily
  <2>1. counts \in [dispatches : Nat, crashes : Nat, failures : Nat, moves : Nat]
    BY DEF FamiliesInv, IInv, TypeOK
  <2>2. counts.moves = 0 /\ Undisturbed
    BY <2>1 DEF Undisturbed
  <2>3. Succession(f)
    BY <2>2 DEF FamiliesInv
  <2>4. Settled(f) \/ row[f][Subject] = OwnerRow
    BY <2>2, <2>3 DEF Succession, ToHandOver, ToDissolve, Dissolving
  <2>5. CASE Settled(f)
    BY <2>5 DEF Settled, OwnerRow, Members
  <2>6. CASE row[f][Subject] = OwnerRow
    BY <2>6 DEF OwnerRow, Members
  <2> QED
    BY <2>4, <2>5, <2>6
<1> QED
  BY <1>1, FamiliesInvariance, PTL
=============================================================================
