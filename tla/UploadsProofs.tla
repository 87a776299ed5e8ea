--------------------------- MODULE UploadsProofs ---------------------------
(***************************************************************************)
(* Theorems about Uploads, for any events, calls, limits and bounds: the    *)
(* types, that nothing is lost in silence (Delivery), that the current fix  *)
(* never trails the history, and that a pause stops what is admitted after. *)
(***************************************************************************)
EXTENDS Uploads, FiniteSetTheorems, TLAPS

\* Events that were queued and are accounted for.
Known == Pending \cup stored \cup dropped

\* The phone knows the fix it queues, and the flush what it took up: events that
\* are accounted for, no more than a batch, with the attempts of before.
ProducerKnows == producer.at # "IDLE" => producer.event \in Events
FlusherKnows ==
    /\ flusher.batch \subseteq Known
    /\ Cardinality(flusher.batch) <= MaxBatch
    /\ \A e \in flusher.batch : flusher.tries[e] \in 0..(MaxAttempts - 1)

\* What the flush is about to write is settled: nothing that is out of attempts is
\* put back, and what is taken for confirmed is safe.
FlusherMaySettle ==
    /\ flusher.at = "RETAIN" => Exhausted(flusher.batch) = {}
    /\ flusher.at = "CONFIRM" => flusher.out \subseteq stored \cup dropped

\* The call awaited is about the batch that was sent, unless it came back an error.
Confirms(c) == call[c].at = "ANSWERED" /\ call[c].answer = "OK"
AwaitedIsSent ==
    flusher.at = "AWAIT" =>
        LET c == flusher.call IN
        /\ c \in Calls /\ call[c].at # "FREE"
        /\ call[c].at # "ANSWERED" \/ Confirms(c) => call[c].batch = flusher.batch

\* What the server has done for a call so far.
CallIsHonest(c) ==
    /\ call[c].batch \subseteq Known
    /\ call[c].accepted \subseteq call[c].batch
    /\ call[c].at \in {"FREE", "ARRIVED", "CONSENT"} => call[c].accepted = {}
    /\ call[c].at \in {"CURRENT", "APPEND"} \/ Confirms(c)
          => call[c].batch \ call[c].accepted \subseteq dropped
    /\ call[c].at = "APPEND" => \A e \in call[c].accepted : e <= current
    /\ Confirms(c) => call[c].accepted \subseteq stored
    /\ call[c].paused => ~sharing /\ ~shown /\ call[c].at \notin {"CURRENT", "APPEND"}
CallsAreHonest == \A c \in Calls : CallIsHonest(c)

IInv == /\ TypeOK /\ ProducerKnows /\ FlusherKnows /\ FlusherMaySettle
        /\ AwaitedIsSent /\ CallsAreHonest /\ CurrentCoversHistory

-----------------------------------------------------------------------------
(* The operators the queue is built from                                    *)

\* Every finite set of numbers has a greatest one, and Newest finds it.
LEMMA NewestIsGreatest ==
    ASSUME NEW S, IsFiniteSet(S), S \subseteq Nat, S # {}
    PROVE  Newest(S) \in S /\ \A e \in S : e <= Newest(S)
  <1> DEFINE Above(e) == {f \in S : f > e}
             Aboves == {Above(e) : e \in S}
  <1>1. IsWellFoundedOn(StrictSubsetOrdering(S), FiniteSubsetsOf(S))
    BY FS_StrictSubsetOrderingWellFounded
  <1>2. Aboves \subseteq FiniteSubsetsOf(S) /\ Aboves # {}
    <2>1. \A e \in S : Above(e) \in SUBSET S
      OBVIOUS
    <2>2. \A T \in SUBSET S : IsFiniteSet(T)
      BY FS_Subset
    <2> QED  BY <2>1, <2>2 DEF FiniteSubsetsOf
  <1>3. PICK U \in Aboves : \A V \in Aboves : <<V, U>> \notin StrictSubsetOrdering(S)
    BY <1>1, <1>2, WFMin
  <1>4. PICK e \in S : U = Above(e)
    OBVIOUS
  <1>5. \A f \in S : f <= e
    <2> SUFFICES ASSUME NEW f \in S, f > e PROVE FALSE
      OBVIOUS
    <2>1. e \in Nat /\ f \in Nat /\ \A g \in S : g \in Nat
      OBVIOUS
    <2>2. Above(f) \subseteq Above(e)
      <3>1. \A g \in S : g > f => g > e
        BY <2>1
      <3> QED  BY <3>1
    <2>3. f \in Above(e) /\ f \notin Above(f)
      BY <2>1
    <2>4. <<Above(f), Above(e)>> \in StrictSubsetOrdering(S)
      BY <2>2, <2>3 DEF StrictSubsetOrdering
    <2> QED  BY <1>3, <1>4, <2>4
  <1> QED  BY <1>5 DEF Newest

\* A set of events is finite, and so are its parts.
LEMMA EventsAreFinite ==
    ASSUME NEW S \in SUBSET Events
    PROVE  IsFiniteSet(S) /\ Cardinality(S) \in Nat
           /\ \A T \in SUBSET S : Cardinality(T) <= Cardinality(S)
  BY EventsAreNumbered, FS_Subset, FS_CardinalityType

\* The head of the queue that selectBatch takes is no longer than asked for: the
\* order of the queue is total, so no two events have the same number before them.
LEMMA BatchFits ==
    ASSUME NEW S \in SUBSET Events, NEW size \in Nat, seq \in [Events -> Nat]
    PROVE  Batch(S, size) \subseteq S /\ Cardinality(Batch(S, size)) <= size
  <1> DEFINE Ahead(e) == {f \in S : Before(f, e)}
             B == Batch(S, size)
             rank == [e \in B |-> Cardinality(Ahead(e))]
  <1>1. \A e \in S : Ahead(e) \in SUBSET S /\ IsFiniteSet(Ahead(e)) /\ Cardinality(Ahead(e)) \in Nat
    BY EventsAreFinite
  <1>2. B \subseteq S
    BY DEF Batch
  <1>3. rank \in [B -> 0..(size - 1)]
    BY <1>1 DEF Batch
  <1>4. ASSUME NEW e \in B, NEW f \in B, Before(e, f) PROVE rank[e] # rank[f]
    <2>0. e \in S /\ f \in S /\ \A g \in S : g \in Nat /\ seq[g] \in Nat
      BY <1>2, EventsAreNumbered
    <2>1. /\ \A g \in S : Before(g, e) => Before(g, f)
          /\ ~Before(e, e)
      BY <1>4, <2>0 DEF Before
    <2>2. Cardinality(Ahead(e)) # Cardinality(Ahead(f))
      <3>1. Ahead(e) \subseteq Ahead(f) /\ e \in Ahead(f) /\ e \notin Ahead(e)
        BY <1>4, <2>0, <2>1
      <3> QED  BY <1>1, <2>0, <3>1, FS_Subset
    <2> QED  BY <2>2
  <1>5. \A e, f \in B : e = f \/ Before(e, f) \/ Before(f, e)
    <2>1. \A e \in S : e \in Nat /\ seq[e] \in Nat
      BY EventsAreNumbered
    <2> QED  BY <1>2, <2>1 DEF Before
  <1>6. rank \in Injection(B, 0..(size - 1))
    <2>1. \A e, f \in B : rank[e] = rank[f] => e = f
      BY <1>4, <1>5
    <2> QED  BY <1>3, <2>1 DEF Injection, IsInjective
  <1>7. IsFiniteSet(0..(size - 1)) /\ Cardinality(0..(size - 1)) = size
    BY FS_Interval
  <1> QED  BY <1>2, <1>6, <1>7, FS_Injection

\* What retention keeps of a listing is pending, and has attempts left.
LEMMA KeptHasAttempts ==
    ASSUME TypeOK, NEW listed \in Listings(Pending), NEW e \in Kept(listed, queue)
    PROVE  e \in listed /\ e \in Pending /\ queue[e] \in 0..(MaxAttempts - 1)
  BY QueueConstants DEF TypeOK, Listings, Kept, Survivors, Pending, Absent

-----------------------------------------------------------------------------
(* Types                                                                    *)

\* Nothing under way, and nothing sent.
LEMMA IdleTypes == IdleProducer \in Producers /\ IdleFlusher \in Flushers /\ NoCall \in CallRecords
                   /\ DefaultMeta \in Metas
  BY QueueConstants
     DEF IdleProducer, IdleFlusher, NoCall, DefaultMeta, Untried, Absent, Producers, Flushers,
         CallRecords, Metas, ProducerStages, FlusherStages, Stages, Dispositions

\* What is done to the metadata keeps its type.
LEMMA MetaTypes ==
    ASSUME NEW m \in Metas
    PROVE  /\ \A n \in Nat : [m EXCEPT !.next = n] \in Metas
           /\ \A h \in 0..MaxBatch : [m EXCEPT !.hint = h] \in Metas
           /\ \A b \in BOOLEAN : [m EXCEPT !.throttled = b] \in Metas
           /\ [m EXCEPT !.throttled = FALSE, !.hint = 0] \in Metas
           /\ m.next \in Nat
  <1>1. \A n \in Nat : [m EXCEPT !.next = n] \in Metas
    BY DEF Metas
  <1>2. \A h \in 0..MaxBatch : [m EXCEPT !.hint = h] \in Metas
    BY DEF Metas
  <1>3. \A b \in BOOLEAN : [m EXCEPT !.throttled = b] \in Metas
    BY DEF Metas
  <1>4. [m EXCEPT !.throttled = FALSE, !.hint = 0] \in Metas
    <2>1. 0 \in 0..MaxBatch
      BY QueueConstants
    <2> QED  BY <2>1 DEF Metas
  <1>5. m.next \in Nat
    BY DEF Metas
  <1> QED  BY <1>1, <1>2, <1>3, <1>4, <1>5

\* The flush that heard of its upload, or gave up waiting.
LEMMA HeardType ==
    ASSUME flusher \in Flushers, NEW at \in FlusherStages, NEW h \in 0..MaxBatch,
           NEW out \in SUBSET Events
    PROVE  /\ [flusher EXCEPT !.call = 0, !.at = at, !.meta.hint = h] \in Flushers
           /\ [flusher EXCEPT !.call = 0, !.out = out, !.at = at, !.meta.hint = h] \in Flushers
  <1>1. [flusher.meta EXCEPT !.hint = h] \in Metas
    BY MetaTypes DEF Flushers
  <1> QED  BY <1>1 DEF Flushers

\* A removal leaves the other records as they were.
LEMMA Removal ==
    ASSUME queue \in [Events -> Absent..(MaxAttempts - 1)], NEW S, Remove(S)
    PROVE  /\ queue' \in [Events -> Absent..(MaxAttempts - 1)]
           /\ Pending' = Pending \ S
  BY QueueConstants DEF Remove, Pending, Absent

\* enqueue and the reservation keep every type.
LEMMA ProducerTypes ==
    ASSUME TypeOK, ProducerKnows, UNCHANGED server,
           (\E e \in Events : ReserveRead(e)) \/ ReserveWrite \/ EnqueuePut \/ EnqueueReadMeta
              \/ EnqueueAdvance \/ EnqueuePrune \/ EnqueueEvict
    PROVE  TypeOK'
  <1> USE DEF TypeOK, server
  <1>1. ASSUME NEW e \in Events, ReserveRead(e) PROVE TypeOK'
    <2>1. producer' \in Producers
      BY <1>1, IdleTypes DEF ReserveRead, Producers, ProducerStages
    <2> QED  BY <1>1, <2>1 DEF ReserveRead
  <1>2. CASE ReserveWrite
    <2>1. producer' \in Producers
      BY <1>2 DEF ReserveWrite, Producers, ProducerStages
    <2>2. producer.meta \in Metas /\ producer.meta.next \in Nat /\ producer.meta.next + 1 \in Nat
      BY DEF Producers, Metas
    <2>3. meta' \in Metas
      BY <1>2, <2>2, MetaTypes DEF ReserveWrite
    <2> QED  BY <1>2, <2>1, <2>2, <2>3 DEF ReserveWrite
  <1>3. CASE EnqueuePut
    <2>1. producer' \in Producers
      BY <1>3 DEF EnqueuePut, Producers, ProducerStages
    <2>2. queue' \in [Events -> Absent..(MaxAttempts - 1)]
      <3>1. 0 \in Absent..(MaxAttempts - 1)
        BY QueueConstants DEF Absent
      <3> QED  BY <1>3, <3>1 DEF EnqueuePut
    <2> QED  BY <1>3, <2>1, <2>2 DEF EnqueuePut
  <1>4. CASE EnqueueReadMeta
    <2>1. PICK at \in {"ADVANCE", "PRUNE"} : producer' = [producer EXCEPT !.meta = meta, !.at = at]
      BY <1>4 DEF EnqueueReadMeta
    <2>2. producer' \in Producers
      BY <2>1 DEF Producers, ProducerStages
    <2> QED  BY <1>4, <2>2 DEF EnqueueReadMeta
  <1>5. CASE EnqueueAdvance
    <2>1. seq[producer.event] \in Nat
      BY <1>5 DEF EnqueueAdvance, ProducerKnows
    <2> QED  BY <1>5, <2>1 DEF EnqueueAdvance, Producers, ProducerStages, Metas
  <1>6. CASE EnqueuePrune
    <2>1. producer' \in Producers
      <3>1. ASSUME NEW out \in SUBSET Events, producer' = [producer EXCEPT !.at = "EVICT", !.out = out]
            PROVE  producer' \in Producers
        BY <3>1 DEF Producers, ProducerStages
      <3>2. \A listed \in Listings(Pending) : listed \ Kept(listed, queue) \in SUBSET Events
        BY DEF Listings, Pending
      <3> QED  BY <1>6, <3>1, <3>2, IdleTypes DEF EnqueuePrune
    <2> QED  BY <1>6, <2>1 DEF EnqueuePrune
  <1>7. CASE EnqueueEvict
    BY <1>7, Removal, IdleTypes DEF EnqueueEvict, Producers
  <1> QED  BY <1>1, <1>2, <1>3, <1>4, <1>5, <1>6, <1>7

\* The hint a shrunken batch leaves is within the limit.
LEMMA HintType ==
    ASSUME FlusherKnows, TypeOK
    PROVE  1 \in 0..MaxBatch
           /\ (Cardinality(flusher.batch) >= 2 => Cardinality(flusher.batch) \div 2 \in 0..MaxBatch)
  <1>1. Cardinality(flusher.batch) \in Nat
    BY EventsAreFinite DEF TypeOK, Flushers
  <1> QED  BY <1>1, QueueConstants DEF FlusherKnows

\* flush keeps every type.
LEMMA FlusherTypes ==
    ASSUME TypeOK, FlusherKnows, FlusherMaySettle, AwaitedIsSent, UNCHANGED server,
           FlushStart \/ FlushStep
    PROVE  TypeOK'
  <1> USE DEF TypeOK, server
  <1>1. CASE FlushStart
    BY <1>1 DEF FlushStart, Flushers, FlusherStages
  <1>2. CASE FlushPrune
    <2>1. PICK listed \in Listings(Pending) :
            LET keep == Kept(listed, queue)
                batch == Batch(keep, BatchSize(flusher.meta)) IN
            flusher' = [flusher EXCEPT !.tries = [e \in Events |-> IF e \in batch THEN queue[e] ELSE Absent],
                          !.batch = batch, !.out = listed \ keep,
                          !.at = IF listed = keep THEN AfterPrune(batch) ELSE "EVICT"]
      BY <1>2 DEF FlushPrune
    <2> DEFINE keep == Kept(listed, queue)
               batch == Batch(keep, BatchSize(flusher.meta))
    <2>2. keep \in SUBSET Events /\ listed \in SUBSET Events
      BY DEF Listings, Kept, Survivors, Pending
    <2>3. batch \in SUBSET Events
      BY <2>2 DEF Batch
    <2>4. [e \in Events |-> IF e \in batch THEN queue[e] ELSE Absent] \in [Events -> Int]
      BY QueueConstants DEF Absent
    <2>5. flusher' \in Flushers
      BY <2>1, <2>2, <2>3, <2>4 DEF Flushers, FlusherStages, AfterPrune
    <2> QED  BY <1>2, <2>5 DEF FlushPrune
  <1>3. CASE FlushEvict
    BY <1>3, Removal DEF FlushEvict, Flushers, FlusherStages, AfterPrune
  <1>4. CASE FlushReset
    <2>1. meta' \in Metas
      BY <1>4, MetaTypes DEF FlushReset, Flushers
    <2> QED  BY <1>4, <2>1, IdleTypes DEF FlushReset
  <1>5. ASSUME NEW c \in Calls, Send(c) PROVE TypeOK'
    <2>1. [NoCall EXCEPT !.at = "ARRIVED", !.batch = flusher.batch] \in CallRecords
      BY DEF NoCall, CallRecords, Flushers, Stages, Dispositions
    <2>2. flusher' \in Flushers
      BY <1>5 DEF Send, Flushers, FlusherStages
    <2> QED  BY <1>5, <2>1, <2>2 DEF Send
  <1>6. CASE UploadSucceeds
    <2>1. PICK confirmed \in Confirmations(flusher.call) :
            flusher' = [flusher EXCEPT !.call = 0, !.out = confirmed,
              !.at = IF confirmed = {} THEN Retaining(flusher.batch) ELSE "CONFIRM",
              !.meta.hint = 0]
      BY <1>6 DEF UploadSucceeds
    <2>2. flusher.call \in Calls
      BY <1>6 DEF UploadSucceeds, AwaitedIsSent
    <2>3. confirmed \in SUBSET Events
      BY <2>2 DEF Confirmations, Flushers, CallRecords
    <2>4. flusher' \in Flushers
      <3>1. (IF confirmed = {} THEN Retaining(flusher.batch) ELSE "CONFIRM") \in FlusherStages
        BY DEF Retaining, FlusherStages
      <3>2. 0 \in 0..MaxBatch
        BY QueueConstants
      <3> QED  BY <2>1, <2>3, <3>1, <3>2, HeardType
    <2> QED  BY <1>6, <2>4, IdleTypes DEF UploadSucceeds
  <1>7. ASSUME NEW d \in Dispositions, UploadFails(d) PROVE TypeOK'
    <2> DEFINE n == Cardinality(flusher.batch)
    <2> DEFINE hint == CASE d = "SHRINK_BATCH" -> IF n < 2 THEN 1 ELSE n \div 2
                         [] d = "DROP_BATCH" -> 0
                         [] OTHER -> flusher.meta.hint
               at == IF d = "DROP_BATCH" THEN "DROP" ELSE Retaining(flusher.batch)
    <2>1. hint \in 0..MaxBatch /\ at \in FlusherStages
      <3>1. n \in Nat
        BY EventsAreFinite DEF Flushers
      <3>2. flusher.meta.hint \in 0..MaxBatch
        BY DEF Flushers, Metas
      <3>3. hint \in 0..MaxBatch
        BY <3>1, <3>2, HintType, QueueConstants
      <3>4. at \in FlusherStages
        BY DEF Retaining, FlusherStages
      <3> QED  BY <3>3, <3>4
    <2>2. flusher' \in Flushers
      <3>1. flusher' = [flusher EXCEPT !.call = 0, !.at = at, !.meta.hint = hint]
        BY <1>7 DEF UploadFails
      <3> HIDE DEF hint, at
      <3> QED  BY <2>1, <3>1, HeardType
    <2>3. call' \in [Calls -> CallRecords]
      BY <1>7, IdleTypes DEF UploadFails
    <2> QED  BY <1>7, <2>2, <2>3 DEF UploadFails
  <1>8. CASE FlushConfirm
    BY <1>8, Removal DEF FlushConfirm, Flushers, FlusherStages, Retaining
  <1>9. CASE FlushDrop
    BY <1>9, Removal DEF FlushDrop, Flushers, FlusherStages
  <1>10. CASE FlushExhaust
    BY <1>10, Removal DEF FlushExhaust, Flushers, FlusherStages, Exhausted
  <1>11. CASE FlushRetain
    <2>1. \A e \in flusher.batch : Bumped(e) \in Absent..(MaxAttempts - 1)
      BY <1>11, QueueConstants
         DEF FlushRetain, FlusherKnows, FlusherMaySettle, Exhausted, Bumped, Absent
    <2> QED  BY <1>11, <2>1 DEF FlushRetain, Flushers, FlusherStages
  <1>12. CASE FlushWriteMeta
    BY <1>12, IdleTypes DEF FlushWriteMeta, Flushers, Metas
  <1> QED  BY <1>1, <1>2, <1>3, <1>4, <1>5, <1>6, <1>7, <1>8, <1>9, <1>10, <1>11, <1>12 DEF FlushStep

\* What the world does to the phone keeps every type: time, age and crashes.
LEMMA WorldTypes ==
    ASSUME TypeOK, UNCHANGED server, ThrottleElapses \/ Crash \/ \E e \in Events : Ages(e)
    PROVE  TypeOK'
  <1> USE DEF TypeOK, server
  <1>1. CASE ThrottleElapses
    <2>1. [producer.meta EXCEPT !.throttled = FALSE] \in Metas /\ meta' \in Metas
      BY <1>1, MetaTypes DEF ThrottleElapses, Producers
    <2>2. producer' \in Producers
      BY <1>1, <2>1 DEF ThrottleElapses, Producers
    <2> QED  BY <1>1, <2>1, <2>2 DEF ThrottleElapses
  <1>2. CASE Crash
    BY <1>2, IdleTypes, QueueConstants DEF Crash
  <1>3. CASE \E e \in Events : Ages(e)
    BY <1>3 DEF Ages
  <1> QED  BY <1>1, <1>2, <1>3

\* An answer is a call of the right type.
LEMMA AnswerTypes ==
    ASSUME TypeOK, NEW c \in Calls, NEW d \in Dispositions \cup {"OK"}, Answer(c, d)
    PROVE  call' \in [Calls -> CallRecords]
  BY DEF TypeOK, Answer, CallRecords, NoCall, Stages

\* The server keeps every type.
LEMMA ServerTypes ==
    ASSUME TypeOK, UNCHANGED phone, IngestionNext
    PROVE  TypeOK'
  <1> USE DEF TypeOK, phone
  <1>1. ASSUME NEW c \in Calls, Refuse(c) \/ InvocationFails(c) PROVE TypeOK'
    BY <1>1, AnswerTypes DEF Refuse, InvocationFails, Dispositions, server
  <1>2. ASSUME NEW c \in Calls, ReserveWindow(c) PROVE TypeOK'
    <2>1. call' \in [Calls -> CallRecords]
      <3>1. CASE Answer(c, "RETRY")
        BY <3>1, AnswerTypes DEF Dispositions
      <3>2. CASE call' = [call EXCEPT ![c].at = "CONSENT", ![c].paused = ~sharing /\ ~shown]
        <4>1. PICK b \in BOOLEAN : b = (~sharing /\ ~shown)
          OBVIOUS
        <4>2. call' = [call EXCEPT ![c].at = "CONSENT", ![c].paused = b]
          BY <3>2, <4>1, Zenon
        <4> QED  BY <4>2 DEF CallRecords, Stages
      <3> QED  BY <1>2, <3>1, <3>2 DEF ReserveWindow
    <2> QED  BY <1>2, <2>1 DEF ReserveWindow, server
  <1>3. ASSUME NEW c \in Calls, PlanBatch(c) PROVE TypeOK'
    <2>1. call[c].batch \in SUBSET Events
      BY DEF CallRecords
    <2>2. call' \in [Calls -> CallRecords]
      <3>1. CASE Answer(c, "OK")
        BY <3>1, AnswerTypes
      <3>2. CASE call' = [call EXCEPT ![c].at = "CURRENT", ![c].accepted = call[c].batch \ Implausible]
        BY <2>1, <3>2 DEF CallRecords, Stages
      <3> QED  BY <1>3, <3>1, <3>2 DEF PlanBatch
    <2> QED  BY <1>3, <2>1, <2>2 DEF PlanBatch, server
  <1>4. ASSUME NEW c \in Calls, PutCurrent(c) PROVE TypeOK'
    <2>1. call[c].accepted \in SUBSET Events
      BY DEF CallRecords
    <2>2. Newest(call[c].accepted) \in Events \cup {0}
      <3>1. IsFiniteSet(call[c].accepted) /\ call[c].accepted \subseteq Nat
        BY <2>1, EventsAreFinite, EventsAreNumbered
      <3>2. CASE call[c].accepted = {}
        BY <3>2 DEF Newest
      <3>3. CASE call[c].accepted # {}
        BY <2>1, <3>1, <3>3, NewestIsGreatest
      <3> QED  BY <3>2, <3>3
    <2>3. call' \in [Calls -> CallRecords]
      BY <1>4 DEF PutCurrent, CallRecords, Stages
    <2> QED  BY <1>4, <2>2, <2>3 DEF PutCurrent, NewerFix
  <1>5. ASSUME NEW c \in Calls, AppendHistory(c) PROVE TypeOK'
    <2>1. PICK S \in SUBSET call[c].accepted : stored' = stored \cup S
      BY <1>5 DEF AppendHistory
    <2>2. S \subseteq Events
      BY DEF CallRecords
    <2>3. call' \in [Calls -> CallRecords]
      BY <1>5, AnswerTypes DEF AppendHistory, Dispositions
    <2> QED  BY <1>5, <2>1, <2>2, <2>3 DEF AppendHistory
  <1>6. CASE ToggleSharing
    <2>1. call' \in [Calls -> CallRecords]
      BY <1>6 DEF ToggleSharing, CallRecords
    <2>2. toggles' \in 0..MaxToggles
      BY <1>6, IngestionConstants DEF ToggleSharing
    <2> QED  BY <1>6, <2>1, <2>2 DEF ToggleSharing
  <1>7. CASE IndexCatchesUp
    BY <1>7 DEF IndexCatchesUp
  <1> QED  BY <1>1, <1>2, <1>3, <1>4, <1>5, <1>6, <1>7 DEF IngestionNext, ServerStep

\* Every step keeps every type.
LEMMA TypeStep == ASSUME IInv, Next PROVE TypeOK'
  <1>1. /\ TypeOK /\ ProducerKnows /\ FlusherKnows /\ FlusherMaySettle /\ AwaitedIsSent
    BY DEF IInv
  <1>2. CASE Queue
    BY <1>1, <1>2, ProducerTypes, FlusherTypes, WorldTypes DEF Queue, QueueNext
  <1>3. CASE Server
    BY <1>1, <1>3, ServerTypes DEF Server
  <1>4. ASSUME NEW c \in Calls, AnswerLost(c) PROVE TypeOK'
    BY <1>1, <1>4, IdleTypes DEF AnswerLost, TypeOK, phone, server
  <1> QED  BY <1>2, <1>3, <1>4 DEF Next

-----------------------------------------------------------------------------
(* Nothing is lost: every step is one the promise allows.                   *)

Promised == D!Next \/ UNCHANGED <<Pending, stored, dropped>>

\* A step that leaves records, history and what was given up alone.
LEMMA Stuttering ==
    ASSUME UNCHANGED <<queue, stored, dropped>> PROVE Promised
  BY DEF Promised, Pending

\* Records are removed with a reason noted, or because they are safe.
LEMMA RemovalPromised ==
    ASSUME TypeOK, NEW S \in SUBSET Events, Remove(S), UNCHANGED stored,
           \/ dropped' = dropped \cup S
           \/ S \subseteq stored \cup dropped /\ UNCHANGED dropped
    PROVE  Promised
  <1>1. Pending' = Pending \ S
    BY Removal DEF TypeOK
  <1>2. D!Discard(S) \/ D!Release(S)
    BY <1>1 DEF D!Discard, D!Release
  <1> QED  BY <1>2 DEF Promised, D!Next

\* Records are written.
LEMMA HoldPromised ==
    ASSUME NEW S \in SUBSET Events, Pending' = Pending \cup S, UNCHANGED <<stored, dropped>>
    PROVE  Promised
  BY DEF Promised, D!Next, D!Hold

\* The phone's steps.
LEMMA QueuePromised ==
    ASSUME IInv, QueueNext, UNCHANGED server PROVE Promised
  <1>1. TypeOK /\ UNCHANGED stored
    BY DEF IInv, server
  <1>2. CASE \/ \E e \in Events : ReserveRead(e) \/ Ages(e)
             \/ ReserveWrite \/ EnqueueReadMeta \/ EnqueueAdvance \/ EnqueuePrune
             \/ FlushStart \/ FlushPrune \/ FlushReset \/ (\E c \in Calls : Send(c))
             \/ UploadSucceeds \/ (\E d \in Dispositions : UploadFails(d))
             \/ FlushWriteMeta \/ ThrottleElapses \/ Crash
    BY <1>1, <1>2, Stuttering
       DEF ReserveRead, Ages, ReserveWrite, EnqueueReadMeta, EnqueueAdvance, EnqueuePrune,
           FlushStart, FlushPrune, FlushReset, Send, UploadSucceeds, UploadFails,
           FlushWriteMeta, ThrottleElapses, Crash
  <1>3. CASE EnqueuePut
    <2>1. producer.event \in Events
      BY <1>3 DEF EnqueuePut, IInv, ProducerKnows
    <2>2. Pending' = Pending \cup {producer.event}
      BY <1>1, <1>3, <2>1 DEF EnqueuePut, Pending, TypeOK, Absent
    <2> QED  BY <1>1, <1>3, <2>1, <2>2, HoldPromised DEF EnqueuePut
  <1>4. CASE EnqueueEvict \/ FlushEvict
    <2>1. producer.out \in SUBSET Events /\ flusher.out \in SUBSET Events
      BY <1>1 DEF TypeOK, Producers, Flushers
    <2> QED  BY <1>1, <1>4, <2>1, RemovalPromised DEF EnqueueEvict, FlushEvict
  <1>5. CASE FlushConfirm
    <2>1. flusher.out \in SUBSET Events /\ flusher.out \subseteq stored \cup dropped
      BY <1>1, <1>5 DEF FlushConfirm, IInv, FlusherMaySettle, TypeOK, Flushers
    <2> QED  BY <1>1, <1>5, <2>1, RemovalPromised DEF FlushConfirm
  <1>6. CASE FlushDrop \/ FlushExhaust
    <2>1. flusher.batch \in SUBSET Events /\ Exhausted(flusher.batch) \in SUBSET Events
      BY <1>1 DEF TypeOK, Flushers, Exhausted
    <2> QED  BY <1>1, <1>6, <2>1, RemovalPromised DEF FlushDrop, FlushExhaust
  <1>7. CASE FlushRetain
    <2>1. flusher.batch \in SUBSET Events
      BY <1>1 DEF TypeOK, Flushers
    <2>2. \A e \in flusher.batch : Bumped(e) # Absent
      BY <1>1 DEF IInv, FlusherKnows, Bumped, Absent
    <2>3. Pending' = Pending \cup flusher.batch
      BY <1>1, <1>7, <2>1, <2>2 DEF FlushRetain, Pending, TypeOK
    <2> QED  BY <1>1, <1>7, <2>1, <2>3, HoldPromised DEF FlushRetain
  <1> QED  BY <1>2, <1>3, <1>4, <1>5, <1>6, <1>7 DEF QueueNext, FlushStep

\* The server's steps.
LEMMA ServerPromised ==
    ASSUME IInv, IngestionNext, UNCHANGED phone PROVE Promised
  <1>1. TypeOK /\ UNCHANGED queue /\ UNCHANGED Pending
    BY DEF IInv, phone, Pending
  <1>2. ASSUME NEW c \in Calls, PlanBatch(c) PROVE Promised
    <2>1. PICK S \in SUBSET call[c].batch : dropped' = dropped \cup S
      BY <1>2 DEF PlanBatch
    <2>2. S \in SUBSET Events /\ UNCHANGED stored
      BY <1>1, <1>2 DEF PlanBatch, server, TypeOK, CallRecords
    <2>3. D!GiveUp(S)
      BY <1>1, <2>1, <2>2 DEF D!GiveUp
    <2> QED  BY <2>2, <2>3 DEF Promised, D!Next
  <1>3. ASSUME NEW c \in Calls, AppendHistory(c) PROVE Promised
    <2>1. PICK S \in SUBSET call[c].accepted : stored' = stored \cup S
      BY <1>3 DEF AppendHistory
    <2>2. S \in SUBSET Events /\ UNCHANGED dropped
      BY <1>1, <1>3 DEF AppendHistory, TypeOK, CallRecords
    <2>3. S \subseteq Pending \cup stored \cup dropped
      BY DEF IInv, CallsAreHonest, CallIsHonest, Known
    <2>4. D!Store(S)
      BY <1>1, <2>1, <2>2, <2>3 DEF D!Store
    <2> QED  BY <2>2, <2>4 DEF Promised, D!Next
  <1>4. CASE ~\E c \in Calls : PlanBatch(c) \/ AppendHistory(c)
    BY <1>1, <1>4, Stuttering
       DEF IngestionNext, ServerStep, Refuse, ReserveWindow, PutCurrent, InvocationFails,
           ToggleSharing, IndexCatchesUp, server
  <1> QED  BY <1>2, <1>3, <1>4

\* Every step is promised.
LEMMA NextPromised == ASSUME IInv, Next PROVE Promised
  BY QueuePromised, ServerPromised, Stuttering
     DEF Next, Queue, Server, AnswerLost, phone, server

\* So what was accounted for stays so, and what is stored or given up stays it.
LEMMA KnownGrows ==
    ASSUME IInv, Next
    PROVE  Known \subseteq Known' /\ stored \subseteq stored' /\ dropped \subseteq dropped'
  BY NextPromised
     DEF Promised, Known, D!Next, D!Hold, D!Store, D!GiveUp, D!Release, D!Discard

-----------------------------------------------------------------------------
(* What the phone knows                                                     *)

\* The producer holds the fix it captured until it is idle again.
LEMMA ProducerStep == ASSUME IInv, Next PROVE ProducerKnows'
  <1>1. TypeOK /\ ProducerKnows
    BY DEF IInv
  <1>2. ASSUME NEW e \in Events, ReserveRead(e) PROVE ProducerKnows'
    BY <1>2 DEF ReserveRead, ProducerKnows, IdleProducer
  <1>3. CASE ReserveWrite \/ EnqueuePut \/ EnqueueReadMeta \/ EnqueueAdvance \/ ThrottleElapses
    <2>1. producer'.event = producer.event /\ (producer.at = "IDLE" => producer'.at = "IDLE")
      BY <1>1, <1>3
         DEF ReserveWrite, EnqueuePut, EnqueueReadMeta, EnqueueAdvance, ThrottleElapses,
             TypeOK, Producers
    <2> QED  BY <1>1, <2>1 DEF ProducerKnows
  <1>4. CASE EnqueuePrune \/ EnqueueEvict \/ Crash
    <2>1. CASE producer' = IdleProducer
      BY <2>1 DEF IdleProducer, ProducerKnows
    <2>2. ASSUME NEW out, producer' = [producer EXCEPT !.at = "EVICT", !.out = out], EnqueuePrune
          PROVE  ProducerKnows'
      BY <1>1, <2>2 DEF EnqueuePrune, ProducerKnows, TypeOK, Producers
    <2> QED  BY <1>4, <2>1, <2>2 DEF EnqueuePrune, EnqueueEvict, Crash
  <1>5. CASE (\E e \in Events : Ages(e)) \/ FlushStart \/ FlushStep
    <2>1. UNCHANGED producer
      BY <1>5
         DEF Ages, FlushStep, FlushStart, FlushPrune, FlushEvict, FlushReset, Send,
             UploadSucceeds, UploadFails, FlushConfirm, FlushDrop, FlushExhaust, FlushRetain,
             FlushWriteMeta
    <2> QED  BY <1>1, <2>1 DEF ProducerKnows
  <1>6. CASE Server \/ \E c \in Calls : AnswerLost(c)
    BY <1>1, <1>6 DEF Server, AnswerLost, phone, ProducerKnows
  <1> QED  BY <1>2, <1>3, <1>4, <1>5, <1>6 DEF Next, Queue, QueueNext

\* A flush that keeps its batch and its attempts, or gives some up, knows what it knew.
LEMMA BatchShrinks ==
    ASSUME IInv, Next, flusher'.batch \subseteq flusher.batch, flusher'.tries = flusher.tries
    PROVE  FlusherKnows'
  <1>1. flusher'.batch \subseteq Known'
    BY KnownGrows DEF IInv, FlusherKnows
  <1>2. Cardinality(flusher'.batch) <= MaxBatch
    <2>1. flusher.batch \in SUBSET Events /\ flusher'.batch \in SUBSET flusher.batch
      BY DEF IInv, TypeOK, Flushers
    <2>2. Cardinality(flusher'.batch) \in Nat /\ Cardinality(flusher.batch) \in Nat
          /\ Cardinality(flusher'.batch) <= Cardinality(flusher.batch)
      BY <2>1, EventsAreFinite
    <2> QED  BY <2>2, QueueConstants DEF IInv, FlusherKnows
  <1>3. \A e \in flusher'.batch : flusher'.tries[e] \in 0..(MaxAttempts - 1)
    BY DEF IInv, FlusherKnows
  <1> QED  BY <1>1, <1>2, <1>3 DEF FlusherKnows

\* Nothing taken up: nothing to know.
LEMMA EmptyBatch == ASSUME flusher' = IdleFlusher PROVE FlusherKnows'
  BY FS_EmptySet, QueueConstants DEF FlusherKnows, IdleFlusher

\* What the flush takes up after its retention is pending, fits and has attempts left.
LEMMA FlusherStep == ASSUME IInv, Next PROVE FlusherKnows'
  <1>1. TypeOK /\ flusher \in Flushers
    BY DEF IInv, TypeOK
  <1>2. CASE Queue /\ FlushPrune
    <2>1. PICK listed \in Listings(Pending) :
            LET keep == Kept(listed, queue)
                batch == Batch(keep, BatchSize(flusher.meta)) IN
            flusher' = [flusher EXCEPT !.tries = [e \in Events |-> IF e \in batch THEN queue[e] ELSE Absent],
                          !.batch = batch, !.out = listed \ keep,
                          !.at = IF listed = keep THEN AfterPrune(batch) ELSE "EVICT"]
      BY <1>2 DEF FlushPrune
    <2> DEFINE size == BatchSize(flusher.meta)
               keep == Kept(listed, queue)
               batch == Batch(keep, size)
    <2>2. size \in Nat /\ size <= MaxBatch
      BY <1>1, QueueConstants DEF BatchSize, Flushers, Metas
    <2>3. \A e \in keep : e \in Pending /\ queue[e] \in 0..(MaxAttempts - 1)
      BY <1>1, KeptHasAttempts
    <2>4. keep \in SUBSET Events
      BY <2>3 DEF Pending
    <2>5. batch \subseteq keep /\ Cardinality(batch) <= size
      BY <1>1, <2>2, <2>4, BatchFits DEF TypeOK
    <2>6. Cardinality(batch) \in Nat
      BY <2>4, <2>5, EventsAreFinite
    <2>7. /\ flusher'.batch = batch
          /\ flusher'.tries = [e \in Events |-> IF e \in batch THEN queue[e] ELSE Absent]
      BY <1>1, <2>1 DEF Flushers
    <2> HIDE DEF batch, keep, size
    <2>8. flusher'.batch \subseteq Known'
      BY <2>3, <2>5, <2>7, KnownGrows DEF Known
    <2>9. \A e \in flusher'.batch : flusher'.tries[e] \in 0..(MaxAttempts - 1)
      BY <2>3, <2>4, <2>5, <2>7
    <2>10. Cardinality(flusher'.batch) <= MaxBatch
      BY <2>2, <2>5, <2>6, <2>7, QueueConstants
    <2> QED  BY <2>8, <2>9, <2>10 DEF FlusherKnows
  <1>3. CASE Queue /\ (FlushReset \/ FlushWriteMeta \/ Crash)
    BY <1>3, EmptyBatch DEF FlushReset, FlushWriteMeta, Crash
  <1>4. CASE \/ Queue /\ ~(FlushPrune \/ FlushReset \/ FlushWriteMeta \/ Crash)
             \/ Server \/ \E c \in Calls : AnswerLost(c)
    <2>1. flusher'.batch \subseteq flusher.batch /\ flusher'.tries = flusher.tries
      BY <1>1, <1>4
         DEF Queue, QueueNext, FlushStep, ReserveRead, Ages, ReserveWrite, EnqueuePut,
             EnqueueReadMeta, EnqueueAdvance, EnqueuePrune, EnqueueEvict, FlushStart, FlushEvict,
             Send, UploadSucceeds, UploadFails, FlushConfirm, FlushDrop, FlushExhaust,
             FlushRetain, ThrottleElapses, Server, AnswerLost, phone, Flushers
    <2> QED  BY <2>1, BatchShrinks
  <1> QED  BY <1>2, <1>3, <1>4 DEF Next

\* retain goes on to the writing back only with nothing out of attempts.
LEMMA RetainingIsSettled ==
    ASSUME NEW S, Retaining(S) = "RETAIN" PROVE Exhausted(S) = {}
  BY DEF Retaining

\* A flush that stays where it is, with what it had, is as settled as before.
LEMMA StaysSettled ==
    ASSUME IInv, Next, UNCHANGED flusher PROVE FlusherMaySettle'
  BY KnownGrows DEF IInv, FlusherMaySettle, Exhausted, Bumped

\* What the flush writes was settled by the step before.
LEMMA SettleStep == ASSUME IInv, Next PROVE FlusherMaySettle'
  <1>1. TypeOK /\ flusher \in Flushers /\ FlusherMaySettle /\ AwaitedIsSent
    BY DEF IInv, TypeOK
  <1>2. CASE Queue /\ UploadSucceeds
    <2>1. PICK confirmed \in Confirmations(flusher.call) :
            flusher' = [flusher EXCEPT !.call = 0, !.out = confirmed,
              !.at = IF confirmed = {} THEN Retaining(flusher.batch) ELSE "CONFIRM",
              !.meta.hint = 0]
      BY <1>2 DEF UploadSucceeds
    <2>2. /\ flusher'.at = IF confirmed = {} THEN Retaining(flusher.batch) ELSE "CONFIRM"
          /\ flusher'.out = confirmed /\ flusher'.batch = flusher.batch
          /\ flusher'.tries = flusher.tries
      BY <1>1, <2>1 DEF Flushers
    <2>3. flusher.call \in Calls /\ Confirms(flusher.call)
          /\ call[flusher.call].batch = flusher.batch
      BY <1>1, <1>2 DEF UploadSucceeds, Succeeded, AwaitedIsSent, Confirms
    <2>4. confirmed \subseteq stored \cup dropped
      BY <2>3 DEF IInv, CallsAreHonest, CallIsHonest, Confirmations
    <2>5. flusher'.at = "RETAIN" => Exhausted(flusher.batch) = {}
      BY <2>2, RetainingIsSettled
    <2>6. Exhausted(flusher.batch) = {} => Exhausted(flusher.batch)' = {}
      BY <2>2 DEF Exhausted, Bumped
    <2> QED  BY <2>2, <2>4, <2>5, <2>6, KnownGrows DEF FlusherMaySettle
  <1>3. ASSUME NEW d \in Dispositions, Queue, UploadFails(d) PROVE FlusherMaySettle'
    <2>1. /\ flusher'.at = IF d = "DROP_BATCH" THEN "DROP" ELSE Retaining(flusher.batch)
          /\ flusher'.batch = flusher.batch /\ flusher'.tries = flusher.tries
      BY <1>1, <1>3 DEF UploadFails, Flushers
    <2>2. flusher'.at = "RETAIN" => Exhausted(flusher.batch) = {}
      BY <2>1, RetainingIsSettled
    <2>3. flusher'.at # "CONFIRM"
      BY <2>1 DEF Retaining
    <2> QED  BY <2>1, <2>2, <2>3 DEF FlusherMaySettle, Exhausted, Bumped
  <1>4. CASE Queue /\ FlushConfirm
    <2> DEFINE left == flusher.batch \ flusher.out
    <2>1. flusher'.at = Retaining(left) /\ flusher'.batch = left /\ flusher'.tries = flusher.tries
      BY <1>1, <1>4 DEF FlushConfirm, Flushers
    <2>2. flusher'.at = "RETAIN" => Exhausted(left) = {}
      BY <2>1, RetainingIsSettled
    <2>3. flusher'.at # "CONFIRM"
      BY <2>1 DEF Retaining
    <2> QED  BY <2>1, <2>2, <2>3 DEF FlusherMaySettle, Exhausted, Bumped
  <1>5. CASE Queue /\ FlushExhaust
    <2>1. /\ flusher'.batch = flusher.batch \ Exhausted(flusher.batch)
          /\ flusher'.tries = flusher.tries /\ flusher'.at # "CONFIRM"
      BY <1>1, <1>5 DEF FlushExhaust, Flushers
    <2> QED  BY <2>1 DEF FlusherMaySettle, Exhausted, Bumped
  <1>6. CASE \/ Queue /\ (FlushStart \/ FlushPrune \/ FlushEvict \/ FlushReset
                            \/ (\E c \in Calls : Send(c)) \/ FlushDrop \/ FlushRetain
                            \/ FlushWriteMeta \/ Crash)
    <2>0. \A S : AfterPrune(S) \notin {"RETAIN", "CONFIRM"}
      BY DEF AfterPrune
    <2>1. flusher'.at \notin {"RETAIN", "CONFIRM"}
      <3>1. CASE FlushPrune
        BY <1>1, <2>0, <3>1 DEF FlushPrune, Flushers
      <3>2. CASE FlushEvict
        BY <1>1, <2>0, <3>2 DEF FlushEvict, Flushers
      <3>3. CASE FlushReset \/ FlushWriteMeta \/ Crash
        BY <3>3 DEF FlushReset, FlushWriteMeta, Crash, IdleFlusher
      <3>4. CASE FlushStart \/ (\E c \in Calls : Send(c)) \/ FlushDrop \/ FlushRetain
        BY <1>1, <3>4 DEF FlushStart, Send, FlushDrop, FlushRetain, Flushers
      <3> QED  BY <1>6, <3>1, <3>2, <3>3, <3>4
    <2> QED  BY <2>1 DEF FlusherMaySettle
  <1>7. CASE \/ Queue /\ \/ \E e \in Events : ReserveRead(e) \/ Ages(e)
                         \/ ReserveWrite \/ EnqueuePut \/ EnqueueReadMeta \/ EnqueueAdvance
                         \/ EnqueuePrune \/ EnqueueEvict \/ ThrottleElapses
             \/ Server \/ \E c \in Calls : AnswerLost(c)
    <2>1. UNCHANGED flusher
      BY <1>7
         DEF ReserveRead, Ages, ReserveWrite, EnqueuePut, EnqueueReadMeta, EnqueueAdvance,
             EnqueuePrune, EnqueueEvict, ThrottleElapses, Server, AnswerLost, phone
    <2> QED  BY <2>1, StaysSettled
  <1> QED  BY <1>2, <1>3, <1>4, <1>5, <1>6, <1>7 DEF Next, Queue, QueueNext, FlushStep

-----------------------------------------------------------------------------
(* What the server knows                                                    *)

\* The current fix never goes back: putIfNewer is conditional.
LEMMA CurrentAdvances ==
    ASSUME IInv, Next PROVE current \in Nat /\ current' \in Nat /\ current <= current'
  <1>1. current \in Nat /\ current' \in Nat
    <2>1. current \in Events \cup {0}
      BY DEF IInv, TypeOK
    <2>2. current' \in Events \cup {0}
      BY TypeStep DEF TypeOK
    <2> QED  BY <2>1, <2>2, EventsAreNumbered
  <1>2. CASE UNCHANGED current
    BY <1>1, <1>2
  <1>3. ASSUME NEW c \in Calls, PutCurrent(c) PROVE current <= current'
    BY <1>1, <1>3 DEF PutCurrent, NewerFix
  <1>4. UNCHANGED current \/ \E c \in Calls : PutCurrent(c)
    BY DEF Next, Queue, Server, IngestionNext, ServerStep, Refuse, ReserveWindow, PlanBatch,
           AppendHistory, InvocationFails, ToggleSharing, IndexCatchesUp, AnswerLost, server
  <1> QED  BY <1>1, <1>2, <1>3, <1>4

\* The switch and its index move only by steps of their own.
LEMMA SwitchStep ==
    ASSUME Next
    PROVE  UNCHANGED <<sharing, shown>> \/ ToggleSharing \/ IndexCatchesUp
  BY DEF Next, Queue, Server, IngestionNext, ServerStep, Refuse, ReserveWindow, PlanBatch,
         PutCurrent, AppendHistory, InvocationFails, AnswerLost, server

\* A call nobody touches, but perhaps to note that its pause is over, stays honest.
LEMMA StaysHonest ==
    ASSUME IInv, Next, NEW c \in Calls,
           call'[c].at = call[c].at, call'[c].batch = call[c].batch,
           call'[c].accepted = call[c].accepted, call'[c].answer = call[c].answer,
           call'[c].paused => call[c].paused /\ ~ToggleSharing
    PROVE  CallIsHonest(c)'
  <1>1. CallIsHonest(c) /\ call[c].accepted \in SUBSET Events
    BY DEF IInv, CallsAreHonest, TypeOK, CallRecords
  <1>2. call'[c].paused => ~sharing' /\ ~shown' /\ call'[c].at \notin {"CURRENT", "APPEND"}
    BY <1>1, SwitchStep DEF CallIsHonest, IndexCatchesUp
  <1>3. call'[c].at = "APPEND" => \A e \in call'[c].accepted : e <= current'
    <2>1. \A e \in call[c].accepted : e \in Nat
      BY <1>1, EventsAreNumbered
    <2> QED  BY <1>1, <2>1, CurrentAdvances DEF CallIsHonest
  <1>4. Confirms(c)' = Confirms(c)
    BY DEF Confirms
  <1> QED  BY <1>1, <1>2, <1>3, <1>4, KnownGrows DEF CallIsHonest

\* A call that is free, or came back an error, says nothing.
LEMMA EmptyIsHonest ==
    ASSUME NEW c \in Calls, NEW d \in Dispositions,
           call'[c] = NoCall \/ call'[c] = [NoCall EXCEPT !.at = "ANSWERED", !.answer = d]
    PROVE  CallIsHonest(c)'
  <1>1. /\ call'[c].batch = {} /\ call'[c].accepted = {} /\ call'[c].paused = FALSE
        /\ call'[c].at \in {"FREE", "ANSWERED"} /\ call'[c].answer # "OK"
    <2>1. CASE call'[c] = NoCall
      BY <2>1 DEF NoCall
    <2>2. CASE call'[c] = [NoCall EXCEPT !.at = "ANSWERED", !.answer = d]
      BY <2>2 DEF NoCall, Dispositions
    <2> QED  BY <2>1, <2>2
  <1> QED  BY <1>1 DEF CallIsHonest, Confirms

\* An answer leaves the other calls alone.
LEMMA AnswerAt ==
    ASSUME TypeOK, NEW c \in Calls, NEW d \in Dispositions \cup {"OK"}, Answer(c, d)
    PROVE  /\ \A b \in Calls \ {c} : call'[b] = call[b]
           /\ d # "OK" => call'[c] = [NoCall EXCEPT !.at = "ANSWERED", !.answer = d]
           /\ d = "OK" => call'[c] = [call[c] EXCEPT !.at = "ANSWERED", !.answer = "OK"]
  BY DEF TypeOK, Answer

\* Only the switch can end a pause before the index shows it, so the other steps
\* leave the pause of every call to the step itself.
LEMMA OthersStayHonest ==
    ASSUME IInv, Next, ~ToggleSharing, NEW c \in Calls, call'[c] = call[c]
    PROVE  CallIsHonest(c)'
  BY StaysHonest

\* The phone's steps: a call begins with a batch the phone accounts for.
LEMMA QueueHonest ==
    ASSUME IInv, Next, QueueNext, UNCHANGED server, NEW b \in Calls PROVE CallIsHonest(b)'
  <1>1. TypeOK /\ FlusherKnows /\ AwaitedIsSent /\ call \in [Calls -> CallRecords]
    BY DEF IInv, TypeOK
  <1>2. ASSUME ~ToggleSharing PROVE call'[b] = call[b] => CallIsHonest(b)'
    BY <1>2, OthersStayHonest
  <1>3. ~ToggleSharing
    BY <1>1 DEF ToggleSharing, server, TypeOK
  <1>4. ASSUME NEW c \in Calls, Send(c) PROVE CallIsHonest(b)'
    <2>1. CASE b = c
      <3>1. call'[b] = [NoCall EXCEPT !.at = "ARRIVED", !.batch = flusher.batch]
        BY <1>1, <1>4, <2>1 DEF Send
      <3>2. /\ call'[b].batch = flusher.batch /\ call'[b].accepted = {}
            /\ call'[b].at = "ARRIVED" /\ call'[b].paused = FALSE
        BY <3>1 DEF NoCall
      <3> QED  BY <1>1, <3>2, KnownGrows DEF CallIsHonest, Confirms, FlusherKnows
    <2>2. CASE b # c
      BY <1>1, <1>2, <1>3, <1>4, <2>2 DEF Send
    <2> QED  BY <2>1, <2>2
  <1>5. CASE UploadSucceeds \/ \E d \in Dispositions : UploadFails(d)
    <2>1. call'[b] = NoCall \/ call'[b] = call[b]
      BY <1>1, <1>5 DEF UploadSucceeds, UploadFails, AwaitedIsSent
    <2> QED  BY <1>2, <1>3, <2>1, EmptyIsHonest DEF Dispositions
  <1>6. CASE ~(\/ \E c \in Calls : Send(c)
               \/ UploadSucceeds \/ \E d \in Dispositions : UploadFails(d))
    <2>1. UNCHANGED call
      BY <1>6
         DEF QueueNext, FlushStep, ReserveRead, Ages, ReserveWrite, EnqueuePut, EnqueueReadMeta,
             EnqueueAdvance, EnqueuePrune, EnqueueEvict, FlushStart, FlushPrune, FlushEvict,
             FlushReset, FlushConfirm, FlushDrop, FlushExhaust, FlushRetain, FlushWriteMeta,
             ThrottleElapses, Crash
    <2> QED  BY <1>2, <1>3, <2>1
  <1> QED  BY <1>4, <1>5, <1>6

\* The server's steps: what is accepted was sent, and it is current before it is stored.
LEMMA ServerHonest ==
    ASSUME IInv, Next, IngestionNext, UNCHANGED phone, NEW b \in Calls PROVE CallIsHonest(b)'
  <1>1. TypeOK /\ call \in [Calls -> CallRecords] /\ CallIsHonest(b)
    BY DEF IInv, TypeOK, CallsAreHonest
  <1>2. ASSUME ~ToggleSharing PROVE call'[b] = call[b] => CallIsHonest(b)'
    BY <1>2, OthersStayHonest
  <1>3. ASSUME NEW c \in Calls, UNCHANGED sharing PROVE ~ToggleSharing
    BY <1>1, <1>3 DEF ToggleSharing, TypeOK
  <1>4. ASSUME NEW c \in Calls, NEW d \in Dispositions, Answer(c, d), UNCHANGED sharing
        PROVE  CallIsHonest(b)'
    <2>1. call'[b] = call[b] \/ call'[b] = [NoCall EXCEPT !.at = "ANSWERED", !.answer = d]
      BY <1>1, <1>4, AnswerAt DEF Dispositions
    <2> QED  BY <1>2, <1>3, <1>4, <2>1, EmptyIsHonest
  <1>5. ASSUME NEW c \in Calls, Refuse(c) \/ InvocationFails(c) PROVE CallIsHonest(b)'
    BY <1>4, <1>5 DEF Refuse, InvocationFails, server, Dispositions
  <1>6. ASSUME NEW c \in Calls, ReserveWindow(c) PROVE CallIsHonest(b)'
    <2>1. UNCHANGED <<sharing, shown>>
      BY <1>6 DEF ReserveWindow, server
    <2>2. CASE Answer(c, "RETRY")
      BY <1>4, <2>1, <2>2 DEF Dispositions
    <2>3. CASE call' = [call EXCEPT ![c].at = "CONSENT", ![c].paused = ~sharing /\ ~shown]
      <3>1. CASE b # c
        BY <1>1, <1>2, <1>3, <2>1, <2>3, <3>1
      <3>2. CASE b = c
        <4>1. PICK p \in BOOLEAN : p = (~sharing /\ ~shown)
          OBVIOUS
        <4>2. call' = [call EXCEPT ![c].at = "CONSENT", ![c].paused = p]
          BY <2>3, <4>1, Zenon
        <4>3. /\ call'[b].at = "CONSENT" /\ call'[b].paused = p
              /\ call'[b].batch = call[b].batch /\ call'[b].accepted = call[b].accepted
          BY <1>1, <3>2, <4>2 DEF CallRecords
        <4>4. call[b].at = "ARRIVED"
          BY <1>6, <3>2 DEF ReserveWindow
        <4>5. call'[b].paused => ~sharing' /\ ~shown'
          BY <2>1, <4>1, <4>3
        <4>6. call'[b].batch \subseteq Known' /\ call'[b].accepted = {}
          BY <1>1, <4>3, <4>4, KnownGrows DEF CallIsHonest
        <4>7. call'[b].at = "CONSENT"
          BY <4>3
        <4> QED  BY <4>5, <4>6, <4>7 DEF CallIsHonest, Confirms
      <3> QED  BY <3>1, <3>2
    <2> QED  BY <1>6, <2>2, <2>3 DEF ReserveWindow
  <1>7. ASSUME NEW c \in Calls, PlanBatch(c) PROVE CallIsHonest(b)'
    <2>1. UNCHANGED <<sharing, shown>>
      BY <1>7 DEF PlanBatch, server
    <2>2. CASE b # c
      <3>1. call'[b] = call[b]
        BY <1>1, <1>7, <2>2, AnswerAt DEF PlanBatch
      <3> QED  BY <1>2, <1>3, <2>1, <3>1
    <2>3. CASE b = c /\ Consents
      <3>1. /\ dropped' = dropped \cup (call[b].batch \ (call[b].batch \ Implausible))
            /\ call' = [call EXCEPT ![b].at = "CURRENT", ![b].accepted = call[b].batch \ Implausible]
        BY <1>7, <2>3 DEF PlanBatch
      <3>2. /\ call'[b].at = "CURRENT" /\ call'[b].accepted = call[b].batch \ Implausible
            /\ call'[b].batch = call[b].batch /\ call'[b].paused = call[b].paused
        BY <1>1, <3>1 DEF CallRecords
      <3>3. ~call[b].paused
        BY <1>1, <2>3 DEF CallIsHonest, Consents
      <3>4. call'[b].batch \ call'[b].accepted \subseteq dropped'
        BY <3>1, <3>2
      <3>5. call'[b].batch \subseteq Known'
        BY <1>1, <3>2, KnownGrows DEF CallIsHonest
      <3> QED  BY <3>2, <3>3, <3>4, <3>5 DEF CallIsHonest, Confirms
    <2>4. CASE b = c /\ ~Consents
      <3>1. dropped' = dropped \cup (call[b].batch \ {}) /\ Answer(b, "OK")
        BY <1>7, <2>4 DEF PlanBatch
      <3>2. call'[b] = [call[b] EXCEPT !.at = "ANSWERED", !.answer = "OK"]
        BY <1>1, <3>1, AnswerAt
      <3>3. /\ call'[b].at = "ANSWERED" /\ call'[b].accepted = call[b].accepted
            /\ call'[b].batch = call[b].batch /\ call'[b].paused = call[b].paused
        BY <1>1, <3>2 DEF CallRecords
      <3>4. call[b].accepted = {}
        BY <1>1, <1>7, <2>4 DEF CallIsHonest, PlanBatch
      <3>5. call'[b].batch \subseteq Known' /\ call'[b].batch \subseteq dropped'
        BY <1>1, <3>1, <3>3, KnownGrows DEF CallIsHonest
      <3>6. call'[b].paused => ~sharing' /\ ~shown'
        BY <1>1, <2>1, <3>3 DEF CallIsHonest
      <3> QED  BY <3>3, <3>4, <3>5, <3>6 DEF CallIsHonest, Confirms
    <2> QED  BY <2>2, <2>3, <2>4
  <1>8. ASSUME NEW c \in Calls, PutCurrent(c) PROVE CallIsHonest(b)'
    <2>1. UNCHANGED <<sharing, shown>> /\ call' = [call EXCEPT ![c].at = "APPEND"]
      BY <1>8 DEF PutCurrent
    <2>2. CASE b # c
      BY <1>1, <1>2, <1>3, <2>1, <2>2
    <2>3. CASE b = c
      <3>1. /\ call'[b].at = "APPEND" /\ call'[b].accepted = call[b].accepted
            /\ call'[b].batch = call[b].batch /\ call'[b].paused = call[b].paused
        BY <1>1, <2>1, <2>3 DEF CallRecords
      <3>2. call[b].at = "CURRENT"
        BY <1>8, <2>3 DEF PutCurrent
      <3>3. \A e \in call[b].accepted : e <= current'
        <4>1. call[b].accepted \in SUBSET Events
          BY <1>1 DEF CallRecords
        <4>2. IsFiniteSet(call[b].accepted) /\ call[b].accepted \subseteq Nat
          BY <4>1, EventsAreFinite, EventsAreNumbered
        <4> SUFFICES ASSUME NEW e \in call[b].accepted PROVE e <= current'
          OBVIOUS
        <4>3. PICK n \in Nat : n = Newest(call[b].accepted) /\ e <= n
          BY <4>2, NewestIsGreatest
        <4>4. current' = IF n > current THEN n ELSE current
          BY <1>8, <2>3, <4>3 DEF PutCurrent, NewerFix
        <4> QED  BY <4>2, <4>3, <4>4, CurrentAdvances
      <3>4. call'[b].batch \subseteq Known' /\ call[b].batch \ call[b].accepted \subseteq dropped'
        BY <1>1, <3>1, <3>2, KnownGrows DEF CallIsHonest
      <3> QED  BY <1>1, <3>1, <3>2, <3>3, <3>4 DEF CallIsHonest, Confirms
    <2> QED  BY <2>2, <2>3
  <1>9. ASSUME NEW c \in Calls, AppendHistory(c) PROVE CallIsHonest(b)'
    <2>1. UNCHANGED <<sharing, shown>>
      BY <1>9 DEF AppendHistory
    <2>2. PICK S \in SUBSET call[c].accepted :
            /\ stored' = stored \cup S
            /\ Answer(c, "RETRY") \/ (Appended(S, call[c].accepted) /\ Answer(c, "OK"))
      BY <1>9 DEF AppendHistory
    <2>3. CASE Answer(c, "RETRY")
      BY <1>4, <2>1, <2>3 DEF Dispositions
    <2>4. CASE Appended(S, call[c].accepted) /\ Answer(c, "OK") /\ b # c
      <3>1. call'[b] = call[b]
        BY <1>1, <2>4, AnswerAt
      <3> QED  BY <1>2, <1>3, <2>1, <3>1
    <2>5. CASE Appended(S, call[c].accepted) /\ Answer(c, "OK") /\ b = c
      <3>1. call'[b] = [call[b] EXCEPT !.at = "ANSWERED", !.answer = "OK"]
        BY <1>1, <2>5, AnswerAt
      <3>2. /\ call'[b].at = "ANSWERED" /\ call'[b].accepted = call[b].accepted
            /\ call'[b].batch = call[b].batch /\ call'[b].paused = call[b].paused
        BY <1>1, <3>1 DEF CallRecords
      <3>3. call'[b].accepted \subseteq stored'
        BY <2>2, <2>5, <3>2 DEF Appended
      <3>4. call[b].at = "APPEND"
        BY <1>9, <2>5 DEF AppendHistory
      <3>5. call'[b].batch \subseteq Known' /\ call[b].batch \ call[b].accepted \subseteq dropped'
        BY <1>1, <3>2, <3>4, KnownGrows DEF CallIsHonest
      <3>6. ~call[b].paused
        BY <1>1, <3>4 DEF CallIsHonest
      <3> QED  BY <1>1, <3>2, <3>3, <3>5, <3>6 DEF CallIsHonest, Confirms
    <2> QED  BY <2>2, <2>3, <2>4, <2>5
  <1>10. CASE ToggleSharing
    <2>1. call'[b] = [call[b] EXCEPT !.paused = FALSE]
      BY <1>10 DEF ToggleSharing
    <2>2. /\ call'[b].at = call[b].at /\ call'[b].accepted = call[b].accepted
          /\ call'[b].batch = call[b].batch /\ call'[b].answer = call[b].answer
          /\ call'[b].paused = FALSE
      BY <1>1, <2>1 DEF CallRecords
    <2> QED  BY <2>2, StaysHonest
  <1>11. CASE IndexCatchesUp
    BY <1>2, <1>3, <1>11 DEF IndexCatchesUp
  <1> QED
    BY <1>5, <1>6, <1>7, <1>8, <1>9, <1>10, <1>11 DEF IngestionNext, ServerStep

\* Every step keeps the calls honest.
LEMMA HonestStep == ASSUME IInv, Next PROVE CallsAreHonest'
  <1> SUFFICES ASSUME NEW b \in Calls PROVE CallIsHonest(b)'
    BY DEF CallsAreHonest
  <1>1. CASE Queue
    BY <1>1, QueueHonest DEF Queue
  <1>2. CASE Server
    BY <1>2, ServerHonest DEF Server
  <1>3. ASSUME NEW c \in Calls, AnswerLost(c) PROVE CallIsHonest(b)'
    <2>1. call'[b] = NoCall \/ call'[b] = call[b]
      BY <1>3 DEF AnswerLost, IInv, TypeOK
    <2>2. ~ToggleSharing
      BY <1>3 DEF AnswerLost, ToggleSharing, server, IInv, TypeOK
    <2> QED  BY <2>1, <2>2, EmptyIsHonest, OthersStayHonest DEF Dispositions
  <1> QED  BY <1>1, <1>2, <1>3 DEF Next

\* The call awaited is the one that was sent, whatever the server makes of it.
LEMMA AwaitedStep == ASSUME IInv, Next PROVE AwaitedIsSent'
  <1>1. TypeOK /\ flusher \in Flushers /\ call \in [Calls -> CallRecords] /\ AwaitedIsSent
    BY DEF IInv, TypeOK
  <1>2. CASE Queue /\ \E c \in Calls : Send(c)
    <2>1. PICK c \in Calls : Send(c)
      BY <1>2
    <2>2. /\ flusher'.at = "AWAIT" /\ flusher'.call = c /\ flusher'.batch = flusher.batch
          /\ call'[c] = [NoCall EXCEPT !.at = "ARRIVED", !.batch = flusher.batch]
      BY <1>1, <2>1 DEF Send, Flushers
    <2>3. call'[c].at = "ARRIVED" /\ call'[c].batch = flusher.batch
      BY <2>2 DEF NoCall
    <2> QED  BY <2>2, <2>3 DEF AwaitedIsSent
  <1>3. CASE Queue /\ ~(\E c \in Calls : Send(c))
    <2>1. CASE flusher'.at # "AWAIT"
      BY <2>1 DEF AwaitedIsSent
    <2>2. UNCHANGED flusher => UNCHANGED call
      BY <1>1, <1>3
         DEF Queue, QueueNext, FlushStep, ReserveRead, Ages, ReserveWrite, EnqueuePut,
             EnqueueReadMeta, EnqueueAdvance, EnqueuePrune, EnqueueEvict, FlushStart, FlushPrune,
             FlushEvict, FlushReset, FlushConfirm, FlushDrop, FlushExhaust, FlushRetain,
             FlushWriteMeta, ThrottleElapses, Crash, UploadSucceeds, UploadFails, Retaining,
             Flushers
    <2>3. CASE UNCHANGED <<flusher, call>>
      BY <1>1, <2>3 DEF AwaitedIsSent, Confirms
    <2>4. UNCHANGED flusher \/ flusher'.at # "AWAIT"
      <3>0. \A S : AfterPrune(S) # "AWAIT" /\ Retaining(S) # "AWAIT"
        BY DEF AfterPrune, Retaining
      <3>1. CASE \/ \E e \in Events : ReserveRead(e) \/ Ages(e)
                 \/ ReserveWrite \/ EnqueuePut \/ EnqueueReadMeta \/ EnqueueAdvance
                 \/ EnqueuePrune \/ EnqueueEvict \/ ThrottleElapses
        BY <3>1 DEF ReserveRead, Ages, ReserveWrite, EnqueuePut, EnqueueReadMeta, EnqueueAdvance,
                    EnqueuePrune, EnqueueEvict, ThrottleElapses
      <3>2. CASE FlushReset \/ FlushWriteMeta \/ Crash
        BY <3>2 DEF FlushReset, FlushWriteMeta, Crash, IdleFlusher
      <3>3. CASE FlushStart \/ FlushDrop \/ FlushExhaust \/ FlushRetain
        BY <1>1, <3>3 DEF FlushStart, FlushDrop, FlushExhaust, FlushRetain, Flushers
      <3>4. CASE FlushPrune
        BY <1>1, <3>0, <3>4 DEF FlushPrune, Flushers
      <3>5. CASE FlushEvict
        BY <1>1, <3>0, <3>5 DEF FlushEvict, Flushers
      <3>6. CASE FlushConfirm
        BY <1>1, <3>0, <3>6 DEF FlushConfirm, Flushers
      <3>7. CASE UploadSucceeds
        <4>1. PICK confirmed \in Confirmations(flusher.call) :
                flusher' = [flusher EXCEPT !.call = 0, !.out = confirmed,
                  !.at = IF confirmed = {} THEN Retaining(flusher.batch) ELSE "CONFIRM",
                  !.meta.hint = 0]
          BY <3>7 DEF UploadSucceeds
        <4>2. flusher'.at = IF confirmed = {} THEN Retaining(flusher.batch) ELSE "CONFIRM"
          BY <1>1, <4>1 DEF Flushers
        <4> QED  BY <3>0, <4>2
      <3>8. ASSUME NEW d \in Dispositions, UploadFails(d) PROVE flusher'.at # "AWAIT"
        <4>1. flusher'.at = IF d = "DROP_BATCH" THEN "DROP" ELSE Retaining(flusher.batch)
          BY <1>1, <3>8 DEF UploadFails, Flushers
        <4> QED  BY <3>0, <4>1
      <3> QED
        BY <1>3, <3>1, <3>2, <3>3, <3>4, <3>5, <3>6, <3>7, <3>8 DEF Queue, QueueNext, FlushStep
    <2> QED  BY <2>1, <2>2, <2>3, <2>4
  <1>4. CASE Server \/ \E c \in Calls : AnswerLost(c)
    <2> SUFFICES ASSUME flusher.at = "AWAIT" PROVE AwaitedIsSent'
      BY <1>4 DEF Server, AnswerLost, phone, AwaitedIsSent
    <2>1. PICK b \in Calls : b = flusher.call
      BY <1>1 DEF AwaitedIsSent
    <2>2. UNCHANGED flusher
      BY <1>4 DEF Server, AnswerLost, phone
    <2>3. call[b].at # "FREE" /\ (call[b].at # "ANSWERED" \/ Confirms(b) => call[b].batch = flusher.batch)
      BY <1>1, <2>1 DEF AwaitedIsSent
    <2>4. CASE call'[b] = call[b]
      BY <2>1, <2>2, <2>3, <2>4 DEF AwaitedIsSent, Confirms
    <2>5. CASE call'[b].at = "ANSWERED" /\ call'[b].answer # "OK"
      BY <2>1, <2>2, <2>5 DEF AwaitedIsSent, Confirms
    <2>6. CASE /\ call'[b].at # "FREE" /\ call'[b].batch = call[b].batch
               /\ \/ call[b].at # "ANSWERED"
                  \/ call'[b].at = call[b].at /\ call'[b].answer = call[b].answer
      BY <2>1, <2>2, <2>3, <2>6 DEF AwaitedIsSent, Confirms
    <2>7. \A c \in Calls, d \in Dispositions : Answer(c, d) =>
            call'[b] = call[b] \/ (call'[b].at = "ANSWERED" /\ call'[b].answer # "OK")
      <3> SUFFICES ASSUME NEW c \in Calls, NEW d \in Dispositions, Answer(c, d), call'[b] # call[b]
                   PROVE  call'[b].at = "ANSWERED" /\ call'[b].answer # "OK"
        OBVIOUS
      <3>1. call'[b] = [NoCall EXCEPT !.at = "ANSWERED", !.answer = d]
        BY <1>1, AnswerAt DEF Dispositions
      <3> QED  BY <3>1 DEF NoCall, Dispositions
    <2>8. \A c \in Calls : Answer(c, "OK") /\ call[c].at # "ANSWERED" =>
            \/ call'[b] = call[b]
            \/ /\ call'[b].at = "ANSWERED" /\ call'[b].batch = call[b].batch
               /\ call[b].at # "ANSWERED"
      <3> SUFFICES ASSUME NEW c \in Calls, Answer(c, "OK"), call[c].at # "ANSWERED", call'[b] # call[b]
                   PROVE  /\ call'[b].at = "ANSWERED" /\ call'[b].batch = call[b].batch
                          /\ call[b].at # "ANSWERED"
        OBVIOUS
      <3>1. b = c /\ call'[b] = [call[b] EXCEPT !.at = "ANSWERED", !.answer = "OK"]
        BY <1>1, AnswerAt
      <3> QED  BY <1>1, <3>1 DEF CallRecords
    <2>9. ASSUME NEW c \in Calls, ServerStep(c) PROVE AwaitedIsSent'
      <3>1. CASE \E d \in Dispositions : Answer(c, d)
        BY <2>4, <2>5, <2>7, <3>1
      <3>2. CASE Answer(c, "OK")
        <4>1. call[c].at # "ANSWERED"
          BY <2>9 DEF ServerStep, Refuse, ReserveWindow, PlanBatch, PutCurrent, AppendHistory,
                      InvocationFails
        <4> QED  BY <2>4, <2>6, <2>8, <3>2, <4>1
      <3>3. CASE ReserveWindow(c) /\ ~Answer(c, "RETRY")
        <4>1. PICK p : call' = [call EXCEPT ![c].at = "CONSENT", ![c].paused = p]
          BY <3>3, Zenon DEF ReserveWindow
        <4>2. call[c].at = "ARRIVED"
          BY <3>3 DEF ReserveWindow
        <4>3. b = c => call'[b].at = "CONSENT" /\ call'[b].batch = call[b].batch
          BY <1>1, <4>1 DEF CallRecords
        <4>4. b # c => call'[b] = call[b]
          BY <1>1, <4>1
        <4> QED  BY <2>4, <2>6, <4>2, <4>3, <4>4
      <3>4. CASE (PlanBatch(c) /\ ~Answer(c, "OK")) \/ PutCurrent(c)
        <4>1. call[c].at # "ANSWERED" /\ b # c => call'[b] = call[b]
          BY <1>1, <3>4 DEF PlanBatch, PutCurrent
        <4>2. b = c => call'[b].at \in {"CURRENT", "APPEND"} /\ call'[b].batch = call[b].batch
          BY <1>1, <3>4 DEF PlanBatch, PutCurrent, CallRecords
        <4>3. call[c].at # "ANSWERED"
          BY <3>4 DEF PlanBatch, PutCurrent
        <4> QED  BY <2>4, <2>6, <4>1, <4>2, <4>3
      <3> QED
        BY <2>9, <3>1, <3>2, <3>3, <3>4
           DEF ServerStep, Refuse, ReserveWindow, PlanBatch, AppendHistory, InvocationFails,
               Dispositions
    <2>10. CASE ToggleSharing
      <3>1. call'[b] = [call[b] EXCEPT !.paused = FALSE]
        BY <2>10 DEF ToggleSharing
      <3>2. /\ call'[b].at = call[b].at /\ call'[b].batch = call[b].batch
            /\ call'[b].answer = call[b].answer
        BY <1>1, <3>1 DEF CallRecords
      <3> QED  BY <2>3, <2>6, <3>2
    <2>11. CASE IndexCatchesUp
      BY <2>4, <2>11 DEF IndexCatchesUp
    <2>12. ASSUME NEW c \in Calls, AnswerLost(c) PROVE AwaitedIsSent'
      <3>1. b # c
        BY <2>1, <2>12 DEF AnswerLost
      <3> QED  BY <1>1, <2>4, <2>12, <3>1 DEF AnswerLost
    <2> QED  BY <1>4, <2>9, <2>10, <2>11, <2>12 DEF Server, IngestionNext
  <1> QED  BY <1>2, <1>3, <1>4 DEF Next, Queue

\* The history never runs ahead of the current fix: it is appended after it.
LEMMA CoverStep == ASSUME IInv, Next PROVE CurrentCoversHistory'
  <1> SUFFICES ASSUME NEW e \in stored' PROVE e <= current'
    BY DEF CurrentCoversHistory
  <1>1. TypeOK /\ current \in Nat /\ current' \in Nat /\ current <= current' /\ e \in Nat
    <2>1. e \in Events
      BY TypeStep DEF TypeOK
    <2> QED  BY <2>1, CurrentAdvances, EventsAreNumbered DEF IInv
  <1>2. CASE e \in stored
    BY <1>1, <1>2 DEF IInv, CurrentCoversHistory
  <1>3. ASSUME NEW c \in Calls, AppendHistory(c), e \notin stored PROVE e <= current'
    <2>1. e \in call[c].accepted /\ call[c].at = "APPEND"
      BY <1>3 DEF AppendHistory
    <2> QED  BY <1>1, <2>1 DEF IInv, CallsAreHonest, CallIsHonest
  <1>4. UNCHANGED stored \/ \E c \in Calls : AppendHistory(c)
    BY DEF Next, Queue, Server, IngestionNext, ServerStep, Refuse, ReserveWindow, PlanBatch,
           PutCurrent, InvocationFails, ToggleSharing, IndexCatchesUp, AnswerLost, server
  <1> QED  BY <1>2, <1>3, <1>4

-----------------------------------------------------------------------------
(* The invariant                                                            *)

\* It holds of an empty queue and an empty history.
LEMMA Initially == Init => IInv
  <1> SUFFICES ASSUME Init PROVE IInv
    OBVIOUS
  <1> USE DEF Init, InitQueue, InitIngestion
  <1>1. TypeOK
    <2>1. Absent \in Absent..(MaxAttempts - 1) /\ 0 \in 0..MaxCrashes /\ 0 \in 0..MaxToggles
      BY QueueConstants, IngestionConstants DEF Absent
    <2> QED  BY <2>1, IdleTypes DEF TypeOK
  <1>2. ProducerKnows /\ FlusherMaySettle /\ AwaitedIsSent
    BY DEF ProducerKnows, FlusherMaySettle, AwaitedIsSent, IdleProducer, IdleFlusher
  <1>3. FlusherKnows
    BY FS_EmptySet, QueueConstants DEF FlusherKnows, IdleFlusher
  <1>4. CallsAreHonest
    BY DEF CallsAreHonest, CallIsHonest, Confirms, NoCall
  <1>5. CurrentCoversHistory
    BY DEF CurrentCoversHistory
  <1> QED  BY <1>1, <1>2, <1>3, <1>4, <1>5 DEF IInv

\* Every step of the phone, the server and the network preserves it.
LEMMA Inductive == IInv /\ [Next]_vars => IInv'
  <1>1. ASSUME IInv, Next PROVE IInv'
    BY <1>1, TypeStep, ProducerStep, FlusherStep, SettleStep, AwaitedStep, HonestStep, CoverStep
       DEF IInv
  <1>2. ASSUME IInv, UNCHANGED vars PROVE IInv'
    BY <1>2 DEF vars, phone, server, IInv, TypeOK, ProducerKnows, FlusherKnows, Known, Pending,
                FlusherMaySettle, Exhausted, Bumped, AwaitedIsSent, Confirms, CallsAreHonest,
                CallIsHonest, CurrentCoversHistory
  <1> QED  BY <1>1, <1>2

\* The invariant holds in every reachable state.
THEOREM Invariance == Spec => []IInv
<1> QED  BY Initially, Inductive, PTL DEF Spec

\* Queue, metadata, calls and history keep their types; above all, no record has
\* more attempts than isExhausted lets it, however often a flush writes it back.
THEOREM TypeCorrect == Spec => []TypeOK
<1>1. IInv => TypeOK
  BY DEF IInv
<1> QED  BY <1>1, Invariance, PTL

\* The history never runs ahead of the current fix (putIfNewer, then append),
\* however calls overlap, fail between the two writes or are repeated.
THEOREM HistoryIsCovered == Spec => []CurrentCoversHistory
<1>1. IInv => CurrentCoversHistory
  BY DEF IInv
<1> QED  BY <1>1, Invariance, PTL

\* A call admitted while nothing was shared, and the index showed it, is not
\* planned for the writes (resolveDisposition) before sharing is switched on.
THEOREM PauseStops == Spec => []PauseStopsNewUploads
<1>1. IInv => PauseStopsNewUploads
  BY DEF IInv, CallsAreHonest, CallIsHonest, PauseStopsNewUploads
<1> QED  BY <1>1, Invariance, PTL

\* Nothing is lost in silence: the phone's queue and the ingestion endpoint
\* together implement Delivery, for any number of events, calls and crashes.
THEOREM NothingIsLost == Spec => NothingLost
<1>1. Init => D!Init
  BY DEF Init, InitQueue, InitIngestion, D!Init, Pending
<1>2. IInv /\ [Next]_vars => [D!Next]_<<Pending, stored, dropped>>
  <2>1. ASSUME IInv, Next PROVE [D!Next]_<<Pending, stored, dropped>>
    BY <2>1, NextPromised DEF Promised
  <2>2. UNCHANGED vars => UNCHANGED <<Pending, stored, dropped>>
    BY DEF vars, phone, server, Pending
  <2> QED  BY <2>1, <2>2
<1> QED  BY <1>1, <1>2, Invariance, PTL DEF Spec, NothingLost, D!Spec
=============================================================================
