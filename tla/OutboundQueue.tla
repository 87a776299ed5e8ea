--------------------------- MODULE OutboundQueue ---------------------------
(***************************************************************************)
(* The offline queue of packages/location-core.  The host captures fixes    *)
(* and flushes the queue; each storage operation is atomic, and enqueue,    *)
(* flush and the reservation of sequence numbers interleave between them.   *)
(*                                                                          *)
(* Abstracted: time (a throttle holds until it elapses, events become too   *)
(* old when they do), the length of a backoff, the text of a failure (its   *)
(* disposition is kept), and the other devices whose events a storage may   *)
(* hold.                                                                    *)
(***************************************************************************)
EXTENDS UploadCalls

CONSTANTS
    MaxEvents,      \* records the queue may hold
    MaxBatch,       \* events in one upload
    MaxAttempts,    \* uploads an event is tried in
    MaxCrashes,     \* BOUND: times the app dies
    Perishable      \* BOUND: events that may become too old before they leave

ASSUME QueueConstants ==
    /\ MaxEvents \in Nat \ {0} /\ MaxBatch \in Nat \ {0}
    /\ MaxAttempts \in Nat \ {0} /\ MaxCrashes \in Nat
    /\ Perishable \subseteq Events

Absent == -1

VARIABLES
    queue,     \* QueueStorage's records: attempts of each event, or Absent
    meta,      \* QueueStorage's metadata
    seq,       \* the sequence number each event was given
    taken,     \* events captured so far
    aged,      \* events older than MAX_QUEUE_AGE_HOURS
    producer,  \* the locals of reserveSequenceNumber and enqueue
    flusher,   \* the locals of flush
    crashes

phone == <<queue, meta, seq, taken, aged, producer, flusher, crashes>>

Metas == [next : Nat, throttled : BOOLEAN, hint : 0..MaxBatch]
DefaultMeta == [next |-> 0, throttled |-> FALSE, hint |-> 0]

ProducerStages == {"IDLE", "RESERVE", "PUT", "READ_META", "ADVANCE", "PRUNE", "EVICT"}
Producers == [at : ProducerStages, event : Events \cup {0}, meta : Metas, out : SUBSET Events]
IdleProducer == [at |-> "IDLE", event |-> 0, meta |-> DefaultMeta, out |-> {}]

FlusherStages == {"IDLE", "PRUNE", "EVICT", "SEND", "AWAIT", "CONFIRM", "EXHAUST", "RETAIN",
                  "DROP", "WRITE_META", "RESET"}
Flushers ==
    [at : FlusherStages, meta : Metas, tries : [Events -> Int],
     out : SUBSET Events, batch : SUBSET Events, call : Calls \cup {0}]
Untried == [e \in Events |-> Absent]
IdleFlusher ==
    [at |-> "IDLE", meta |-> DefaultMeta, tries |-> Untried, out |-> {},
     batch |-> {}, call |-> 0]

Pending == {e \in Events : queue[e] # Absent}

-----------------------------------------------------------------------------
(* The pure parts.                                                          *)

\* storage.list(maxEvents + 1): no more than that many records.
Listings(S) ==
    {L \in SUBSET S : \/ L = S /\ Cardinality(S) <= MaxEvents + 1
                      \/ Cardinality(L) = MaxEvents + 1}

\* pruneForRetention: attempts, then age, then capacity; the oldest go first.
Survivors(listed, attempts) ==
    {e \in listed : attempts[e] < MaxAttempts /\ e \notin aged}

Kept(listed, attempts) ==
    LET S == Survivors(listed, attempts) IN
    {e \in S : Cardinality({f \in S : f > e}) < MaxEvents}

\* orderQueue: by sequence number, then by the time of capture.
Before(e, f) == seq[e] < seq[f] \/ (seq[e] = seq[f] /\ e < f)

BatchSize(m) == IF m.hint = 0 \/ m.hint > MaxBatch THEN MaxBatch ELSE m.hint

\* selectBatch: the head of the queue.
Batch(S, size) == {e \in S : Cardinality({f \in S : Before(f, e)}) < size}

-----------------------------------------------------------------------------
InitQueue ==
    /\ queue = [e \in Events |-> Absent]
    /\ meta = DefaultMeta
    /\ seq = [e \in Events |-> 0]
    /\ taken = {}
    /\ aged = {}
    /\ producer = IdleProducer
    /\ flusher = IdleFlusher
    /\ crashes = 0

(* reserveSequenceNumber, then enqueue.                                     *)

\* A fix is captured; the reservation reads the metadata.
ReserveRead(e) ==
    /\ producer.at = "IDLE"
    /\ e \notin taken /\ \A f \in Events : f < e => f \in taken
    /\ taken' = taken \cup {e}
    /\ producer' = [IdleProducer EXCEPT !.at = "RESERVE", !.event = e, !.meta = meta]
    /\ UNCHANGED <<queue, meta, seq, aged, flusher, crashes, call, dropped>>

\* ... and writes it back with the number taken.
ReserveWrite ==
    /\ producer.at = "RESERVE"
    /\ seq' = [seq EXCEPT ![producer.event] = producer.meta.next]
    /\ meta' = [producer.meta EXCEPT !.next = @ + 1]
    /\ producer' = [producer EXCEPT !.at = "PUT"]
    /\ UNCHANGED <<queue, taken, aged, flusher, crashes, call, dropped>>

EnqueuePut ==
    /\ producer.at = "PUT"
    /\ queue' = [queue EXCEPT ![producer.event] = 0]
    /\ producer' = [producer EXCEPT !.at = "READ_META"]
    /\ UNCHANGED <<meta, seq, taken, aged, flusher, crashes, call, dropped>>

\* The metadata is written only if the event's number is ahead of it.
EnqueueReadMeta ==
    /\ producer.at = "READ_META"
    /\ producer' = [producer EXCEPT !.meta = meta,
          !.at = IF seq[producer.event] + 1 > meta.next THEN "ADVANCE" ELSE "PRUNE"]
    /\ UNCHANGED <<queue, meta, seq, taken, aged, flusher, crashes, call, dropped>>

EnqueueAdvance ==
    /\ producer.at = "ADVANCE"
    /\ meta' = [producer.meta EXCEPT !.next = seq[producer.event] + 1]
    /\ producer' = [producer EXCEPT !.at = "PRUNE"]
    /\ UNCHANGED <<queue, seq, taken, aged, flusher, crashes, call, dropped>>

\* Over capacity the queue is pruned: a listing, then a removal.
EnqueuePrune ==
    /\ producer.at = "PRUNE"
    /\ \/ /\ Cardinality(Pending) <= MaxEvents
          /\ producer' = IdleProducer
       \/ /\ Cardinality(Pending) > MaxEvents
          /\ \E listed \in Listings(Pending) :
                producer' = [producer EXCEPT !.at = "EVICT", !.out = listed \ Kept(listed, queue)]
    /\ UNCHANGED <<queue, meta, seq, taken, aged, flusher, crashes, call, dropped>>

Remove(S) == queue' = [e \in Events |-> IF e \in S THEN Absent ELSE queue[e]]

EnqueueEvict ==
    /\ producer.at = "EVICT"
    /\ Remove(producer.out)
    /\ dropped' = dropped \cup producer.out
    /\ producer' = IdleProducer
    /\ UNCHANGED <<meta, seq, taken, aged, flusher, crashes, call>>

-----------------------------------------------------------------------------
(* flush                                                                    *)

FlushStart ==
    /\ flusher.at = "IDLE"
    /\ ~meta.throttled
    /\ flusher' = [flusher EXCEPT !.at = "PRUNE", !.meta = meta]
    /\ UNCHANGED <<queue, meta, seq, taken, aged, producer, crashes, call, dropped>>

\* An empty selection only resets the metadata.
AfterPrune(batch) == IF batch = {} THEN "RESET" ELSE "SEND"

FlushPrune ==
    /\ flusher.at = "PRUNE"
    /\ \E listed \in Listings(Pending) :
          LET keep == Kept(listed, queue)
              batch == Batch(keep, BatchSize(flusher.meta)) IN
          flusher' = [flusher EXCEPT !.tries = [e \in Events |-> IF e \in batch THEN queue[e] ELSE Absent],
                          !.batch = batch, !.out = listed \ keep,
                          !.at = IF listed = keep THEN AfterPrune(batch) ELSE "EVICT"]
    /\ UNCHANGED <<queue, meta, seq, taken, aged, producer, crashes, call, dropped>>

FlushEvict ==
    /\ flusher.at = "EVICT"
    /\ Remove(flusher.out)
    /\ dropped' = dropped \cup flusher.out
    /\ flusher' = [flusher EXCEPT !.at = AfterPrune(flusher.batch), !.out = {}]
    /\ UNCHANGED <<meta, seq, taken, aged, producer, crashes, call>>

FlushReset ==
    /\ flusher.at = "RESET"
    /\ meta' = [flusher.meta EXCEPT !.throttled = FALSE, !.hint = 0]
    /\ flusher' = IdleFlusher
    /\ UNCHANGED <<queue, seq, taken, aged, producer, crashes, call, dropped>>

Send(c) ==
    /\ flusher.at = "SEND"
    /\ call[c].at = "FREE" /\ \A d \in Calls : call[d].at = "FREE" => c <= d
    /\ call' = [call EXCEPT ![c] = [NoCall EXCEPT !.at = "ARRIVED", !.batch = flusher.batch]]
    /\ flusher' = [flusher EXCEPT !.at = "AWAIT", !.call = c]
    /\ UNCHANGED <<queue, meta, seq, taken, aged, producer, crashes, dropped>>

BumpedNever(e) == flusher.tries[e]

\* retain counts an attempt of what was sent and not confirmed ...
Bumped(e) == flusher.tries[e] + 1

ExhaustedAfterMax(S) == {e \in S : Bumped(e) > MaxAttempts}

\* ... and gives up on what is out of attempts; an empty list is not written.
Exhausted(S) == {e \in S : Bumped(e) >= MaxAttempts}
Retaining(S) ==
    IF S = {} THEN "WRITE_META" ELSE IF Exhausted(S) = {} THEN "RETAIN" ELSE "EXHAUST"

SucceededAnyhow(answer) == answer \in {"OK", "RETRY"}
Succeeded(answer) == answer = "OK"

\* The events an answer confirms: the whole batch, or those it names.
Confirmations(c) == {flusher.batch, call[c].accepted}

UploadSucceeds ==
    LET c == flusher.call IN
    /\ flusher.at = "AWAIT"
    /\ call[c].at = "ANSWERED" /\ Succeeded(call[c].answer)
    /\ \E confirmed \in Confirmations(c) :
          flusher' = [flusher EXCEPT !.call = 0, !.out = confirmed,
              !.at = IF confirmed = {} THEN Retaining(flusher.batch) ELSE "CONFIRM",
              !.meta.hint = 0]
    /\ call' = [call EXCEPT ![c] = NoCall]
    /\ UNCHANGED <<queue, meta, seq, taken, aged, producer, crashes, dropped>>

\* retryDisposition of an error that came back, or of a call that never did.
UploadFails(disposition) ==
    /\ flusher.at = "AWAIT"
    /\ LET c == flusher.call IN
          \/ /\ call[c].at = "ANSWERED" /\ call[c].answer = disposition
             /\ call' = [call EXCEPT ![c] = NoCall]
          \/ /\ disposition = "RETRY"    \* NETWORK_UNAVAILABLE, TIMEOUT
             /\ UNCHANGED call
    /\ flusher' = [flusher EXCEPT !.call = 0,
          !.at = IF disposition = "DROP_BATCH" THEN "DROP" ELSE Retaining(flusher.batch),
          !.meta.hint = CASE disposition = "SHRINK_BATCH" ->
                                IF Cardinality(flusher.batch) < 2 THEN 1
                                ELSE Cardinality(flusher.batch) \div 2
                          [] disposition = "DROP_BATCH" -> 0
                          [] OTHER -> @]
    /\ UNCHANGED <<queue, meta, seq, taken, aged, producer, crashes, dropped>>

\* onSuccess: the confirmed records go; the others are retained.
FlushConfirm ==
    LET left == flusher.batch \ flusher.out IN
    /\ flusher.at = "CONFIRM"
    /\ Remove(flusher.out)
    /\ flusher' = [flusher EXCEPT !.at = Retaining(left), !.batch = left, !.out = {}]
    /\ UNCHANGED <<meta, seq, taken, aged, producer, crashes, call, dropped>>

\* onFailure, DROP_BATCH: a refusal no retry can change.
FlushDrop ==
    /\ flusher.at = "DROP"
    /\ Remove(flusher.batch)
    /\ dropped' = dropped \cup flusher.batch
    /\ flusher' = [flusher EXCEPT !.at = "WRITE_META", !.batch = {}]
    /\ UNCHANGED <<meta, seq, taken, aged, producer, crashes, call>>

\* retain, first write: records out of attempts are removed.
FlushExhaust ==
    LET out == Exhausted(flusher.batch) IN
    /\ flusher.at = "EXHAUST"
    /\ Remove(out)
    /\ dropped' = dropped \cup out
    /\ flusher' = [flusher EXCEPT !.batch = @ \ out,
                      !.at = IF flusher.batch = out THEN "WRITE_META" ELSE "RETAIN"]
    /\ UNCHANGED <<meta, seq, taken, aged, producer, crashes, call>>

\* retain, second write: the rest is put back with the attempt counted, even a
\* record that was pruned while the upload was awaited.
FlushRetain ==
    /\ flusher.at = "RETAIN"
    /\ queue' = [e \in Events |-> IF e \in flusher.batch THEN Bumped(e) ELSE queue[e]]
    /\ flusher' = [flusher EXCEPT !.at = "WRITE_META", !.batch = {}]
    /\ UNCHANGED <<meta, seq, taken, aged, producer, crashes, call, dropped>>

\* The metadata read before the upload is written back, with the next attempt
\* no sooner than the interval or the backoff allow.
FlushWriteMeta ==
    /\ flusher.at = "WRITE_META"
    /\ meta' = [flusher.meta EXCEPT !.throttled = TRUE]
    /\ flusher' = IdleFlusher
    /\ UNCHANGED <<queue, seq, taken, aged, producer, crashes, call, dropped>>

-----------------------------------------------------------------------------
(* The environment of the queue.                                            *)

\* The next attempt is due; copies of the metadata carry the same instant.
ThrottleElapses ==
    /\ meta.throttled
    /\ meta' = [meta EXCEPT !.throttled = FALSE]
    /\ producer' = [producer EXCEPT !.meta.throttled = FALSE]
    /\ UNCHANGED <<queue, seq, taken, aged, flusher, crashes, call, dropped>>

Ages(e) ==
    /\ e \in (Pending \cap Perishable) \ aged
    /\ \A f \in Pending : f < e => f \in aged
    /\ aged' = aged \cup {e}
    /\ UNCHANGED <<queue, meta, seq, taken, producer, flusher, crashes, call, dropped>>

\* The operating system ends the app; the storage stays as it is.
Crash ==
    /\ crashes < MaxCrashes
    /\ producer.at # "IDLE" \/ flusher.at # "IDLE"
    /\ crashes' = crashes + 1
    /\ producer' = IdleProducer
    /\ flusher' = IdleFlusher
    /\ UNCHANGED <<queue, meta, seq, taken, aged, call, dropped>>

FlushStep ==
    \/ FlushPrune \/ FlushEvict \/ FlushReset
    \/ \E c \in Calls : Send(c)
    \/ UploadSucceeds
    \/ \E d \in Dispositions : UploadFails(d)
    \/ FlushConfirm \/ FlushDrop \/ FlushExhaust \/ FlushRetain \/ FlushWriteMeta

QueueNext ==
    \/ \E e \in Events : ReserveRead(e) \/ Ages(e)
    \/ ReserveWrite \/ EnqueuePut \/ EnqueueReadMeta \/ EnqueueAdvance
    \/ EnqueuePrune \/ EnqueueEvict
    \/ FlushStart \/ FlushStep \/ ThrottleElapses \/ Crash
=============================================================================
