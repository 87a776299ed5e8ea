------------------------------ MODULE Uploads ------------------------------
(***************************************************************************)
(* The path of a fix from the phone's queue into the location history:      *)
(* OutboundQueue and Ingestion, joined by the calls in flight.  An answer   *)
(* may find nobody waiting: the phone timed out, or the app died.           *)
(***************************************************************************)
EXTENDS OutboundQueue, Ingestion

vars == <<phone, server, call, dropped>>

Init == InitQueue /\ InitIngestion

Queue == QueueNext /\ UNCHANGED server
Server == IngestionNext /\ UNCHANGED phone

\* An answer nobody waits for is lost.
AnswerLost(c) ==
    /\ call[c].at = "ANSWERED" /\ flusher.call # c
    /\ call' = [call EXCEPT ![c] = NoCall]
    /\ UNCHANGED <<dropped, phone, server>>

Next == Queue \/ Server \/ \E c \in Calls : AnswerLost(c)

Spec == Init /\ [][Next]_vars

\* The host flushes again and again, a flush that began goes on, throttles
\* end, and the server or its timeout answers each call.  Nothing is
\* assumed of what the server answers.
Fairness ==
    /\ WF_vars(FlushStart /\ UNCHANGED server)
    /\ WF_vars(FlushStep /\ UNCHANGED server)
    /\ WF_vars(ThrottleElapses /\ UNCHANGED server)
    /\ \A c \in Calls :
          /\ WF_vars(ServerStep(c) /\ UNCHANGED phone)
          /\ WF_vars(AnswerLost(c))
FairSpec == Spec /\ Fairness

-----------------------------------------------------------------------------
TypeOK ==
    /\ queue \in [Events -> Absent..(MaxAttempts - 1)]
    /\ meta \in Metas
    /\ seq \in [Events -> Nat]
    /\ taken \subseteq Events /\ aged \subseteq Events /\ dropped \subseteq Events
    /\ producer \in Producers
    /\ flusher \in Flushers
    /\ crashes \in 0..MaxCrashes
    /\ call \in [Calls -> CallRecords]
    /\ stored \subseteq Events
    /\ current \in Events \cup {0}
    /\ sharing \in BOOLEAN /\ shown \in BOOLEAN
    /\ toggles \in 0..MaxToggles

\* Nothing is lost in silence: an event leaves the phone only once it is in the
\* history or was given up for a stated reason, whatever is timed out, repeated,
\* half written or interrupted between the two.
D == INSTANCE Delivery WITH held <- Pending
NothingLost == D!Spec

\* "A delayed or replayed batch can never move the current fix backwards in
\* time" (createCurrentLocationStore), and the history never runs ahead of it: a
\* family that can see a fix in the history sees one as new on the map.
CurrentCoversHistory == \A e \in stored : e <= current

\* A call admitted while sharing was off, and the index had caught up, never
\* comes to the writes, unless sharing is switched on meanwhile.
PauseStopsNewUploads ==
    \A c \in Calls : call[c].paused => call[c].at \notin {"CURRENT", "APPEND"}

\* Every event that is queued leaves the phone at last, stored or given up.
EveryEventLeaves == \A e \in Events : queue[e] # Absent ~> queue[e] = Absent
=============================================================================
