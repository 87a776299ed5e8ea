----------------------------- MODULE Ingestion -----------------------------
(***************************************************************************)
(* services/location-ingestion: what becomes of an uploaded batch.  Every   *)
(* invocation is its own process; the writes are conditional or idempotent  *)
(* and an invocation can end between any two of them.                       *)
(*                                                                          *)
(* Abstracted: coordinates and their encryption, the families behind the    *)
(* consent (one switch stands for "some ACTIVE membership is SHARING in an  *)
(* ACTIVE account"), the rules of plausibility (a fixed set fails them), and *)
(* the clock of the upload window (it may be open or closed at any time).   *)
(***************************************************************************)
EXTENDS UploadCalls

CONSTANTS
    Implausible,   \* events isPlausibleLocation rejects
    MaxToggles     \* BOUND: times sharing is switched

ASSUME IngestionConstants == Implausible \subseteq Events /\ MaxToggles \in Nat

VARIABLES
    stored,    \* events in the location history
    current,   \* the event of the current fix, 0 before there is one
    sharing,   \* the membership rows: the person shares
    shown,     \* ... as the byUser index shows it
    toggles

server == <<stored, current, sharing, shown, toggles>>

InitIngestion ==
    /\ call = [c \in Calls |-> NoCall]
    /\ dropped = {}
    /\ stored = {} /\ current = 0
    /\ sharing = TRUE /\ shown = TRUE
    /\ toggles = 0

\* The answer names the accepted events, an error names none.
Answer(c, answer) ==
    call' = [call EXCEPT ![c] =
        IF answer = "OK" THEN [@ EXCEPT !.at = "ANSWERED", !.answer = "OK"]
        ELSE [NoCall EXCEPT !.at = "ANSWERED", !.answer = answer]]

\* An unusable device, an unknown account, a malformed or too large request.
Refuse(c) ==
    /\ call[c].at = "ARRIVED"
    /\ \E d \in Dispositions : Answer(c, d)
    /\ UNCHANGED <<dropped, server>>

\* reserve: the window is open and this call takes it, or RATE_LIMITED.
ReserveWindow(c) ==
    /\ call[c].at = "ARRIVED"
    /\ \/ call' = [call EXCEPT ![c].at = "CONSENT", ![c].paused = ~sharing /\ ~shown]
       \/ Answer(c, "RETRY")
    /\ UNCHANGED <<dropped, server>>

ConsentsAsMember == TRUE

\* resolveDisposition: some membership shares, as the index shows it.
Consents == shown

\* planIngestion: without consent the batch is answered like a stored one and
\* dropped; the implausible events are rejected for good.
PlanBatch(c) ==
    /\ call[c].at = "CONSENT"
    /\ LET accepted == IF Consents THEN call[c].batch \ Implausible ELSE {} IN
          /\ dropped' = dropped \cup (call[c].batch \ accepted)
          /\ IF Consents
             THEN call' = [call EXCEPT ![c].at = "CURRENT", ![c].accepted = accepted]
             ELSE Answer(c, "OK")
    /\ UNCHANGED server

NewerFixAlways(e) == IF e = 0 THEN current ELSE e

\* putIfNewer: the condition on the write.
NewerFix(e) == IF e > current THEN e ELSE current

\* The newest accepted event may advance the current fix.
PutCurrent(c) ==
    /\ call[c].at = "CURRENT"
    /\ current' = NewerFix(Newest(call[c].accepted))
    /\ call' = [call EXCEPT ![c].at = "APPEND"]
    /\ UNCHANGED <<dropped, stored, sharing, shown, toggles>>

AppendedInPart(S, accepted) == S # {} \/ accepted = {}
Appended(S, accepted) == S = accepted

\* append, then publish.  Items a throttled table leaves unprocessed fail the
\* request, and so does the event bus, with the history written.
AppendHistory(c) ==
    /\ call[c].at = "APPEND"
    /\ \E S \in SUBSET call[c].accepted :
          /\ stored' = stored \cup S
          /\ Answer(c, "RETRY") \/ (Appended(S, call[c].accepted) /\ Answer(c, "OK"))
    /\ UNCHANGED <<dropped, current, sharing, shown, toggles>>

\* The invocation dies, or a table, key or bus is unavailable.
InvocationFails(c) ==
    /\ call[c].at \in {"ARRIVED", "CONSENT", "CURRENT", "APPEND"}
    /\ Answer(c, "RETRY")
    /\ UNCHANGED <<dropped, server>>

-----------------------------------------------------------------------------
(* Beside the invocations: the switch and its index.                         *)

ToggleSharing ==
    /\ toggles < MaxToggles
    /\ toggles' = toggles + 1
    /\ sharing' = ~sharing
    /\ call' = [c \in Calls |-> [call[c] EXCEPT !.paused = FALSE]]
    /\ UNCHANGED <<dropped, stored, current, shown>>

IndexCatchesUp ==
    /\ shown # sharing
    /\ shown' = sharing
    /\ UNCHANGED <<call, dropped, stored, current, sharing, toggles>>

ServerStep(c) ==
    \/ Refuse(c) \/ ReserveWindow(c) \/ PlanBatch(c) \/ PutCurrent(c)
    \/ AppendHistory(c) \/ InvocationFails(c)

IngestionNext ==
    \/ \E c \in Calls : ServerStep(c)
    \/ ToggleSharing \/ IndexCatchesUp
=============================================================================
