---------------------------- MODULE Notification ----------------------------
(***************************************************************************)
(* services/notification-worker for the commands about one subject's        *)
(* crossings: an invocation takes a command, lists the candidates and takes *)
(* each through the stages of pipeline.ts, one read or write at a time,     *)
(* while memberships and the subject's sharing change and other invocations *)
(* handle the same command.                                                 *)
(*                                                                          *)
(* Abstracted: rendering; why a recipient is skipped when that is theirs to *)
(* choose (preferences, quiet hours) or to be out of luck (no profile, rate *)
(* limit); the lifetime of a claim, which outlives the queue's retention.   *)
(* A batch is its records one after another, and one that is not answered   *)
(* for is delivered again: an invocation here takes one record.             *)
(***************************************************************************)
EXTENDS AlertCommands

CONSTANTS
    Recipients,         \* the other members of the family
    Devices,            \* their phones
    Owner,              \* [Devices -> Recipients]
    Notifiers,          \* invocations that can run at the same time
    MaxCommandReceives  \* BOUND: receptions of commands

ASSUME NotificationConstants ==
    /\ Owner \in [Devices -> Recipients]
    /\ MaxCommandReceives \in Nat

VARIABLES
    members,        \* recipients whose membership row is ACTIVE
    hidden,         \* recipients the subject's row hides the subject from
    reachable,      \* devices whose row is ACTIVE and holds a push token
    claims,         \* deduplication keys in the idempotency table
    inbox,          \* [Devices -> the commands pushed to it]
    note,           \* [Notifiers -> what the invocation holds]
    commandReceives,\* commands received so far
    barred          \* HISTORY: [Notifiers -> what has barred the recipient in hand at every
                    \* moment since the invocation turned to them]

notificationVars == <<members, hidden, reachable, claims, inbox, note, commandReceives, barred>>

\* deduplicationKey: kind, source event and recipient; the place is not part of it.
Key(c, r) == <<c.kind, c.fix, r>>

IdleNote == [at |-> "IDLE", command |-> None, todo |-> {}, recipient |-> None,
             targets |-> {}, retire |-> {}, delivered |-> FALSE, failing |-> FALSE, retry |-> {}]

Notes == [at : {"IDLE", "NEXT", "RECIPIENT", "SUBJECT", "CLAIM", "SEND", "RETIRE"},
          command : Command \cup {None}, todo : SUBSET Recipients,
          recipient : Recipients \cup {None}, targets : SUBSET Devices, retire : SUBSET Devices,
          delivered : BOOLEAN, failing : BOOLEAN, retry : SUBSET Recipients]

NotificationInit ==
    /\ members = Recipients
    /\ hidden = {}
    /\ reachable = Devices
    /\ claims = {}
    /\ inbox = [d \in Devices |-> <<>>]
    /\ note = [n \in Notifiers |-> IdleNote]
    /\ commandReceives = 0
    /\ barred = [n \in Notifiers |-> {}]

\* What stands between recipient r and an alert about the subject.
Bars(r) == (IF r \in members THEN {} ELSE {"NOT_ACTIVE"})
           \cup (IF sharing THEN {} ELSE {"NOT_SHARING"})
           \cup (IF r \in hidden THEN {"HIDDEN"} ELSE {})

\* The recipient in hand is through: back to the list of candidates.
NextRecipient(x) == [x EXCEPT !.at = "NEXT", !.recipient = None, !.targets = {}, !.retire = {},
                              !.delivered = FALSE, !.failing = FALSE]

-----------------------------------------------------------------------------
\* handler.ts takes a record and resolveRecipients lists the ACTIVE members.
ReceiveCommand(n) ==
    /\ note[n] = IdleNote /\ commandReceives < MaxCommandReceives
    /\ \E c \in commands :
        note' = [note EXCEPT ![n] = [IdleNote EXCEPT !.at = "NEXT", !.command = c, !.todo = members]]
    /\ commandReceives' = commandReceives + 1
    /\ UNCHANGED <<members, hidden, reachable, claims, inbox, barred>>

\* Steps 1 and 2: the event, and the recipient's profile with their devices.
TakeRecipient(n, r) ==
    /\ note[n].at = "NEXT" /\ r \in note[n].todo
    /\ note' = [note EXCEPT ![n] = [note[n] EXCEPT !.at = "RECIPIENT", !.todo = @ \ {r}, !.recipient = r,
            !.targets = {d \in reachable : Owner[d] = r}]]
    /\ barred' = [barred EXCEPT ![n] = Bars(r)]
    /\ UNCHANGED <<members, hidden, reachable, claims, inbox, commandReceives>>

\* Step 3, first read: the recipient's own membership.
ReadRecipient(n) ==
    /\ note[n].at = "RECIPIENT"
    /\ note' = [note EXCEPT ![n] =
            IF note[n].recipient \in members THEN [note[n] EXCEPT !.at = "SUBJECT"] ELSE NextRecipient(@)]
    /\ UNCHANGED <<members, hidden, reachable, claims, inbox, commandReceives, barred>>

ShowsIgnoringHidden(r) == sharing

\* isSharing and isVisibleTo, over the subject's membership.
Shows(r) == sharing /\ r \notin hidden

\* Step 3, second read: the subject's membership.
ReadSubject(n) ==
    /\ note[n].at = "SUBJECT"
    /\ note' = [note EXCEPT ![n] =
            IF Shows(note[n].recipient) THEN [note[n] EXCEPT !.at = "CLAIM"] ELSE NextRecipient(@)]
    /\ UNCHANGED <<members, hidden, reachable, claims, inbox, commandReceives, barred>>

\* Steps 1 to 4: the event is gone, no profile, muted, quiet hours.
Skip(n) ==
    /\ note[n].at \in {"RECIPIENT", "SUBJECT", "CLAIM"}
    /\ note' = [note EXCEPT ![n] = NextRecipient(@)]
    /\ UNCHANGED <<members, hidden, reachable, claims, inbox, commandReceives, barred>>

UnclaimedByTheseDevices(c, r) ==
    \A d \in Devices : Owner[d] = r => \A m \in DOMAIN inbox[d] : inbox[d][m] # c

\* DynamoDeduplicationStore.claim's condition.
Unclaimed(c, r) == Key(c, r) \notin claims

\* Steps 5 to 7: the claim comes before the send and is never given back, not
\* even when the rate limit then refuses or there is no device to send to.
Claim(n) ==
    LET c == note[n].command
        r == note[n].recipient IN
    /\ note[n].at = "CLAIM"
    /\ claims' = claims \cup {Key(c, r)}
    /\ \/ /\ Unclaimed(c, r) /\ note[n].targets # {}
          /\ note' = [note EXCEPT ![n].at = "SEND"]
       \/ note' = [note EXCEPT ![n] = NextRecipient(@)]
    /\ UNCHANGED <<members, hidden, reachable, inbox, commandReceives, barred>>

\* Step 7, one device: taken by the provider, taken but answered with an error,
\* refused for now, or refused for good.
Send(n, d) ==
    LET c == note[n].command IN
    /\ note[n].at = "SEND" /\ d \in note[n].targets
    /\ \/ /\ inbox' = [inbox EXCEPT ![d] = Append(@, c)]
          /\ \/ note' = [note EXCEPT ![n] = [note[n] EXCEPT !.targets = @ \ {d}, !.delivered = TRUE]]
             \/ note' = [note EXCEPT ![n] = [note[n] EXCEPT !.targets = @ \ {d}, !.failing = TRUE]]
       \/ /\ \/ note' = [note EXCEPT ![n] = [note[n] EXCEPT !.targets = @ \ {d}, !.failing = TRUE]]
             \/ note' = [note EXCEPT ![n] = [note[n] EXCEPT !.targets = @ \ {d}, !.retire = @ \cup {d}]]
          /\ UNCHANGED inbox
    /\ UNCHANGED <<members, hidden, reachable, claims, commandReceives, barred>>

\* Step 8: the outcome of the recipient is recorded, retryable when nothing was
\* delivered and some device failed for now; then on to the dead endpoints, if any.
Finish(n) ==
    LET done == [note[n] EXCEPT !.retry = IF note[n].failing /\ ~note[n].delivered
                                          THEN @ \cup {note[n].recipient} ELSE @] IN
    /\ note[n].at = "SEND" /\ note[n].targets = {}
    /\ note' = [note EXCEPT ![n] = IF done.retire = {} THEN NextRecipient(done)
                                  ELSE [done EXCEPT !.at = "RETIRE"]]
    /\ UNCHANGED <<members, hidden, reachable, claims, inbox, commandReceives, barred>>

\* Step 9, one dead endpoint: its token leaves the device's row.
Retire(n, d) ==
    /\ note[n].at = "RETIRE" /\ d \in note[n].retire
    /\ reachable' = reachable \ {d}
    /\ note' = [note EXCEPT ![n] = IF note[n].retire = {d} THEN NextRecipient(@)
                                  ELSE [note[n] EXCEPT !.retire = @ \ {d}]]
    /\ UNCHANGED <<members, hidden, claims, inbox, commandReceives, barred>>

\* The answer to SQS: the command stays on the queue when some outcome is retryable.
Acknowledge(n) ==
    /\ note[n].at = "NEXT" /\ note[n].todo = {}
    /\ commands' = IF note[n].retry # {} THEN commands ELSE commands \ {note[n].command}
    /\ note' = [note EXCEPT ![n] = IdleNote]
    /\ barred' = [barred EXCEPT ![n] = {}]
    /\ UNCHANGED <<members, hidden, reachable, claims, inbox, commandReceives>>

\* Some call throws, or the invocation ends: the command stays on the queue.
NotifierFails(n) ==
    /\ note[n].at # "IDLE" /\ failures < MaxFailures
    /\ failures' = failures + 1
    /\ note' = [note EXCEPT ![n] = IdleNote]
    /\ barred' = [barred EXCEPT ![n] = {}]
    /\ UNCHANGED <<members, hidden, reachable, claims, inbox, commandReceives>>

\* What other services change meanwhile: the subject pauses or resumes, a member
\* leaves or joins again, the subject hides from a member or shows themselves.
ConsentChanges ==
    /\ changes < MaxChanges /\ changes' = changes + 1
    /\ \/ sharing' = ~sharing /\ UNCHANGED <<members, hidden>>
       \/ \E r \in Recipients :
            \/ /\ members' = IF r \in members THEN members \ {r} ELSE members \cup {r}
               /\ UNCHANGED <<sharing, hidden>>
            \/ /\ hidden' = IF r \in hidden THEN hidden \ {r} ELSE hidden \cup {r}
               /\ UNCHANGED <<sharing, members>>
    /\ UNCHANGED <<reachable, claims, inbox, note, commandReceives>>
    /\ barred' = [n \in Notifiers |->
            IF note[n].recipient = None THEN {} ELSE barred[n] \cap Bars(note[n].recipient)']

NotificationNext ==
    \/ /\ UNCHANGED <<commands, sharing, changes, failures>>
       /\ \E n \in Notifiers :
            \/ ReceiveCommand(n) \/ ReadRecipient(n) \/ ReadSubject(n) \/ Skip(n)
            \/ Claim(n) \/ Finish(n)
            \/ \E r \in Recipients : TakeRecipient(n, r)
            \/ \E d \in Devices : Send(n, d) \/ Retire(n, d)
    \/ UNCHANGED <<commands, sharing, changes>> /\ \E n \in Notifiers : NotifierFails(n)
    \/ UNCHANGED <<sharing, changes, failures>> /\ \E n \in Notifiers : Acknowledge(n)
    \/ UNCHANGED <<commands, failures>> /\ ConsentChanges

-----------------------------------------------------------------------------
NotificationTypeOK ==
    /\ members \subseteq Recipients /\ hidden \subseteq Recipients
    /\ reachable \subseteq Devices
    /\ claims \subseteq Kinds \X Fixes \X Recipients
    /\ \A d \in Devices : inbox[d] \in Seq(Command)
    /\ note \in [Notifiers -> Notes]
    /\ commandReceives \in 0..MaxCommandReceives
    /\ barred \in [Notifiers -> SUBSET {"NOT_ACTIVE", "NOT_SHARING", "HIDDEN"}]

\* A push is under way only for a recipient who, since the invocation turned to
\* them, was an ACTIVE member at some moment, and to whom the subject shared and
\* was shown at some moment: the list of candidates, read earlier, and what the
\* geofence worker had found are never enough (pipeline.ts, step 3).
NoPushToTheBarred == \A n \in Notifiers : note[n].at = "SEND" => barred[n] = {}

\* "True when redelivering the SQS message could still succeed." (pipeline.ts)
\* Whoever a command stays on the queue for is still unclaimed for it, so that
\* the redelivery can get past the deduplication.
RetryCanSucceed ==
    \A n \in Notifiers :
        note[n].at = "NEXT" => \A r \in note[n].retry : Unclaimed(note[n].command, r)
=============================================================================
