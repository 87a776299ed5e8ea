---------------------------- MODULE Idempotency ----------------------------
(***************************************************************************)
(* services/api: withIdempotency and its store.  A request that carries a   *)
(* key claims it, runs its handler once it has, and records the response    *)
(* for every later request with the key.                                    *)
(*                                                                          *)
(* Abstracted: the body's fingerprint (a key belongs to one body) and the   *)
(* expiry of records (clients stop repeating a request long before).        *)
(***************************************************************************)
EXTENDS Integers, FiniteSets

CONSTANTS
    Requests,    \* requests the API can be serving at the same time
    Keys,        \* idempotency keys clients choose
    Bodies       \* what responses are told apart by

ASSUME BodiesHaveNone == 0 \in Bodies

VARIABLES
    record,      \* the idempotency table
    req,         \* what each request is doing
    answers,     \* history: [Keys -> responses given to requests with the key]
    unclaimed    \* history: keys a request ran under without a record of its own

protocol == <<record, req, answers, unclaimed>>

Absent == [status |-> "ABSENT", body |-> 0]
Records == [status : {"ABSENT", "IN_PROGRESS", "COMPLETED"}, body : Bodies]
NoKey == "NONE"
Idle == [at |-> "IDLE", key |-> NoKey, body |-> 0]

InitProtocol ==
    /\ record = [k \in Keys |-> Absent]
    /\ req = [r \in Requests |-> Idle]
    /\ answers = [k \in Keys |-> {}]
    /\ unclaimed = {}

Goto(r, stage) == req' = [req EXCEPT ![r].at = stage]

\* claim: the conditional put; when it fails the row is read back.
Claim(r) ==
    LET k == req[r].key IN
    /\ req[r].at = "CLAIM"
    /\ \/ /\ record[k] = Absent
          /\ record' = [record EXCEPT ![k].status = "IN_PROGRESS"]
          /\ Goto(r, "RUN")
       \/ /\ record[k] # Absent
          /\ Goto(r, "READ_BACK")
          /\ UNCHANGED record
    /\ UNCHANGED <<answers, unclaimed>>

ReplaysUnfinished(k) == record[k].status \in {"COMPLETED", "IN_PROGRESS"}
Replays(k) == record[k].status = "COMPLETED"

\* A completed record is replayed and one in progress is a CONFLICT.  A row that
\* is gone by now counts as claimed, though nothing is written.
ReadBack(r) ==
    LET k == req[r].key IN
    /\ req[r].at = "READ_BACK"
    /\ \/ /\ record[k] = Absent
          /\ unclaimed' = unclaimed \cup {k}
          /\ Goto(r, "RUN")
          /\ UNCHANGED answers
       \/ /\ Replays(k)
          /\ answers' = [answers EXCEPT ![k] = @ \cup {record[k].body}]
          /\ req' = [req EXCEPT ![r] = Idle]
          /\ UNCHANGED unclaimed
       \/ /\ record[k] # Absent /\ ~Replays(k)
          /\ req' = [req EXCEPT ![r] = Idle]
          /\ UNCHANGED <<answers, unclaimed>>
    /\ UNCHANGED record

\* complete: the handler returned; without a row the update fails, and with it
\* the request.
Complete(r) ==
    LET k == req[r].key IN
    /\ req[r].at = "COMPLETE"
    /\ \/ /\ record[k] # Absent
          /\ record' = [record EXCEPT ![k] = [status |-> "COMPLETED", body |-> req[r].body]]
          /\ answers' = [answers EXCEPT ![k] = @ \cup {req[r].body}]
       \/ /\ record[k] = Absent
          /\ UNCHANGED <<record, answers>>
    /\ req' = [req EXCEPT ![r] = Idle]
    /\ UNCHANGED unclaimed

\* release: the handler threw; an unfinished claim is deleted, whoever made it.
Release(r) ==
    LET k == req[r].key IN
    /\ req[r].at = "RELEASE"
    /\ record' = IF record[k].status = "IN_PROGRESS" THEN [record EXCEPT ![k] = Absent] ELSE record
    /\ req' = [req EXCEPT ![r] = Idle]
    /\ UNCHANGED <<answers, unclaimed>>

\* Every response ever given to a key is the same one, provided every request
\* that ran under the key had a record of its own.
OneAnswerPerKey == \A k \in Keys \ unclaimed : Cardinality(answers[k]) <= 1
=============================================================================
