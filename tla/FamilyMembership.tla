-------------------------- MODULE FamilyMembership --------------------------
(***************************************************************************)
(* The membership table of one family, as services/family-service writes   *)
(* it.  Every HTTP request is a handler that reads rows, decides, and then  *)
(* writes with the condition its DynamoDB call carries; the reads and the   *)
(* write of one handler interleave with those of the others.                *)
(*                                                                          *)
(* Abstracted: names, avatars, audit records and events; the per-pair deny  *)
(* lists (`hiddenFromUserIds`), which no decision of this module reads; the *)
(* outcome of the account, device, rate-limit and entitlement checks, each  *)
(* of which can only end the request (Abandon).                             *)
(***************************************************************************)
EXTENDS Naturals, FiniteSets

CONSTANTS
    User,         \* the people who may belong to the family
    NoUser,       \* "no such user": ownerUserId before the family exists
    Requests,     \* handlers that can be in flight at the same time
    Ops,          \* the endpoints a run exercises
    JoinRoles,    \* roles an invitation of this run grants
    JoinSharing,  \* sharing statuses a redemption of this run may start with
    Patches,      \* PATCH bodies of this run: [role, status], "KEEP" if absent
    IndexLags,    \* whether the byUser index may trail the table
    MaxStarts     \* BOUND: requests started in one behaviour

Roles == {"OWNER", "ADMIN", "ADULT", "MEMBER"}
Assignable == Roles \ {"OWNER"}
Statuses == {"NONE", "ACTIVE", "BLOCKED", "REMOVED", "LEFT"}
SharingStatuses == {"NEVER_ENABLED", "SHARING", "PAUSED", "DISABLED"}
Bodies == [role : Assignable \cup {"KEEP"}, status : {"ACTIVE", "BLOCKED", "KEEP"}]
AllOps == {"CREATE", "REMOVE", "PATCH", "TRANSFER", "BLOCK", "REPORT_LEAVE",
           "RESUME", "PAUSE"}

ASSUME ConstantsOK ==
    /\ NoUser \notin User
    /\ Ops \subseteq AllOps
    /\ JoinRoles \subseteq Assignable
    /\ JoinSharing \subseteq {"NEVER_ENABLED", "SHARING"}
    /\ Patches \subseteq Bodies
    /\ IndexLags \in BOOLEAN
    /\ MaxStarts \in Nat

(* A membership row.  `open` is visibleToUserIds = null (every member may   *)
(* look); the only other value any writer stores is the empty list.         *)
Rows == [role : Roles, status : Statuses, sharing : SharingStatuses, open : BOOLEAN]
NoRow == [role |-> "MEMBER", status |-> "NONE", sharing |-> "NEVER_ENABLED", open |-> FALSE]
NoBody == [role |-> "KEEP", status |-> "KEEP"]

VARIABLES
    owner,   \* families.ownerUserId
    row,     \* the memberships table: [User -> Rows]
    index,   \* what the byUser secondary index answers: [User -> Rows]
    req,     \* the handlers: [Requests -> the locals of one handler]
    ended,   \* history: users whose membership was ever LEFT or REMOVED
    starts   \* requests started so far (bounded by MaxStarts)

vars == <<owner, row, index, req, ended, starts>>

Locations == {"IDLE", "AUTH", "AUTH_TARGET", "LOAD_ACTOR", "LOAD_TARGET", "COMMIT",
              "CREATE_FAMILY", "CREATE_ROW", "LIST_PAIR", "LOAD_OWN", "LIST_OWN"}
Handlers == [at : Locations, op : AllOps, actor : User \cup {NoUser},
             target : User \cup {NoUser}, body : Bodies, mine : Rows, theirs : Rows]
IdleHandler == [at |-> "IDLE", op |-> "CREATE", actor |-> NoUser, target |-> NoUser,
                body |-> NoBody, mine |-> NoRow, theirs |-> NoRow]

-----------------------------------------------------------------------------
(* The pure rules.                                                          *)

Rank(role) == CASE role = "OWNER" -> 4 [] role = "ADMIN" -> 3
                [] role = "ADULT" -> 2 [] OTHER -> 1

CanManageMembers(role) == role \in {"OWNER", "ADMIN"}

RemovalAllowedForOwner(self, mine, theirs) ==
    self \/ /\ mine.status = "ACTIVE"
            /\ CanManageMembers(mine.role)
            /\ Rank(mine.role) > Rank(theirs.role)

\* planRemoval: the owner is never removable, leaving needs no role, and a
\* manager removes only those of strictly lower rank.
RemovalAllowed(self, mine, theirs) ==
    /\ theirs.role # "OWNER"
    /\ self \/ /\ mine.status = "ACTIVE"
               /\ CanManageMembers(mine.role)
               /\ Rank(mine.role) > Rank(theirs.role)

\* assertCanChangeRole: outrank both the current role and the one granted.
RoleChangeAllowed(self, mine, theirs, next) ==
    /\ ~self
    /\ theirs.role # "OWNER"
    /\ mine.status = "ACTIVE"
    /\ CanManageMembers(mine.role)
    /\ Rank(mine.role) > Rank(theirs.role)
    /\ Rank(mine.role) > Rank(next)

\* blockUser: may the blocker remove the blocked person from this family?
CanRemoveOther(mine, theirs) ==
    /\ CanManageMembers(mine.role)
    /\ theirs.role # "OWNER"
    /\ Rank(mine.role) > Rank(theirs.role)

\* updateFamilyMember: what the PATCH body needs of the two rows it read.
PatchAllowed(self, mine, theirs, body) ==
    /\ body.role # "KEEP" => RoleChangeAllowed(self, mine, theirs, body.role)
    /\ body.status # "KEEP" => theirs.role # "OWNER"

RevokedKeepingAllowList(r, status) == [r EXCEPT !.status = status, !.sharing = "DISABLED"]

\* MembershipStore.revoke: one write ends the membership and the access to it.
Revoked(r, status) ==
    [r EXCEPT !.status = status, !.sharing = "DISABLED", !.open = FALSE]

PatchedWithAbsentFields(r, body) == [r EXCEPT !.role = body.role, !.status = body.status]

\* MembershipStore.patch: only the fields the body carries are assigned.
Patched(r, body) ==
    [r EXCEPT !.role = IF body.role = "KEEP" THEN @ ELSE body.role,
              !.status = IF body.status = "KEEP" THEN @ ELSE body.status]

\* The authorisation pipeline's steps 4 to 7 for a location read: may v see u?
CanLocate(v, u) ==
    /\ v # u
    /\ row[v].status = "ACTIVE"
    /\ row[u].status = "ACTIVE"
    /\ row[u].sharing = "SHARING"
    /\ row[u].open

-----------------------------------------------------------------------------
Init ==
    /\ owner = NoUser
    /\ row = [u \in User |-> NoRow]
    /\ index = [u \in User |-> NoRow]
    /\ req = [r \in Requests |-> IdleHandler]
    /\ ended = {}
    /\ starts = 0

\* A write to one membership row; an index that does not lag follows it at once.
Write(u, new) ==
    /\ row' = [row EXCEPT ![u] = new]
    /\ index' = IF IndexLags THEN index ELSE [index EXCEPT ![u] = new]
    /\ ended' = IF new.status \in {"LEFT", "REMOVED"} THEN ended \cup {u} ELSE ended

Finish(r) == req' = [req EXCEPT ![r] = IdleHandler]

At(r, location) == req[r].at = location

Self(r) == req[r].actor = req[r].target

FirstStep(op) ==
    CASE op = "CREATE" -> "CREATE_FAMILY"
      [] op = "BLOCK" -> "LIST_PAIR"
      [] op = "REPORT_LEAVE" -> "LOAD_OWN"
      [] op \in {"RESUME", "PAUSE"} -> "LIST_OWN"
      [] OTHER -> "AUTH"

\* A request arrives.  Blocking oneself is refused by validation.
Start(r, op, a, t, body) ==
    /\ At(r, "IDLE")
    /\ starts < MaxStarts
    /\ op = "BLOCK" => a # t
    /\ req' = [req EXCEPT ![r] = [IdleHandler EXCEPT !.at = FirstStep(op), !.op = op,
                                  !.actor = a, !.target = t, !.body = body]]
    /\ starts' = starts + 1
    /\ UNCHANGED <<owner, row, index, ended>>

\* The handler stops before its write: a check refused it, a call failed, the
\* condition of its write did not hold, or the Lambda died.
Abandon(r) ==
    /\ ~At(r, "IDLE")
    /\ Finish(r)
    /\ UNCHANGED <<owner, row, index, ended, starts>>

-----------------------------------------------------------------------------
(* POST /v1/families                                                        *)

\* families.create: the family row, conditional on its absence.
CreateFamily(r) ==
    /\ At(r, "CREATE_FAMILY")
    /\ owner = NoUser
    /\ owner' = req[r].actor
    /\ req' = [req EXCEPT ![r].at = "CREATE_ROW"]
    /\ UNCHANGED <<row, index, ended, starts>>

\* memberships.create: the owner's own row, a second and separate write.
CreateMembership(r) ==
    /\ At(r, "CREATE_ROW")
    /\ row[req[r].actor].status = "NONE"
    /\ Write(req[r].actor, [role |-> "OWNER", status |-> "ACTIVE",
                            sharing |-> "NEVER_ENABLED", open |-> TRUE])
    /\ Finish(r)
    /\ UNCHANGED <<owner, starts>>

(* POST /v1/invitations/accept, as far as this table is concerned.          *)

\* redeem: puts a row only where none has ever been.
Join(u, role, sharing) ==
    /\ \E m \in User : row[m].status # "NONE"
    /\ row[u].status = "NONE"
    /\ Write(u, [role |-> role, status |-> "ACTIVE", sharing |-> sharing, open |-> TRUE])
    /\ UNCHANGED <<owner, req, starts>>

-----------------------------------------------------------------------------
(* The checks every management endpoint shares: assertCanManageMember.      *)

MinimumRole(op) == IF op = "TRANSFER" THEN "OWNER" ELSE "ADMIN"

\* Step 4: the requester's row.  A self-target skips the role check and, since
\* the row it would read next is the same one, step 5 as well.
AuthorizeRequester(r) ==
    LET mine == row[req[r].actor] IN
    /\ At(r, "AUTH")
    /\ mine.status = "ACTIVE"
    /\ Self(r) \/ Rank(mine.role) >= Rank(MinimumRole(req[r].op))
    /\ req' = [req EXCEPT ![r].at = IF Self(r) THEN "LOAD_ACTOR" ELSE "AUTH_TARGET",
                          ![r].mine = IF Self(r) THEN NoRow ELSE mine]
    /\ UNCHANGED <<owner, row, index, ended, starts>>

\* Step 5: the target's row, in an allowed state and strictly outranked.
AuthorizeTarget(r) ==
    LET theirs == row[req[r].target] IN
    /\ At(r, "AUTH_TARGET")
    /\ theirs.status = "ACTIVE"
    /\ Rank(req[r].mine.role) > Rank(theirs.role)
    /\ req' = [req EXCEPT ![r].at = "LOAD_ACTOR", ![r].mine = NoRow]
    /\ UNCHANGED <<owner, row, index, ended, starts>>

\* The handler's own reads, which the rules are then applied to.
LoadActor(r) ==
    /\ At(r, "LOAD_ACTOR")
    /\ row[req[r].actor].status # "NONE"
    /\ req' = [req EXCEPT ![r].at = "LOAD_TARGET", ![r].mine = row[req[r].actor]]
    /\ UNCHANGED <<owner, row, index, ended, starts>>

LoadTarget(r) ==
    /\ At(r, "LOAD_TARGET")
    /\ row[req[r].target].status # "NONE"
    /\ req' = [req EXCEPT ![r].at = "COMMIT", ![r].theirs = row[req[r].target]]
    /\ UNCHANGED <<owner, row, index, ended, starts>>

-----------------------------------------------------------------------------
(* The writes.                                                              *)

\* DELETE .../members/{userId}: LEFT for oneself, REMOVED by a manager.
Remove(r) ==
    LET t == req[r].target IN
    /\ At(r, "COMMIT") /\ req[r].op = "REMOVE"
    /\ RemovalAllowed(Self(r), req[r].mine, req[r].theirs)
    /\ row[t].status # "NONE"
    /\ Write(t, Revoked(row[t], IF Self(r) THEN "LEFT" ELSE "REMOVED"))
    /\ Finish(r)
    /\ UNCHANGED <<owner, starts>>

\* PATCH .../members/{userId}: conditional only on the row's existence.
Patch(r) ==
    LET t == req[r].target IN
    /\ At(r, "COMMIT") /\ req[r].op = "PATCH"
    /\ PatchAllowed(Self(r), req[r].mine, req[r].theirs, req[r].body)
    /\ row[t].status # "NONE"
    /\ Write(t, Patched(row[t], req[r].body))
    /\ Finish(r)
    /\ UNCHANGED <<owner, starts>>

TransferChecksNewOwnerOnly(from, to) ==
    /\ row[to].status = "ACTIVE"
    /\ row[to].role # "OWNER"

\* The conditions of the three updates of the transaction.
TransferCondition(from, to) ==
    /\ owner = from
    /\ row[from].role = "OWNER"
    /\ row[to].status = "ACTIVE"
    /\ row[to].role # "OWNER"

\* POST .../transfer-ownership: the rule, then one transaction of three updates.
TransferOwnership(r) ==
    LET a == req[r].actor
        t == req[r].target
        after == [row EXCEPT ![a].role = "ADMIN", ![t].role = "OWNER"] IN
    /\ At(r, "COMMIT") /\ req[r].op = "TRANSFER"
    /\ req[r].mine.role = "OWNER" /\ req[r].mine.status = "ACTIVE"
    /\ ~Self(r)
    /\ req[r].theirs.status = "ACTIVE"
    /\ TransferCondition(a, t)
    /\ owner' = t
    /\ row' = after
    /\ index' = IF IndexLags THEN index ELSE after
    /\ Finish(r)
    /\ UNCHANGED <<ended, starts>>

-----------------------------------------------------------------------------
(* POST /v1/support/blocks with removeFromSharedFamilies, in this family.   *)

\* sharedFamilyRows: my row from the index, theirs from the table.
ListPair(r) ==
    LET mine == index[req[r].actor]
        theirs == row[req[r].target] IN
    /\ At(r, "LIST_PAIR")
    /\ mine.status = "ACTIVE" /\ theirs.status = "ACTIVE"
    /\ req' = [req EXCEPT ![r].at = "COMMIT", ![r].mine = mine, ![r].theirs = theirs]
    /\ UNCHANGED <<owner, row, index, ended, starts>>

\* Remove them if the two rows allow it; else leave, unless that is the owner.
BlockAndRemove(r) ==
    LET other == CanRemoveOther(req[r].mine, req[r].theirs)
        gone == IF other THEN req[r].target ELSE req[r].actor IN
    /\ At(r, "COMMIT") /\ req[r].op = "BLOCK"
    /\ other \/ req[r].mine.role # "OWNER"
    /\ row[gone].status # "NONE"
    /\ Write(gone, Revoked(row[gone], IF other THEN "REMOVED" ELSE "LEFT"))
    /\ Finish(r)
    /\ UNCHANGED <<owner, starts>>

(* POST /v1/support/reports with leaveFamily.                               *)

LoadOwn(r) ==
    LET mine == row[req[r].actor] IN
    /\ At(r, "LOAD_OWN")
    /\ mine.status = "ACTIVE" /\ mine.role # "OWNER"
    /\ req' = [req EXCEPT ![r].at = "COMMIT", ![r].mine = mine]
    /\ UNCHANGED <<owner, row, index, ended, starts>>

ReportAndLeave(r) ==
    LET a == req[r].actor IN
    /\ At(r, "COMMIT") /\ req[r].op = "REPORT_LEAVE"
    /\ row[a].status # "NONE"
    /\ Write(a, Revoked(row[a], "LEFT"))
    /\ Finish(r)
    /\ UNCHANGED <<owner, starts>>

(* PATCH /v1/privacy/sharing (services/api), for this family's row.         *)

\* listForUser returns rows of any status; resuming skips a row that already
\* shares.
ListOwn(r) ==
    LET mine == index[req[r].actor] IN
    /\ At(r, "LIST_OWN")
    /\ mine.status # "NONE"
    /\ req[r].op = "RESUME" => mine.sharing # "SHARING"
    /\ req' = [req EXCEPT ![r].at = "COMMIT"]
    /\ UNCHANGED <<owner, row, index, ended, starts>>

\* writeSharing: conditional only on the row's existence, whatever its status.
WriteSharing(r) ==
    LET a == req[r].actor IN
    /\ At(r, "COMMIT") /\ req[r].op \in {"RESUME", "PAUSE"}
    /\ row[a].status # "NONE"
    /\ Write(a, [row[a] EXCEPT !.sharing = IF req[r].op = "RESUME" THEN "SHARING"
                                           ELSE "PAUSED"])
    /\ Finish(r)
    /\ UNCHANGED <<owner, starts>>

\* DynamoDB propagates a table row to the index, some time later.
IndexCatchesUp(u) ==
    /\ index[u] # row[u]
    /\ index' = [index EXCEPT ![u] = row[u]]
    /\ UNCHANGED <<owner, row, req, ended, starts>>

-----------------------------------------------------------------------------
\* Who a request of each kind names as its target, and what body it carries.
TargetsOf(op, a) == IF op \in {"REMOVE", "PATCH", "TRANSFER", "BLOCK"} THEN User ELSE {a}
BodiesOf(op) == IF op = "PATCH" THEN Patches ELSE {NoBody}

Step(r) ==
    \/ \E op \in Ops, a \in User :
          \E t \in TargetsOf(op, a), body \in BodiesOf(op) : Start(r, op, a, t, body)
    \/ Abandon(r)
    \/ CreateFamily(r)
    \/ CreateMembership(r)
    \/ AuthorizeRequester(r)
    \/ AuthorizeTarget(r)
    \/ LoadActor(r)
    \/ LoadTarget(r)
    \/ Remove(r)
    \/ Patch(r)
    \/ TransferOwnership(r)
    \/ ListPair(r)
    \/ BlockAndRemove(r)
    \/ LoadOwn(r)
    \/ ReportAndLeave(r)
    \/ ListOwn(r)
    \/ WriteSharing(r)

Next ==
    \/ \E r \in Requests : Step(r)
    \/ \E u \in User, role \in JoinRoles, sharing \in JoinSharing : Join(u, role, sharing)
    \/ \E u \in User : IndexCatchesUp(u)

Spec == Init /\ [][Next]_vars

-----------------------------------------------------------------------------
(* Properties.                                                              *)

\* Every variable keeps its type: rows, handler locals and the two histories.
TypeOK ==
    /\ owner \in User \cup {NoUser}
    /\ row \in [User -> Rows]
    /\ index \in [User -> Rows]
    /\ req \in [Requests -> Handlers]
    /\ ended \subseteq User
    /\ starts \in 0..MaxStarts

Owners == {u \in User : row[u].role = "OWNER"}

\* However transfers, role changes and removals interleave, a row that says
\* OWNER belongs to the family's ownerUserId, so no two members ever own it.
OwnerRowIsTheOwner == \A u \in Owners : u = owner

\* Once a membership has ended, nobody can locate that person through it again:
\* not after a stale PATCH re-activates the row, not after they resume sharing
\* (MembershipStore.revoke empties the allow-list and nothing refills it).
EndedNeverLocated == \A u \in ended, v \in User : ~CanLocate(v, u)

\* membership-rules.ts, the first of its four invariants "for every family, at
\* every moment": there is exactly ONE owner (ownersOf counts ACTIVE rows).
ExactlyOneOwner ==
    (\E u \in User : row[u].status # "NONE")
        => Cardinality({u \in Owners : row[u].status = "ACTIVE"}) = 1
=============================================================================
