----------------------- MODULE FamilyMembershipProofs -----------------------
(***************************************************************************)
(* FamilyMembership for every set of users, handlers and endpoints: type    *)
(* correctness, a single OWNER row, and invisibility after a membership     *)
(* ends.  The inductive invariant adds to the properties what each handler  *)
(* in flight may rely on.  At the end, the one owner of a family whose      *)
(* requests never met (MCFamilyMembership's history variable).              *)
(***************************************************************************)
EXTENDS MCFamilyMembership, FiniteSetTheorems, TLAPS

\* A handler in flight acts for, and on, people.
InFlightNamesPeople ==
    \A r \in Requests : ~At(r, "IDLE") => req[r].actor \in User /\ req[r].target \in User

\* Between the two writes of createFamily nobody owns the family by role, and
\* its ownerUserId is the creator.
CreationIsExclusive ==
    \A r \in Requests : At(r, "CREATE_ROW") =>
        /\ owner = req[r].actor
        /\ Owners = {}
        /\ \A s \in Requests : At(s, "CREATE_ROW") => s = r

\* A row that ended is remembered, exists for ever, and is closed to everyone.
EndedRowsAreClosed ==
    \A u \in User :
        /\ row[u].status \in {"LEFT", "REMOVED"} => u \in ended
        /\ u \in ended => row[u].status # "NONE" /\ ~row[u].open

IInv ==
    /\ TypeOK
    /\ InFlightNamesPeople
    /\ CreationIsExclusive
    /\ OwnerRowIsTheOwner
    /\ EndedRowsAreClosed

-----------------------------------------------------------------------------
(* What the row transformers return.                                        *)

\* The idle handler and the absent row are well typed.
LEMMA DefaultsTyped == IdleHandler \in Handlers /\ NoRow \in Rows /\ NoBody \in Bodies
BY DEF IdleHandler, Handlers, NoRow, Rows, NoBody, Bodies, Locations, AllOps, Roles,
       Statuses, SharingStatuses, Assignable

\* revoke ends a row, closes it and leaves its role alone.
LEMMA RevokedRow ==
    ASSUME NEW x \in Rows, NEW s \in {"LEFT", "REMOVED"}
    PROVE  /\ Revoked(x, s) \in Rows
           /\ Revoked(x, s).role = x.role
           /\ Revoked(x, s).status = s
           /\ Revoked(x, s).open = FALSE
BY DEF Revoked, Rows, Statuses, SharingStatuses

\* patch never grants OWNER, never ends a row and never opens one.
LEMMA PatchedRow ==
    ASSUME NEW x \in Rows, NEW b \in Bodies
    PROVE  /\ Patched(x, b) \in Rows
           /\ Patched(x, b).role = "OWNER" => x.role = "OWNER"
           /\ Patched(x, b).status \in {x.status, "ACTIVE", "BLOCKED"}
           /\ Patched(x, b).open => x.open
BY DEF Patched, Rows, Bodies, Assignable, Roles, Statuses

-----------------------------------------------------------------------------
\* A step that only moves one handler to a typed record keeps the invariant,
\* provided the record names people and is not the middle of a creation.
LEMMA HandlerStep ==
    ASSUME IInv, NEW r \in Requests, NEW h \in Handlers,
           req' = [req EXCEPT ![r] = h],
           h.at # "IDLE" => h.actor \in User /\ h.target \in User,
           h.at # "CREATE_ROW",
           UNCHANGED <<owner, row, ended>>,
           index' \in [User -> Rows], starts' \in 0..MaxStarts
    PROVE  IInv'
<1>1. TypeOK'
  BY DEF IInv, TypeOK
<1>2. InFlightNamesPeople'
  BY DEF IInv, TypeOK, InFlightNamesPeople, At
<1>3. CreationIsExclusive'
  BY DEF IInv, TypeOK, CreationIsExclusive, At, Owners
<1>4. OwnerRowIsTheOwner' /\ EndedRowsAreClosed'
  BY DEF IInv, OwnerRowIsTheOwner, Owners, EndedRowsAreClosed
<1> QED BY <1>1, <1>2, <1>3, <1>4 DEF IInv

\* A conditional write to one existing or new row, by a handler that is then
\* done, keeps the invariant if the row gains no ownership and stays closed.
LEMMA RowWrite ==
    ASSUME IInv, NEW u \in User, NEW new \in Rows,
           Write(u, new),
           req' = req \/ \E r \in Requests : Finish(r),
           owner' = owner, starts' = starts,
           new.role = "OWNER" => u = owner,
           new.role = "OWNER" => row[u].role = "OWNER"
                                 \/ \A s \in Requests : ~At(s, "CREATE_ROW")',
           new.status # "NONE",
           new.status \in {"LEFT", "REMOVED"} \/ u \in ended => ~new.open
    PROVE  IInv'
<1>0. IdleHandler \in Handlers BY DefaultsTyped
<1>1. row' \in [User -> Rows] /\ index' \in [User -> Rows]
  BY DEF IInv, TypeOK, Write
<1>2. ended' \subseteq User
  BY DEF IInv, TypeOK, Write
<1>3. req' \in [Requests -> Handlers]
  BY <1>0 DEF IInv, TypeOK, Finish
<1>4. \A s \in Requests : ~At(s, "IDLE")' => ~At(s, "IDLE") /\ req'[s] = req[s]
  BY DEF IInv, TypeOK, Finish, At, IdleHandler
<1>5. \A s \in Requests : At(s, "CREATE_ROW")' => At(s, "CREATE_ROW") /\ req'[s] = req[s]
  BY <1>4 DEF At
<1>6. TypeOK'
  BY <1>1, <1>2, <1>3 DEF IInv, TypeOK
<1>7. InFlightNamesPeople'
  BY <1>4 DEF IInv, InFlightNamesPeople, At
<1>8. \A v \in User : row'[v] = IF v = u THEN new ELSE row[v]
  BY DEF IInv, TypeOK, Write
<1>9. OwnerRowIsTheOwner'
  BY <1>8 DEF IInv, OwnerRowIsTheOwner, Owners
<1>10. CreationIsExclusive'
  <2> SUFFICES ASSUME NEW s \in Requests, At(s, "CREATE_ROW")'
               PROVE  /\ owner' = req'[s].actor
                      /\ Owners' = {}
                      /\ \A t \in Requests : At(t, "CREATE_ROW")' => t = s
    BY DEF CreationIsExclusive
  <2>1. At(s, "CREATE_ROW") /\ req'[s] = req[s] BY <1>5
  <2>2. Owners = {} BY <2>1 DEF IInv, CreationIsExclusive
  <2>3. Owners' = {} BY <1>8, <2>2 DEF Owners
  <2> QED BY <1>5, <2>1, <2>3 DEF IInv, CreationIsExclusive
<1>11. EndedRowsAreClosed'
  BY <1>8 DEF IInv, EndedRowsAreClosed, Write
<1> QED BY <1>6, <1>7, <1>9, <1>10, <1>11 DEF IInv

-----------------------------------------------------------------------------
LEMMA InitIInv == Init => IInv
BY DefaultsTyped, ConstantsOK
   DEF Init, IInv, TypeOK, InFlightNamesPeople, CreationIsExclusive, OwnerRowIsTheOwner,
       EndedRowsAreClosed, At, Owners, IdleHandler, NoRow

\* A request arrives, or a handler gives up, or it reads: no row is written.
LEMMA ReadingSteps ==
    ASSUME IInv, NEW r \in Requests,
           \/ \E op \in Ops, a \in User :
                 \E t \in TargetsOf(op, a), body \in BodiesOf(op) : Start(r, op, a, t, body)
           \/ Abandon(r)
           \/ AuthorizeRequester(r) \/ AuthorizeTarget(r)
           \/ LoadActor(r) \/ LoadTarget(r)
           \/ ListPair(r) \/ LoadOwn(r) \/ ListOwn(r)
    PROVE  IInv'
<1> USE DEF IInv, TypeOK
<1>1. req[r] \in Handlers /\ index \in [User -> Rows] /\ starts \in 0..MaxStarts
  OBVIOUS
<1>2. \A x \in User : row[x] \in Rows /\ index[x] \in Rows
  OBVIOUS
<1>3. ~At(r, "IDLE") => req[r].actor \in User /\ req[r].target \in User
  BY DEF InFlightNamesPeople
<1>4. NoRow \in Rows /\ IdleHandler \in Handlers /\ NoBody \in Bodies BY DefaultsTyped
<1> HIDE DEF IInv, TypeOK
<1>a. ASSUME NEW op \in Ops, NEW a \in User, NEW t \in TargetsOf(op, a),
             NEW body \in BodiesOf(op), Start(r, op, a, t, body)
      PROVE  IInv'
  <2> DEFINE h == [IdleHandler EXCEPT !.at = FirstStep(op), !.op = op, !.actor = a,
                                      !.target = t, !.body = body]
  <2>1. t \in User /\ body \in Bodies /\ op \in AllOps
    BY <1>4, ConstantsOK DEF TargetsOf, BodiesOf
  <2>2. FirstStep(op) \in Locations \ {"CREATE_ROW"}
    BY <2>1 DEF FirstStep, Locations, AllOps
  <2>3. h \in Handlers /\ h.at # "CREATE_ROW" /\ h.actor \in User /\ h.target \in User
    BY <1>4, <2>1, <2>2 DEF Handlers
  <2>4. starts < MaxStarts /\ starts' = starts + 1
    BY <1>a DEF Start
  <2>5. MaxStarts \in Nat
    BY ConstantsOK
  <2>6. starts' \in 0..MaxStarts
    BY <1>1, <2>4, <2>5, SMT
  <2> QED BY <1>a, <1>1, <2>3, <2>6, HandlerStep DEF Start
<1>b. ASSUME Abandon(r) PROVE IInv'
  BY <1>b, <1>1, <1>4, HandlerStep DEF Abandon, Finish, IdleHandler
<1>c. ASSUME AuthorizeRequester(r) PROVE IInv'
  <2> DEFINE h == [req[r] EXCEPT !.at = IF Self(r) THEN "LOAD_ACTOR" ELSE "AUTH_TARGET",
                                 !.mine = IF Self(r) THEN NoRow ELSE row[req[r].actor]]
  <2>1. req[r].actor \in User /\ req[r].target \in User
    BY <1>c, <1>3 DEF AuthorizeRequester, At
  <2>2. h \in Handlers /\ h.at # "CREATE_ROW" /\ h.actor \in User /\ h.target \in User
    BY <1>1, <1>2, <1>4, <2>1 DEF Handlers, Locations
  <2>3. req' = [req EXCEPT ![r] = h]
    BY <1>c DEF AuthorizeRequester
  <2> QED BY <1>c, <1>1, <2>2, <2>3, HandlerStep DEF AuthorizeRequester
<1>d. ASSUME AuthorizeTarget(r) PROVE IInv'
  <2> DEFINE h == [req[r] EXCEPT !.at = "LOAD_ACTOR", !.mine = NoRow]
  <2>1. h \in Handlers /\ h.at # "CREATE_ROW" /\ h.actor \in User /\ h.target \in User
    BY <1>d, <1>1, <1>3, <1>4 DEF AuthorizeTarget, At, Handlers, Locations
  <2>2. req' = [req EXCEPT ![r] = h]
    BY <1>d DEF AuthorizeTarget
  <2> QED BY <1>d, <1>1, <2>1, <2>2, HandlerStep DEF AuthorizeTarget
<1>e. ASSUME LoadActor(r) PROVE IInv'
  <2> DEFINE h == [req[r] EXCEPT !.at = "LOAD_TARGET", !.mine = row[req[r].actor]]
  <2>1. req[r].actor \in User /\ req[r].target \in User
    BY <1>e, <1>3 DEF LoadActor, At
  <2>2. h \in Handlers /\ h.at # "CREATE_ROW" /\ h.actor \in User /\ h.target \in User
    BY <1>1, <1>2, <2>1 DEF Handlers, Locations
  <2>3. req' = [req EXCEPT ![r] = h]
    BY <1>e DEF LoadActor
  <2> QED BY <1>e, <1>1, <2>2, <2>3, HandlerStep DEF LoadActor
<1>f. ASSUME LoadTarget(r) PROVE IInv'
  <2> DEFINE h == [req[r] EXCEPT !.at = "COMMIT", !.theirs = row[req[r].target]]
  <2>1. req[r].actor \in User /\ req[r].target \in User
    BY <1>f, <1>3 DEF LoadTarget, At
  <2>2. h \in Handlers /\ h.at # "CREATE_ROW" /\ h.actor \in User /\ h.target \in User
    BY <1>1, <1>2, <2>1 DEF Handlers, Locations
  <2>3. req' = [req EXCEPT ![r] = h]
    BY <1>f DEF LoadTarget
  <2> QED BY <1>f, <1>1, <2>2, <2>3, HandlerStep DEF LoadTarget
<1>g. ASSUME ListPair(r) PROVE IInv'
  <2> DEFINE h == [req[r] EXCEPT !.at = "COMMIT", !.mine = index[req[r].actor],
                                 !.theirs = row[req[r].target]]
  <2>1. req[r].actor \in User /\ req[r].target \in User
    BY <1>g, <1>3 DEF ListPair, At
  <2>2. h \in Handlers /\ h.at # "CREATE_ROW" /\ h.actor \in User /\ h.target \in User
    BY <1>1, <1>2, <2>1 DEF Handlers, Locations
  <2>3. req' = [req EXCEPT ![r] = h]
    BY <1>g DEF ListPair
  <2> QED BY <1>g, <1>1, <2>2, <2>3, HandlerStep DEF ListPair
<1>h. ASSUME LoadOwn(r) PROVE IInv'
  <2> DEFINE h == [req[r] EXCEPT !.at = "COMMIT", !.mine = row[req[r].actor]]
  <2>1. req[r].actor \in User /\ req[r].target \in User
    BY <1>h, <1>3 DEF LoadOwn, At
  <2>2. h \in Handlers /\ h.at # "CREATE_ROW" /\ h.actor \in User /\ h.target \in User
    BY <1>1, <1>2, <2>1 DEF Handlers, Locations
  <2>3. req' = [req EXCEPT ![r] = h]
    BY <1>h DEF LoadOwn
  <2> QED BY <1>h, <1>1, <2>2, <2>3, HandlerStep DEF LoadOwn
<1>i. ASSUME ListOwn(r) PROVE IInv'
  <2> DEFINE h == [req[r] EXCEPT !.at = "COMMIT"]
  <2>1. h \in Handlers /\ h.at # "CREATE_ROW" /\ h.actor \in User /\ h.target \in User
    BY <1>i, <1>1, <1>3 DEF ListOwn, At, Handlers, Locations
  <2>2. req' = [req EXCEPT ![r] = h]
    BY <1>i DEF ListOwn
  <2> QED BY <1>i, <1>1, <2>1, <2>2, HandlerStep DEF ListOwn
<1> QED BY <1>a, <1>b, <1>c, <1>d, <1>e, <1>f, <1>g, <1>h, <1>i

\* Each write of a membership row, by whichever endpoint.
LEMMA WritingSteps ==
    ASSUME IInv, NEW r \in Requests,
           \/ CreateMembership(r) \/ Remove(r) \/ Patch(r) \/ BlockAndRemove(r)
           \/ ReportAndLeave(r) \/ WriteSharing(r)
    PROVE  IInv'
<1>1. req[r] \in Handlers /\ \A x \in User : row[x] \in Rows
  BY DEF IInv, TypeOK
<1>2. ~At(r, "IDLE") => req[r].actor \in User /\ req[r].target \in User
  BY DEF IInv, InFlightNamesPeople
<1>3. \A x \in User : /\ row[x].role = "OWNER" => x = owner
                      /\ x \in ended => ~row[x].open
                      /\ row[x].status \in {"LEFT", "REMOVED"} => ~row[x].open
                      /\ row[x].status = "NONE" => x \notin ended
  BY DEF IInv, OwnerRowIsTheOwner, Owners, EndedRowsAreClosed
<1>a. ASSUME CreateMembership(r) PROVE IInv'
  <2> DEFINE a == req[r].actor
             new == [role |-> "OWNER", status |-> "ACTIVE",
                     sharing |-> "NEVER_ENABLED", open |-> TRUE]
  <2>1. a \in User /\ a \notin ended
    BY <1>a, <1>2, <1>3 DEF CreateMembership, At
  <2>2. new \in Rows
    BY DEF Rows, Roles, Statuses, SharingStatuses
  <2>3. a = owner /\ \A s \in Requests : At(s, "CREATE_ROW") => s = r
    BY <1>a DEF IInv, CreationIsExclusive, CreateMembership
  <2>4. \A s \in Requests : ~At(s, "CREATE_ROW")'
    BY <1>a, <2>3 DEF IInv, TypeOK, CreateMembership, Finish, At, IdleHandler
  <2>5. Write(a, new) /\ Finish(r) /\ UNCHANGED <<owner, starts>>
    BY <1>a DEF CreateMembership
  <2> QED BY <2>1, <2>2, <2>3, <2>4, <2>5, RowWrite
<1>b. ASSUME Remove(r) PROVE IInv'
  <2> DEFINE t == req[r].target
             new == Revoked(row[t], IF Self(r) THEN "LEFT" ELSE "REMOVED")
  <2>1. t \in User
    BY <1>b, <1>2 DEF Remove, At
  <2>2. /\ new \in Rows /\ new.role = row[t].role
        /\ new.status \in {"LEFT", "REMOVED"} /\ new.open = FALSE
    BY <1>1, <2>1, RevokedRow
  <2>3. Write(t, new) /\ Finish(r) /\ UNCHANGED <<owner, starts>>
    BY <1>b DEF Remove
  <2> QED BY <1>3, <2>1, <2>2, <2>3, RowWrite
<1>c. ASSUME Patch(r) PROVE IInv'
  <2> DEFINE t == req[r].target
             new == Patched(row[t], req[r].body)
  <2>1. t \in User /\ req[r].body \in Bodies /\ row[t].status # "NONE"
    BY <1>c, <1>1, <1>2 DEF Patch, At, Handlers
  <2>2. /\ new \in Rows
        /\ new.role = "OWNER" => row[t].role = "OWNER"
        /\ new.status \in {row[t].status, "ACTIVE", "BLOCKED"}
        /\ new.open => row[t].open
    BY <1>1, <2>1, PatchedRow
  <2>3. Write(t, new) /\ Finish(r) /\ UNCHANGED <<owner, starts>>
    BY <1>c DEF Patch
  <2>4. /\ new.role = "OWNER" => t = owner /\ row[t].role = "OWNER"
        /\ new.status # "NONE"
        /\ new.status \in {"LEFT", "REMOVED"} \/ t \in ended => ~new.open
    BY <1>3, <2>1, <2>2
  <2> QED BY <2>1, <2>2, <2>3, <2>4, RowWrite
<1>d. ASSUME BlockAndRemove(r) PROVE IInv'
  <2> DEFINE other == CanRemoveOther(req[r].mine, req[r].theirs)
             gone == IF other THEN req[r].target ELSE req[r].actor
             new == Revoked(row[gone], IF other THEN "REMOVED" ELSE "LEFT")
  <2>1. gone \in User
    BY <1>d, <1>2 DEF BlockAndRemove, At
  <2>2. /\ new \in Rows /\ new.role = row[gone].role
        /\ new.status \in {"LEFT", "REMOVED"} /\ new.open = FALSE
    BY <1>1, <2>1, RevokedRow
  <2>3. Write(gone, new) /\ Finish(r) /\ UNCHANGED <<owner, starts>>
    BY <1>d DEF BlockAndRemove
  <2> QED BY <1>3, <2>1, <2>2, <2>3, RowWrite
<1>e. ASSUME ReportAndLeave(r) PROVE IInv'
  <2> DEFINE a == req[r].actor
             new == Revoked(row[a], "LEFT")
  <2>1. a \in User
    BY <1>e, <1>2 DEF ReportAndLeave, At
  <2>2. /\ new \in Rows /\ new.role = row[a].role
        /\ new.status = "LEFT" /\ new.open = FALSE
    BY <1>1, <2>1, RevokedRow
  <2>3. Write(a, new) /\ Finish(r) /\ UNCHANGED <<owner, starts>>
    BY <1>e DEF ReportAndLeave
  <2> QED BY <1>3, <2>1, <2>2, <2>3, RowWrite
<1>f. ASSUME WriteSharing(r) PROVE IInv'
  <2> DEFINE a == req[r].actor
             new == [row[a] EXCEPT !.sharing = IF req[r].op = "RESUME" THEN "SHARING"
                                               ELSE "PAUSED"]
  <2>1. a \in User /\ row[a].status # "NONE"
    BY <1>f, <1>2 DEF WriteSharing, At
  <2>2. /\ new \in Rows /\ new.role = row[a].role
        /\ new.status = row[a].status /\ new.open = row[a].open
    BY <1>1, <2>1 DEF Rows, SharingStatuses
  <2>3. Write(a, new) /\ Finish(r) /\ UNCHANGED <<owner, starts>>
    BY <1>f DEF WriteSharing
  <2> QED BY <1>3, <2>1, <2>2, <2>3, RowWrite
<1> QED BY <1>a, <1>b, <1>c, <1>d, <1>e, <1>f

\* The family row appears: nobody holds the OWNER role yet.
LEMMA CreateFamilyStep ==
    ASSUME IInv, NEW r \in Requests, CreateFamily(r)
    PROVE  IInv'
<1>1. req[r].actor \in User /\ req[r] \in Handlers
  BY DEF IInv, TypeOK, InFlightNamesPeople, CreateFamily, At
<1>2. Owners = {} /\ \A s \in Requests : ~At(s, "CREATE_ROW")
  <2>1. \A u \in User : u # owner
    BY ConstantsOK DEF CreateFamily
  <2>2. \A s \in Requests : At(s, "CREATE_ROW") => req[s].actor \in User
    BY DEF IInv, InFlightNamesPeople, At
  <2> QED BY <2>1, <2>2 DEF IInv, OwnerRowIsTheOwner, CreationIsExclusive, Owners
<1>3. req' \in [Requests -> Handlers]
  <2>1. [req[r] EXCEPT !.at = "CREATE_ROW"] \in Handlers
    BY <1>1 DEF Handlers, Locations
  <2> QED BY <2>1 DEF IInv, TypeOK, CreateFamily
<1>4. TypeOK'
  BY <1>1, <1>3 DEF IInv, TypeOK, CreateFamily
<1>5. InFlightNamesPeople'
  BY <1>1 DEF IInv, TypeOK, InFlightNamesPeople, CreateFamily, At, Handlers
<1>6. CreationIsExclusive'
  BY <1>1, <1>2 DEF IInv, TypeOK, CreationIsExclusive, CreateFamily, At, Owners, Handlers
<1>7. OwnerRowIsTheOwner' /\ EndedRowsAreClosed'
  BY <1>2 DEF IInv, OwnerRowIsTheOwner, EndedRowsAreClosed, Owners, CreateFamily
<1> QED BY <1>4, <1>5, <1>6, <1>7 DEF IInv

\* The transfer demotes the only OWNER row it may find and promotes one row.
LEMMA TransferStep ==
    ASSUME IInv, NEW r \in Requests, TransferOwnership(r)
    PROVE  IInv'
<1> DEFINE a == req[r].actor
           t == req[r].target
           after == [row EXCEPT ![a].role = "ADMIN", ![t].role = "OWNER"]
<1>1. a \in User /\ t \in User /\ a # t
  BY DEF IInv, InFlightNamesPeople, TransferOwnership, At, Self
<1>2. row[a].role = "OWNER" /\ row' = after /\ owner' = t /\ ended' = ended
  BY DEF TransferOwnership, TransferCondition
<1>3. \A u \in User : row[u] \in Rows
  BY DEF IInv, TypeOK
<1>4. row' \in [User -> Rows]
  <2>1. \A x \in Rows : /\ [x EXCEPT !.role = "ADMIN"] \in Rows
                        /\ [x EXCEPT !.role = "OWNER"] \in Rows
    BY DEF Rows, Roles
  <2>2. after = [row EXCEPT ![a] = [row[a] EXCEPT !.role = "ADMIN"],
                            ![t] = [row[t] EXCEPT !.role = "OWNER"]]
    BY <1>1 DEF IInv, TypeOK
  <2> QED BY <1>1, <1>2, <1>3, <2>1, <2>2 DEF IInv, TypeOK
<1>5. \A u \in User : /\ row'[u].status = row[u].status
                      /\ row'[u].open = row[u].open
                      /\ row'[u].role = IF u = t THEN "OWNER"
                                        ELSE IF u = a THEN "ADMIN" ELSE row[u].role
  BY <1>1, <1>2, <1>3 DEF IInv, TypeOK, Rows
<1>6. \A s \in Requests : ~At(s, "CREATE_ROW")
  BY <1>1, <1>2 DEF IInv, CreationIsExclusive, Owners
<1>7. req' \in [Requests -> Handlers]
  BY DefaultsTyped DEF IInv, TypeOK, TransferOwnership, Finish
<1>8. \A s \in Requests : ~At(s, "IDLE")' => ~At(s, "IDLE") /\ req'[s] = req[s]
  BY DEF IInv, TypeOK, TransferOwnership, Finish, At, IdleHandler
<1>9. TypeOK'
  BY <1>1, <1>2, <1>4, <1>7 DEF IInv, TypeOK, TransferOwnership
<1>10. InFlightNamesPeople'
  BY <1>8 DEF IInv, InFlightNamesPeople, At
<1>11. CreationIsExclusive'
  BY <1>6, <1>8 DEF CreationIsExclusive, At
<1>12. OwnerRowIsTheOwner'
  BY <1>1, <1>2, <1>5 DEF IInv, OwnerRowIsTheOwner, Owners
<1>13. EndedRowsAreClosed'
  BY <1>2, <1>5 DEF IInv, EndedRowsAreClosed
<1> QED BY <1>9, <1>10, <1>11, <1>12, <1>13 DEF IInv

\* A redemption adds a row where none has ever been.
LEMMA JoinStep ==
    ASSUME IInv, NEW u \in User, NEW role \in JoinRoles, NEW sharing \in JoinSharing,
           Join(u, role, sharing)
    PROVE  IInv'
<1> DEFINE new == [role |-> role, status |-> "ACTIVE", sharing |-> sharing, open |-> TRUE]
<1>1. new \in Rows /\ new.role # "OWNER"
  BY ConstantsOK DEF Rows, Roles, Assignable, Statuses, SharingStatuses
<1>2. u \notin ended
  BY DEF IInv, EndedRowsAreClosed, Join
<1>3. Write(u, new) /\ UNCHANGED <<owner, req, starts>>
  BY DEF Join
<1> QED BY <1>1, <1>2, <1>3, RowWrite

\* The index and the stuttering step touch nothing the invariant relates.
LEMMA IndexStep ==
    ASSUME IInv, (\E u \in User : IndexCatchesUp(u)) \/ UNCHANGED vars
    PROVE  IInv'
<1>1. index' \in [User -> Rows] /\ UNCHANGED <<owner, row, req, ended, starts>>
  BY DEF IInv, TypeOK, IndexCatchesUp, vars
<1> QED BY <1>1 DEF IInv, TypeOK, InFlightNamesPeople, CreationIsExclusive,
                    OwnerRowIsTheOwner, EndedRowsAreClosed, At, Owners

\* The inductive invariant holds in every reachable state.
THEOREM Invariance == Spec => []IInv
<1>1. IInv /\ [Next]_vars => IInv'
  <2> SUFFICES ASSUME IInv, [Next]_vars PROVE IInv'
    OBVIOUS
  <2>1. ASSUME NEW r \in Requests, Step(r) PROVE IInv'
    BY <2>1, ReadingSteps, WritingSteps, CreateFamilyStep, TransferStep DEF Step
  <2>2. ASSUME NEW u \in User, NEW role \in JoinRoles, NEW sharing \in JoinSharing,
               Join(u, role, sharing)
        PROVE  IInv'
    BY <2>2, JoinStep
  <2> QED BY <2>1, <2>2, IndexStep DEF Next
<1> QED BY InitIInv, <1>1, PTL DEF Spec

\* Every variable keeps its type.
THEOREM TypeCorrect == Spec => []TypeOK
<1>1. IInv => TypeOK BY DEF IInv
<1> QED BY Invariance, <1>1, PTL

\* However the endpoints interleave, only the family's ownerUserId holds OWNER.
THEOREM SingleOwner == Spec => []OwnerRowIsTheOwner
<1>1. IInv => OwnerRowIsTheOwner BY DEF IInv
<1> QED BY Invariance, <1>1, PTL

\* Nobody is ever located through a membership that has ended.
THEOREM EndedInvisible == Spec => []EndedNeverLocated
<1>1. IInv => EndedNeverLocated
  BY DEF IInv, TypeOK, EndedRowsAreClosed, EndedNeverLocated, CanLocate
<1> QED BY Invariance, <1>1, PTL

-----------------------------------------------------------------------------
(* Requests that come one at a time, with an index that keeps up: what a    *)
(* handler read is still true when it writes, so that the rules it applied  *)
(* to what it read leave the family its one active owner.                   *)

\* The family has no members yet, or its ownerUserId is its active OWNER.
Owned ==
    \/ \A u \in User : row[u].status = "NONE"
    \/ owner \in User /\ row[owner].role = "OWNER" /\ row[owner].status = "ACTIVE"

\* A handler alone: the steps its endpoint takes, and the rows it decided on
\* are the rows it is about to write.
HandlerKnows(h) ==
    /\ h.at = "LIST_PAIR" => h.op = "BLOCK"
    /\ h.at = "LOAD_OWN" => h.op = "REPORT_LEAVE"
    /\ h.at = "LIST_OWN" => h.op \in {"RESUME", "PAUSE"}
    /\ h.at \in {"AUTH", "AUTH_TARGET", "LOAD_ACTOR", "LOAD_TARGET"}
          => h.op \notin {"BLOCK", "REPORT_LEAVE"}
    /\ h.at = "COMMIT" /\ h.op \in {"REMOVE", "PATCH", "BLOCK"}
          => h.theirs = row[h.target] /\ h.theirs.status # "NONE"
    /\ h.at = "COMMIT" /\ h.op \in {"BLOCK", "REPORT_LEAVE"}
          => h.mine = row[h.actor] /\ h.mine.status # "NONE"
    /\ h.at = "COMMIT" /\ h.op = "REPORT_LEAVE" => h.mine.role # "OWNER"

\* While a handler runs alone the index lags behind new members only.
IndexFollows == \A u \in User : index[u] = row[u] \/ index[u].status = "NONE"

SoloInv ==
    ~mingled => /\ Owned
                /\ \A r, q \in Busy : r = q
                /\ \A r \in Busy : HandlerKnows(req[r])
                /\ Busy # {} => IndexFollows

\* Two handlers in flight are a meeting.
LEMMA MeetingIsSeen ==
    ASSUME NEW B, NEW r \in B, NEW q \in B, r # q, NEW x, NEW y, B \subseteq {x, y}
    PROVE  Cardinality(B) > 1
<1>1. B = {r, q}
  OBVIOUS
<1>2. IsFiniteSet({q}) /\ Cardinality({q}) = 1
  BY FS_Singleton
<1>3. Cardinality({q} \cup {r}) = 2
  BY <1>2, FS_AddElement
<1>4. B = {q} \cup {r}
  BY <1>1
<1> QED
  BY <1>3, <1>4

\* A step of one handler makes nobody else busy; if it is not a meeting, the
\* handler is the only busy one after it.
LEMMA StillAlone ==
    ASSUME IInv, SoloInv, ~mingled, ~(Cardinality(Busy') > 1),
           NEW r \in Requests, NEW h, req' = [req EXCEPT ![r] = h]
    PROVE  /\ \A p, q \in Busy' : p = q
           /\ Busy' \subseteq Busy \cup {r}
           /\ \A q \in Busy' : q # r => req'[q] = req[q] /\ q \in Busy
           /\ r \in Busy' => Busy' = {r}
<1>1. \A q \in Requests : req'[q] = IF q = r THEN h ELSE req[q]
  BY DEF IInv, TypeOK
<1>2. Busy' \subseteq Busy \cup {r}
  BY <1>1 DEF Busy
<1>3. ASSUME NEW p \in Busy', NEW q \in Busy', p # q PROVE FALSE
  <2>1. PICK x : Busy \subseteq {x}
    BY DEF SoloInv
  <2>2. Busy' \subseteq {x, r}
    BY <1>2, <2>1
  <2>3. Cardinality(Busy') > 1
    BY <1>3, <2>2, MeetingIsSeen
  <2> QED
    BY <2>3
<1> QED
  BY <1>1, <1>2, <1>3 DEF Busy

\* A handler that reads on, or arrives, or ends: no row is written.
LEMMA SoloRead ==
    ASSUME IInv, SoloInv, ~(Cardinality(Busy') > 1), ~mingled,
           NEW r \in Requests, NEW h, req' = [req EXCEPT ![r] = h],
           h.at # "IDLE" => HandlerKnows(h),
           UNCHANGED <<row, index>>, Owned',
           h.at # "IDLE" => r \in Busy \/ IndexFollows
    PROVE  SoloInv'
<1>1. /\ \A p, q \in Busy' : p = q
      /\ \A q \in Busy' : q # r => req'[q] = req[q] /\ q \in Busy
      /\ r \in Busy' => Busy' = {r}
  BY StillAlone
<1>2. \A x : HandlerKnows(x)' <=> HandlerKnows(x)
  BY DEF HandlerKnows
<1>3. r \in Requests /\ req'[r] = h /\ (r \in Busy' => h.at # "IDLE")
  BY DEF IInv, TypeOK, Busy
<1>4. ASSUME NEW q \in Busy' PROVE HandlerKnows(req[q])'
  <2>1. CASE q = r
    BY <1>3, <1>4, <2>1 DEF HandlerKnows
  <2>2. CASE q # r
    BY <1>1, <1>4, <2>2 DEF HandlerKnows, SoloInv
  <2> QED
    BY <2>1, <2>2
<1>5. ASSUME Busy' # {} PROVE IndexFollows'
  <2>1. IndexFollows
    BY <1>1, <1>3, <1>5 DEF SoloInv
  <2> QED
    BY <2>1 DEF IndexFollows
<1> QED
  BY <1>1, <1>4, <1>5 DEF SoloInv

\* A handler alone that ends leaves nobody busy.
LEMMA SoloWrite ==
    ASSUME IInv, SoloInv, ~mingled, NEW r \in Busy, Finish(r), Owned'
    PROVE  SoloInv'
<1>1. Busy = {r}
  BY DEF SoloInv
<1>2. Busy' = {}
  BY <1>1 DEF Busy, Finish, IInv, TypeOK, IdleHandler
<1> QED
  BY <1>2 DEF SoloInv

\* A write to one row keeps the family owned, unless it is the owner's.
LEMMA OwnedWrite ==
    ASSUME IInv, Owned, NEW u \in User, NEW new, Write(u, new), owner' = owner,
           row[u].status # "NONE",
           row[u].role = "OWNER" => new.role = "OWNER" /\ new.status = row[u].status
    PROVE  Owned'
<1>1. \A v \in User : row'[v] = IF v = u THEN new ELSE row[v]
  BY DEF IInv, TypeOK, Write
<1>2. owner \in User /\ row[owner].role = "OWNER" /\ row[owner].status = "ACTIVE"
  BY DEF Owned
<1> QED
  BY <1>1, <1>2 DEF Owned

LEMMA SoloInit == ASSUME MCInit PROVE SoloInv
BY DEF MCInit, Init, SoloInv, Owned, Busy, IdleHandler, NoRow

\* Each request, from its arrival to its end.
LEMMA SoloHandler ==
    ASSUME IInv, SoloInv, NEW r \in Requests, Step(r),
           mingled' = (mingled \/ Cardinality(Busy') > 1 \/ (starts' # starts /\ index' # row'))
    PROVE  SoloInv'
<1> SUFFICES ASSUME ~mingled' PROVE SoloInv'
  BY DEF SoloInv
<1>z. /\ ~mingled /\ ~(Cardinality(Busy') > 1)
      /\ starts' # starts => index' = row'
  OBVIOUS
<1>0. /\ ~mingled /\ ~(Cardinality(Busy') > 1)
      /\ starts' # starts => index' = row'
      /\ Owned /\ req \in [Requests -> Handlers] /\ req[r] \in Handlers
      /\ starts \in 0..MaxStarts /\ MaxStarts \in Nat
      /\ \A u \in User : row[u] \in Rows /\ index[u] \in Rows
  BY <1>z, ConstantsOK DEF SoloInv, IInv, TypeOK
<1>1. req[r].at # "IDLE" => /\ r \in Busy /\ HandlerKnows(req[r]) /\ IndexFollows
                            /\ req[r].actor \in User /\ req[r].target \in User
  BY <1>0 DEF SoloInv, Busy, IInv, InFlightNamesPeople, At
<1>2. UNCHANGED <<owner, row>> => Owned'
  BY <1>0 DEF Owned
<1>3. ASSUME NEW h, req' = [req EXCEPT ![r] = h], req[r].at # "IDLE",
             UNCHANGED <<owner, row, index>>, HandlerKnows(h)
      PROVE  SoloInv'
  BY <1>0, <1>1, <1>2, <1>3, SoloRead
<1>4. ASSUME Finish(r), req[r].at # "IDLE", Owned' PROVE SoloInv'
  BY <1>0, <1>1, <1>4, SoloWrite
<1>a. ASSUME NEW op \in Ops, NEW a \in User, NEW t \in TargetsOf(op, a),
             NEW body \in BodiesOf(op), Start(r, op, a, t, body)
      PROVE  SoloInv'
  <2> DEFINE h == [IdleHandler EXCEPT !.at = FirstStep(op), !.op = op, !.actor = a,
                                      !.target = t, !.body = body]
  <2>1. starts' # starts /\ req' = [req EXCEPT ![r] = h] /\ UNCHANGED <<owner, row, index, ended>>
    BY <1>0, <1>a DEF Start
  <2>2. IndexFollows
    BY <1>0, <2>1 DEF IndexFollows
  <2>3. h.at = FirstStep(op) /\ h.op = op /\ op \in AllOps
    BY ConstantsOK DEF IdleHandler
  <2>4. HandlerKnows(h)
    BY <2>3 DEF HandlerKnows, FirstStep, AllOps
  <2> HIDE DEF h
  <2> QED
    BY <1>0, <1>2, <2>1, <2>2, <2>4, SoloRead
<1>b. ASSUME Abandon(r) PROVE SoloInv'
  BY <1>2, <1>4, <1>b DEF Abandon, At
<1>c. ASSUME CreateFamily(r) PROVE SoloInv'
  <2> DEFINE h == [req[r] EXCEPT !.at = "CREATE_ROW"]
  <2>1. /\ req[r].at = "CREATE_FAMILY" /\ owner = NoUser
        /\ req' = [req EXCEPT ![r] = h] /\ UNCHANGED <<row, index>>
    BY <1>0, <1>c DEF CreateFamily, At
  <2>2. Owned'
    BY <1>0, <2>1, ConstantsOK DEF Owned
  <2>3. HandlerKnows(h)
    BY <1>0 DEF Handlers, HandlerKnows
  <2> HIDE DEF h
  <2> QED
    BY <1>0, <1>1, <2>1, <2>2, <2>3, SoloRead
<1>d. ASSUME CreateMembership(r) PROVE SoloInv'
  <2> DEFINE a == req[r].actor
             new == [role |-> "OWNER", status |-> "ACTIVE", sharing |-> "NEVER_ENABLED",
                     open |-> TRUE]
  <2>1. /\ req[r].at = "CREATE_ROW" /\ a \in User /\ Finish(r)
        /\ row' = [row EXCEPT ![a] = new] /\ owner' = owner
    BY <1>1, <1>d DEF CreateMembership, At, Write
  <2>2. owner = a
    BY <2>1 DEF IInv, CreationIsExclusive, At
  <2>3. row'[a] = new
    BY <2>1 DEF IInv, TypeOK
  <2>4. Owned'
    BY <2>1, <2>2, <2>3 DEF Owned
  <2> QED
    BY <1>4, <2>1, <2>4
<1>e. ASSUME AuthorizeRequester(r) PROVE SoloInv'
  <2> DEFINE h == [req[r] EXCEPT !.at = IF Self(r) THEN "LOAD_ACTOR" ELSE "AUTH_TARGET",
                                 !.mine = IF Self(r) THEN NoRow ELSE row[req[r].actor]]
  <2>1. /\ req[r].at = "AUTH" /\ req' = [req EXCEPT ![r] = h]
        /\ UNCHANGED <<owner, row, index>>
    BY <1>0, <1>e DEF AuthorizeRequester, At
  <2>2. h.at \in {"LOAD_ACTOR", "AUTH_TARGET"} /\ h.op = req[r].op
    BY <1>0 DEF Handlers
  <2>3. HandlerKnows(h)
    BY <1>1, <2>1, <2>2 DEF HandlerKnows
  <2> HIDE DEF h
  <2> QED
    BY <1>3, <2>1, <2>3
<1>f. ASSUME AuthorizeTarget(r) PROVE SoloInv'
  <2> DEFINE h == [req[r] EXCEPT !.at = "LOAD_ACTOR", !.mine = NoRow]
  <2>1. /\ req[r].at = "AUTH_TARGET" /\ req' = [req EXCEPT ![r] = h]
        /\ UNCHANGED <<owner, row, index>>
    BY <1>0, <1>f DEF AuthorizeTarget, At
  <2>2. h.at = "LOAD_ACTOR" /\ h.op = req[r].op
    BY <1>0 DEF Handlers
  <2>3. HandlerKnows(h)
    BY <1>1, <2>1, <2>2 DEF HandlerKnows
  <2> HIDE DEF h
  <2> QED
    BY <1>3, <2>1, <2>3
<1>g. ASSUME LoadActor(r) PROVE SoloInv'
  <2> DEFINE h == [req[r] EXCEPT !.at = "LOAD_TARGET", !.mine = row[req[r].actor]]
  <2>1. /\ req[r].at = "LOAD_ACTOR" /\ req' = [req EXCEPT ![r] = h]
        /\ UNCHANGED <<owner, row, index>>
    BY <1>0, <1>g DEF LoadActor, At
  <2>2. h.at = "LOAD_TARGET" /\ h.op = req[r].op
    BY <1>0 DEF Handlers
  <2>3. HandlerKnows(h)
    BY <1>1, <2>1, <2>2 DEF HandlerKnows
  <2> HIDE DEF h
  <2> QED
    BY <1>3, <2>1, <2>3
<1>h. ASSUME LoadTarget(r) PROVE SoloInv'
  <2> DEFINE h == [req[r] EXCEPT !.at = "COMMIT", !.theirs = row[req[r].target]]
  <2>1. /\ req[r].at = "LOAD_TARGET" /\ req' = [req EXCEPT ![r] = h]
        /\ row[req[r].target].status # "NONE" /\ UNCHANGED <<owner, row, index>>
    BY <1>0, <1>h DEF LoadTarget, At
  <2>2. /\ h.at = "COMMIT" /\ h.op = req[r].op /\ h.target = req[r].target
        /\ h.theirs = row[req[r].target]
    BY <1>0 DEF Handlers
  <2>3. HandlerKnows(h)
    BY <1>1, <2>1, <2>2 DEF HandlerKnows
  <2> HIDE DEF h
  <2> QED
    BY <1>3, <2>1, <2>3
<1>i. ASSUME Remove(r) PROVE SoloInv'
  <2> DEFINE t == req[r].target
             new == Revoked(row[t], IF Self(r) THEN "LEFT" ELSE "REMOVED")
  <2>1. /\ req[r].at = "COMMIT" /\ t \in User /\ req[r].theirs = row[t]
        /\ row[t].status # "NONE" /\ row[t].role # "OWNER"
        /\ Write(t, new) /\ Finish(r) /\ owner' = owner
    BY <1>1, <1>i DEF Remove, At, RemovalAllowed, HandlerKnows
  <2> HIDE DEF t, new
  <2>2. Owned'
    BY <1>0, <2>1, OwnedWrite
  <2> QED
    BY <1>4, <2>1, <2>2
<1>j. ASSUME Patch(r) PROVE SoloInv'
  <2> DEFINE t == req[r].target
             new == Patched(row[t], req[r].body)
  <2>1. /\ req[r].at = "COMMIT" /\ t \in User /\ req[r].theirs = row[t]
        /\ row[t].status # "NONE" /\ Write(t, new) /\ Finish(r) /\ owner' = owner
        /\ PatchAllowed(Self(r), req[r].mine, row[t], req[r].body)
    BY <1>1, <1>j DEF Patch, At, HandlerKnows
  <2>2. row[t].role = "OWNER" => new.role = "OWNER" /\ new.status = row[t].status
    BY <1>0, <2>1 DEF PatchAllowed, RoleChangeAllowed, Patched, Rows
  <2> HIDE DEF t, new
  <2>3. Owned'
    BY <1>0, <2>1, <2>2, OwnedWrite
  <2> QED
    BY <1>4, <2>1, <2>3
<1>k. ASSUME TransferOwnership(r) PROVE SoloInv'
  <2> DEFINE a == req[r].actor
             t == req[r].target
             after == [row EXCEPT ![a].role = "ADMIN", ![t].role = "OWNER"]
  <2>1. /\ req[r].at = "COMMIT" /\ a \in User /\ t \in User /\ a # t
        /\ row[t].status = "ACTIVE" /\ owner' = t /\ row' = after /\ Finish(r)
    BY <1>1, <1>k DEF TransferOwnership, TransferCondition, At, Self
  <2>2. row'[t].role = "OWNER" /\ row'[t].status = "ACTIVE"
    BY <1>0, <2>1 DEF IInv, TypeOK, Rows
  <2>3. Owned'
    BY <2>1, <2>2 DEF Owned
  <2> QED
    BY <1>4, <2>1, <2>3
<1>l. ASSUME ListPair(r) PROVE SoloInv'
  <2> DEFINE h == [req[r] EXCEPT !.at = "COMMIT", !.mine = index[req[r].actor],
                                 !.theirs = row[req[r].target]]
  <2>1. /\ req[r].at = "LIST_PAIR" /\ req' = [req EXCEPT ![r] = h]
        /\ index[req[r].actor].status = "ACTIVE" /\ row[req[r].target].status = "ACTIVE"
        /\ UNCHANGED <<owner, row, index>>
    BY <1>0, <1>l DEF ListPair, At
  <2>2. index[req[r].actor] = row[req[r].actor]
    BY <1>1, <2>1 DEF IndexFollows
  <2>3. /\ h.at = "COMMIT" /\ h.op = "BLOCK"
        /\ h.target = req[r].target /\ h.actor = req[r].actor
        /\ h.theirs = row[req[r].target] /\ h.mine = index[req[r].actor]
    BY <1>0, <1>1, <2>1 DEF Handlers, HandlerKnows
  <2>4. HandlerKnows(h)
    BY <2>1, <2>2, <2>3 DEF HandlerKnows
  <2> HIDE DEF h
  <2> QED
    BY <1>3, <2>1, <2>4
<1>m. ASSUME BlockAndRemove(r) PROVE SoloInv'
  <2> DEFINE other == CanRemoveOther(req[r].mine, req[r].theirs)
             gone == IF other THEN req[r].target ELSE req[r].actor
             new == Revoked(row[gone], IF other THEN "REMOVED" ELSE "LEFT")
  <2>1. /\ req[r].at = "COMMIT" /\ gone \in User /\ row[gone].status # "NONE"
        /\ Write(gone, new) /\ Finish(r) /\ owner' = owner
    BY <1>1, <1>m DEF BlockAndRemove, At
  <2>2. row[gone].role # "OWNER"
    BY <1>1, <1>m DEF BlockAndRemove, At, HandlerKnows, CanRemoveOther
  <2> HIDE DEF other, gone, new
  <2>3. Owned'
    BY <1>0, <2>1, <2>2, OwnedWrite
  <2> QED
    BY <1>4, <2>1, <2>3
<1>n. ASSUME LoadOwn(r) PROVE SoloInv'
  <2> DEFINE h == [req[r] EXCEPT !.at = "COMMIT", !.mine = row[req[r].actor]]
  <2>1. /\ req[r].at = "LOAD_OWN" /\ req' = [req EXCEPT ![r] = h]
        /\ row[req[r].actor].status = "ACTIVE" /\ row[req[r].actor].role # "OWNER"
        /\ UNCHANGED <<owner, row, index>>
    BY <1>0, <1>n DEF LoadOwn, At
  <2>2. /\ h.at = "COMMIT" /\ h.op = "REPORT_LEAVE" /\ h.actor = req[r].actor
        /\ h.mine = row[req[r].actor]
    BY <1>0, <1>1, <2>1 DEF Handlers, HandlerKnows
  <2>3. HandlerKnows(h)
    BY <2>1, <2>2 DEF HandlerKnows
  <2> HIDE DEF h
  <2> QED
    BY <1>3, <2>1, <2>3
<1>o. ASSUME ReportAndLeave(r) PROVE SoloInv'
  <2> DEFINE a == req[r].actor
             new == Revoked(row[a], "LEFT")
  <2>1. /\ req[r].at = "COMMIT" /\ a \in User /\ row[a].status # "NONE"
        /\ req[r].mine = row[a] /\ Write(a, new) /\ Finish(r) /\ owner' = owner
    BY <1>1, <1>o DEF ReportAndLeave, At, HandlerKnows
  <2>2. row[a].role # "OWNER"
    BY <1>1, <1>o, <2>1 DEF ReportAndLeave, At, HandlerKnows
  <2> HIDE DEF a, new
  <2>3. Owned'
    BY <1>0, <2>1, <2>2, OwnedWrite
  <2> QED
    BY <1>4, <2>1, <2>3
<1>p. ASSUME ListOwn(r) PROVE SoloInv'
  <2> DEFINE h == [req[r] EXCEPT !.at = "COMMIT"]
  <2>1. /\ req[r].at = "LIST_OWN" /\ req' = [req EXCEPT ![r] = h]
        /\ UNCHANGED <<owner, row, index>>
    BY <1>0, <1>p DEF ListOwn, At
  <2>2. h.at = "COMMIT" /\ h.op \in {"RESUME", "PAUSE"}
    BY <1>0, <1>1, <2>1 DEF Handlers, HandlerKnows
  <2>3. HandlerKnows(h)
    BY <2>2 DEF HandlerKnows
  <2> HIDE DEF h
  <2> QED
    BY <1>3, <2>1, <2>3
<1>q. ASSUME WriteSharing(r) PROVE SoloInv'
  <2> DEFINE a == req[r].actor
             new == [row[a] EXCEPT !.sharing = IF req[r].op = "RESUME" THEN "SHARING"
                                               ELSE "PAUSED"]
  <2>1. /\ req[r].at = "COMMIT" /\ a \in User /\ row[a].status # "NONE"
        /\ Write(a, new) /\ Finish(r) /\ owner' = owner
    BY <1>1, <1>q DEF WriteSharing, At
  <2>2. new.role = row[a].role /\ new.status = row[a].status
    BY <1>0, <2>1 DEF Rows
  <2> HIDE DEF a, new
  <2>3. Owned'
    BY <1>0, <2>1, <2>2, OwnedWrite
  <2> QED
    BY <1>4, <2>1, <2>3
<1> QED
  BY <1>a, <1>b, <1>c, <1>d, <1>e, <1>f, <1>g, <1>h, <1>i, <1>j, <1>k, <1>l, <1>m, <1>n, <1>o,
     <1>p, <1>q DEF Step

\* A member joins, the index catches up, or nothing happens.
LEMMA SoloOthers ==
    ASSUME IInv, SoloInv, mingled' \/ ~mingled,
           \/ \E u \in User, role \in JoinRoles, sharing \in JoinSharing : Join(u, role, sharing)
           \/ \E u \in User : IndexCatchesUp(u)
           \/ UNCHANGED vars
    PROVE  SoloInv'
<1> SUFFICES ASSUME ~mingled' PROVE SoloInv'
  BY DEF SoloInv
<1>0. /\ ~mingled /\ Owned /\ row \in [User -> Rows] /\ index \in [User -> Rows]
      /\ \A r \in Busy : HandlerKnows(req[r])
      /\ Busy # {} => IndexFollows
  BY DEF SoloInv, IInv, TypeOK
<1>1. ASSUME UNCHANGED req, Owned',
             \A u \in User : row'[u] = row[u] \/ row[u].status = "NONE",
             IndexFollows => IndexFollows'
      PROVE  SoloInv'
  <2>1. Busy' = Busy /\ \A r, q \in Busy : r = q
    BY <1>0, <1>1 DEF Busy, SoloInv
  <2>2. ASSUME NEW r \in Busy PROVE HandlerKnows(req[r])'
    <3>1. req[r].actor \in User /\ req[r].target \in User /\ HandlerKnows(req[r])
      BY <1>0, <2>2 DEF Busy, IInv, InFlightNamesPeople, At
    <3> QED
      BY <1>1, <3>1 DEF HandlerKnows
  <2> QED
    BY <1>0, <1>1, <2>1, <2>2 DEF SoloInv
<1>2. ASSUME NEW u \in User, NEW role \in JoinRoles, NEW sharing \in JoinSharing,
             Join(u, role, sharing)
      PROVE  SoloInv'
  <2> DEFINE new == [role |-> role, status |-> "ACTIVE", sharing |-> sharing, open |-> TRUE]
  <2>1. /\ row[u].status = "NONE" /\ ~(\A m \in User : row[m].status = "NONE")
        /\ Write(u, new) /\ UNCHANGED <<owner, req>>
    BY <1>2 DEF Join
  <2> HIDE DEF new
  <2>2. \A v \in User : row'[v] = IF v = u THEN new ELSE row[v]
    BY <1>0, <2>1 DEF Write
  <2>3. Owned'
    BY <1>0, <2>1, <2>2 DEF Owned
  <2>4. IndexFollows => IndexFollows'
    <3>1. \A v \in User : index'[v] = index[v] \/ (v = u /\ index'[v] = new)
      BY <1>0, <2>1 DEF Write
    <3> QED
      BY <2>1, <2>2, <3>1 DEF IndexFollows
  <2> QED
    BY <1>1, <2>1, <2>2, <2>3, <2>4
<1>3. ASSUME NEW u \in User, IndexCatchesUp(u) PROVE SoloInv'
  <2>1. UNCHANGED <<owner, row, req>> /\ \A v \in User : index'[v] \in {index[v], row[v]}
    BY <1>0, <1>3 DEF IndexCatchesUp
  <2>2. Owned' /\ (IndexFollows => IndexFollows')
    BY <1>0, <2>1 DEF Owned, IndexFollows
  <2> QED
    BY <1>1, <2>1, <2>2
<1>4. CASE UNCHANGED vars
  <2>1. Owned' /\ (IndexFollows => IndexFollows')
    BY <1>0, <1>4 DEF vars, Owned, IndexFollows
  <2> QED
    BY <1>1, <1>4, <2>1 DEF vars
<1> QED
  BY <1>2, <1>3, <1>4

\* While requests come one at a time and the index keeps up, the family has
\* exactly one active owner (membership-rules.ts, the first of its invariants).
THEOREM OneOwnerAlone == MCSpec => []AloneKeepsOneOwner
<1>1. MCInit => Init /\ SoloInv
  BY SoloInit DEF MCInit
<1>2. [MCNext]_<<vars, mingled>> => [Next]_vars
  BY DEF MCNext
<1>3. IInv /\ SoloInv /\ [MCNext]_<<vars, mingled>> => SoloInv'
  <2> SUFFICES ASSUME IInv, SoloInv, [MCNext]_<<vars, mingled>> PROVE SoloInv'
    OBVIOUS
  <2>1. CASE UNCHANGED <<vars, mingled>>
    BY <2>1, SoloOthers
  <2>2. CASE MCNext
    <3>1. mingled' = (mingled \/ Cardinality(Busy') > 1 \/ (starts' # starts /\ index' # row'))
      BY <2>2 DEF MCNext
    <3>2. mingled' \/ ~mingled
      BY <3>1
    <3>3. ASSUME NEW r \in Requests, Step(r) PROVE SoloInv'
      BY <3>1, <3>3, SoloHandler
    <3> QED
      BY <2>2, <3>2, <3>3, SoloOthers DEF MCNext, Next
  <2> QED
    BY <2>1, <2>2
<1>4. IInv /\ SoloInv => AloneKeepsOneOwner
  <2> SUFFICES ASSUME IInv, SoloInv, ~mingled, NEW u \in User, row[u].status # "NONE"
               PROVE  Cardinality({x \in Owners : row[x].status = "ACTIVE"}) = 1
    BY DEF AloneKeepsOneOwner, ExactlyOneOwner
  <2>1. owner \in User /\ row[owner].role = "OWNER" /\ row[owner].status = "ACTIVE"
    BY DEF SoloInv, Owned
  <2>2. {x \in Owners : row[x].status = "ACTIVE"} = {owner}
    BY <2>1 DEF IInv, OwnerRowIsTheOwner, Owners
  <2> QED
    BY <2>2, FS_Singleton
<1>5. MCSpec => Spec
  BY <1>1, <1>2, PTL DEF MCSpec, Spec
<1> QED
  BY <1>1, <1>3, <1>4, <1>5, Invariance, PTL DEF MCSpec
=============================================================================
