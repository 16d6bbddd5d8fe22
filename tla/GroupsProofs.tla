---------------------------- MODULE GroupsProofs ----------------------------
(***************************************************************************)
(* What module Groups promises for any number of users, requests and       *)
(* conversations.                                                          *)
(***************************************************************************)
EXTENDS Groups, FiniteSetTheorems, TLAPS

\* A request that is about to add somebody has read the row of an admin, so it is
\* about a group: without this DirectIsPrivate is not inductive.
AddsToGroup == \A r \in Reqs : req[r].kind = "add" =>
  req[r].conv \in Ids /\ convs[req[r].conv].type = "group" /\ req[r].whom \in Users

\* What the other requests are about to write is about somebody and something.
Named == \A r \in Reqs :
  /\ req[r].kind = "remove" => req[r].conv \in Ids /\ req[r].whom \in Users
  /\ req[r].kind = "direct" => req[r].by \in Users /\ req[r].whom \in Users

\* A removal is by the one who is removed, or by the admin.
ByAdmin == \A r \in Reqs : req[r].kind = "remove" /\ req[r].by # req[r].whom =>
  /\ req[r].by \in Users
  /\ convs[req[r].conv].founders = {req[r].by}

GroupsInv == TypeOK /\ DirectIsPrivate /\ AdminIsFounder /\ AddsToGroup /\ Named /\ ByAdmin

\* A statement about member u of conversation c: nothing else is touched.
Touches(new, c, u, role) ==
  /\ new \in Seq(Conversation)
  /\ Len(new) = Len(convs)
  /\ \A d \in Ids : new[d].type = convs[d].type /\ new[d].founders = convs[d].founders
  /\ \A d \in Ids, v \in Users : new[d].role[v] = IF d = c /\ v = u THEN role ELSE convs[d].role[v]

\* Setting one role leaves the rest of the tables alone.
LEMMA RoleSet ==
  ASSUME convs \in Seq(Conversation), NEW c \in Ids, NEW u \in Users,
         NEW role \in Roles \cup {"none"}
  PROVE  Touches([convs EXCEPT ![c].role[u] = role], c, u, role)
<1> DEFINE new == [convs EXCEPT ![c].role[u] = role]
<1>1. convs[c] \in Conversation
  BY DEF Ids
<1>2. [convs[c] EXCEPT !.role[u] = role] \in Conversation
  BY <1>1 DEF Conversation
<1>3. new \in Seq(Conversation) /\ Len(new) = Len(convs)
  BY <1>2 DEF Ids
<1>4. \A d \in Ids : new[d].type = convs[d].type /\ new[d].founders = convs[d].founders
  BY <1>1 DEF Ids, Conversation
<1>5. ASSUME NEW d \in Ids, NEW v \in Users
      PROVE  new[d].role[v] = IF d = c /\ v = u THEN role ELSE convs[d].role[v]
  <2>1. convs[d] \in Conversation
    BY DEF Ids
  <2> QED
    BY <2>1 DEF Ids, Conversation
<1> QED
  BY <1>3, <1>4, <1>5 DEF Touches

\* What the INSERT and the DELETE do to the row of u in c.
LEMMA EnteredRole ==
  ASSUME convs \in Seq(Conversation), NEW c \in Ids, NEW u \in Users
  PROVE  Touches(Entered(c, u), c, u, IF convs[c].role[u] = "none" THEN "member" ELSE convs[c].role[u])
<1> DEFINE role == IF convs[c].role[u] = "none" THEN "member" ELSE convs[c].role[u]
<1>1. convs[c] \in Conversation
  BY DEF Ids
<1>2. role \in Roles \cup {"none"}
  BY <1>1 DEF Conversation, Roles
<1>3. Entered(c, u) = [convs EXCEPT ![c].role[u] = role]
  BY <1>1 DEF Entered, Conversation, Ids
<1> HIDE DEF role
<1>4. Touches(Entered(c, u), c, u, role)
  BY <1>2, <1>3, RoleSet
<1> QED
  BY <1>4 DEF role

LEMMA LeftRole ==
  ASSUME convs \in Seq(Conversation), NEW c \in Ids, NEW u \in Users
  PROVE  Touches(Left(c, u), c, u, "none")
BY RoleSet DEF Left, Roles

\* The parts of the invariant that are about the tables survive an INSERT into a group.
LEMMA EnterKeeps ==
  ASSUME GroupsInv, NEW c \in Ids, NEW u \in Users, convs[c].type = "group",
         convs' = Entered(c, u), req' \in [Reqs -> Request],
         \A r \in Reqs : req'[r] = req[r] \/ req'[r] = NoReq
  PROVE  GroupsInv'
<1> DEFINE role == IF convs[c].role[u] = "none" THEN "member" ELSE convs[c].role[u]
<1>1. Touches(convs', c, u, role)
  BY EnteredRole DEF GroupsInv, TypeOK
<1>2. Ids' = Ids
  BY <1>1 DEF Touches, Ids
<1>3. TypeOK'
  BY <1>1 DEF TypeOK, Touches
<1>4. DirectIsPrivate'
  BY <1>1, <1>2 DEF GroupsInv, DirectIsPrivate, Touches, Members
<1>5. AdminIsFounder'
  BY <1>1, <1>2 DEF GroupsInv, AdminIsFounder, Touches
<1>6. \A d \in Ids : convs'[d].type = convs[d].type /\ convs'[d].founders = convs[d].founders
  BY <1>1 DEF Touches
<1> HIDE DEF role
<1>7. AddsToGroup' /\ Named'
  BY <1>2, <1>6 DEF GroupsInv, AddsToGroup, Named, NoReq
<1>8. ByAdmin'
  BY <1>6, SMTT(30) DEF GroupsInv, Named, ByAdmin, NoReq
<1> QED
  BY <1>3, <1>4, <1>5, <1>7, <1>8 DEF GroupsInv

\* So they do a DELETE.
LEMMA LeaveKeeps ==
  ASSUME GroupsInv, NEW c \in Ids, NEW u \in Users,
         convs' = Left(c, u), req' \in [Reqs -> Request],
         \A r \in Reqs : req'[r] = req[r] \/ req'[r] = NoReq
  PROVE  GroupsInv'
<1>1. Touches(convs', c, u, "none")
  BY LeftRole DEF GroupsInv, TypeOK
<1>2. Ids' = Ids
  BY <1>1 DEF Touches, Ids
<1>3. TypeOK'
  BY <1>1 DEF TypeOK, Touches
<1>4. DirectIsPrivate'
  BY <1>1, <1>2 DEF GroupsInv, DirectIsPrivate, Touches, Members
<1>5. AdminIsFounder'
  BY <1>1, <1>2 DEF GroupsInv, AdminIsFounder, Touches
<1>6. AddsToGroup' /\ Named' /\ ByAdmin'
  BY <1>1, <1>2 DEF GroupsInv, AddsToGroup, Named, ByAdmin, Touches, NoReq
<1> QED
  BY <1>3, <1>4, <1>5, <1>6 DEF GroupsInv

\* A new conversation whose first members are its founders, or which is a group led
\* by its founder, changes nothing about the others.
LEMMA CreateKeeps ==
  ASSUME GroupsInv, NEW type \in {"direct", "group"}, NEW founders \in SUBSET Users,
         NEW role \in [Users -> Roles \cup {"none"}], Create(type, founders, role),
         type = "direct" => \A u \in Users : role[u] # "none" => u \in founders,
         \A u \in Users : role[u] = "admin" => type = "group" /\ founders = {u},
         req' \in [Reqs -> Request],
         \A r \in Reqs : req'[r] = req[r] \/ req'[r] = NoReq
  PROVE  GroupsInv'
<1> DEFINE conv == [type |-> type, founders |-> founders, role |-> role]
<1>1. conv \in Conversation
  BY DEF Conversation
<1>2. convs \in Seq(Conversation) /\ convs' = Append(convs, conv)
  BY DEF GroupsInv, TypeOK, Create
<1> HIDE DEF conv
<1>3. convs' \in Seq(Conversation) /\ Len(convs') = Len(convs) + 1
  BY <1>1, <1>2
<1>4. \A c \in Ids : c \in Ids' /\ convs'[c] = convs[c]
  BY <1>1, <1>2 DEF Ids
<1>5. \A c \in Ids' : c \in Ids \/ convs'[c] = conv
  BY <1>1, <1>2 DEF Ids
<1> USE DEF conv
<1>6. TypeOK'
  BY <1>3 DEF TypeOK
<1>7. DirectIsPrivate'
  BY <1>4, <1>5 DEF GroupsInv, DirectIsPrivate, Members
<1>8. AdminIsFounder'
  BY <1>4, <1>5 DEF GroupsInv, AdminIsFounder
<1>9. AddsToGroup' /\ Named' /\ ByAdmin'
  BY <1>4 DEF GroupsInv, AddsToGroup, Named, ByAdmin, NoReq
<1> QED
  BY <1>6, <1>7, <1>8, <1>9 DEF GroupsInv

\* Reading writes nothing; what is read is true of the tables, and stays so.
LEMMA AwaitKeeps ==
  ASSUME GroupsInv, NEW r \in Reqs, NEW u \in Users, Ask(r, u)
  PROVE  GroupsInv'
<1> USE DEF GroupsInv
<1>1. convs' = convs /\ Ids' = Ids
  BY DEF Ask, DirectFind, AddLook, RemoveLook, Await, Ids
<1>2. CASE \E v \in Users : DirectFind(r, u, v)
  <2>1. PICK v \in Users : req' = [req EXCEPT ![r] = [kind |-> "direct", conv |-> 0, by |-> u, whom |-> v]]
    BY <1>2 DEF DirectFind, Await
  <2> QED
    BY <1>1, <2>1 DEF TypeOK, Request, DirectIsPrivate, Members, AdminIsFounder, AddsToGroup, Named, ByAdmin
<1>3. CASE \E v \in Users, c \in Ids : AddLook(r, u, c, v)
  <2>1. PICK v \in Users, c \in Ids :
          /\ req' = [req EXCEPT ![r] = [kind |-> "add", conv |-> c, by |-> u, whom |-> v]]
          /\ convs[c].role[u] = "admin"
    BY <1>3 DEF AddLook, MayAdd, Await
  <2>2. convs[c].type = "group" /\ c \in Nat
    BY <2>1 DEF AdminIsFounder, Ids
  <2> QED
    BY <1>1, <2>1, <2>2 DEF TypeOK, Request, DirectIsPrivate, Members, AdminIsFounder, AddsToGroup, Named, ByAdmin
<1>4. CASE \E v \in Users, c \in Ids : RemoveLook(r, u, c, v)
  <2>1. PICK v \in Users, c \in Ids :
          /\ req' = [req EXCEPT ![r] = [kind |-> "remove", conv |-> c, by |-> u, whom |-> v]]
          /\ convs[c].role[u] = "admin" \/ u = v
    BY <1>4 DEF RemoveLook, MayRemove, Await
  <2>2. c \in Nat /\ (u # v => convs[c].founders = {u})
    BY <2>1 DEF AdminIsFounder, Ids
  <2> QED
    BY <1>1, <2>1, <2>2 DEF TypeOK, Request, DirectIsPrivate, Members, AdminIsFounder, AddsToGroup, Named, ByAdmin
<1> QED
  BY <1>2, <1>3, <1>4 DEF Ask

\* The invariant holds through every step.
LEMMA InvStep == GroupsInv /\ [Next]_vars => GroupsInv'
<1> SUFFICES ASSUME GroupsInv, [Next]_vars PROVE GroupsInv'
  OBVIOUS
<1> USE DEF GroupsInv
<1>1. ASSUME NEW u \in Users, GroupCreate(u) PROVE GroupsInv'
  <2>1. PICK others \in SUBSET (Users \ {u}) :
          Create("group", {u}, [v \in Users |-> IF v = u THEN "admin"
                                                ELSE IF v \in others THEN "member" ELSE "none"])
    BY <1>1 DEF GroupCreate
  <2>2. req' = req /\ req' \in [Reqs -> Request]
    BY <1>1 DEF GroupCreate, TypeOK
  <2> DEFINE role == [v \in Users |-> IF v = u THEN "admin"
                                      ELSE IF v \in others THEN "member" ELSE "none"]
  <2>3. role \in [Users -> Roles \cup {"none"}] /\ \A v \in Users : role[v] = "admin" => {u} = {v}
    BY DEF Roles
  <2>4. Create("group", {u}, role)
    BY <2>1
  <2> HIDE DEF role, GroupsInv
  <2>5. {u} \in SUBSET Users
    OBVIOUS
  <2> QED
    BY <2>2, <2>3, <2>4, <2>5, CreateKeeps
<1>2. ASSUME NEW u \in Users, NEW c \in Ids, Join(u, c) PROVE GroupsInv'
  BY <1>2, EnterKeeps DEF Join, TypeOK
<1>3. ASSUME NEW r \in Reqs, NEW kind \in {"direct", "add", "remove"}, Finish(r, kind)
      PROVE  req' \in [Reqs -> Request] /\ \A s \in Reqs : req'[s] = req[s] \/ req'[s] = NoReq
  BY <1>3 DEF Finish, TypeOK, Request, NoReq
<1>4. ASSUME NEW r \in Reqs, DirectCreate(r) PROVE GroupsInv'
  <2> DEFINE pair == {req[r].by, req[r].whom}
             role == [u \in Users |-> IF u \in pair THEN "member" ELSE "none"]
  <2>1. Finish(r, "direct") /\ Create("direct", pair, role)
    BY <1>4 DEF DirectCreate
  <2>2. pair \in SUBSET Users
    BY <2>1 DEF Named, Finish
  <2>3. role \in [Users -> Roles \cup {"none"}]
    BY DEF Roles
  <2>4. \A u \in Users : (role[u] # "none" => u \in pair) /\ role[u] # "admin"
    OBVIOUS
  <2> HIDE DEF pair, role
  <2> QED
    BY <2>1, <2>2, <2>3, <2>4, <1>3, CreateKeeps
<1>5. ASSUME NEW r \in Reqs, AddWrite(r) PROVE GroupsInv'
  <2>1. Finish(r, "add") /\ convs' = Entered(req[r].conv, req[r].whom)
    BY <1>5 DEF AddWrite
  <2>2. req[r].conv \in Ids /\ convs[req[r].conv].type = "group" /\ req[r].whom \in Users
    BY <2>1 DEF AddsToGroup, Finish
  <2> QED
    BY <2>1, <2>2, <1>3, EnterKeeps
<1>6. ASSUME NEW r \in Reqs, RemoveWrite(r) PROVE GroupsInv'
  <2>1. Finish(r, "remove") /\ convs' = Left(req[r].conv, req[r].whom)
    BY <1>6 DEF RemoveWrite
  <2>2. req[r].conv \in Ids /\ req[r].whom \in Users
    BY <2>1 DEF Named, Finish
  <2> QED
    BY <2>1, <2>2, <1>3, LeaveKeeps
<1>7. ASSUME NEW r \in Reqs, Fail(r) PROVE GroupsInv'
  <2>1. req' \in [Reqs -> Request] /\ \A s \in Reqs : req'[s] = req[s] \/ req'[s] = NoReq
    BY <1>3, <1>7 DEF Fail
  <2>2. convs' = convs
    BY <1>7 DEF Fail
  <2> QED
    BY <2>1, <2>2 DEF TypeOK, Ids, DirectIsPrivate, Members, AdminIsFounder, AddsToGroup, Named, ByAdmin, NoReq
<1>8. CASE UNCHANGED vars
  BY <1>8 DEF vars, TypeOK, Ids, DirectIsPrivate, Members, AdminIsFounder, AddsToGroup, Named, ByAdmin
<1> QED
  BY <1>1, <1>2, <1>4, <1>5, <1>6, <1>7, <1>8, AwaitKeeps DEF Next, Serve

LEMMA InvHolds == Spec => []GroupsInv
<1>1. Init => GroupsInv
  BY DEF Init, GroupsInv, TypeOK, Ids, Request, NoReq, DirectIsPrivate, AdminIsFounder, AddsToGroup, Named, ByAdmin
<1> QED
  BY <1>1, InvStep, PTL DEF Spec

-----------------------------------------------------------------------------
\* The tables and the requests keep their types.
THEOREM GroupsTypeCorrect == Spec => []TypeOK
BY InvHolds, PTL DEF GroupsInv

\* Nobody gets into a conversation of two others, whatever requests overlap.
THEOREM DirectsArePrivate == Spec => []DirectIsPrivate
BY InvHolds, PTL DEF GroupsInv

\* Only its creator ever leads a group.
THEOREM OnlyFoundersLead == Spec => []AdminIsFounder
BY InvHolds, PTL DEF GroupsInv

\* Nobody can take the lead of a group from the one who has it.
THEOREM LeadIsGivenUp == Spec => AdminLeavesByOwnHand
<1> DEFINE Kept == \A c \in Ids, u \in Users : convs[c].role[u] = "admin" /\ convs'[c].role[u] # "admin" =>
                     \E r \in Reqs : req[r] = [kind |-> "remove", conv |-> c, by |-> u, whom |-> u]
<1>1. ASSUME GroupsInv, [Next]_vars PROVE [Kept]_vars
  <2> SUFFICES ASSUME Next, NEW c \in Ids, NEW u \in Users,
                      convs[c].role[u] = "admin", convs'[c].role[u] # "admin"
               PROVE  \E r \in Reqs : req[r] = [kind |-> "remove", conv |-> c, by |-> u, whom |-> u]
    BY <1>1
  <2> USE <1>1 DEF GroupsInv
  <2>1. ASSUME NEW type, NEW founders, NEW role, Create(type, founders, role) PROVE FALSE
    <3>1. convs \in Seq(Conversation) /\ convs' = Append(convs, [type |-> type, founders |-> founders, role |-> role])
      BY <2>1 DEF Create, TypeOK
    <3>2. convs'[c] = convs[c]
      BY <3>1 DEF Ids
    <3> QED
      BY <3>2
  <2>2. ASSUME NEW d \in Ids, NEW v \in Users, convs' = Entered(d, v) PROVE FALSE
    <3>1. Touches(convs', d, v, IF convs[d].role[v] = "none" THEN "member" ELSE convs[d].role[v])
      BY <2>2, EnteredRole DEF TypeOK
    <3> QED
      BY <3>1 DEF Touches
  <2>3. convs' # convs
    OBVIOUS
  <2>4. ASSUME NEW r \in Reqs, RemoveWrite(r)
        PROVE  req[r] = [kind |-> "remove", conv |-> c, by |-> u, whom |-> u]
    <3>1. req[r].kind = "remove" /\ convs' = Left(req[r].conv, req[r].whom)
      BY <2>4 DEF RemoveWrite, Finish
    <3>2. req[r].conv \in Ids /\ req[r].whom \in Users
      BY <3>1 DEF Named
    <3>3. Touches(convs', req[r].conv, req[r].whom, "none")
      BY <3>1, <3>2, LeftRole DEF TypeOK
    <3>4. req[r].conv = c /\ req[r].whom = u
      BY <3>3 DEF Touches
    <3>5. req[r].by = u
      BY <3>1, <3>4 DEF ByAdmin, AdminIsFounder
    <3> QED
      BY <3>1, <3>4, <3>5 DEF TypeOK, Request
  <2>5. ~(\E v \in Users : GroupCreate(v) \/ \E d \in Ids : Join(v, d))
    BY <2>1, <2>2 DEF GroupCreate, Join
  <2>6. ~(\E r \in Reqs, v \in Users : Ask(r, v))
    BY <2>3 DEF Ask, DirectFind, AddLook, RemoveLook, Await
  <2>7. ~(\E r \in Reqs : DirectCreate(r) \/ AddWrite(r) \/ Fail(r))
    BY <2>1, <2>2, <2>3 DEF DirectCreate, AddWrite, Fail, Finish, AddsToGroup
  <2> QED
    BY <2>4, <2>5, <2>6, <2>7 DEF Next, Serve
<1>2. Spec => [][Kept]_vars
  BY <1>1, InvHolds, PTL DEF Spec
<1> QED
  BY <1>2 DEF AdminLeavesByOwnHand
-----------------------------------------------------------------------------
\* What two users share and are making is finite.
LEMMA FinitelyMany ==
  ASSUME convs \in Seq(Conversation), NEW u, NEW v
  PROVE  /\ IsFiniteSet(Shared(u, v)) /\ Cardinality(Shared(u, v)) \in Nat
         /\ IsFiniteSet(Making(u, v)) /\ Cardinality(Making(u, v)) \in Nat
         /\ Cardinality(Making(u, v)) <= Cardinality(Reqs)
         /\ Cardinality(Reqs) \in Nat
<1>1. IsFiniteSet(Ids)
  BY FS_Interval DEF Ids
<1>2. Shared(u, v) \subseteq Ids /\ Making(u, v) \subseteq Reqs
  BY DEF Shared, Making
<1> QED
  BY <1>1, <1>2, FS_Subset, FS_CardinalityType, GroupsAssumption

\* A step that makes nothing and begins nothing keeps the bound.
LEMMA FewerKeeps ==
  ASSUME convs \in Seq(Conversation), NEW u, NEW v,
         Shared(u, v)' \subseteq Shared(u, v), Making(u, v)' \subseteq Making(u, v),
         Cardinality(Shared(u, v)) + Cardinality(Making(u, v)) <= Cardinality(Reqs)
  PROVE  (Cardinality(Shared(u, v)) + Cardinality(Making(u, v)) <= Cardinality(Reqs))'
<1>1. /\ Cardinality(Shared(u, v)') \in Nat
      /\ Cardinality(Shared(u, v)') <= Cardinality(Shared(u, v))
      /\ Cardinality(Making(u, v)') \in Nat
      /\ Cardinality(Making(u, v)') <= Cardinality(Making(u, v))
  BY FinitelyMany, FS_Subset, FS_CardinalityType
<1> QED
  BY <1>1, FinitelyMany

\* The bound is inductive: a request begins to make one only when there is none, and
\* one that is done is no longer making it.
LEMMA DirectsStep ==
  ASSUME GroupsInv, GroupsInv', DirectsPerPair, [Next]_vars
  PROVE  DirectsPerPair'
<1> SUFFICES ASSUME NEW u \in Users, NEW v \in Users, u # v
             PROVE  (Cardinality(Shared(u, v)) + Cardinality(Making(u, v)) <= Cardinality(Reqs))'
  BY DEF DirectsPerPair
<1>1. convs \in Seq(Conversation) /\ convs' \in Seq(Conversation) /\ req \in [Reqs -> Request]
  BY DEF GroupsInv, TypeOK
<1>2. Cardinality(Shared(u, v)) + Cardinality(Making(u, v)) <= Cardinality(Reqs)
  BY DEF DirectsPerPair
<1>3. ASSUME NEW c \in Ids, NEW w \in Users, NEW role, Touches(convs', c, w, role),
             role = "none" \/ convs[c].type = "group" PROVE Shared(u, v)' \subseteq Shared(u, v)
  <2>1. Ids' = Ids
    BY <1>3 DEF Touches, Ids
  <2> QED
    BY <1>3, <2>1 DEF Touches, Shared, Members
<1>4. ASSUME NEW type, NEW founders, NEW role, Create(type, founders, role)
      PROVE  /\ Shared(u, v)' \subseteq Shared(u, v) \cup {Len(convs) + 1}
             /\ type # "direct" \/ role[u] = "none" \/ role[v] = "none" =>
                  Shared(u, v)' \subseteq Shared(u, v)
  <2> DEFINE conv == [type |-> type, founders |-> founders, role |-> role]
  <2>1. convs' = Append(convs, conv)
    BY <1>4 DEF Create
  <2>2. Len(convs') = Len(convs) + 1 /\ convs'[Len(convs) + 1] = conv
        /\ \A c \in Ids : convs'[c] = convs[c]
    BY <1>1, <2>1 DEF Ids
  <2>3. Ids' = Ids \cup {Len(convs) + 1}
    BY <1>1, <2>2 DEF Ids
  <2> QED
    BY <2>2, <2>3 DEF Shared, Members
<1>5. ASSUME NEW r \in Reqs, NEW kind \in {"direct", "add", "remove"}, Finish(r, kind)
      PROVE  /\ Making(u, v)' = Making(u, v) \ {r}
             /\ kind = "direct" /\ {req[r].by, req[r].whom} = {u, v} => r \in Making(u, v)
  BY <1>1, <1>5 DEF Finish, Making, NoReq
<1>6. ASSUME NEW w \in Users, GroupCreate(w)
      PROVE  Shared(u, v)' \subseteq Shared(u, v) /\ Making(u, v)' \subseteq Making(u, v)
  <2>1. PICK others \in SUBSET (Users \ {w}) :
          Create("group", {w}, [x \in Users |-> IF x = w THEN "admin"
                                                ELSE IF x \in others THEN "member" ELSE "none"])
    BY <1>6 DEF GroupCreate
  <2>2. req' = req
    BY <1>6 DEF GroupCreate
  <2> QED
    BY <1>4, <2>1, <2>2 DEF Making
<1>7. ASSUME NEW w \in Users, NEW c \in Ids, Join(w, c)
      PROVE  Shared(u, v)' \subseteq Shared(u, v) /\ Making(u, v)' \subseteq Making(u, v)
  BY <1>1, <1>3, <1>7, EnteredRole DEF Join, Making
<1>8. ASSUME NEW r \in Reqs, DirectCreate(r)
      PROVE  (Cardinality(Shared(u, v)) + Cardinality(Making(u, v)) <= Cardinality(Reqs))'
  <2> DEFINE pair == {req[r].by, req[r].whom}
             role == [w \in Users |-> IF w \in pair THEN "member" ELSE "none"]
  <2>1. Finish(r, "direct") /\ Create("direct", pair, role)
    BY <1>8 DEF DirectCreate
  <2>2. Making(u, v)' = Making(u, v) \ {r} /\ (pair = {u, v} => r \in Making(u, v))
    BY <1>5, <2>1
  <2>3. pair # {u, v} => role[u] = "none" \/ role[v] = "none"
    OBVIOUS
  <2> HIDE DEF pair, role
  <2>4. Shared(u, v)' \subseteq Shared(u, v) \cup {Len(convs) + 1}
        /\ (pair # {u, v} => Shared(u, v)' \subseteq Shared(u, v))
    BY <1>4, <2>1, <2>3
  <2>5. CASE pair # {u, v}
    BY <1>1, <1>2, <2>2, <2>4, <2>5, FewerKeeps
  <2>6. CASE pair = {u, v}
    <3>1. Cardinality(Making(u, v)') = Cardinality(Making(u, v)) - 1
      BY <1>1, <2>2, <2>6, FinitelyMany, FS_RemoveElement
    <3> DEFINE all == Shared(u, v) \cup {Len(convs) + 1}
    <3>2. IsFiniteSet(all) /\ Cardinality(all) <= Cardinality(Shared(u, v)) + 1
      <4>1. IsFiniteSet(Shared(u, v)) /\ Cardinality(Shared(u, v)) \in Nat
        BY <1>1, FinitelyMany
      <4>2. IsFiniteSet(all) /\ Cardinality(all) = IF Len(convs) + 1 \in Shared(u, v)
                                                   THEN Cardinality(Shared(u, v))
                                                   ELSE Cardinality(Shared(u, v)) + 1
        BY <4>1, FS_AddElement
      <4> QED
        BY <4>1, <4>2
    <3>3. Cardinality(Shared(u, v)') <= Cardinality(all) /\ Cardinality(Shared(u, v)') \in Nat
          /\ Cardinality(all) \in Nat
      BY <2>4, <3>2, FS_Subset, FS_CardinalityType
    <3>4. Cardinality(Shared(u, v)) \in Nat /\ Cardinality(Making(u, v)) \in Nat /\ Cardinality(Reqs) \in Nat
      BY <1>1, FinitelyMany
    <3> HIDE DEF all
    <3> QED
      BY <1>2, <3>1, <3>2, <3>3, <3>4
  <2> QED
    BY <2>5, <2>6
<1>9. ASSUME NEW r \in Reqs, AddWrite(r) \/ RemoveWrite(r) \/ Fail(r)
      PROVE  Shared(u, v)' \subseteq Shared(u, v) /\ Making(u, v)' \subseteq Making(u, v)
  <2>1. Making(u, v)' \subseteq Making(u, v)
    BY <1>5, <1>9 DEF AddWrite, RemoveWrite, Fail
  <2>2. CASE AddWrite(r)
    <3>1. req[r].kind = "add" /\ convs' = Entered(req[r].conv, req[r].whom)
      BY <2>2 DEF AddWrite, Finish
    <3>2. req[r].conv \in Ids /\ req[r].whom \in Users /\ convs[req[r].conv].type = "group"
      BY <3>1 DEF GroupsInv, AddsToGroup
    <3> QED
      BY <1>1, <1>3, <2>1, <3>1, <3>2, EnteredRole
  <2>3. CASE RemoveWrite(r)
    <3>1. req[r].kind = "remove" /\ convs' = Left(req[r].conv, req[r].whom)
      BY <2>3 DEF RemoveWrite, Finish
    <3>2. req[r].conv \in Ids /\ req[r].whom \in Users
      BY <3>1 DEF GroupsInv, Named
    <3> QED
      BY <1>1, <1>3, <2>1, <3>1, <3>2, LeftRole
  <2>4. CASE Fail(r)
    BY <2>1, <2>4 DEF Fail, Shared, Members, Ids
  <2> QED
    BY <1>9, <2>2, <2>3, <2>4
<1>10. ASSUME NEW r \in Reqs, NEW w \in Users, Ask(r, w)
       PROVE  (Cardinality(Shared(u, v)) + Cardinality(Making(u, v)) <= Cardinality(Reqs))'
  <2>1. convs' = convs /\ Shared(u, v)' = Shared(u, v)
    BY <1>10 DEF Ask, DirectFind, AddLook, RemoveLook, Await, Shared, Members, Ids
  <2>2. CASE Shared(u, v) = {}
    <3>1. Cardinality(Shared(u, v)') = 0
      BY <2>1, <2>2, FS_EmptySet
    <3>2. Making(u, v)' \subseteq Reqs
      BY DEF Making
    <3>3. Cardinality(Making(u, v)') <= Cardinality(Reqs) /\ Cardinality(Making(u, v)') \in Nat
      BY <3>2, FS_Subset, FS_CardinalityType, GroupsAssumption
    <3> QED
      BY <3>1, <3>3
  <2>3. CASE Shared(u, v) # {}
    <3>1. Making(u, v)' \subseteq Making(u, v)
      <4>1. ASSUME NEW x \in Users, DirectFind(r, w, x) PROVE {w, x} # {u, v}
        BY <2>3, <4>1 DEF DirectFind, Found, Shared
      <4>2. PICK kind \in {"direct", "add", "remove"}, c \in Nat, x \in Users :
              /\ req' = [req EXCEPT ![r] = [kind |-> kind, conv |-> c, by |-> w, whom |-> x]]
              /\ kind = "direct" => {w, x} # {u, v}
        BY <1>10, <4>1 DEF Ask, DirectFind, AddLook, RemoveLook, Await, Ids
      <4> QED
        BY <1>1, <4>2 DEF Making
    <3> QED
      BY <1>1, <1>2, <2>1, <3>1, FewerKeeps
  <2> QED
    BY <2>2, <2>3
<1>11. CASE UNCHANGED vars
  BY <1>1, <1>2, <1>11, FewerKeeps DEF vars, Shared, Making, Members, Ids
<1> QED
  BY <1>1, <1>2, <1>6, <1>7, <1>8, <1>9, <1>10, <1>11, FewerKeeps DEF Next, Serve

\* Two users share at most as many direct conversations as requests may look for one
\* at the same time.
THEOREM DirectsAreFew == Spec => []DirectsPerPair
<1>1. Init => DirectsPerPair
  <2> SUFFICES ASSUME Init, NEW u \in Users, NEW v \in Users
               PROVE  Cardinality(Shared(u, v)) + Cardinality(Making(u, v)) <= Cardinality(Reqs)
    BY DEF DirectsPerPair
  <2>1. Shared(u, v) = {} /\ Making(u, v) = {}
    BY DEF Init, Shared, Making, Ids, NoReq
  <2> QED
    BY <2>1, FS_EmptySet, FS_CardinalityType, GroupsAssumption
<1> QED
  BY <1>1, InvHolds, DirectsStep, PTL DEF Spec
=============================================================================
