------------------------------- MODULE Groups -------------------------------
(***************************************************************************)
(* Direct conversations and groups: who is in them, who leads them         *)
(* (internal/api/handlers.go, internal/database/db.go).  A request is a    *)
(* goroutine of the HTTP server; where its handler reads and then writes,  *)
(* these are two actions with those of other requests in between, and      *)
(* where it makes one statement, or one transaction, it is one action.     *)
(* Rows of conversations are never deleted.                                *)
(***************************************************************************)
EXTENDS Naturals, Sequences, FiniteSets

CONSTANTS
  Users,     \* users with an account
  Reqs,      \* request goroutines that may run side by side
  NoOne,     \* no user
  MaxConvs   \* bound: conversations

ASSUME GroupsAssumption ==
  /\ NoOne \notin Users
  /\ IsFiniteSet(Reqs)
  /\ MaxConvs \in Nat

VARIABLES
  convs,  \* tables conversations and conversation_members
  req     \* req[r]: what r has read and is about to write

vars == <<convs, req>>

Roles == {"admin", "member"}

\* Only groups have an invite code.  Who founded a conversation, the two of a
\* direct one or the creator of a group, is in the row only of a group.
Conversation == [type: {"direct", "group"}, founders: SUBSET Users,
                 role: [Users -> Roles \cup {"none"}]]

Request == [kind: {"none", "direct", "add", "remove"}, conv: Nat,
            by: Users \cup {NoOne}, whom: Users \cup {NoOne}]

NoReq == [kind |-> "none", conv |-> 0, by |-> NoOne, whom |-> NoOne]

TypeOK == convs \in Seq(Conversation) /\ req \in [Reqs -> Request]

Init == convs = <<>> /\ req = [r \in Reqs |-> NoReq]

Ids == 1 .. Len(convs)

Members(c) == {u \in Users : convs[c].role[u] # "none"}
-----------------------------------------------------------------------------
(* Requests.                                                               *)

\* The first statement of a request finds that there is something to write.
Await(r, kind, c, u, v) ==
  /\ req[r] = NoReq
  /\ req' = [req EXCEPT ![r] = [kind |-> kind, conv |-> c, by |-> u, whom |-> v]]
  /\ UNCHANGED convs

Finish(r, kind) == req[r].kind = kind /\ req' = [req EXCEPT ![r] = NoReq]

\* The second statement fails, or the transaction is rolled back.
Fail(r) == \E kind \in {"direct", "add", "remove"} : Finish(r, kind) /\ UNCHANGED convs

\* The transaction that inserts a conversation and its first members.
Create(type, founders, role) ==
  /\ Len(convs) < MaxConvs
  /\ convs' = Append(convs, [type |-> type, founders |-> founders, role |-> role])

\* Mutant: it is the row that is there, not the new one, that gives way.
EnteredAnew(c, u) == [convs EXCEPT ![c].role[u] = "member"]

\* Mutant: the role of the creator's own INSERT is copied.
EnteredAsAdmin(c, u) ==
  [convs EXCEPT ![c].role[u] = IF convs[c].role[u] = "none" THEN "admin" ELSE @]

\* INSERT ... 'member' ... ON CONFLICT DO NOTHING.
Entered(c, u) ==
  [convs EXCEPT ![c].role[u] = IF convs[c].role[u] = "none" THEN "member" ELSE @]

\* Mutant: the row is only marked.
LeftMarked(c, u) == [convs EXCEPT ![c].role[u] = "removed"]

\* The DELETE of RemoveGroupMember.
Left(c, u) == [convs EXCEPT ![c].role[u] = "none"]
-----------------------------------------------------------------------------
(* Direct conversations.                                                   *)

\* Mutant: the type is not spelled as in the INSERT.
FoundNone(u, v) == {c \in Ids : convs[c].type = "private" /\ {u, v} \subseteq Members(c)}

\* The SELECT of GetOrCreateDirectConversation.
Found(u, v) == {c \in Ids : convs[c].type = "direct" /\ {u, v} \subseteq Members(c)}

\* It found nothing.  When it finds a conversation, or one has blocked the other,
\* the request ends without a write.  The page offers other users only.
DirectFind(r, u, v) == u # v /\ Found(u, v) = {} /\ Await(r, "direct", 0, u, v)

DirectCreate(r) ==
  LET pair == {req[r].by, req[r].whom}
  IN /\ Finish(r, "direct")
     /\ Create("direct", pair, [u \in Users |-> IF u \in pair THEN "member" ELSE "none"])
-----------------------------------------------------------------------------
(* Groups.                                                                 *)

\* The creator u checks at least one other user.
GroupCreate(u) == \E others \in SUBSET (Users \ {u}) :
  /\ others # {}
  /\ Create("group", {u}, [v \in Users |-> IF v = u THEN "admin"
                                           ELSE IF v \in others THEN "member" ELSE "none"])
  /\ UNCHANGED req

\* The code that JoinGroupByInvite looks for was made with the group and stays.
Join(u, c) == convs[c].type = "group" /\ convs' = Entered(c, u) /\ UNCHANGED req

\* Mutant: any member may.
AnyMayAdd(u, c) == convs[c].role[u] # "none"

MayAdd(u, c) == convs[c].role[u] = "admin"

\* AddGroupMember and RemoveGroupMember take any conversation.
AddLook(r, u, c, v) == MayAdd(u, c) /\ Await(r, "add", c, u, v)

AddWrite(r) == Finish(r, "add") /\ convs' = Entered(req[r].conv, req[r].whom)

MayRemove(u, c, v) == convs[c].role[u] = "admin" \/ u = v

RemoveLook(r, u, c, v) == MayRemove(u, c, v) /\ Await(r, "remove", c, u, v)

RemoveWrite(r) == Finish(r, "remove") /\ convs' = Left(req[r].conv, req[r].whom)

Ask(r, u) == \E v \in Users :
  \/ DirectFind(r, u, v)
  \/ \E c \in Ids : AddLook(r, u, c, v) \/ RemoveLook(r, u, c, v)

Serve(r) == DirectCreate(r) \/ AddWrite(r) \/ RemoveWrite(r) \/ Fail(r)

Next == \/ \E u \in Users : GroupCreate(u) \/ \E c \in Ids : Join(u, c)
        \/ \E r \in Reqs : Serve(r) \/ \E u \in Users : Ask(r, u)

Spec == Init /\ [][Next]_vars
-----------------------------------------------------------------------------
(* Properties.                                                             *)

\* Nobody but its two ever gets into a direct conversation: not by a code, and
\* not by AddGroupMember, which does not ask for the type of the conversation.
DirectIsPrivate == \A c \in Ids : convs[c].type = "direct" => Members(c) \subseteq convs[c].founders

\* Nobody but its creator ever leads a group, in whatever order people join, are
\* added, leave and come back.  (When the creator leaves, nobody does.)
AdminIsFounder == \A c \in Ids, u \in Users :
  convs[c].role[u] = "admin" => convs[c].type = "group" /\ convs[c].founders = {u}

\* Whoever leads a group leads it until they leave it of themselves: no joining,
\* adding or removing by others takes the role away.
AdminLeavesByOwnHand ==
  [][\A c \in Ids, u \in Users : convs[c].role[u] = "admin" /\ convs'[c].role[u] # "admin" =>
       \E r \in Reqs : req[r] = [kind |-> "remove", conv |-> c, by |-> u, whom |-> u]]_vars

\* The direct conversations that u and v share.
Shared(u, v) == {c \in Ids : convs[c].type = "direct" /\ {u, v} \subseteq Members(c)}

\* The requests that found none and are about to make one.
Making(u, v) == {r \in Reqs : req[r].kind = "direct" /\ {req[r].by, req[r].whom} = {u, v}}

\* Two users share no more direct conversations, made or about to be made, than
\* there are requests that may look for one at the same time: one and the same, if
\* there is a single request, also after one of them left and both ask again.
DirectsPerPair == \A u, v \in Users : u # v =>
  Cardinality(Shared(u, v)) + Cardinality(Making(u, v)) <= Cardinality(Reqs)
=============================================================================
