-------------------------------- MODULE Polls --------------------------------
(***************************************************************************)
(* Polls of one conversation: how they are made and voted in               *)
(* (internal/chat/hub.go, internal/database/db.go), and how one user's     *)
(* page shows them (web/index.html).  A hub handles one message at a time; *)
(* the hubs of several server processes, and the requests to               *)
(* /api/messages/poll-vote, work side by side.  CreatePoll is one          *)
(* transaction; VotePoll is a sequence of statements without one, and each *)
(* of them is a step here.  The page was opened before the first poll and  *)
(* stays connected; loading and reconnecting are module Room.              *)
(***************************************************************************)
EXTENDS Naturals, Sequences, FiniteSets

CONSTANTS
  Users,     \* user ids, members of the conversation
  Me,        \* the user whose page it is
  Options,   \* the options of a poll
  Hubs,      \* server processes, one hub goroutine each
  Apis,      \* goroutines that serve /api/messages/poll-vote
  NoCard,    \* the page does not show the poll
  MaxPolls,  \* bound: polls
  MaxVotes   \* bound: no vote begins when so many are written

Reqs == Hubs \cup Apis

ASSUME PollsAssumption ==
  /\ Me \in Users
  /\ IsFiniteSet(Reqs) /\ IsFiniteSet(Options) /\ IsFiniteSet(Users)
  /\ Hubs \cap Apis = {}
  /\ MaxPolls \in Nat /\ MaxVotes \in Nat

VARIABLES
  polls,   \* table polls: whether a poll takes several answers of one user
  votes,   \* table poll_votes
  work,    \* work[r]: what r is doing
  bus,     \* events on their way to the page
  page,    \* page[p]: the card that shows poll p
  cast,    \* number of votes written
  failed,  \* history: a statement of VotePoll has failed
  crossed, \* history: two votes of one user in one poll have overlapped
  via      \* history: via[p] are those who handled messages about poll p

vars == <<polls, votes, work, bus, page, cast, failed, crossed, via>>

Ids == 1 .. Len(polls)

\* poll_votes has the primary key (poll_id, option_id, user_id).
Vote == Nat \X Users \X Options

\* PollDTO: how often each option was chosen, and which have has_voted.
Card == [tally: [Options -> Nat], marks: SUBSET Options]
Event == [kind: {"poll", "poll_vote"}, poll: Nat, card: Card]

ASSUME NoCardAssumption == NoCard \notin Card

\* Place in poll_create or VotePoll, its arguments, and the card it has read.
\* before is history: the user's answers when the vote began.
Work == [pc: {"idle", "saved", "cleared", "insert", "delete", "written", "publish"},
         kind: {"poll", "poll_vote"}, several: BOOLEAN,
         poll: Nat, user: Users, option: Options \cup {NoCard},
         card: Card \cup {NoCard}, before: SUBSET Options]

Idle == [pc |-> "idle", kind |-> "poll", several |-> FALSE, poll |-> 0, user |-> Me,
         option |-> NoCard, card |-> NoCard, before |-> {}]

TypeOK ==
  /\ polls \in Seq(BOOLEAN)
  /\ votes \subseteq Vote
  /\ work \in [Reqs -> Work]
  /\ bus \in Seq(Event)
  /\ page \in [1 .. MaxPolls -> Card \cup {NoCard}]
  /\ cast \in Nat
  /\ failed \in BOOLEAN /\ crossed \in BOOLEAN
  /\ via \in Seq(SUBSET Reqs)

Init ==
  /\ polls = <<>> /\ votes = {}
  /\ work = [r \in Reqs |-> Idle]
  /\ bus = <<>>
  /\ page = [p \in 1 .. MaxPolls |-> NoCard]
  /\ cast = 0
  /\ failed = FALSE /\ crossed = FALSE
  /\ via = <<>>
-----------------------------------------------------------------------------
(* What the statements read and where they lead.                           *)

\* The options that u has chosen in poll p.
Chosen(p, u) == {o \in Options : <<p, u, o>> \in votes}

\* Mutant: getPollDetails joins the votes, and an option nobody chose is not in the answer.
CardOfChosen(p, u) == [tally |-> [o \in {v[3] : v \in votes} |->
                                   Cardinality({v \in Users : <<p, v, o>> \in votes})],
                       marks |-> Chosen(p, u)]

\* getPollDetails for u.
CardOf(p, u) == [tally |-> [o \in Options |-> Cardinality({v \in Users : <<p, v, o>> \in votes})],
                 marks |-> Chosen(p, u)]

\* Those whose vote of u in poll p has begun and is not yet written.
Voting(p, u) == {r \in Reqs : work[r].pc \in {"cleared", "insert", "delete"}
                              /\ work[r].poll = p /\ work[r].user = u}

Goto(r, pc) == work' = [work EXCEPT ![r].pc = pc]

Done(r) == work' = [work EXCEPT ![r] = Idle]

\* A statement whose error is not looked at fails, and VotePoll goes on.
Unheard(r, pc) == Goto(r, pc) /\ failed' = TRUE /\ UNCHANGED votes
-----------------------------------------------------------------------------
(* poll_create: the message, the poll, the event.                          *)

\* SaveMessage.  If it fails nothing is left to do.
Save(h, several) ==
  /\ work[h] = Idle
  /\ Len(polls) < MaxPolls
  /\ work' = [work EXCEPT ![h].pc = "saved", ![h].several = several]
  /\ UNCHANGED <<polls, votes, bus, page, cast, failed, crossed, via>>

\* The transaction of CreatePoll: the card has no votes yet.
CreatePoll(h) ==
  /\ work[h].pc = "saved"
  /\ Len(polls) < MaxPolls
  /\ polls' = Append(polls, work[h].several)
  /\ via' = Append(via, {h})
  /\ work' = [work EXCEPT ![h].pc = "publish", ![h].kind = "poll", ![h].poll = Len(polls) + 1,
                          ![h].card = [tally |-> [o \in Options |-> 0], marks |-> {}]]
  /\ UNCHANGED <<votes, bus, page, cast, failed, crossed>>

\* It is rolled back: the message stays without a poll, and what is published is
\* still a "poll_create", which the page ignores.
CreateFails(h) ==
  /\ work[h].pc = "saved"
  /\ Done(h)
  /\ UNCHANGED <<polls, votes, bus, page, cast, failed, crossed, via>>
-----------------------------------------------------------------------------
(* VotePoll.                                                               *)

\* Mutant: a vote never replaces another.
ClearedNothing(p, u) == votes

\* The DELETE of a poll with one answer.
Cleared(p, u) == IF polls[p] THEN votes ELSE {v \in votes : ~(v[1] = p /\ v[2] = u)}

\* SELECT multiple_answers, which never changes, and DELETE.  The option is one of the poll's
\* own, which are all that the page offers; the table asks only that there is such an option.
Clear(r, p, u, o) ==
  /\ work[r] = Idle
  /\ cast < MaxVotes
  /\ work' = [work EXCEPT ![r] = [Idle EXCEPT !.pc = "cleared", !.kind = "poll_vote", !.poll = p,
                                              !.user = u, !.option = o, !.before = Chosen(p, u)]]
  /\ \/ votes' = Cleared(p, u) /\ UNCHANGED failed
     \/ ~polls[p] /\ failed' = TRUE /\ UNCHANGED votes
  /\ crossed' = (crossed \/ Voting(p, u) # {})
  /\ via' = [via EXCEPT ![p] = @ \cup {r}]
  /\ UNCHANGED <<polls, bus, page, cast>>

\* Mutant: what the user chose before is not looked at.
TakesBackNever(r) == FALSE

\* Whether the COUNT of this vote is positive.
TakesBack(r) == work[r].option \in Chosen(work[r].poll, work[r].user)

\* SELECT COUNT; count stays 0 when it fails.
Count(r) ==
  /\ work[r].pc = "cleared"
  /\ \/ Goto(r, IF TakesBack(r) THEN "delete" ELSE "insert") /\ UNCHANGED <<votes, failed>>
     \/ Unheard(r, "insert")
  /\ UNCHANGED <<polls, bus, page, cast, crossed, via>>

\* The row that r inserts or deletes.
Row(r) == <<work[r].poll, work[r].user, work[r].option>>

\* INSERT or DELETE.  An INSERT of a row that is there breaks the primary key.
Write(r) ==
  /\ \/ /\ work[r].pc = "insert" /\ votes' = votes \cup {Row(r)}
        /\ Goto(r, "written") /\ UNCHANGED failed
     \/ /\ work[r].pc = "delete" /\ votes' = votes \ {Row(r)}
        /\ Goto(r, "written") /\ UNCHANGED failed
     \/ work[r].pc \in {"insert", "delete"} /\ Unheard(r, "written")
  /\ cast' = cast + 1
  /\ UNCHANGED <<polls, bus, page, crossed, via>>

\* getPollDetails, by a hub.  If it fails the event has no poll, and the page ignores it.
Tally(h) ==
  /\ work[h].pc = "written"
  /\ \/ /\ work' = [work EXCEPT ![h].pc = "publish", ![h].card = CardOf(work[h].poll, work[h].user)]
        /\ UNCHANGED failed
     \/ Done(h) /\ failed' = TRUE
  /\ UNCHANGED <<polls, votes, bus, page, cast, crossed, via>>

\* getPollDetails by the handler of /api/messages/poll-vote, who answers the caller only.
Answer(a) ==
  /\ work[a].pc = "written"
  /\ Done(a)
  /\ UNCHANGED <<polls, votes, bus, page, cast, failed, crossed, via>>

\* Publish, after either message.
Publish(h) ==
  /\ work[h].pc = "publish"
  /\ bus' = Append(bus, [kind |-> work[h].kind, poll |-> work[h].poll, card |-> work[h].card])
  /\ Done(h)
  /\ UNCHANGED <<polls, votes, page, cast, failed, crossed, via>>
-----------------------------------------------------------------------------
(* The page.                                                               *)

\* Mutant: the first card stays.
FollowsFirst(e) == page[e.poll] = NoCard

\* "poll" appends a bubble; "poll_vote" replaces the card if there is one.
Follows(e) == e.kind = "poll" \/ page[e.poll] # NoCard

Follow ==
  /\ bus # <<>>
  /\ page' = IF Follows(Head(bus)) THEN [page EXCEPT ![Head(bus).poll] = Head(bus).card] ELSE page
  /\ bus' = Tail(bus)
  /\ UNCHANGED <<polls, votes, work, cast, failed, crossed, via>>

HubStep(h) == \/ \E several \in BOOLEAN : Save(h, several)
              \/ CreatePoll(h) \/ CreateFails(h) \/ Tally(h) \/ Publish(h)

VoteStep(r) == \/ \E p \in Ids, u \in Users, o \in Options : Clear(r, p, u, o)
               \/ Count(r) \/ Write(r)

\* Nobody has anything left to do within the bounds.
Quiet == /\ \A r \in Reqs : work[r] = Idle
         /\ bus = <<>>
         /\ UNCHANGED vars

Next == \/ \E h \in Hubs : HubStep(h)
        \/ \E a \in Apis : Answer(a)
        \/ \E r \in Reqs : VoteStep(r)
        \/ Follow
        \/ Quiet

Spec == Init /\ [][Next]_vars
-----------------------------------------------------------------------------
(* Properties.                                                             *)

\* What u has in poll p or is about to have there.
Standing(p, u) == Chosen(p, u) \cup {work[r].option : r \in Voting(p, u)}

\* Although VotePoll is no transaction, overlapping votes of one user in a poll with
\* one answer leave no more of them than can overlap: one, if there is one process.
AnswersPerVoter == ~failed => \A p \in Ids, u \in Users :
  ~polls[p] => Cardinality(Standing(p, u)) <= Cardinality(Reqs)

\* Nobody is at work on poll p, and no event about it is on its way.
Settled(p) == /\ \A r \in Reqs : work[r].poll # p
              /\ \A i \in 1 .. Len(bus) : bus[i].poll # p

\* A page that was told of every vote shows the tally that the table has, if one
\* process handled them all: it writes, reads and publishes one vote after the other.
TallyShown == ~failed => \A p \in Ids : Settled(p) /\ (\E h \in Hubs : via[p] = {h}) =>
  page[p] # NoCard /\ page[p].tally = CardOf(p, Me).tally

\* The answers of u as those who vote may think of them: a vote that is under way
\* has not changed anything yet.
GivenBy(p, u) == IF Voting(p, u) = {} THEN Chosen(p, u)
                 ELSE UNION {work[r].before : r \in Voting(p, u)}

Given == {v \in Ids \X Users \X Options : v[3] \in GivenBy(v[1], v[2])}

B == INSTANCE Ballot WITH answers <- Given, taken <- cast, ok <- ~failed /\ ~crossed

\* Whatever the votes of different users, in one process or many, they are as if each
\* vote were one step, until a statement fails or two votes of one user overlap.
RefinesBallot == B!Spec

\* And so, that long, a poll with one answer never has two of one user.
OneAnswer == B!OneAnswer
=============================================================================
