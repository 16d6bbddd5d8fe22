---------------------------- MODULE PollsProofs -----------------------------
(***************************************************************************)
(* What module Polls promises for any number of users, options, processes, *)
(* API goroutines, polls and votes.                                        *)
(***************************************************************************)
EXTENDS Polls, FiniteSetTheorems, TLAPS

\* What is under way is about a poll that exists, and a card is read before it is published.
InHand == \A r \in Reqs :
  /\ work[r].pc \in {"cleared", "insert", "delete", "written"} =>
       work[r].poll \in Ids /\ work[r].option \in Options
  /\ work[r].pc = "publish" => work[r].card \in Card

\* Votes are for polls that exist.
VotesInPolls == \A v \in votes : v[1] \in Ids

PollsInv == TypeOK /\ InHand /\ VotesInPolls

LEMMA CardTyped ==
  ASSUME NEW p, NEW u
  PROVE  CardOf(p, u) \in Card
<1>1. \A o \in Options : Cardinality({v \in Users : <<p, v, o>> \in votes}) \in Nat
  BY FS_Subset, FS_CardinalityType, PollsAssumption
<1> QED
  BY <1>1 DEF CardOf, Card, Chosen

LEMMA IdleTyped == Idle \in Work
BY PollsAssumption DEF Idle, Work

\* Setting the place of r keeps the type, and touches nothing else.
LEMMA GotoTyped ==
  ASSUME TypeOK, NEW r \in Reqs, NEW pc \in {"idle", "saved", "cleared", "insert", "delete", "written", "publish"},
         Goto(r, pc)
  PROVE  /\ work' \in [Reqs -> Work]
         /\ \A q \in Reqs \ {r} : work'[q] = work[q]
         /\ work'[r].pc = pc
         /\ work'[r].poll = work[r].poll
         /\ work'[r].user = work[r].user
         /\ work'[r].option = work[r].option
         /\ work'[r].card = work[r].card
         /\ work'[r].before = work[r].before
<1>1. work[r] \in Work
  BY DEF TypeOK
<1>2. work'[r] = [work[r] EXCEPT !.pc = pc]
  BY DEF TypeOK, Goto
<1>3. work'[r] \in Work
  BY <1>1, <1>2 DEF Work
<1>4. work' \in [Reqs -> Work]
  BY <1>2, <1>3 DEF TypeOK, Goto
<1>5. \A q \in Reqs \ {r} : work'[q] = work[q]
  BY DEF TypeOK, Goto
<1> QED
  BY <1>1, <1>2, <1>4, <1>5 DEF Work

LEMMA DoneTyped ==
  ASSUME TypeOK, NEW r \in Reqs, Done(r)
  PROVE  /\ work' \in [Reqs -> Work]
         /\ \A q \in Reqs \ {r} : work'[q] = work[q]
         /\ work'[r].pc = "idle"
BY IdleTyped DEF TypeOK, Done, Idle

LEMMA InitPolls == Init => PollsInv
<1>1. Init => TypeOK
  <2> SUFFICES ASSUME Init PROVE TypeOK
    OBVIOUS
  <2>1. work \in [Reqs -> Work]
    BY IdleTyped DEF Init
  <2>2. polls \in Seq(BOOLEAN) /\ bus \in Seq(Event) /\ via \in Seq(SUBSET Reqs)
    BY DEF Init
  <2> QED
    BY <2>1, <2>2 DEF Init, TypeOK
<1>2. Init => InHand
  BY DEF Init, InHand, Idle
<1>3. Init => VotesInPolls
  BY DEF Init, VotesInPolls
<1> QED
  BY <1>1, <1>2, <1>3 DEF PollsInv

LEMMA NextPolls == PollsInv /\ [Next]_vars => PollsInv'
<1> SUFFICES ASSUME PollsInv, [Next]_vars
             PROVE  PollsInv'
  OBVIOUS
<1> USE DEF PollsInv
<1> DEFINE Pcs == {"idle", "saved", "cleared", "insert", "delete", "written", "publish"}
<1>1. ASSUME NEW h \in Hubs, NEW several \in BOOLEAN, Save(h, several)
      PROVE  PollsInv'
  <2>1. h \in Reqs /\ work[h] \in Work
    BY DEF TypeOK, Reqs
  <2>2. work'[h] = [work[h] EXCEPT !.pc = "saved", !.several = several] /\ \A q \in Reqs \ {h} : work'[q] = work[q]
    BY <1>1, <2>1 DEF Save, TypeOK
  <2>3. work'[h] \in Work /\ work'[h].pc = "saved"
    BY <2>1, <2>2 DEF Work
  <2>4. work' \in [Reqs -> Work]
    BY <1>1, <2>1, <2>2, <2>3 DEF Save, TypeOK
  <2> QED
    BY <1>1, <2>2, <2>3, <2>4 DEF Save, TypeOK, InHand, VotesInPolls, Ids
<1>2. ASSUME NEW h \in Hubs, CreatePoll(h)
      PROVE  PollsInv'
  <2>1. h \in Reqs /\ work[h] \in Work /\ Len(polls) + 1 \in Nat
    BY DEF TypeOK, Reqs
  <2> DEFINE none == [tally |-> [o \in Options |-> 0], marks |-> {}]
  <2>2. none \in Card
    BY DEF Card
  <2> HIDE DEF none
  <2>3. /\ work'[h] = [work[h] EXCEPT !.pc = "publish", !.kind = "poll", !.poll = Len(polls) + 1, !.card = none]
        /\ \A q \in Reqs \ {h} : work'[q] = work[q]
    BY <1>2, <2>1 DEF CreatePoll, TypeOK, none
  <2>4. work'[h] \in Work /\ work'[h].pc = "publish" /\ work'[h].card = none
    BY <2>1, <2>2, <2>3 DEF Work
  <2>5. work' \in [Reqs -> Work]
    BY <1>2, <2>1, <2>3, <2>4 DEF CreatePoll, TypeOK
  <2>6. polls' \in Seq(BOOLEAN) /\ Len(polls') = Len(polls) + 1
    BY <1>2, <2>1 DEF CreatePoll, TypeOK, Work
  <2>7. via' \in Seq(SUBSET Reqs)
    BY <1>2, <2>1 DEF CreatePoll, TypeOK
  <2>8. Ids \subseteq Ids'
    BY <2>6 DEF Ids, TypeOK
  <2>9. votes' \subseteq Vote /\ VotesInPolls'
    BY <1>2, <2>8 DEF CreatePoll, TypeOK, VotesInPolls
  <2>10. InHand'
    BY <2>2, <2>3, <2>4, <2>8 DEF InHand
  <2> QED
    BY <1>2, <2>5, <2>6, <2>7, <2>9, <2>10 DEF CreatePoll, TypeOK
<1>3. ASSUME NEW r \in Reqs, Done(r), UNCHANGED <<polls, votes, page, cast, crossed, via>>,
             failed' \in BOOLEAN, bus' \in Seq(Event)
      PROVE  PollsInv'
  BY <1>3, DoneTyped DEF TypeOK, InHand, VotesInPolls, Ids
<1>4. ASSUME NEW r \in Reqs, NEW p \in Ids, NEW u \in Users, NEW o \in Options, Clear(r, p, u, o)
      PROVE  PollsInv'
  <2> DEFINE w == [Idle EXCEPT !.pc = "cleared", !.kind = "poll_vote", !.poll = p,
                               !.user = u, !.option = o, !.before = Chosen(p, u)]
  <2>1. p \in Nat /\ Chosen(p, u) \subseteq Options
    BY DEF Ids, TypeOK, Chosen
  <2>2. w \in Work
    BY <2>1, IdleTyped DEF Work
  <2>3. w.pc = "cleared" /\ w.poll = p /\ w.option = o
    BY DEF Idle
  <2>4. work' = [work EXCEPT ![r] = w]
    BY <1>4 DEF Clear
  <2> HIDE DEF w
  <2>5. work' \in [Reqs -> Work] /\ work'[r] = w /\ \A q \in Reqs \ {r} : work'[q] = work[q]
    BY <2>2, <2>4 DEF TypeOK
  <2>6. InHand'
    <3>1. Ids' = Ids
      BY <1>4 DEF Clear, Ids
    <3>2. work'[r].pc = "cleared" /\ work'[r].poll \in Ids' /\ work'[r].option \in Options
      BY <2>3, <2>5, <3>1
    <3>3. ASSUME NEW q \in Reqs \ {r}
          PROVE  work'[q] = work[q]
      BY <2>5
    <3> SUFFICES ASSUME NEW q \in Reqs
                 PROVE  /\ work'[q].pc \in {"cleared", "insert", "delete", "written"} =>
                             work'[q].poll \in Ids' /\ work'[q].option \in Options
                        /\ work'[q].pc = "publish" => work'[q].card \in Card
      BY DEF InHand
    <3>4. CASE q = r
      BY <3>2, <3>4
    <3>5. CASE q # r
      BY <3>1, <3>3, <3>5 DEF InHand
    <3> QED
      BY <3>4, <3>5
  <2>7. votes' \subseteq votes
    BY <1>4 DEF Clear, Cleared
  <2>8. via' \in Seq(SUBSET Reqs)
    <3>1. via \in [1 .. Len(via) -> SUBSET Reqs] /\ Len(via) \in Nat
      BY DEF TypeOK
    <3>2. via' = [via EXCEPT ![p] = via[p] \cup {r}]
      BY <1>4 DEF Clear
    <3>3. via' \in [1 .. Len(via) -> SUBSET Reqs]
      BY <3>1, <3>2
    <3> QED
      BY <3>1, <3>3
  <2>9. failed' \in BOOLEAN /\ crossed' \in BOOLEAN
    BY <1>4 DEF Clear, TypeOK
  <2> QED
    BY <1>4, <2>5, <2>6, <2>7, <2>8, <2>9 DEF Clear, TypeOK, VotesInPolls, Ids
<1>5. ASSUME NEW r \in Reqs, Count(r)
      PROVE  PollsInv'
  <2>1. \E pc \in {"delete", "insert"} : Goto(r, pc)
    BY <1>5 DEF Count, Unheard
  <2>2. UNCHANGED <<polls, votes, bus, page, cast, crossed, via>> /\ failed' \in BOOLEAN /\ work[r].pc = "cleared"
    BY <1>5 DEF Count, Unheard, TypeOK
  <2>3. PICK pc \in {"delete", "insert"} : Goto(r, pc)
    BY <2>1
  <2> QED
    BY <2>2, <2>3, GotoTyped DEF TypeOK, InHand, VotesInPolls, Ids
<1>6. ASSUME NEW r \in Reqs, Write(r)
      PROVE  PollsInv'
  <2>1. Goto(r, "written") /\ work[r].pc \in {"insert", "delete"} /\ failed' \in BOOLEAN
    BY <1>6 DEF Write, Unheard, TypeOK
  <2>2. UNCHANGED <<polls, bus, page, crossed, via>> /\ cast' \in Nat
    BY <1>6 DEF Write, TypeOK
  <2>3. votes' \subseteq votes \cup {Row(r)}
    BY <1>6 DEF Write, Unheard
  <2>4. work[r].poll \in Ids /\ work[r].option \in Options /\ work[r].user \in Users
    BY <2>1 DEF InHand, TypeOK, Work
  <2>5. Row(r) \in Vote /\ Row(r)[1] \in Ids
    BY <2>4 DEF Row, Vote, Ids
  <2> QED
    BY <2>1, <2>2, <2>3, <2>4, <2>5, GotoTyped DEF TypeOK, InHand, VotesInPolls, Ids
<1>7. ASSUME NEW h \in Hubs, Tally(h)
      PROVE  PollsInv'
  <2>1. h \in Reqs /\ work[h] \in Work
    BY DEF TypeOK, Reqs
  <2>2. CASE Done(h) /\ failed' = TRUE
    BY <1>3, <1>7, <2>1, <2>2 DEF Tally, TypeOK
  <2> DEFINE c == CardOf(work[h].poll, work[h].user)
  <2>3. CASE work' = [work EXCEPT ![h].pc = "publish", ![h].card = c] /\ UNCHANGED failed
    <3>1. c \in Card
      BY CardTyped
    <3> HIDE DEF c
    <3>2. work'[h] = [work[h] EXCEPT !.pc = "publish", !.card = c] /\ \A q \in Reqs \ {h} : work'[q] = work[q]
      BY <2>1, <2>3 DEF TypeOK
    <3>3. work'[h] \in Work /\ work'[h].pc = "publish" /\ work'[h].card = c
      BY <2>1, <3>1, <3>2 DEF Work
    <3>4. work' \in [Reqs -> Work]
      BY <2>1, <2>3, <3>2, <3>3 DEF TypeOK
    <3> QED
      BY <1>7, <2>3, <3>1, <3>2, <3>3, <3>4 DEF Tally, TypeOK, InHand, VotesInPolls, Ids
  <2> QED
    BY <1>7, <2>2, <2>3 DEF Tally
<1>8. ASSUME NEW h \in Hubs, Publish(h)
      PROVE  PollsInv'
  <2>1. h \in Reqs /\ work[h] \in Work
    BY DEF TypeOK, Reqs
  <2>2. [kind |-> work[h].kind, poll |-> work[h].poll, card |-> work[h].card] \in Event
    BY <1>8, <2>1 DEF Publish, InHand, Work, Event
  <2>3. bus' \in Seq(Event)
    BY <1>8, <2>2 DEF Publish, TypeOK
  <2> QED
    BY <1>3, <1>8, <2>1, <2>3 DEF Publish, TypeOK
<1>9. ASSUME Follow
      PROVE  PollsInv'
  <2>1. Head(bus) \in Event /\ bus' \in Seq(Event)
    BY <1>9 DEF Follow, TypeOK
  <2>2. Head(bus).card \in Card
    BY <2>1 DEF Event
  <2>3. page' \in [1 .. MaxPolls -> Card \cup {NoCard}]
    BY <1>9, <2>2 DEF Follow, TypeOK
  <2> QED
    BY <1>9, <2>1, <2>3 DEF Follow, TypeOK, InHand, VotesInPolls, Ids
<1>10. ASSUME UNCHANGED vars
       PROVE  PollsInv'
  BY <1>10 DEF vars, TypeOK, InHand, VotesInPolls, Ids
<1>11. ASSUME NEW h \in Hubs, CreateFails(h)
       PROVE  PollsInv'
  BY <1>3, <1>11 DEF CreateFails, TypeOK, Reqs
<1>12. ASSUME NEW a \in Apis, Answer(a)
       PROVE  PollsInv'
  BY <1>3, <1>12 DEF Answer, TypeOK, Reqs
<1> QED
  BY <1>1, <1>2, <1>4, <1>5, <1>6, <1>7, <1>8, <1>9, <1>10, <1>11, <1>12 DEF Next, HubStep, VoteStep, Quiet

\* Tables, goroutines, bus and page keep their types.
THEOREM PollsTypeCorrect == Spec => []TypeOK
<1>1. Spec => []PollsInv
  BY InitPolls, NextPolls, PTL DEF Spec
<1> QED
  BY <1>1, PTL DEF PollsInv

-----------------------------------------------------------------------------
(* How many answers overlapping votes leave.                               *)

\* There are finitely many answers, and as many votes of u under way as there are goroutines.
LEMMA StandingFinite ==
  ASSUME PollsInv, NEW p, NEW u
  PROVE  Standing(p, u) \subseteq Options /\ IsFiniteSet(Standing(p, u))
<1>1. Standing(p, u) \subseteq Options
  BY DEF Standing, Chosen, Voting, PollsInv, InHand
<1> QED
  BY <1>1, FS_Subset, PollsAssumption

LEMMA OptionsFew ==
  ASSUME NEW w, NEW S \in SUBSET Reqs
  PROVE  Cardinality({w[r].option : r \in S}) <= Cardinality(Reqs)
<1> DEFINE T == {w[r].option : r \in S}
           f == [r \in S |-> w[r].option]
<1>1. IsFiniteSet(S) /\ Cardinality(S) <= Cardinality(Reqs)
  BY FS_Subset, PollsAssumption
<1>2. f \in Surjection(S, T)
  BY DEF Surjection
<1>3. IsFiniteSet(T) /\ Cardinality(T) <= Cardinality(S)
  BY <1>1, <1>2, FS_Surjection
<1> QED
  BY <1>1, <1>3, FS_CardinalityType, PollsAssumption

\* A step that puts nobody's answers beyond what they were keeps the bound.
LEMMA FewerStands ==
  ASSUME PollsInv, AnswersPerVoter, failed => failed',
         polls' = polls,
         \A p \in Ids, u \in Users : Standing(p, u)' \subseteq Standing(p, u)
  PROVE  AnswersPerVoter'
<1> SUFFICES ASSUME ~failed', NEW p \in Ids, NEW u \in Users, ~polls[p]
             PROVE  Cardinality(Standing(p, u)') <= Cardinality(Reqs)
  BY DEF AnswersPerVoter, Ids
<1>1. Cardinality(Standing(p, u)') <= Cardinality(Standing(p, u))
  BY StandingFinite, FS_Subset
<1>2. Cardinality(Standing(p, u)) <= Cardinality(Reqs)
  BY DEF AnswersPerVoter
<1>3. Cardinality(Standing(p, u)) \in Nat /\ Cardinality(Reqs) \in Nat
      /\ Cardinality(Standing(p, u)') \in Nat
  BY StandingFinite, FS_Subset, FS_CardinalityType, PollsAssumption
<1> QED
  BY <1>1, <1>2, <1>3

\* A goroutine that votes neither before nor after a step adds nothing to what stands.
LEMMA IdleStands ==
  ASSUME PollsInv, AnswersPerVoter, failed => failed', UNCHANGED <<polls, votes>>, NEW r \in Reqs,
         \A q \in Reqs \ {r} : work'[q] = work[q],
         work'[r].pc \notin {"cleared", "insert", "delete"}
  PROVE  AnswersPerVoter'
BY FewerStands DEF Standing, Chosen, Voting

LEMMA NextAnswers == PollsInv /\ PollsInv' /\ AnswersPerVoter /\ [Next]_vars => AnswersPerVoter'
<1> SUFFICES ASSUME PollsInv, PollsInv', AnswersPerVoter, [Next]_vars
             PROVE  AnswersPerVoter'
  OBVIOUS
<1>1. ASSUME NEW h \in Hubs, NEW several \in BOOLEAN, Save(h, several)
      PROVE  AnswersPerVoter'
  <2>1. h \in Reqs /\ work'[h].pc = "saved" /\ \A q \in Reqs \ {h} : work'[q] = work[q]
    BY <1>1 DEF Save, PollsInv, TypeOK, Reqs, Work
  <2> QED
    BY <1>1, <2>1, IdleStands DEF Save
<1>2. ASSUME NEW h \in Hubs, CreatePoll(h)
      PROVE  AnswersPerVoter'
  <2>1. h \in Reqs /\ work[h].pc = "saved" /\ work'[h].pc = "publish" /\ \A q \in Reqs \ {h} : work'[q] = work[q]
    BY <1>2 DEF CreatePoll, PollsInv, TypeOK, Reqs, Work
  <2>2. \A p, u : Standing(p, u)' = Standing(p, u)
    <3>1. \A p, u : Chosen(p, u)' = Chosen(p, u)
      BY <1>2 DEF CreatePoll, Chosen
    <3>2. \A p, u : Voting(p, u)' = Voting(p, u) /\ \A r \in Voting(p, u) : work'[r].option = work[r].option
      BY <2>1 DEF Voting
    <3> QED
      BY <3>1, <3>2 DEF Standing
  <2>3. Len(polls') = Len(polls) + 1 /\ \A p \in Ids : polls'[p] = polls[p]
    BY <1>2 DEF CreatePoll, PollsInv, TypeOK, Ids, Work
  <2>4. \A u \in Users : Standing(Len(polls) + 1, u) = {}
    BY DEF Standing, Chosen, Voting, PollsInv, InHand, VotesInPolls, Ids, TypeOK
  <2> SUFFICES ASSUME ~failed', NEW p \in Ids', NEW u \in Users, ~polls'[p]
               PROVE  Cardinality(Standing(p, u)') <= Cardinality(Reqs)
    BY DEF AnswersPerVoter
  <2>5. CASE p \in Ids
    BY <1>2, <2>2, <2>3, <2>5 DEF AnswersPerVoter, CreatePoll
  <2>6. CASE p = Len(polls) + 1
    <3>1. Standing(p, u)' = {}
      BY <2>2, <2>4, <2>6
    <3>2. Cardinality({}) = 0 /\ Cardinality(Reqs) \in Nat
      BY FS_EmptySet, FS_CardinalityType, PollsAssumption
    <3> QED
      BY <3>1, <3>2
  <2> QED
    BY <2>3, <2>5, <2>6 DEF Ids, PollsInv, TypeOK
<1>3. ASSUME NEW r \in Reqs, Done(r), UNCHANGED <<polls, votes>>, failed => failed'
      PROVE  AnswersPerVoter'
  BY <1>3, DoneTyped, IdleStands DEF PollsInv
<1>4. ASSUME NEW r \in Reqs, NEW p \in Ids, NEW u \in Users, NEW o \in Options, Clear(r, p, u, o)
      PROVE  AnswersPerVoter'
  <2> SUFFICES ASSUME ~failed', NEW q \in Ids, NEW v \in Users, ~polls[q]
               PROVE  Cardinality(Standing(q, v)') <= Cardinality(Reqs)
    BY <1>4 DEF AnswersPerVoter, Ids, Clear
  <2>1. ~failed /\ votes' = Cleared(p, u)
    BY <1>4 DEF Clear, PollsInv, TypeOK
  <2>2. CASE q = p /\ v = u
    <3>1. Chosen(q, v)' = {}
      BY <2>1, <2>2 DEF Cleared, Chosen
    <3>2. Standing(q, v)' = {work'[s].option : s \in Voting(q, v)'}
      BY <3>1 DEF Standing
    <3>3. Voting(q, v)' \subseteq Reqs
      BY DEF Voting
    <3> QED
      BY <3>2, <3>3, OptionsFew
  <2>3. CASE ~(q = p /\ v = u)
    <3>1. /\ work[r].pc = "idle"
          /\ work'[r].poll = p /\ work'[r].user = u
          /\ \A s \in Reqs \ {r} : work'[s] = work[s]
      BY <1>4 DEF Clear, Idle, PollsInv, TypeOK
    <3>2. Voting(q, v)' = Voting(q, v) /\ \A s \in Voting(q, v) : work'[s].option = work[s].option
      BY <2>3, <3>1 DEF Voting
    <3>3. Chosen(q, v)' = Chosen(q, v)
      BY <2>1, <2>3 DEF Chosen, Cleared
    <3> QED
      BY <1>4, <2>1, <3>2, <3>3 DEF Standing, AnswersPerVoter
  <2> QED
    BY <2>2, <2>3
<1>5. ASSUME NEW r \in Reqs, Count(r)
      PROVE  AnswersPerVoter'
  <2>1. PICK pc \in {"delete", "insert"} : Goto(r, pc)
    BY <1>5 DEF Count, Unheard
  <2>2. work[r].pc = "cleared" /\ UNCHANGED <<polls, votes>> /\ (failed => failed')
    BY <1>5 DEF Count, Unheard
  <2>3. \A p, u : Voting(p, u)' = Voting(p, u)
    BY <2>1, <2>2, GotoTyped DEF PollsInv, Voting
  <2>4. \A p, u : Standing(p, u)' = Standing(p, u)
    BY <2>1, <2>2, <2>3, GotoTyped DEF PollsInv, Standing, Chosen, Voting
  <2> QED
    BY <2>2, <2>4, FewerStands
<1>6. ASSUME NEW r \in Reqs, Write(r)
      PROVE  AnswersPerVoter'
  <2>1. Goto(r, "written") /\ work[r].pc \in {"insert", "delete"} /\ polls' = polls /\ (failed => failed')
        /\ votes' \subseteq votes \cup {Row(r)}
    BY <1>6 DEF Write, Unheard
  <2>2. r \in Voting(work[r].poll, work[r].user)
    BY <2>1 DEF Voting
  <2>3. \A p, u : Voting(p, u)' = Voting(p, u) \ {r} /\ \A s \in Reqs : work'[s].option = work[s].option
    BY <2>1, GotoTyped DEF PollsInv, Voting
  <2>4. \A p, u : Chosen(p, u)' \subseteq Standing(p, u)
    BY <2>1, <2>2 DEF Chosen, Standing, Row
  <2>5. \A p, u : Standing(p, u)' \subseteq Standing(p, u)
    BY <2>3, <2>4 DEF Standing, Voting
  <2> QED
    BY <2>1, <2>5, FewerStands
<1>7. ASSUME NEW h \in Hubs, Tally(h)
      PROVE  AnswersPerVoter'
  <2>1. h \in Reqs /\ work[h].pc = "written" /\ UNCHANGED <<polls, votes>> /\ (failed => failed')
    BY <1>7 DEF Tally, Reqs
  <2>2. work'[h].pc \in {"idle", "publish"} /\ \A q \in Reqs \ {h} : work'[q] = work[q]
    BY <1>7, <2>1 DEF Tally, Done, Idle, PollsInv, TypeOK, Work
  <2> QED
    BY <2>1, <2>2, IdleStands
<1>8. CASE Follow \/ UNCHANGED vars
  BY <1>8, FewerStands DEF Follow, vars, Standing, Chosen, Voting
<1>9. ASSUME NEW h \in Hubs, CreateFails(h) \/ Publish(h)
      PROVE  AnswersPerVoter'
  BY <1>3, <1>9 DEF CreateFails, Publish, Reqs
<1>10. ASSUME NEW a \in Apis, Answer(a)
       PROVE  AnswersPerVoter'
  BY <1>3, <1>10 DEF Answer, Reqs
<1> QED
  BY <1>1, <1>2, <1>4, <1>5, <1>6, <1>7, <1>8, <1>9, <1>10 DEF Next, HubStep, VoteStep, Quiet

LEMMA InitAnswers == Init => AnswersPerVoter
BY DEF Init, AnswersPerVoter, Ids

\* VotePoll is no transaction, and yet overlapping votes of one user leave no more answers
\* in a poll with one answer than there are goroutines that can overlap.
THEOREM AnswersAreFew == Spec => []AnswersPerVoter
<1>1. Spec => [](PollsInv /\ AnswersPerVoter)
  BY InitPolls, NextPolls, InitAnswers, NextAnswers, PTL DEF Spec
<1> QED
  BY <1>1, PTL

-----------------------------------------------------------------------------
(* A vote is one step.                                                     *)

Calm == ~failed /\ ~crossed

\* A vote that nothing has disturbed: it is the only one of its user in its poll; in a
\* poll with one answer the old one is gone, and in a poll with several nothing has
\* changed since it began.
Undisturbed(r, p, u) ==
  /\ Voting(p, u) = {r}
  /\ ~polls[p] => Chosen(p, u) = {} /\ work[r].pc # "delete"
  /\ polls[p] => /\ work[r].before = Chosen(p, u)
                 /\ work[r].pc = "insert" => work[r].option \notin Chosen(p, u)
                 /\ work[r].pc = "delete" => work[r].option \in Chosen(p, u)

OneVote == Calm => \A p \in Ids, u \in Users : \A r \in Voting(p, u) : Undisturbed(r, p, u)

BallotInv == PollsInv /\ OneVote

\* What a step does to the answers of u in p, if it leaves them and their votes alone.
Untouched(p, u) ==
  /\ Chosen(p, u)' = Chosen(p, u)
  /\ Voting(p, u)' = Voting(p, u)
  /\ \A r \in Voting(p, u) : work'[r] = work[r]

LEMMA UntouchedKeeps ==
  ASSUME NEW p, NEW u, Untouched(p, u), polls'[p] = polls[p]
  PROVE  /\ GivenBy(p, u)' = GivenBy(p, u)
         /\ \A r \in Voting(p, u)' : Undisturbed(r, p, u) => Undisturbed(r, p, u)'
BY DEF Untouched, GivenBy, Undisturbed

\* A step of a goroutine that is not voting, before or after it, touches no answers.
LEMMA IdleTouchesNothing ==
  ASSUME votes' = votes, NEW r \in Reqs,
         \A q \in Reqs \ {r} : work'[q] = work[q],
         work[r].pc \notin {"cleared", "insert", "delete"},
         work'[r].pc \notin {"cleared", "insert", "delete"}
  PROVE  \A p, u : Untouched(p, u)
BY DEF Untouched, Chosen, Voting

\* A step that touches no answers is none of a ballot.
LEMMA Stutters ==
  ASSUME BallotInv, Calm' => Calm, UNCHANGED <<polls, cast>>, \A p, u : Untouched(p, u),
         failed' \in BOOLEAN, crossed' \in BOOLEAN
  PROVE  OneVote' /\ [B!Next]_B!vars
<1>1. Ids' = Ids /\ \A p \in Ids : polls'[p] = polls[p]
  BY DEF Ids
<1>2. \A p \in Ids, u \in Users : GivenBy(p, u)' = GivenBy(p, u)
  BY <1>1, UntouchedKeeps
<1>3. \A p \in Ids, u \in Users : Voting(p, u)' = Voting(p, u)
  BY DEF Untouched
<1>4. OneVote'
  BY <1>1, <1>3, UntouchedKeeps DEF BallotInv, OneVote
<1>5. Given' = Given
  BY <1>1, <1>2 DEF Given
<1>6. CASE Calm'
  BY <1>4, <1>5, <1>6 DEF B!vars, Calm
<1>7. CASE ~Calm'
  BY <1>4, <1>7 DEF B!Next, B!Break, Calm
<1> QED
  BY <1>6, <1>7

LEMMA IdleStutters ==
  ASSUME BallotInv, UNCHANGED <<polls, votes, cast, crossed>>, failed => failed', NEW r \in Reqs,
         failed' \in BOOLEAN,
         \A q \in Reqs \ {r} : work'[q] = work[q],
         work[r].pc \notin {"cleared", "insert", "delete"},
         work'[r].pc \notin {"cleared", "insert", "delete"}
  PROVE  OneVote' /\ [B!Next]_B!vars
BY IdleTouchesNothing, Stutters DEF Calm, BallotInv, PollsInv, TypeOK

LEMMA SaveStep ==
  ASSUME BallotInv, NEW h \in Hubs, NEW several \in BOOLEAN, Save(h, several)
  PROVE  OneVote' /\ [B!Next]_B!vars
<1>1. h \in Reqs /\ work[h].pc = "idle" /\ work'[h].pc = "saved" /\ \A q \in Reqs \ {h} : work'[q] = work[q]
  BY DEF Save, BallotInv, PollsInv, TypeOK, Reqs, Work, Idle
<1> QED
  BY <1>1, IdleStutters DEF Save, BallotInv, PollsInv, TypeOK

LEMMA DoneStep ==
  ASSUME BallotInv, NEW r \in Reqs, Done(r), work[r].pc \notin {"cleared", "insert", "delete"},
         UNCHANGED <<polls, votes, cast, crossed>>, failed => failed', failed' \in BOOLEAN
  PROVE  OneVote' /\ [B!Next]_B!vars
BY DoneTyped, IdleStutters DEF BallotInv, PollsInv

LEMMA TallyStep ==
  ASSUME BallotInv, NEW h \in Hubs, Tally(h)
  PROVE  OneVote' /\ [B!Next]_B!vars
<1>1. h \in Reqs /\ work[h].pc = "written" /\ UNCHANGED <<polls, votes, cast, crossed>>
      /\ (failed => failed') /\ failed' \in BOOLEAN
  BY DEF Tally, Reqs, BallotInv, PollsInv, TypeOK
<1>2. work'[h].pc \in {"idle", "publish"} /\ \A q \in Reqs \ {h} : work'[q] = work[q]
  BY <1>1 DEF Tally, Done, Idle, BallotInv, PollsInv, TypeOK, Work
<1> QED
  BY <1>1, <1>2, IdleStutters

LEMMA CreatePollStep ==
  ASSUME BallotInv, NEW h \in Hubs, CreatePoll(h)
  PROVE  OneVote' /\ [B!Next]_B!vars
<1>1. h \in Reqs /\ work[h].pc = "saved" /\ work'[h].pc = "publish" /\ \A q \in Reqs \ {h} : work'[q] = work[q]
  BY DEF CreatePoll, BallotInv, PollsInv, TypeOK, Reqs, Work
<1>2. votes' = votes /\ cast' = cast /\ Calm' = Calm
  BY DEF CreatePoll, Calm
<1>3. \A p, u : Untouched(p, u)
  BY <1>1, <1>2, IdleTouchesNothing
<1>4. \E several \in BOOLEAN : polls' = Append(polls, several)
  BY <1>1 DEF CreatePoll, BallotInv, PollsInv, TypeOK, Work
<1>5. Len(polls') = Len(polls) + 1 /\ \A p \in Ids : polls'[p] = polls[p]
  BY <1>4 DEF BallotInv, PollsInv, TypeOK, Ids
<1>6. Ids' = Ids \cup {Len(polls) + 1}
  BY <1>5 DEF Ids, BallotInv, PollsInv, TypeOK
<1>7. \A u \in Users : Voting(Len(polls) + 1, u) = {} /\ Chosen(Len(polls) + 1, u) = {}
  BY DEF Voting, Chosen, BallotInv, PollsInv, InHand, VotesInPolls, Ids, TypeOK
<1>8. ASSUME NEW u \in Users, NEW p, p = Len(polls) + 1
      PROVE  Voting(p, u)' = {} /\ GivenBy(p, u)' = {}
  <2>1. Voting(p, u)' = {} /\ Chosen(p, u)' = {}
    BY <1>3, <1>7, <1>8 DEF Untouched
  <2> QED
    BY <2>1 DEF GivenBy
<1>9. \A p \in Ids, u \in Users : GivenBy(p, u)' = GivenBy(p, u) /\ Voting(p, u)' = Voting(p, u)
  BY <1>3, <1>5, UntouchedKeeps DEF Untouched
<1>10. OneVote'
  <2> SUFFICES ASSUME Calm', NEW p \in Ids', NEW u \in Users, NEW r \in Voting(p, u)'
               PROVE  Undisturbed(r, p, u)'
    BY DEF OneVote
  <2>1. p \in Ids
    BY <1>6, <1>8 DEF Ids
  <2>2. Undisturbed(r, p, u)
    BY <1>2, <1>9, <2>1 DEF BallotInv, OneVote
  <2> QED
    BY <1>3, <1>5, <2>1, <2>2, UntouchedKeeps
<1>11. Given' = Given
  <2>1. \A v \in Ids' \X Users \X Options : v[3] \in GivenBy(v[1], v[2])' <=> v \in Given
    <3> SUFFICES ASSUME NEW p \in Ids', NEW u \in Users, NEW o \in Options
                 PROVE  o \in GivenBy(p, u)' <=> p \in Ids /\ o \in GivenBy(p, u)
      BY DEF Given
    <3>1. CASE p \in Ids
      BY <1>9, <3>1
    <3>2. CASE p \notin Ids
      BY <1>6, <1>8, <3>2
    <3> QED
      BY <3>1, <3>2
  <2>2. Given \subseteq Ids' \X Users \X Options
    BY <1>6 DEF Given
  <2> QED
    BY <2>1, <2>2 DEF Given
<1>12. [B!Next]_B!vars
  BY <1>2, <1>4, <1>11 DEF B!Next, B!Create, Calm
<1> QED
  BY <1>10, <1>12

\* Once something has happened that the promise excludes, nothing is promised.
LEMMA BrokenStep ==
  ASSUME ~Calm'
  PROVE  OneVote' /\ [B!Next]_B!vars
BY DEF OneVote, B!Next, B!Break, Calm

\* Where only u's answers in p are touched, the others' are given as before.
LEMMA OthersGiven ==
  ASSUME NEW p \in Ids, NEW u \in Users, polls' = polls,
         \A q \in Ids, v \in Users : q # p \/ v # u => Untouched(q, v)
  PROVE  /\ Given' = {w \in Given : w[1] # p \/ w[2] # u}
                     \cup {w \in {p} \X {u} \X Options : w[3] \in GivenBy(p, u)'}
         /\ {w \in Given : w[1] = p /\ w[2] = u} = {w \in {p} \X {u} \X Options : w[3] \in GivenBy(p, u)}
<1>1. Ids' = Ids
  BY DEF Ids
<1>2. \A q \in Ids, v \in Users : q # p \/ v # u => GivenBy(q, v)' = GivenBy(q, v)
  BY UntouchedKeeps
<1> DEFINE new == {w \in Given : w[1] # p \/ w[2] # u}
                  \cup {w \in {p} \X {u} \X Options : w[3] \in GivenBy(p, u)'}
<1>3. ASSUME NEW q \in Ids, NEW v \in Users, NEW o \in Options
      PROVE  <<q, v, o>> \in Given' <=> <<q, v, o>> \in new
  BY <1>1, <1>2 DEF Given
<1>4. Given' \subseteq Ids \X Users \X Options /\ new \subseteq Ids \X Users \X Options
  BY <1>1 DEF Given
<1> HIDE DEF new
<1>5. \A w \in Ids \X Users \X Options : w \in Given' <=> w \in new
  BY <1>3
<1>6. Given' = new
  BY <1>4, <1>5
<1>7. {w \in Given : w[1] = p /\ w[2] = u} = {w \in {p} \X {u} \X Options : w[3] \in GivenBy(p, u)}
  BY DEF Given
<1> QED
  BY <1>6, <1>7 DEF new

LEMMA ClearStep ==
  ASSUME BallotInv, NEW r \in Reqs, NEW p \in Ids, NEW u \in Users, NEW o \in Options, Clear(r, p, u, o)
  PROVE  OneVote' /\ [B!Next]_B!vars
<1> SUFFICES ASSUME Calm'
             PROVE  OneVote' /\ [B!Next]_B!vars
  BY BrokenStep
<1>1. Calm /\ Voting(p, u) = {} /\ votes' = Cleared(p, u) /\ UNCHANGED <<polls, cast>>
  <2>1. ~failed' /\ ~crossed'
    BY DEF Calm
  <2>2. ~crossed /\ Voting(p, u) = {}
    BY <2>1, Zenon DEF Clear
  <2>3. votes' = Cleared(p, u) /\ failed' = failed /\ UNCHANGED <<polls, cast>>
    BY <2>1 DEF Clear
  <2> QED
    BY <2>1, <2>2, <2>3 DEF Calm
<1>2. /\ work[r].pc = "idle"
      /\ work'[r].pc = "cleared" /\ work'[r].poll = p /\ work'[r].user = u /\ work'[r].before = Chosen(p, u)
      /\ \A q \in Reqs \ {r} : work'[q] = work[q]
  <2> DEFINE w == [Idle EXCEPT !.pc = "cleared", !.kind = "poll_vote", !.poll = p,
                               !.user = u, !.option = o, !.before = Chosen(p, u)]
  <2>1. w.pc = "cleared" /\ w.poll = p /\ w.user = u /\ w.before = Chosen(p, u)
    BY DEF Idle
  <2>2. work[r].pc = "idle" /\ work' = [work EXCEPT ![r] = w]
    BY DEF Clear, Idle
  <2> HIDE DEF w
  <2> QED
    BY <2>1, <2>2 DEF BallotInv, PollsInv, TypeOK
<1>3. ASSUME NEW q \in Ids, NEW v \in Users, q # p \/ v # u
      PROVE  Untouched(q, v)
  <2>1. Chosen(q, v)' = Chosen(q, v)
    BY <1>1, <1>3 DEF Chosen, Cleared
  <2> QED
    BY <1>2, <1>3, <2>1 DEF Untouched, Voting
<1>4. Voting(p, u)' = {r}
  BY <1>1, <1>2 DEF Voting
<1>5. Undisturbed(r, p, u)'
  <2>1. ~polls'[p] => Chosen(p, u)' = {}
    BY <1>1 DEF Cleared, Chosen
  <2>2. polls'[p] => Chosen(p, u)' = Chosen(p, u)
    BY <1>1 DEF Cleared, Chosen
  <2> QED
    BY <1>2, <1>4, <2>1, <2>2 DEF Undisturbed
<1>6. OneVote'
  <2> SUFFICES ASSUME NEW q \in Ids, NEW v \in Users, NEW s \in Voting(q, v)'
               PROVE  Undisturbed(s, q, v)'
    BY <1>1 DEF OneVote, Ids
  <2>1. CASE q = p /\ v = u
    BY <1>4, <1>5, <2>1
  <2>2. CASE q # p \/ v # u
    <3>1. Untouched(q, v)
      BY <1>3, <2>2
    <3>2. Undisturbed(s, q, v)
      BY <1>1, <3>1 DEF Untouched, BallotInv, OneVote
    <3> QED
      BY <1>1, <3>1, <3>2, UntouchedKeeps
  <2> QED
    BY <2>1, <2>2
<1>7. GivenBy(p, u)' = GivenBy(p, u)
  <2>1. GivenBy(p, u)' = UNION {work'[s].before : s \in {r}}
    BY <1>4 DEF GivenBy
  <2> QED
    BY <1>1, <1>2, <2>1 DEF GivenBy
<1>8. Given' = Given
  BY <1>1, <1>3, <1>7, OthersGiven DEF Given
<1> QED
  BY <1>1, <1>6, <1>8 DEF B!vars, Calm

LEMMA CountStep ==
  ASSUME BallotInv, NEW r \in Reqs, Count(r)
  PROVE  OneVote' /\ [B!Next]_B!vars
<1> SUFFICES ASSUME Calm'
             PROVE  OneVote' /\ [B!Next]_B!vars
  BY BrokenStep
<1> DEFINE pc == IF TakesBack(r) THEN "delete" ELSE "insert"
<1>1. Calm /\ work[r].pc = "cleared" /\ UNCHANGED <<polls, votes, cast>> /\ Goto(r, pc)
  BY DEF Count, Unheard, Calm, BallotInv, PollsInv, TypeOK
<1>2. /\ \A q \in Reqs \ {r} : work'[q] = work[q]
      /\ work'[r].pc = pc
      /\ work'[r].poll = work[r].poll /\ work'[r].user = work[r].user
      /\ work'[r].option = work[r].option /\ work'[r].before = work[r].before
  BY <1>1, GotoTyped DEF BallotInv, PollsInv
<1>3. \A p, u : Voting(p, u)' = Voting(p, u) /\ Chosen(p, u)' = Chosen(p, u)
  BY <1>1, <1>2 DEF Voting, Chosen
<1>4. \A s \in Reqs : work'[s].before = work[s].before
  BY <1>2
<1>5. ASSUME NEW p \in Ids, NEW u \in Users
      PROVE  GivenBy(p, u)' = GivenBy(p, u)
  <2>1. {work'[s].before : s \in Voting(p, u)} = {work[s].before : s \in Voting(p, u)}
    BY <1>4 DEF Voting
  <2> QED
    BY <1>3, <2>1 DEF GivenBy
<1>6. Given' = Given
  BY <1>1, <1>5 DEF Given, Ids
<1>7. OneVote'
  <2> SUFFICES ASSUME NEW p \in Ids, NEW u \in Users, NEW s \in Voting(p, u)
               PROVE  Undisturbed(s, p, u)'
    BY <1>1, <1>3 DEF OneVote, Ids
  <2>1. Undisturbed(s, p, u) /\ s \in Reqs
    BY <1>1 DEF BallotInv, OneVote, Voting
  <2>2. CASE s = r
    <3>1. work[r].poll = p /\ work[r].user = u
      BY <2>2 DEF Voting
    <3>2. TakesBack(r) <=> work[r].option \in Chosen(p, u)
      BY <3>1 DEF TakesBack
    <3> QED
      BY <1>1, <1>2, <1>3, <2>1, <2>2, <3>2 DEF Undisturbed
  <2>3. CASE s # r
    BY <1>1, <1>2, <1>3, <2>1, <2>3 DEF Undisturbed
  <2> QED
    BY <2>2, <2>3
<1> QED
  BY <1>1, <1>6, <1>7 DEF B!vars, Calm

LEMMA WriteStep ==
  ASSUME BallotInv, NEW r \in Reqs, Write(r)
  PROVE  OneVote' /\ [B!Next]_B!vars
<1> SUFFICES ASSUME Calm'
             PROVE  OneVote' /\ [B!Next]_B!vars
  BY BrokenStep
<1>0. work[r].poll \in Ids /\ work[r].user \in Users /\ work[r].option \in Options
  BY DEF Write, BallotInv, PollsInv, InHand, TypeOK, Work
<1> PICK p \in Ids, u \in Users, o \in Options :
      work[r].poll = p /\ work[r].user = u /\ work[r].option = o
  BY <1>0
<1>1. /\ Calm /\ polls' = polls /\ cast' = cast + 1
      /\ work[r].pc \in {"insert", "delete"} /\ Goto(r, "written")
      /\ votes' = IF work[r].pc = "insert" THEN votes \cup {<<p, u, o>>} ELSE votes \ {<<p, u, o>>}
  BY DEF Write, Row, Unheard, Calm, BallotInv, PollsInv, TypeOK
<1>2. r \in Voting(p, u)
  BY <1>1 DEF Voting
<1>3. Undisturbed(r, p, u)
  BY <1>1, <1>2 DEF BallotInv, OneVote
<1>4. work'[r].pc = "written" /\ \A q \in Reqs \ {r} : work'[q] = work[q]
  BY <1>1, GotoTyped DEF BallotInv, PollsInv
<1>5. work[r].before = GivenBy(p, u)
  BY <1>3 DEF Undisturbed, GivenBy
<1>6. ASSUME NEW q \in Ids, NEW v \in Users, q # p \/ v # u
      PROVE  Untouched(q, v)
  <2>1. Chosen(q, v)' = Chosen(q, v)
    BY <1>1, <1>6 DEF Chosen
  <2>2. r \notin Voting(q, v)
    BY <1>6 DEF Voting
  <2> QED
    BY <1>4, <2>1, <2>2 DEF Untouched, Voting
<1>7. Voting(p, u)' = {}
  BY <1>3, <1>4 DEF Voting, Undisturbed
<1>8. OneVote'
  <2> SUFFICES ASSUME NEW q \in Ids, NEW v \in Users, NEW s \in Voting(q, v)'
               PROVE  Undisturbed(s, q, v)'
    BY <1>1 DEF OneVote, Ids
  <2>1. Untouched(q, v)
    BY <1>6, <1>7
  <2>2. Undisturbed(s, q, v)
    BY <1>1, <2>1 DEF Untouched, BallotInv, OneVote
  <2> QED
    BY <1>1, <2>1, <2>2, UntouchedKeeps
<1>9. GivenBy(p, u)' = Chosen(p, u)'
  BY <1>7 DEF GivenBy
<1>10. Chosen(p, u)' = IF work[r].pc = "insert" THEN Chosen(p, u) \cup {o} ELSE Chosen(p, u) \ {o}
  BY <1>1 DEF Chosen
<1>11. GivenBy(p, u)' = IF ~polls[p] THEN {o}
                        ELSE IF o \in GivenBy(p, u) THEN GivenBy(p, u) \ {o} ELSE GivenBy(p, u) \cup {o}
  BY <1>1, <1>3, <1>5, <1>9, <1>10 DEF Undisturbed
<1>12. /\ Given' = {w \in Given : w[1] # p \/ w[2] # u}
                   \cup {w \in {p} \X {u} \X Options : w[3] \in GivenBy(p, u)'}
       /\ {w \in Given : w[1] = p /\ w[2] = u} = {w \in {p} \X {u} \X Options : w[3] \in GivenBy(p, u)}
  BY <1>1, <1>6, OthersGiven
<1>13. Given \subseteq Ids \X Users \X Options
  BY DEF Given
<1>14. Given' = IF ~polls[p] THEN (Given \ B!Of(p, u)) \cup {<<p, u, o>>}
                ELSE IF <<p, u, o>> \in Given THEN Given \ {<<p, u, o>>}
                ELSE Given \cup {<<p, u, o>>}
  BY <1>11, <1>12, <1>13 DEF B!Of
<1>15. B!Vote(p, u, o)
  BY <1>1, <1>14 DEF B!Vote, Calm
<1> QED
  BY <1>8, <1>15 DEF B!Next, Ids

LEMMA NextBallot == BallotInv /\ [Next]_vars => OneVote' /\ [B!Next]_B!vars
<1> SUFFICES ASSUME BallotInv, [Next]_vars
             PROVE  OneVote' /\ [B!Next]_B!vars
  OBVIOUS
<1>1. CASE Follow \/ UNCHANGED vars
  BY <1>1, Stutters DEF Follow, vars, Untouched, Chosen, Voting, Calm, BallotInv, PollsInv, TypeOK
<1>2. ASSUME NEW h \in Hubs, CreateFails(h) \/ Publish(h)
      PROVE  OneVote' /\ [B!Next]_B!vars
  BY <1>2, DoneStep DEF CreateFails, Publish, Reqs, BallotInv, PollsInv, TypeOK
<1>3. ASSUME NEW a \in Apis, Answer(a)
      PROVE  OneVote' /\ [B!Next]_B!vars
  BY <1>3, DoneStep DEF Answer, Reqs, BallotInv, PollsInv, TypeOK
<1> QED
  BY <1>1, <1>2, <1>3, SaveStep, CreatePollStep, TallyStep, ClearStep, CountStep, WriteStep
     DEF Next, HubStep, VoteStep, Quiet

LEMMA InitBallot == Init => OneVote /\ B!Init
BY DEF Init, OneVote, Ids, B!Init, Given

\* Polls implements Ballot: whatever the votes of different users, in one process or in
\* many, each is as if it were one step, until a statement fails or two votes of one
\* user in one poll overlap.
THEOREM PollsAreBallots == Spec => RefinesBallot
<1>1. BallotInv /\ [Next]_vars => BallotInv'
  BY NextPolls, NextBallot DEF BallotInv
<1>2. Init => BallotInv
  BY InitPolls, InitBallot DEF BallotInv
<1> QED
  BY <1>1, <1>2, InitBallot, NextBallot, PTL DEF Spec, RefinesBallot, B!Spec

LEMMA NextOneAnswer ==
  ASSUME BallotInv, OneAnswer, [B!Next]_B!vars
  PROVE  OneAnswer'
<1> USE DEF OneAnswer, B!OneAnswer, B!Of
<1>1. CASE UNCHANGED B!vars
  BY <1>1 DEF B!vars
<1>2. CASE B!Create
  <2>1. \A v \in Given : v[1] \in 1 .. Len(polls)
    BY DEF Given, Ids
  <2>2. \A p \in 1 .. Len(polls) : polls'[p] = polls[p]
    BY <1>2 DEF B!Create, BallotInv, PollsInv, TypeOK
  <2> QED
    BY <1>2, <2>1, <2>2 DEF B!Create
<1>3. ASSUME NEW p \in 1 .. Len(polls), NEW u \in Users, NEW o \in Options, B!Vote(p, u, o)
      PROVE  OneAnswer'
  <2>1. \A q \in 1 .. Len(polls), v \in Users, a \in Given' :
          ~polls[q] /\ a[1] = q /\ a[2] = v => a \in Given \/ (q = p /\ v = u /\ a = <<p, u, o>>)
    BY <1>3 DEF B!Vote
  <2>2. ~polls[p] => \A a \in Given' : a[1] = p /\ a[2] = u => a = <<p, u, o>>
    BY <1>3 DEF B!Vote
  <2> QED
    BY <1>3, <2>1, <2>2 DEF B!Vote
<1>4. CASE B!Break
  BY <1>4 DEF B!Break
<1> QED
  BY <1>1, <1>2, <1>3, <1>4 DEF B!Next

\* Until a statement fails or two votes of one user overlap, a poll with one answer never
\* has two of one user.
THEOREM AnswersStayOne == Spec => []OneAnswer
<1>1. Init => OneAnswer
  BY DEF Init, OneAnswer, B!OneAnswer
<1>2. Init => BallotInv
  BY InitPolls, InitBallot DEF BallotInv
<1>3. BallotInv /\ OneAnswer /\ [Next]_vars => (BallotInv /\ OneAnswer)'
  BY NextPolls, NextBallot, NextOneAnswer DEF BallotInv
<1> QED
  BY <1>1, <1>2, <1>3, PTL DEF Spec
-----------------------------------------------------------------------------
(* What the page shows.                                                    *)

\* Who is at work on a poll has been entered for it, and events are about polls that exist.
Placed ==
  /\ Len(via) = Len(polls) /\ Len(polls) <= MaxPolls /\ \A p \in Ids : via[p] # {}
  /\ \A r \in Reqs :
       /\ work[r].pc \in {"idle", "saved"} <=> work[r].poll = 0
       /\ work[r].poll # 0 => work[r].poll \in Ids /\ r \in via[work[r].poll]
       /\ work[r].poll # 0 /\ work[r].kind = "poll" => work[r].pc = "publish"
  /\ \A i \in 1 .. Len(bus) : bus[i].poll \in Ids

Tallies(p) == [o \in Options |-> Cardinality({v \in Users : <<p, v, o>> \in votes})]

NoWord(p) == \A i \in 1 .. Len(bus) : bus[i].poll # p

FirstWord(p, i) == bus[i].poll = p /\ \A j \in 1 .. Len(bus) : j < i => bus[j].poll # p

LastWord(p, i) == bus[i].poll = p /\ \A j \in 1 .. Len(bus) : j > i => bus[j].poll # p

\* The page has the card or will be given it first.
Started(p) ==
  /\ NoWord(p) => page[p] # NoCard
  /\ \A i \in 1 .. Len(bus) : FirstWord(p, i) => page[p] # NoCard \/ bus[i].kind = "poll"

\* The last word about p is what the table says.
LastIsRight(p) ==
  /\ NoWord(p) => page[p].tally = Tallies(p)
  /\ \A i \in 1 .. Len(bus) : LastWord(p, i) => bus[i].card.tally = Tallies(p)

\* h alone has handled what there was about p.
Told(p, h) ==
  /\ work[h].poll # p => Started(p) /\ LastIsRight(p)
  /\ work[h].poll = p /\ work[h].kind = "poll_vote" => Started(p)
  /\ work[h].poll = p /\ work[h].kind = "poll" => NoWord(p)
  /\ work[h].poll = p /\ work[h].pc = "publish" => work[h].card.tally = Tallies(p)

AllTold == ~failed => \A p \in Ids, h \in Hubs : via[p] = {h} => Told(p, h)

LEMMA ToldElsewhere ==
  ASSUME NEW p, NEW h, Told(p, h), UNCHANGED <<bus, page>>, Tallies(p)' = Tallies(p),
         work'[h] = work[h] \/ (work[h].poll # p /\ work'[h].poll # p)
  PROVE  Told(p, h)'
BY DEF Told, Started, LastIsRight, NoWord, FirstWord, LastWord

LEMMA Published ==
  ASSUME TypeOK, NEW p, NEW e \in Event, bus' = Append(bus, e), UNCHANGED <<page, votes>>
  PROVE  /\ e.poll # p => /\ Started(p) => Started(p)'
                          /\ LastIsRight(p) => LastIsRight(p)'
                          /\ NoWord(p) => NoWord(p)'
         /\ e.poll = p /\ (Started(p) \/ (NoWord(p) /\ e.kind = "poll")) => Started(p)'
         /\ e.poll = p /\ e.card.tally = Tallies(p) => LastIsRight(p)'
<1>1. /\ bus \in Seq(Event) /\ Len(bus) \in Nat
      /\ Len(bus') = Len(bus) + 1 /\ bus'[Len(bus) + 1] = e
      /\ \A i \in 1 .. Len(bus) : bus'[i] = bus[i] /\ i \in 1 .. Len(bus')
      /\ Len(bus) + 1 \in 1 .. Len(bus')
      /\ \A i \in 1 .. Len(bus') : i \in 1 .. Len(bus) \/ i = Len(bus) + 1
      /\ \A i \in 1 .. Len(bus) : i < Len(bus) + 1 /\ ~(Len(bus) + 1 < i)
  BY DEF TypeOK
<1>2. Tallies(p)' = Tallies(p)
  BY DEF Tallies
<1>3. CASE e.poll # p
  <2>1. NoWord(p)' <=> NoWord(p)
    BY <1>1, <1>3 DEF NoWord
  <2>2. \A i \in 1 .. Len(bus') : FirstWord(p, i)' \/ LastWord(p, i)' => i \in 1 .. Len(bus) /\ bus'[i] = bus[i]
    BY <1>1, <1>3 DEF FirstWord, LastWord
  <2>3. \A i \in 1 .. Len(bus) : (FirstWord(p, i)' => FirstWord(p, i)) /\ (LastWord(p, i)' => LastWord(p, i))
    BY <1>1 DEF FirstWord, LastWord
  <2>4. Started(p) => Started(p)'
    BY <2>1, <2>2, <2>3 DEF Started
  <2>5. LastIsRight(p) => LastIsRight(p)'
    BY <1>2, <2>1, <2>2, <2>3 DEF LastIsRight
  <2> QED
    BY <1>3, <2>1, <2>4, <2>5
<1>4. CASE e.poll = p
  <2>1. ~NoWord(p)'
    BY <1>1, <1>4 DEF NoWord
  <2>2. \A i \in 1 .. Len(bus') : LastWord(p, i)' => i = Len(bus) + 1
    BY <1>1, <1>4 DEF LastWord
  <2>3. e.card.tally = Tallies(p) => LastIsRight(p)'
    BY <1>1, <1>2, <2>1, <2>2 DEF LastIsRight
  <2>4. \A i \in 1 .. Len(bus') : i = Len(bus) + 1 /\ FirstWord(p, i)' => NoWord(p)
    BY <1>1 DEF FirstWord, NoWord
  <2>5. \A i \in 1 .. Len(bus) : FirstWord(p, i)' => FirstWord(p, i) /\ ~NoWord(p)
    BY <1>1 DEF FirstWord, NoWord
  <2>6. ASSUME Started(p) \/ (NoWord(p) /\ e.kind = "poll"), NEW i \in 1 .. Len(bus'), FirstWord(p, i)'
        PROVE  page[p] # NoCard \/ bus'[i].kind = "poll"
    <3>1. CASE i \in 1 .. Len(bus)
      BY <1>1, <2>5, <2>6, <3>1 DEF Started
    <3>2. CASE i = Len(bus) + 1
      BY <1>1, <2>4, <2>6, <3>2 DEF Started
    <3> QED
      BY <1>1, <3>1, <3>2
  <2> QED
    BY <1>4, <2>1, <2>3, <2>6 DEF Started
<1> QED
  BY <1>3, <1>4

LEMMA Followed ==
  ASSUME TypeOK, Placed, NEW p \in Ids, Follow
  PROVE  /\ NoWord(p) => NoWord(p)'
         /\ Started(p) => Started(p)' /\ (LastIsRight(p) => LastIsRight(p)')
<1>1. /\ bus \in Seq(Event) /\ Len(bus) \in Nat \ {0} /\ bus' = Tail(bus)
      /\ Len(bus') = Len(bus) - 1 /\ Head(bus) = bus[1] /\ bus[1] \in Event
      /\ \A i \in 1 .. Len(bus') : bus'[i] = bus[i + 1] /\ i + 1 \in 1 .. Len(bus)
      /\ 1 \in 1 .. Len(bus)
  BY DEF Follow, TypeOK
<1>2. \A i \in 1 .. Len(bus) : i = 1 \/ (i - 1 \in 1 .. Len(bus') /\ (i - 1) + 1 = i)
  BY <1>1
<1>3. \A i \in 1 .. Len(bus) : i = 1 \/ (i - 1 \in 1 .. Len(bus') /\ bus'[i - 1] = bus[i])
  BY <1>1, <1>2
<1>4. UNCHANGED votes /\ Tallies(p)' = Tallies(p)
  BY DEF Follow, Tallies
<1>5. p \in 1 .. MaxPolls
  BY PollsAssumption DEF Placed, Ids, TypeOK
<1>6. NoWord(p) => NoWord(p)'
  BY <1>1 DEF NoWord
<1>7. ASSUME NEW i \in 1 .. Len(bus'), LastWord(p, i)'
      PROVE  LastWord(p, i + 1)
  <2>1. ASSUME NEW j \in 1 .. Len(bus), j > i + 1 PROVE bus[j].poll # p
    <3>1. j # 1 /\ j - 1 > i
      BY <2>1
    <3> QED
      BY <1>3, <1>7, <3>1 DEF LastWord
  <2> QED
    BY <1>1, <1>7, <2>1 DEF LastWord
<1>8. CASE bus[1].poll # p
  <2>1. page'[p] = page[p]
    BY <1>1, <1>5, <1>8 DEF Follow, TypeOK
  <2>2. NoWord(p)' => NoWord(p)
    BY <1>3, <1>8 DEF NoWord
  <2>3. ASSUME NEW i \in 1 .. Len(bus'), FirstWord(p, i)'
        PROVE  FirstWord(p, i + 1)
    <3>1. ASSUME NEW j \in 1 .. Len(bus), j < i + 1 PROVE bus[j].poll # p
      <4>1. j = 1 \/ j - 1 < i
        BY <3>1
      <4> QED
        BY <1>3, <1>8, <2>3, <4>1 DEF FirstWord
    <3> QED
      BY <1>1, <2>3, <3>1 DEF FirstWord
  <2>4. Started(p) => Started(p)'
    BY <1>1, <2>1, <2>2, <2>3 DEF Started
  <2>5. LastIsRight(p) => LastIsRight(p)'
    BY <1>1, <1>4, <1>7, <2>1, <2>2 DEF LastIsRight
  <2> QED
    BY <1>6, <2>4, <2>5
<1>9. CASE bus[1].poll = p
  <2> SUFFICES ASSUME Started(p)
               PROVE  Started(p)' /\ (LastIsRight(p) => LastIsRight(p)')
    BY <1>6
  <2>1. FirstWord(p, 1)
    BY <1>1, <1>9 DEF FirstWord
  <2>2. Follows(Head(bus))
    BY <1>1, <1>9, <2>1 DEF Started, Follows
  <2>3. page'[p] = bus[1].card /\ bus[1].card \in Card
    BY <1>1, <1>5, <1>9, <2>2 DEF Follow, TypeOK, Event
  <2>4. Started(p)'
    BY <2>3, NoCardAssumption DEF Started
  <2>5. NoWord(p)' => LastWord(p, 1)
    BY <1>3, <1>9 DEF NoWord, LastWord
  <2>6. LastIsRight(p) => LastIsRight(p)'
    BY <1>1, <1>4, <1>7, <2>3, <2>5 DEF LastIsRight
  <2> QED
    BY <2>4, <2>6
<1> QED
  BY <1>8, <1>9

LEMMA CardTallies == ASSUME NEW p, NEW u PROVE CardOf(p, u).tally = Tallies(p)
BY DEF CardOf, Tallies

\* A request has come to another place, or is over, and nothing else is changed.
LEMMA PlacedKept ==
  ASSUME Placed, NEW r \in Reqs, \A q \in Reqs \ {r} : work'[q] = work[q],
         UNCHANGED <<polls, via>>, \A i \in 1 .. Len(bus') : bus'[i].poll \in Ids,
         work'[r].pc \in {"idle", "saved"} <=> work'[r].poll = 0,
         work'[r].poll # 0 => /\ work'[r].poll = work[r].poll /\ work'[r].kind = work[r].kind
                              /\ work[r].kind = "poll" => work'[r].pc = "publish"
  PROVE  Placed'
<1>1. Ids' = Ids
  BY DEF Ids
<1>2. \A q \in Reqs : /\ work'[q].pc \in {"idle", "saved"} <=> work'[q].poll = 0
                      /\ work'[q].poll # 0 => work'[q].poll \in Ids /\ q \in via[work'[q].poll]
                      /\ work'[q].poll # 0 /\ work'[q].kind = "poll" => work'[q].pc = "publish"
  BY DEF Placed
<1> QED
  BY <1>1, <1>2 DEF Placed

LEMMA TalliesKept ==
  ASSUME NEW p, \A v \in Users, o \in Options : <<p, v, o>> \in votes' <=> <<p, v, o>> \in votes
  PROVE  Tallies(p)' = Tallies(p)
<1>1. \A o \in Options : {v \in Users : <<p, v, o>> \in votes'} = {v \in Users : <<p, v, o>> \in votes}
  OBVIOUS
<1> QED
  BY <1>1 DEF Tallies

\* Between the first statement of a vote and the last the page is told nothing.
LEMMA ToldVoting ==
  ASSUME NEW p, NEW h, UNCHANGED <<bus, page>>,
         IF work[h].poll = p THEN work[h].kind = "poll_vote" /\ Told(p, h) ELSE Told(p, h),
         work'[h].poll = p, work'[h].kind = "poll_vote", work'[h].pc # "publish"
  PROVE  Told(p, h)'
BY DEF Told, Started, NoWord, FirstWord

LEMMA NextTally == PollsInv /\ PollsInv' /\ Placed /\ AllTold /\ [Next]_vars => (Placed /\ AllTold)'
<1> SUFFICES ASSUME PollsInv, PollsInv', Placed, AllTold, [Next]_vars
             PROVE  (Placed /\ AllTold)'
  OBVIOUS
<1> USE DEF PollsInv
<1>0. /\ \A r \in Reqs : work[r] \in Work
      /\ \A h \in Hubs : h \in Reqs
      /\ Ids \subseteq Nat \ {0}
      /\ Idle.pc = "idle" /\ Idle.poll = 0
      /\ \A r \in Reqs, p \in Ids, h \in Hubs : work[r].poll = p /\ via[p] = {h} => r = h
  BY DEF TypeOK, Reqs, Ids, Idle, Placed
\* What r does about a poll disturbs only what is told of that poll by r.
<1>1. ASSUME NEW r \in Reqs, UNCHANGED <<polls, via, bus, page>>, failed' \/ ~failed,
             \A q \in Reqs \ {r} : work'[q] = work[q],
             work'[r].poll \in {0, work[r].poll},
             \A p \in Ids : p # work[r].poll => Tallies(p)' = Tallies(p),
             ~failed' => \A p \in Ids : p = work[r].poll /\ r \in Hubs /\ via[p] = {r} => Told(p, r)'
      PROVE  AllTold'
  <2> SUFFICES ASSUME ~failed', NEW p \in Ids, NEW h \in Hubs, via[p] = {h}
               PROVE  Told(p, h)'
    BY <1>1 DEF AllTold, Ids
  <2>1. Told(p, h)
    BY <1>1 DEF AllTold
  <2>2. CASE work[r].poll = p
    <3>1. r = h
      BY <1>0, <2>2
    <3> QED
      BY <1>1, <2>2, <3>1
  <2>3. CASE work[r].poll # p
    <3>1. work'[h] = work[h] \/ (work[h].poll # p /\ work'[h].poll # p)
      BY <1>0, <1>1, <2>3
    <3>2. Tallies(p)' = Tallies(p)
      BY <1>1, <2>3
    <3> QED
      BY <1>1, <2>1, <3>1, <3>2, ToldElsewhere
  <2> QED
    BY <2>2, <2>3
<1>2. ASSUME NEW h \in Hubs, NEW several \in BOOLEAN, Save(h, several)
      PROVE  (Placed /\ AllTold)'
  <2>1. /\ h \in Reqs /\ work[h] = Idle /\ \A q \in Reqs \ {h} : work'[q] = work[q]
        /\ work'[h].pc = "saved" /\ work'[h].poll = 0
        /\ UNCHANGED <<polls, votes, bus, page, cast, failed, crossed, via>>
    BY <1>0, <1>2 DEF Save, TypeOK, Idle
  <2>2. \A p : Tallies(p)' = Tallies(p)
    BY <2>1 DEF Tallies
  <2>3. \A i \in 1 .. Len(bus') : bus'[i].poll \in Ids
    BY <2>1 DEF Placed
  <2>4. Placed'
    BY <2>1, <2>3, PlacedKept
  <2>5. AllTold'
    BY <1>0, <1>1, <2>1, <2>2
  <2> QED
    BY <2>4, <2>5
<1>3. ASSUME NEW h \in Hubs, CreatePoll(h)
      PROVE  (Placed /\ AllTold)'
  <2>1. PICK n \in Nat : n = Len(polls) + 1
    BY DEF TypeOK
  <2>2. PICK none : none = [tally |-> [o \in Options |-> 0], marks |-> {}]
    OBVIOUS
  <2>3. h \in Reqs /\ work[h] \in Work /\ Len(via) = Len(polls) /\ n \notin Ids /\ n # 0
    BY <1>0, <2>1 DEF Placed, Ids, TypeOK
  <2>4. /\ work'[h].pc = "publish" /\ work'[h].kind = "poll" /\ work'[h].poll = n /\ work'[h].card = none
        /\ \A q \in Reqs \ {h} : work'[q] = work[q]
    BY <1>3, <2>1, <2>2, <2>3 DEF CreatePoll, TypeOK, Work
  <2>5. /\ Len(polls') = n /\ Len(via') = n /\ via'[n] = {h} /\ \A p \in Ids : via'[p] = via[p]
        /\ n <= MaxPolls
    BY <1>3, <2>1, <2>3, PollsAssumption DEF CreatePoll, TypeOK, Ids
  <2>6. Ids' = Ids \cup {n} /\ UNCHANGED <<votes, bus, page, failed>>
    BY <1>3, <2>1, <2>5 DEF CreatePoll, Ids, TypeOK
  <2>7. NoWord(n)'
    BY <2>3, <2>6 DEF NoWord, Placed
  <2>8. \A p : Tallies(p)' = Tallies(p)
    BY <2>6 DEF Tallies
  <2>9. Tallies(n) = none.tally
    <3>1. \A o \in Options : {v \in Users : <<n, v, o>> \in votes} = {}
      BY <2>3 DEF VotesInPolls
    <3>2. \A o \in Options : Cardinality({v \in Users : <<n, v, o>> \in votes}) = 0
      BY <3>1, FS_EmptySet
    <3> QED
      BY <2>2, <3>2 DEF Tallies
  <2>10. Told(n, h)'
    BY <2>4, <2>7, <2>8, <2>9 DEF Told
  <2>11. ASSUME NEW p \in Ids, NEW g \in Hubs, ~failed, via[p] = {g}
         PROVE  Told(p, g)'
    <3>1. Told(p, g)
      BY <2>11 DEF AllTold
    <3>2. work'[g] = work[g] \/ (work[g].poll # p /\ work'[g].poll # p)
      <4>1. work[h].poll = 0 /\ p # 0 /\ p # n
        BY <1>0, <1>3, <2>3 DEF CreatePoll, Placed
      <4> QED
        BY <1>0, <2>4, <4>1
    <3> QED
      BY <2>6, <2>8, <3>1, <3>2, ToldElsewhere
  <2>12. AllTold'
    <3> SUFFICES ASSUME ~failed', NEW p \in Ids', NEW g \in Hubs, via'[p] = {g}
                 PROVE  Told(p, g)'
      BY DEF AllTold
    <3>1. CASE p = n
      BY <2>5, <2>10, <3>1
    <3>2. CASE p \in Ids
      BY <2>5, <2>6, <2>11, <3>2
    <3> QED
      BY <2>6, <3>1, <3>2
  <2>13. Placed'
    <3>1. \A q \in Reqs \ {h} :
             /\ work'[q].pc \in {"idle", "saved"} <=> work'[q].poll = 0
             /\ work'[q].poll # 0 => work'[q].poll \in Ids' /\ q \in via'[work'[q].poll]
             /\ work'[q].poll # 0 /\ work'[q].kind = "poll" => work'[q].pc = "publish"
      BY <2>4, <2>5, <2>6 DEF Placed
    <3>2. /\ work'[h].pc \notin {"idle", "saved"} /\ work'[h].poll # 0
          /\ work'[h].poll \in Ids' /\ h \in via'[work'[h].poll]
      BY <2>3, <2>4, <2>5, <2>6
    <3>3. \A i \in 1 .. Len(bus') : bus'[i].poll \in Ids'
      BY <2>6 DEF Placed
    <3>4. \A p \in Ids' : via'[p] # {}
      BY <2>5, <2>6 DEF Placed
    <3> QED
      BY <2>4, <2>5, <3>1, <3>2, <3>3, <3>4 DEF Placed
  <2> QED
    BY <2>12, <2>13
<1>4. ASSUME NEW h \in Hubs, CreateFails(h)
      PROVE  (Placed /\ AllTold)'
  <2>1. /\ h \in Reqs /\ work[h].poll = 0 /\ \A q \in Reqs \ {h} : work'[q] = work[q]
        /\ work'[h].pc = "idle" /\ work'[h].poll = 0
        /\ UNCHANGED <<polls, votes, bus, page, cast, failed, crossed, via>>
    BY <1>0, <1>4 DEF CreateFails, Done, TypeOK, Placed
  <2>2. \A p : Tallies(p)' = Tallies(p)
    BY <2>1 DEF Tallies
  <2>3. \A i \in 1 .. Len(bus') : bus'[i].poll \in Ids
    BY <2>1 DEF Placed
  <2>4. Placed'
    BY <2>1, <2>3, PlacedKept
  <2>5. AllTold'
    BY <1>0, <1>1, <2>1, <2>2
  <2> QED
    BY <2>4, <2>5
<1>5. ASSUME NEW r \in Reqs, NEW p \in Ids, NEW u \in Users, NEW o \in Options, Clear(r, p, u, o)
      PROVE  (Placed /\ AllTold)'
  <2>1. /\ work[r] = Idle /\ work[r].poll = 0 /\ p \in Nat \ {0} /\ \A q \in Reqs \ {r} : work'[q] = work[q]
        /\ work'[r].pc = "cleared" /\ work'[r].kind = "poll_vote" /\ work'[r].poll = p
    BY <1>0, <1>5 DEF Clear, TypeOK, Idle
  <2>2. UNCHANGED <<polls, bus, page>> /\ (failed' = failed \/ failed')
    BY <1>5 DEF Clear
  <2>3. /\ Len(via') = Len(via) /\ via'[p] = via[p] \cup {r}
        /\ \A q \in Ids \ {p} : via'[q] = via[q]
    BY <1>5 DEF Clear, TypeOK, Placed, Ids
  <2>4. Ids' = Ids
    BY <2>2 DEF Ids
  <2>5. Placed'
    <3>1. \A q \in Ids : via[q] \subseteq via'[q]
      BY <2>3
    <3>2. \A q \in Reqs : /\ work'[q].pc \in {"idle", "saved"} <=> work'[q].poll = 0
                          /\ work'[q].poll # 0 => work'[q].poll \in Ids /\ q \in via'[work'[q].poll]
                          /\ work'[q].poll # 0 /\ work'[q].kind = "poll" => work'[q].pc = "publish"
      BY <2>1, <2>3, <3>1 DEF Placed
    <3>3. \A q \in Ids : via'[q] # {}
      BY <3>1 DEF Placed
    <3> QED
      BY <2>2, <2>3, <2>4, <3>2, <3>3 DEF Placed
  <2>6. ASSUME ~failed', NEW q \in Ids, NEW h \in Hubs, via'[q] = {h}
        PROVE  Told(q, h)'
    <3>1. via[q] # {} /\ via[q] \subseteq via'[q] /\ ~failed
      BY <2>2, <2>3, <2>6 DEF Placed
    <3>2. Told(q, h)
      BY <2>6, <3>1 DEF AllTold
    <3>3. CASE q = p
      <4>1. h = r
        BY <2>3, <2>6, <3>3
      <4> QED
        BY <2>1, <2>2, <3>2, <3>3, <4>1, ToldVoting
    <3>4. CASE q # p
      <4>1. \A v \in Users, x \in Options : <<q, v, x>> \in votes' <=> <<q, v, x>> \in votes
        BY <1>5, <3>4 DEF Clear, Cleared
      <4>2. work'[h] = work[h] \/ (work[h].poll # q /\ work'[h].poll # q)
        BY <1>0, <2>1, <3>4
      <4> QED
        BY <2>2, <3>2, <4>1, <4>2, TalliesKept, ToldElsewhere
    <3> QED
      BY <3>3, <3>4
  <2> QED
    BY <2>4, <2>5, <2>6 DEF AllTold
\* A statement of a vote in the middle.
<1>6. ASSUME NEW r \in Reqs, NEW pc \in {"insert", "delete", "written"}, Goto(r, pc),
             work[r].pc \in {"cleared", "insert", "delete"}, UNCHANGED <<polls, bus, page, via>>,
             failed' = failed \/ failed', votes' \subseteq votes \cup {Row(r)}, votes \ {Row(r)} \subseteq votes'
      PROVE  (Placed /\ AllTold)'
  <2>1. /\ work[r] \in Work /\ work[r].poll \in Ids /\ work[r].poll # 0 /\ work[r].kind = "poll_vote"
    BY <1>0, <1>6 DEF Placed, Work
  <2>2. /\ work'[r].pc = pc /\ work'[r].poll = work[r].poll /\ work'[r].kind = "poll_vote"
        /\ \A q \in Reqs \ {r} : work'[q] = work[q]
    BY <1>6, <2>1 DEF Goto, TypeOK, Work
  <2>3. \A i \in 1 .. Len(bus') : bus'[i].poll \in Ids
    BY <1>6 DEF Placed
  <2>4. Placed'
    BY <1>6, <2>1, <2>2, <2>3, PlacedKept
  <2>5. ASSUME NEW p \in Ids, p # work[r].poll
        PROVE  Tallies(p)' = Tallies(p)
    <3>1. \A v \in Users, o \in Options : <<p, v, o>> # Row(r)
      BY <2>5 DEF Row
    <3> QED
      BY <1>6, <3>1, TalliesKept
  <2>6. ASSUME ~failed', NEW p \in Ids, p = work[r].poll, r \in Hubs, via[p] = {r}
        PROVE  Told(p, r)'
    <3>1. Told(p, r)
      BY <1>6, <2>6 DEF AllTold
    <3> QED
      BY <1>6, <2>1, <2>2, <2>6, <3>1, ToldVoting
  <2> QED
    BY <1>1, <1>6, <2>2, <2>4, <2>5, <2>6
<1>7. ASSUME NEW r \in Reqs, Count(r)
      PROVE  (Placed /\ AllTold)'
  <2>1. /\ \E pc \in {"insert", "delete"} : Goto(r, pc)
        /\ work[r].pc = "cleared" /\ UNCHANGED <<polls, votes, bus, page, via>>
        /\ failed' = failed \/ failed'
    BY <1>7 DEF Count, Unheard
  <2>2. PICK pc \in {"insert", "delete"} : Goto(r, pc)
    BY <2>1
  <2> QED
    BY <1>6, <2>1, <2>2
<1>8. ASSUME NEW r \in Reqs, Write(r)
      PROVE  (Placed /\ AllTold)'
  <2>1. /\ Goto(r, "written") /\ work[r].pc \in {"insert", "delete"}
        /\ UNCHANGED <<polls, bus, page, via>> /\ (failed' = failed \/ failed')
        /\ votes' \subseteq votes \cup {Row(r)} /\ votes \ {Row(r)} \subseteq votes'
    BY <1>8 DEF Write, Unheard
  <2> QED
    BY <1>6, <2>1
<1>9. ASSUME NEW h \in Hubs, Tally(h)
      PROVE  (Placed /\ AllTold)'
  <2>1. /\ h \in Reqs /\ work[h] \in Work /\ work[h].poll \in Ids /\ work[h].poll # 0
        /\ work[h].kind = "poll_vote" /\ work[h].pc = "written"
        /\ UNCHANGED <<polls, votes, bus, page, via>>
    BY <1>0, <1>9 DEF Tally, Placed, Work
  <2>2. \A p : Tallies(p)' = Tallies(p)
    BY <2>1 DEF Tallies
  <2>3. \A i \in 1 .. Len(bus') : bus'[i].poll \in Ids
    BY <2>1 DEF Placed
  <2>4. CASE Done(h) /\ failed' = TRUE
    <3>1. work'[h].pc = "idle" /\ work'[h].poll = 0 /\ \A q \in Reqs \ {h} : work'[q] = work[q]
      BY <1>0, <2>1, <2>4 DEF Done, TypeOK
    <3>2. Placed'
      BY <2>1, <2>3, <3>1, PlacedKept
    <3> QED
      BY <2>4, <3>2 DEF AllTold
  <2>5. CASE work' = [work EXCEPT ![h].pc = "publish", ![h].card = CardOf(work[h].poll, work[h].user)]
             /\ UNCHANGED failed
    <3>1. PICK c : c = CardOf(work[h].poll, work[h].user)
      OBVIOUS
    <3>2. c.tally = Tallies(work[h].poll)
      BY <3>1, CardTallies
    <3>3. /\ work'[h].pc = "publish" /\ work'[h].card = c /\ work'[h].poll = work[h].poll
          /\ work'[h].kind = "poll_vote" /\ \A q \in Reqs \ {h} : work'[q] = work[q]
      BY <2>1, <2>5, <3>1 DEF TypeOK, Work
    <3>4. Placed'
      BY <2>1, <2>3, <3>3, PlacedKept
    <3>5. ASSUME ~failed', NEW p \in Ids, p = work[h].poll, via[p] = {h}
          PROVE  Told(p, h)'
      <4>1. Started(p)
        BY <2>1, <2>5, <3>5 DEF AllTold, Told
      <4>2. Started(p)'
        BY <2>1, <4>1 DEF Started, NoWord, FirstWord
      <4> QED
        BY <2>2, <3>2, <3>3, <3>5, <4>2 DEF Told
    <3> QED
      BY <1>1, <2>1, <2>2, <2>5, <3>3, <3>4, <3>5
  <2> QED
    BY <1>9, <2>4, <2>5 DEF Tally
<1>10. ASSUME NEW a \in Apis, Answer(a)
       PROVE  (Placed /\ AllTold)'
  <2>1. /\ a \in Reqs /\ a \notin Hubs /\ work'[a].pc = "idle" /\ work'[a].poll = 0
        /\ \A q \in Reqs \ {a} : work'[q] = work[q]
        /\ UNCHANGED <<polls, votes, bus, page, cast, failed, crossed, via>>
    BY <1>0, <1>10, PollsAssumption DEF Answer, Done, TypeOK, Reqs
  <2>2. \A p : Tallies(p)' = Tallies(p)
    BY <2>1 DEF Tallies
  <2>3. \A i \in 1 .. Len(bus') : bus'[i].poll \in Ids
    BY <2>1 DEF Placed
  <2>4. Placed'
    BY <2>1, <2>3, PlacedKept
  <2>5. AllTold'
    BY <1>1, <2>1, <2>2
  <2> QED
    BY <2>4, <2>5
<1>11. ASSUME NEW h \in Hubs, Publish(h)
       PROVE  (Placed /\ AllTold)'
  <2>1. PICK e : e = [kind |-> work[h].kind, poll |-> work[h].poll, card |-> work[h].card]
    OBVIOUS
  <2>2. /\ h \in Reqs /\ work[h] \in Work /\ work[h].pc = "publish" /\ work[h].poll \in Ids
        /\ bus' = Append(bus, e) /\ UNCHANGED <<polls, votes, page, failed, via>>
        /\ work'[h].pc = "idle" /\ work'[h].poll = 0 /\ \A q \in Reqs \ {h} : work'[q] = work[q]
    BY <1>0, <1>11, <2>1 DEF Publish, Placed, Done, TypeOK
  <2>3. e \in Event /\ e.poll = work[h].poll /\ e.kind = work[h].kind /\ e.card = work[h].card
    BY <2>1, <2>2 DEF Event, InHand, Work
  <2>4. Placed'
    <3>1. \A i \in 1 .. Len(bus') : bus'[i].poll \in Ids
      BY <2>2, <2>3 DEF Placed, TypeOK
    <3> QED
      BY <2>2, <3>1, PlacedKept
  <2>5. \A p : Tallies(p)' = Tallies(p)
    BY <2>2 DEF Tallies
  <2>6. ASSUME ~failed, NEW p \in Ids, NEW g \in Hubs, via[p] = {g}
        PROVE  Told(p, g)'
    <3>1. Told(p, g)
      BY <2>6 DEF AllTold
    <3>2. CASE p = work[h].poll
      <4>1. g = h /\ work'[h].poll # p
        BY <1>0, <2>2, <2>6, <3>2
      <4>2. Started(p) \/ (NoWord(p) /\ e.kind = "poll")
        BY <2>2, <2>3, <3>1, <3>2, <4>1 DEF Told, Work
      <4>3. e.card.tally = Tallies(p)
        BY <2>2, <2>3, <3>1, <3>2, <4>1 DEF Told
      <4>4. Started(p)' /\ LastIsRight(p)'
        BY <2>2, <2>3, <3>2, <4>2, <4>3, Published
      <4> QED
        BY <4>1, <4>4 DEF Told
    <3>3. CASE p # work[h].poll
      <4>1. /\ Started(p) => Started(p)'
            /\ LastIsRight(p) => LastIsRight(p)'
            /\ NoWord(p) => NoWord(p)'
        BY <2>2, <2>3, <3>3, Published
      <4>2. work'[g] = work[g] \/ (work[g].poll # p /\ work'[g].poll # p)
        BY <1>0, <2>2, <3>3
      <4> QED
        BY <2>5, <3>1, <4>1, <4>2 DEF Told
    <3> QED
      BY <3>2, <3>3
  <2>7. AllTold'
    BY <2>2, <2>6 DEF AllTold, Ids
  <2> QED
    BY <2>4, <2>7
<1>12. CASE Follow
  <2>1. UNCHANGED <<polls, votes, work, failed, via>>
    BY <1>12 DEF Follow
  <2>2. Placed'
    <3>1. \A i \in 1 .. Len(bus') : bus'[i].poll \in Ids
      BY <1>12 DEF Follow, TypeOK, Placed
    <3> QED
      BY <2>1, <3>1 DEF Placed, Ids
  <2>3. ASSUME ~failed, NEW p \in Ids, NEW h \in Hubs, via[p] = {h}
        PROVE  Told(p, h)'
    <3>1. Told(p, h)
      BY <2>3 DEF AllTold
    <3>2. /\ NoWord(p) => NoWord(p)'
          /\ Started(p) => Started(p)' /\ (LastIsRight(p) => LastIsRight(p)')
      BY <1>12, Followed
    <3>3. Tallies(p)' = Tallies(p)
      BY <2>1 DEF Tallies
    <3> QED
      BY <2>1, <3>1, <3>2, <3>3 DEF Told
  <2> QED
    BY <2>1, <2>2, <2>3 DEF AllTold, Ids
<1>13. CASE UNCHANGED vars
  <2>1. \A p : Tallies(p)' = Tallies(p)
    BY <1>13 DEF vars, Tallies
  <2>2. Placed'
    BY <1>13 DEF vars, Placed, Ids
  <2>3. \A p, h : Told(p, h) => Told(p, h)'
    BY <1>13, <2>1 DEF vars, Told, Started, LastIsRight, NoWord, FirstWord, LastWord
  <2> QED
    BY <1>13, <2>2, <2>3 DEF vars, AllTold, Ids
<1> QED
  BY <1>2, <1>3, <1>4, <1>5, <1>7, <1>8, <1>9, <1>10, <1>11, <1>12, <1>13
     DEF Next, HubStep, VoteStep, Quiet

LEMMA ToldIsShown == PollsInv /\ Placed /\ AllTold => TallyShown
<1> SUFFICES ASSUME PollsInv, Placed, AllTold, ~failed, NEW p \in Ids, Settled(p), NEW h \in Hubs, via[p] = {h}
             PROVE  page[p] # NoCard /\ page[p].tally = CardOf(p, Me).tally
  BY DEF TallyShown
<1>1. Told(p, h) /\ work[h].poll # p /\ NoWord(p)
  BY DEF AllTold, Settled, NoWord, Reqs
<1> QED
  BY <1>1, CardTallies DEF Told, Started, LastIsRight

\* A page that was told of every vote shows the tally of the table, however many users vote
\* in however many polls at once, if one process handled all that concerns the poll.
THEOREM TalliesAreShown == Spec => []TallyShown
<1>1. Init => Placed /\ AllTold
  BY PollsAssumption DEF Init, Placed, AllTold, Ids, Idle
<1> QED
  BY <1>1, InitPolls, NextPolls, NextTally, ToldIsShown, PTL DEF Spec
=============================================================================
