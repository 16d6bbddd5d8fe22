-------------------------------- MODULE Room --------------------------------
(***************************************************************************)
(* One conversation from end to end: the rows in PostgreSQL, the hubs of   *)
(* the server processes that write them and publish what they wrote        *)
(* (internal/chat/hub.go, internal/database/db.go), and one user's page,   *)
(* which shows the conversation, loads its history and follows the events  *)
(* (web/index.html).  How events reach the page in the order they were     *)
(* published is modules Hub and Fanout.                                    *)
(***************************************************************************)
EXTENDS Naturals, Sequences, FiniteSets, SequencesExt

CONSTANTS
  Users,      \* user ids, members of the conversation
  Me,         \* the user whose page it is
  Hubs,       \* server processes, one hub goroutine each
  Emojis,     \* what one may react with
  NoEmoji,    \* no reaction
  NoEvent,    \* the hub has nothing to publish
  Loads,      \* identities of the page's calls of loadMessages
  MaxOps,     \* bound: messages that the hubs handle, and requests of Me
  MaxLoads,   \* bound: calls of loadMessages
  Timed,      \* which messages carry a timer
  MayHide,    \* whether Me deletes messages for himself, or all of them
  MayFail,    \* whether database calls fail and events are lost
  MayDrop     \* whether the page's websocket drops

\* The content of a message: the number of the operation that wrote it, or
\* Erased for "Bu mesaj silindi".
Erased == 0
Contents == 0 .. MaxOps

Ids == 1 .. MaxOps
Counts == [Emojis -> 0 .. Cardinality(Users)]
Kinds == {"new", "edit", "delete", "react", "read"}
Event == [kind: Kinds, id: Ids \cup {0}, by: Users, text: Contents, counts: Counts]

ASSUME RoomAssumption ==
  /\ Me \in Users /\ IsFiniteSet(Users)
  /\ NoEmoji \notin Emojis
  /\ NoEvent \notin Event
  /\ MaxOps \in Nat /\ MaxLoads \in Nat
  /\ Timed \subseteq Nat
  /\ {MayHide, MayFail, MayDrop} \subseteq BOOLEAN

VARIABLES
  rows,    \* the conversation's rows of table messages, and what refers to them
  work,    \* work[h]: the event hub h has prepared and not published
  bus,     \* events on their way to the page
  conn,    \* whether the page's websocket is connected
  feed,    \* the bubbles the page shows
  load,    \* load[i]: how far call i of loadMessages is
  snap,    \* snap[i]: the history that call i was answered
  clean,   \* history: the page began to load with nothing under way, and has since
           \* missed nothing and been told of nothing that is not so
  ops,     \* number of messages that the hubs handled, and of requests
  loads    \* number of calls of loadMessages

backVars == <<rows, work, ops>>
pageVars == <<feed, load, snap, loads>>
vars == <<backVars, pageVars, bus, conn, clean>>

Row == [by: Users, text: Contents, deleted: BOOLEAN, read: BOOLEAN,
        react: [Users -> Emojis \cup {NoEmoji}], gone: BOOLEAN, hidden: BOOLEAN]
Bubble == [id: Ids, by: Users, text: Contents, deleted: BOOLEAN, read: BOOLEAN,
           counts: Counts]

TypeOK ==
  /\ rows \in Seq(Row)
  /\ work \in [Hubs -> Event \cup {NoEvent}]
  /\ bus \in Seq(Event)
  /\ conn \in BOOLEAN
  /\ feed \in Seq(Bubble)
  /\ load \in [Loads -> {"idle", "asked", "answered", "cleared"}]
  /\ snap \in [Loads -> Seq(Bubble)]
  /\ clean \in BOOLEAN
  /\ ops \in 0 .. MaxOps
  /\ loads \in 0 .. MaxLoads

Init ==
  /\ rows = <<>>
  /\ work = [h \in Hubs |-> NoEvent]
  /\ bus = <<>> /\ conn = TRUE
  /\ feed = <<>>
  /\ load = [i \in Loads |-> "idle"]
  /\ snap = [i \in Loads |-> <<>>]
  /\ clean = TRUE
  /\ ops = 0 /\ loads = 0
-----------------------------------------------------------------------------
(* What the database computes.                                             *)

\* getMessageReactions: how often each emoji was given to m.
CountsOf(react) == [e \in Emojis |-> Cardinality({u \in Users : react[u] = e})]

NoCounts == [e \in Emojis |-> 0]

\* Mutant: ids counted from 0.
BubbleOffByOne(m) == [id |-> m - 1, by |-> rows[m].by, text |-> rows[m].text,
                      deleted |-> rows[m].deleted, read |-> rows[m].read,
                      counts |-> CountsOf(rows[m].react)]

\* Row m as the page is told of it.
BubbleOf(m) == [id |-> m, by |-> rows[m].by, text |-> rows[m].text,
                deleted |-> rows[m].deleted, read |-> rows[m].read,
                counts |-> CountsOf(rows[m].react)]

\* Mutant: messages that the user deleted or that expired come back on loading.
InHistoryAlways(m) == TRUE

\* Expired messages and those the user deleted for himself are left out.
InHistory(m) == ~rows[m].gone /\ ~rows[m].hidden

\* The numbers of S in their order.
Ascending(S) == CHOOSE s \in [1 .. Cardinality(S) -> S] :
                  \A i, j \in 1 .. Cardinality(S) : i < j => s[i] < s[j]

\* GetConversationMessages for Me: fewer rows than its limit of 50, oldest first.
History == LET ids == {m \in 1 .. Len(rows) : InHistory(m)}
           IN [i \in 1 .. Cardinality(ids) |-> BubbleOf(Ascending(ids)[i])]

Loading == \E i \in Loads : load[i] # "idle"

AllPublished == \A h \in Hubs : work[h] = NoEvent

\* No message is anywhere between a hub's write and the page.
Settled == AllPublished /\ bus = <<>>
-----------------------------------------------------------------------------
(* One message of a user at a hub: the database call, then the event.      *)

\* A database call works or, if MayFail, does not.
Works == {TRUE, ~MayFail}

\* A load under way loses no event and shows no message twice: its query is still to
\* come, and will find what ev tells, which is not that there is a new message.
Found(ev) ==
  \A i \in Loads : load[i] = "idle" \/ (load[i] = "asked" /\ ev.kind # "new")

\* Hub h has made its database call and is about to publish ev.  The page is no
\* longer clean if a load may lose or double the event, or if ev tells of a change
\* that was not made.
Handle(h, ev, done) ==
  /\ work[h] = NoEvent /\ ops < MaxOps
  /\ work' = [work EXCEPT ![h] = ev]
  /\ ops' = ops + 1
  /\ clean' = (clean /\ Found(ev) /\ done)
  /\ UNCHANGED <<pageVars, bus, conn>>

Ev(kind, m, u, text, counts) ==
  [kind |-> kind, id |-> m, by |-> u, text |-> text, counts |-> counts]

\* SaveMessage.  If it fails the message is dropped.
Post(h, u) ==
  /\ rows' = Append(rows, [by |-> u, text |-> ops + 1, deleted |-> FALSE, read |-> FALSE,
                           react |-> [v \in Users |-> NoEmoji], gone |-> FALSE, hidden |-> FALSE])
  /\ Handle(h, Ev("new", Len(rows) + 1, u, ops + 1, NoCounts), TRUE)

\* sender_id = $3: u is the author of m.
Own(m, u) == rows[m].by = u

\* EditMessage, for u.  If it changes no row, because u is not the author or the message
\* was deleted or is gone, or if it fails, the hub publishes all the same.
Edit(h, m, u) == \E ok \in Works :
  /\ rows' = IF ok /\ Own(m, u) /\ ~rows[m].gone /\ ~rows[m].deleted
             THEN [rows EXCEPT ![m].text = ops + 1] ELSE rows
  /\ Handle(h, Ev("edit", m, u, ops + 1, NoCounts), ok /\ Own(m, u))

\* DeleteMessageForEveryone, likewise.
DeleteForAll(h, m, u) == \E ok \in Works :
  /\ rows' = IF ok /\ Own(m, u) /\ ~rows[m].gone
             THEN [rows EXCEPT ![m].deleted = TRUE, ![m].text = Erased] ELSE rows
  /\ Handle(h, Ev("delete", m, u, Erased, NoCounts), ok /\ Own(m, u))

\* ToggleReaction: the same emoji again takes it back, another one replaces it.
Toggled(old, e) == IF old = e THEN NoEmoji ELSE e

\* Mutant: the counts published are those of before the reaction.
CountedBefore(m) == rows[m].react

\* The counts are read after the reaction is written.
Counted(m) == rows'[m].react

React(h, m, u, e) == \E written, read \in Works :
  /\ rows' = IF written /\ ~rows[m].gone
             THEN [rows EXCEPT ![m].react[u] = Toggled(@, e)] ELSE rows
  /\ Handle(h, Ev("react", m, u, Erased, IF read THEN CountsOf(Counted(m)) ELSE NoCounts), read)

\* MarkMessagesAsRead: the messages of the others.
Marked(u) == [m \in 1 .. Len(rows) |->
                IF rows[m].by # u THEN [rows[m] EXCEPT !.read = TRUE] ELSE rows[m]]

\* A page of u sends "read" when it opens the conversation and when it shows
\* a message of somebody else.
Read(h, u) == \E ok \in Works :
  /\ rows' = IF ok THEN Marked(u) ELSE rows
  /\ Handle(h, Ev("read", 0, u, Erased, NoCounts), TRUE)

\* delete_message_for_me hides the row from Me, whose page ignores the event.
HideForMe(h, m) ==
  /\ MayHide /\ work[h] = NoEvent /\ ops < MaxOps
  /\ rows' = [rows EXCEPT ![m].hidden = TRUE]
  /\ ops' = ops + 1
  /\ UNCHANGED <<work, pageVars, bus, conn, clean>>

\* ClearConversationHistory, a request of Me to the API: so does every row there is.
ClearHistory ==
  /\ MayHide /\ ops < MaxOps
  /\ rows' = [m \in 1 .. Len(rows) |-> [rows[m] EXCEPT !.hidden = TRUE]]
  /\ ops' = ops + 1
  /\ UNCHANGED <<work, pageVars, bus, conn, clean>>

\* The timer of m runs out and the cleaner deletes the row with its reactions.
\* The notice names no conversation, so a page takes it for another one's.
Expire(m) ==
  /\ m \in Timed /\ ~rows[m].gone
  /\ rows' = [rows EXCEPT ![m].gone = TRUE, ![m].react = [u \in Users |-> NoEmoji]]
  /\ UNCHANGED <<work, ops, pageVars, bus, conn, clean>>

\* The event reaches the page's queue if the page is connected.
Publish(h) ==
  /\ work[h] # NoEvent
  /\ work' = [work EXCEPT ![h] = NoEvent]
  /\ \/ /\ conn
        /\ bus' = Append(bus, work[h])
        /\ UNCHANGED clean
     \/ /\ ~conn \/ MayFail
        /\ clean' = FALSE
        /\ UNCHANGED bus
  /\ UNCHANGED <<rows, ops, pageVars, conn>>
-----------------------------------------------------------------------------
(* The page.                                                               *)

\* appendMessageBubble.
ShowNew(ev) ==
  Append(feed, [id |-> ev.id, by |-> ev.by, text |-> ev.text, deleted |-> FALSE,
                read |-> FALSE, counts |-> NoCounts])

\* getElementById finds the first bubble of message m, if there is one.
At(m) == SelectInSeq(feed, LAMBDA b : b.id = m)

\* Mutant: the ticks stay grey.
TickedNever == feed

\* Me's own bubbles carry ticks, unless they show a deleted message.  All of
\* them turn blue, whoever has read what.
Ticked == [i \in 1 .. Len(feed) |->
             IF feed[i].by = Me /\ ~feed[i].deleted THEN [feed[i] EXCEPT !.read = TRUE] ELSE feed[i]]

\* ws.onmessage, for an event of the open conversation.
Shown(ev) ==
  IF ev.kind = "new" THEN ShowNew(ev)
  ELSE IF ev.kind = "read" THEN Ticked
  ELSE IF At(ev.id) = 0 THEN feed
  ELSE IF ev.kind = "edit" THEN [feed EXCEPT ![At(ev.id)].text = ev.text]
  ELSE IF ev.kind = "react" THEN [feed EXCEPT ![At(ev.id)].counts = ev.counts]
  ELSE RemoveAt(feed, At(ev.id))

Follow ==
  /\ conn /\ bus # <<>>
  /\ feed' = Shown(Head(bus))
  /\ bus' = Tail(bus)
  /\ UNCHANGED <<backVars, conn, load, snap, loads, clean>>

\* The websocket closes: what was on its way is lost.
Drop ==
  /\ MayDrop /\ conn
  /\ conn' = FALSE
  /\ bus' = <<>>
  /\ clean' = FALSE
  /\ UNCHANGED <<backVars, pageVars>>

\* Three seconds later connectWebSocket; the history is not loaded again.  That
\* sendMessage may connect as well, and the page then has two sockets, is left out.
Reconnect ==
  /\ ~conn
  /\ conn' = TRUE
  /\ UNCHANGED <<backVars, pageVars, bus, clean>>

\* The user opens the conversation or stars a message: loadMessages fetches.
Ask(i) ==
  /\ load[i] = "idle" /\ loads < MaxLoads
  /\ load' = [load EXCEPT ![i] = "asked"]
  /\ loads' = loads + 1
  /\ clean' = (conn /\ Settled /\ ~Loading)
  /\ UNCHANGED <<backVars, feed, snap, bus, conn>>

\* The server runs GetConversationMessages, or fails to.
Answer(i) ==
  /\ load[i] = "asked"
  /\ load' = [load EXCEPT ![i] = "answered"]
  /\ \/ snap' = [snap EXCEPT ![i] = History] /\ UNCHANGED clean
     \/ MayFail /\ clean' = FALSE /\ UNCHANGED snap
  /\ UNCHANGED <<backVars, feed, loads, bus, conn>>

\* Mutant: the old bubbles stay.
EmptiedNever == feed

\* feed.innerHTML = "".
Emptied == <<>>

\* fetch has returned: the feed is emptied, and the page awaits the body.
Clear(i) ==
  /\ load[i] = "answered"
  /\ load' = [load EXCEPT ![i] = "cleared"]
  /\ feed' = Emptied
  /\ UNCHANGED <<backVars, snap, loads, bus, conn, clean>>

\* The body is there: its messages are appended.
Render(i) ==
  /\ load[i] = "cleared"
  /\ load' = [load EXCEPT ![i] = "idle"]
  /\ feed' = feed \o snap[i]
  /\ snap' = [snap EXCEPT ![i] = <<>>]
  /\ UNCHANGED <<backVars, loads, bus, conn, clean>>

HubHandles(h) ==
  \/ \E u \in Users : Post(h, u) \/ Read(h, u)
  \/ \E m \in 1 .. Len(rows) :
       \/ HideForMe(h, m)
       \/ \E u \in Users : Edit(h, m, u) \/ DeleteForAll(h, m, u)
       \/ \E u \in Users, e \in Emojis : React(h, m, u, e)

PageLoads == \E i \in Loads : Ask(i) \/ Answer(i) \/ Clear(i) \/ Render(i)

\* The system may stop when nothing is under way.
Quiet == Settled /\ ~Loading /\ UNCHANGED vars

Next == \/ \E h \in Hubs : HubHandles(h) \/ Publish(h)
        \/ \E m \in 1 .. Len(rows) : Expire(m)
        \/ ClearHistory
        \/ Follow \/ Drop \/ Reconnect \/ PageLoads \/ Quiet

Spec == Init /\ [][Next]_vars
-----------------------------------------------------------------------------
(* Properties.                                                             *)

\* Who said what with which reactions, without what was withdrawn: for all, for
\* Me, or by its timer.
Stands(b) == ~b.deleted /\ ~rows[b.id].gone /\ ~rows[b.id].hidden

Standing(bubbles) ==
  LET kept == {i \in 1 .. Len(bubbles) : Stands(bubbles[i])}
      told(b) == <<b.id, b.by, b.text, b.counts>>
  IN [n \in 1 .. Cardinality(kept) |-> told(bubbles[Ascending(kept)[n]])]

\* A page that began to load the conversation while nothing was under way, and that has
\* since been told of every change and of none that was not made, shows what it would
\* show if it loaded it again, but for what was withdrawn; also if messages were edited,
\* deleted, read and withdrawn before the query of the load had come, or withdrawn after it.
Converged == clean /\ Settled /\ ~Loading => Standing(feed) = Standing(History)

\* And at no time does such a page show a message twice or out of order.
InOrder == clean /\ ~Loading =>
             \A i, j \in 1 .. Len(feed) : i < j => feed[i].id < feed[j].id

\* On such a page every message of Me that somebody has read has blue ticks.
ReadIsTicked ==
  clean /\ Settled /\ ~Loading =>
    \A i \in 1 .. Len(feed) :
      feed[i].by = Me /\ ~feed[i].deleted /\ rows[feed[i].id].read => feed[i].read

\* Message m is on the page or on its way there.
Around(m) == \/ \E h \in Hubs : work[h] # NoEvent /\ work[h].kind = "new" /\ work[h].id = m
             \/ \E i \in 1 .. Len(bus) : bus[i].kind = "new" /\ bus[i].id = m
             \/ \E i \in Loads : \E j \in 1 .. Len(snap[i]) : snap[i][j].id = m
             \/ \E j \in 1 .. Len(feed) : feed[j].id = m

\* A message that has expired or that Me deleted for himself, once it has left
\* the page, never returns to it, whatever is loaded, lost or late.
NeverReturns ==
  [][\A m \in 1 .. Len(rows) :
       (rows[m].gone \/ rows[m].hidden) /\ ~Around(m) => ~Around(m)']_vars

\* A message deleted for everyone shows its content nowhere, once the page has
\* been told of the deletion.
DeletedStaysErased ==
  Settled /\ ~Loading /\ clean =>
    \A i \in 1 .. Len(feed) : rows[feed[i].id].deleted => feed[i].text = Erased
=============================================================================
