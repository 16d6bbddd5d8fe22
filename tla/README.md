# HitUp in TLA+

A verification development for HitUp, a chat server written in Go with one web page as its client
(`src/web/index.html`).  Every definition is translated from the source; `PROJECT.json` names the lines
of each one (`map`), the runs, the hazards and the theorems.

## 1. The system

`docker-compose.yml` starts two server processes behind nginx (`ip_hash`), one PostgreSQL and one Redis.
A browser logs in over HTTP, opens one websocket, and from then on learns of everything through it.

| part | source | state | operations |
|---|---|---|---|
| real-time engine | `chat/hub.go`, `chat/client.go`, `broker/redis.go` | client map, send channels, `online_users`, last_seen | register, unregister, relay, fan-out, drop of a slow client, expiry notices |
| presence across processes | `hub.go:105-150`, `redis.go:64-84` | `online_users` in Redis, shared by all processes | first connection, last connection, user lists |
| messages | `hub.go:152-247`, `db.go:837-1113, 1212-1357` | rows of `messages`, reactions, stars, deletions | save, edit, delete, react, read, history |
| polls | `db.go:885-976` | polls, options, votes | create, vote |
| accounts | `api/handlers.go:49-304`, `db.go:347-500` | users, verification codes | register, verify, resend, log in, Google, reset |
| conversations | `handlers.go:428-716`, `db.go:564-830` | conversations, members, roles, flags | direct, group, invite, add, remove, pin, mute, archive |
| stories and call logs | `db.go:1115-1210` | statuses, views, call_logs | create, view, log |
| web client: feed | `index.html:948-1017, 1300-1700` | the open conversation's bubbles | reconnect, load, append, edit, delete |
| web client: calls | `index.html:1966-2139` | peer connection, offer, overlay | call, answer, end |
| I/O | `email/mailer.go`, `auth/*.go`, `handlers.go:913-1006` | none | mail, tokens, uploads, link previews |
| start-up and deployment | `cmd/server/main.go`, compose, nginx | none | routes, wiring |

How they interact.  A browser's websocket belongs to one process.  `readPump` (one goroutine per
connection) hands each message to the process's single hub goroutine over an unbuffered channel; the hub
writes the database, then publishes to Redis.  Each process has one subscriber goroutine that receives
everything published by all processes and puts it into the buffered channel of every local client (or of
one user's clients, for a call signal); `writePump` (one goroutine per connection) drains that channel into
the socket.  A third goroutine deletes expired messages every ten seconds and puts a notice into the
same channels.  The client map is shared by these goroutines under one RWMutex.  HTTP handlers run
concurrently with all of this and share only the database and Redis with it.

What is hard: five kinds of goroutine over one map and its channels; a slow client; two processes that
write one database and publish on one bus; at-most-once pub/sub; handlers that read and then write
without a transaction; a page that loads history while events arrive.  `PROJECT.json` lists these as
hazards, each at its line.

## 2. What makes each component correct

| part | correct when |
|---|---|
| real-time engine | a broadcast reaches every member or ends it, and nobody is served a stream with a hole; no goroutine panics; a connection that ended is let go by map, hub and pumps; whoever waits for the hub is heard; a connected user is in `online_users`, and who is not has a fresh last_seen |
| messages and the feed | a page that was told of every change, and of none that was not made, shows what the database has, in order, with the ticks of what was read; what expired or was deleted for oneself never comes back |
| accounts | a confirmed account belongs to whoever reads its mail and stays as it is; the last code stored works; requests that are accepted with one code overlap |
| conversations | a direct conversation stays between its two, and two users share one; only an admin decides about a group, and keeps the role until leaving |
| polls | a vote counts as if it were one step: one answer each where only one is allowed; the tally on the page is the one in the database |
| presence across processes | whoever is connected, always to one process, is in `online_users`, whoever is there is connected somewhere, and a page that was told of everything shows it |
| calls | no camera is on unseen, but for hang-ups that come before it is granted (section 7); both pages agree on whether there is a call and with whom; a hang-up is heard |

## 3. Modules

`MC*` modules instantiate the others for TLC, `*Proofs` modules hold the theorems.

| module | models | composition |
|---|---|---|
| `Fanout` | what the engine promises: an atomic broadcast to sessions that join, read, leave | abstract; `Hub` implements it |
| `Hub` | one process: hub goroutine, subscriber, ticker, both pumps of each connection | `INSTANCE Fanout` with a refinement mapping |
| `Room` | one conversation: rows, the hubs that write and publish, one page that loads and follows | stands on `Fanout`: its queue to the page is a served session |
| `Accounts` | requests of the account API, statement by statement | alone |
| `Groups` | requests about conversations and membership | alone |
| `Ballot` | what polls promise: a vote is one step | abstract; `Polls` implements it |
| `Polls` | hubs and API requests that make polls and vote, the events, and the cards of one page | `INSTANCE Ballot` with a refinement mapping |
| `Presence` | several processes over one `online_users`, and a page that shows it | `Hub`'s client map, reduced to the number of connections, once per process |
| `Calls` | the functions and signals of calls on several pages | signals pass the hubs as `Hub` and `Fanout` have them: in the order of their sender, or skipped |

**Fanout.**  `queue[s]` is what session *s* was sent and has not read.  `Broadcast` appends to the queue of
every member at once, `Leave` ends a session and may lose its newest unread messages, `Crash` ends all.

**Hub.**  The state is that of the Go program: `clients` is `Hub.clients`, `send[c]` and `closed` are the
channel `Client.send`, `held[c]` is the frame `writePump` writes, `reader[c]` and `writer[c]` are the places of
the pumps, `hubPc`/`hubConn` the place of `Hub.Run` and the client in its hands, `loop[g]`, `todo[g]`, `at[g]` the
place of goroutine *g* in a loop over the map (`broadcastLocal` for subscriber and ticker, `sendToUser` for
subscriber and hub), `inbox`, `online`, `lastSeen` what Redis and the database keep.  An action is what a
goroutine does between two points where another may act on it: `HubTakeRegister`, then `HubRegister`
(`h.mu.Lock` and the insertion), then `HubOnline` (`SetUserOnline`, `Publish`); `LoopFull`, `LoopClose`,
`LoopDelete` are the three steps of dropping a slow client, because two loops hold the read lock together.
A write to the map beside another loop is a data race: `LoopDelete` lets the runtime abort or not, and
the other loop visit the deleted client or not.  `Kill` and `Restart` lose memory and connections and
keep Redis and the database.  Simplifications: `writePump` takes the first message and those queued behind
it in one step; the pumps start with the hand-off to the hub; `SetUserOnline` with its `Publish`, and
`SetUserOffline`, `UpdateLastSeen` and `Publish`, are one step each in which every call may fail on its own;
the socket is closed with the hand-off of the unregistration.  `main` exits without Redis or
database, so the `nil` branches of the hub do not occur.

**Room.**  `rows` are the rows of `messages` with their reactions, `work[h]` the event hub *h* has prepared
and not yet published, `bus` the events on their way to the page, `feed` its bubbles, `load[i]`/`snap[i]` call
*i* of `loadMessages` between its awaits.  `Post`, `Edit`, `DeleteForAll`, `React`, `Read`, `HideForMe` are the
branches of `Run`'s `broadcast` case: one database call, then the event, which is published whether the call
worked or not except where the code returns.  Anybody may send any of them: an edit or a deletion by
somebody other than the author changes no row (`Own`) and is published.  `ClearHistory` is a
request to the API, which the page has no button for.  `Expire` is the timer and the cleaner's pass.  `Ask`,
`Answer`, `Clear`, `Render` are the awaits of `loadMessages`; `Follow` is `ws.onmessage`.  `clean` is a history
variable: the page began to load with nothing under way, and has since missed no event, been told of no
change that was not made, and had nothing happen during a load that the load cannot find (`Found`): edits,
deletions, reactions and reads before its query are fine, and so are withdrawals at any time; a message posted
during the load, a change behind its query and a second load are not.  `Ascending` is the `ORDER BY`: what the query sorts is a set, and the result its only list in
order.  A conversation is shorter than the page limit of 50, order of ids is order of
creation, and the second socket that `sendMessage` may open is left out.

**Accounts.**  `req[r]` is what goroutine *r* has read and which statement comes next; a statement is a
step, and every statement may fail (`MayFail`): a SELECT that fails is taken for no row, a failing DELETE or INSERT
of a code is passed over, as in the code.  Codes and passwords are known by the number of the request that made them.
`latest`, `proved`, `failed` (codes whose own INSERT or DELETE failed) and `answered` (how many requests had come when
a code was first used up) are history variables.  The two SELECTs of the Google look-up are one step.

**Groups.**  `convs` joins `conversations` and `conversation_members`.  Handlers that read and then write
(`DirectFind`/`DirectCreate`, `AddLook`/`AddWrite`, `RemoveLook`/`RemoveWrite`) are two steps, a transaction or a
single INSERT is one, and any second step may fail; that a SELECT in front fails is left out (section 7).  `JoinGroupByInvite`
reads what never changes, so it is one step.  `founders` is, for a direct conversation, a history variable.

**Polls.**  `polls` and `votes` are the tables, `work[r]` is what goroutine *r* (a hub or an API request) has read
and which statement comes next.  `Clear` (SELECT `multiple_answers` and DELETE), `Count`, `Write`, `Tally` are the
statements of `VotePoll`; those whose error is not looked at may fail and go on (`Unheard`).  A vote is for an option
of the poll itself, the only ones the page offers; the table's foreign key asks for less (`db.go:306-311`).  `Save`,
`CreatePoll`, `CreateFails` are the branch `poll_create`, `Publish` the event, `Follow` the page, which was open
before.  `crossed` (two votes of one user in one poll have overlapped), `failed` and `via` are history.

*Ballot and the mapping.*  In `Ballot` a vote is one step.  `Polls` maps the answers of a user whose vote is under way
to those there were when it began (`Given`), so that a vote takes effect with its last statement, `Write`;
`taken` is `cast`.  `ok` ends when a statement fails or two votes of one user overlap: from there nothing is promised.

**Presence.**  `conns[p][u]` is the number of clients in the map of process *p*, `hub[p]` what its hub is doing:
`Register`/`Unregister` change the map, `Add`/`Remove` call Redis, `Tell` publishes, each a step, each call may
fail.  `Drop` is `broadcastLocal` deleting a slow client without a word, `Kill` the end of a process.  On
the page, `fetch[i]` are calls of `loadConversations`, asked (`Ask`, with every presence event), answered by
`GetOnlineUserIDs` (`Answer`) and shown (`Render`) in any order; `dots` and `listed` are what is shown and
the objects behind it, `open`, `shared` and `header` the open conversation, whose object is one of the list
until the list is replaced.  `ghosts`, `missing`, `homes`, `lost`, `latest`, `fresh` are history: what the code
cannot know, and the properties except.

**Calls.**  `job[u][k]` is a call of `startCall` or `answerCall` and the await it is in; `line[u]` is
`localStream` with `peerConnection`, known by a number, `live[u]` those not stopped, `offered` and `talk` the state of
the connection.  `Start`, `Accept`, `HangUp`, `Choose` are buttons; `Grant`, `GrantLate`, `Refuse`, `Describe`,
`Offer`, `Answer`, `Throw`, `Stuck` are the browser's answers, in any order with `Receive`, which is `ws.onmessage`,
and `Skip`, a signal that a full channel skips.  `incomingOffer` and the open conversation are read again after
each await, as in the code.  `hasty[u]` is history: *u* hung up while `startCall` waited for the camera.  `Calm`
restricts the users, not the program: see section 4.

## 4. Runs

Twelve runs; three of them show that the code does not do what it or its documentation says (section 7).

| run | bounds | asks |
|---|---|---|
| `hub_devices` | one user, two devices, channel of 1, two messages | Is the fan-out an atomic broadcast?  Do presence and last_seen count devices right?  Can a slow client panic the process? |
| `hub_faults` | the same with the ticker, failing calls, kill and restart | Are ended and closed clients gone from the map, whatever happens? |
| `hub_live` | one device, ticker, delete-for-me; fair goroutines | Is everybody heard, served, let go? |
| `hub_panic` | one notice | violation |
| `room_follow` | one process, two users who edit and delete their own and each other's messages, three operations, two loads that may overlap, all failures; the first message has a timer | Does the page converge?  Does anything come back? |
| `room_erased` | one process, one load, nothing fails | violation |
| `accounts` | two names, two addresses, four requests, two at a time, a registration alone; any statement fails | Are confirmed accounts kept and proved?  Does the last code work?  When does one work twice? |
| `accounts_race` | three requests, no restriction, nothing fails | violation |
| `groups` | three users, two requests at a time, two conversations | Do conversations stay private and single, groups led by their creators? |
| `polls` | one poll of either kind, three options, two users, a hub and an API request, no vote begun after two are written | Is a vote as good as one step, and until when?  Does the page show the table's tally? |
| `presence` | one user, two processes, three connections, two loads at once; drops, kills, failing calls | Who may be wrongly online or offline?  Does the page follow? |
| `calls` | two users, three calls one after the other, room for two functions at once on a page; fair delivery | Is a camera ever on unseen?  Do the pages agree?  Is a hang-up heard? |

Why the bounds are enough.  *Hub*: the interesting event is a channel that is full, and one slot is full
after one message where the code's 1024 are full after 1024; nothing in the code compares two lengths
beyond that.  Two devices are the first and the last connection of a user, and a client that is dropped
while another is not.  Two messages are one that fits and one that does not.  The theorems of section 6
hold for any capacity, any number of users, clients and messages.  *Room*: a lost update takes a message,
a change and a load; the third operation lets a deletion, a reaction or a second message race both.
*Accounts*: four requests allow to register, verify, and register anew or ask for a code and use an older one, or to
register and use one code three times.  *Groups*: with two conversations and no bound on requests, any sequence of joining, adding, leaving and
starting over occurs.  *Polls*: answers of different polls and users touch different rows, so one poll, two users
and two goroutines have every overlap there is; three options tell a vote that replaces from one that adds.
A third vote may be under way when the second is written.  *Presence*: users touch different members of the set and
are told apart in the list only, so one user suffices for everything but the size of the list; three connections
are two at one process and one at another.  The theorems hold for any number of each.  *Calls*: three calls are one each
way and one on top of what a hasty hang-up has left.

*The environment of `calls`.*  `Calm` says that calls follow each other: nobody presses a call button while anybody sees a
call, a function is under way or a signal is on its way.  The page has no such guard.  So two offers never cross,
and two functions are never under way on one page at once; nothing here is claimed of either.  Everything else is free:
refused and late cameras, hang-ups by either at any time, before the camera is granted or later, answers and ends that
cross or are skipped, answers of the browser in any order.  Without `Calm` the code does not keep its promises
(section 7); `TypeOK` holds without it.  `CameraIsShown` exempts the one case left in which the code breaks it: users
who ever hung up while `startCall` waited for the camera.

`Quiet` steps mark the states in which a system may stop, so every run checks for deadlock.  Symmetry is
used where the constants are interchangeable and no liveness is checked: names, addresses, requests
and users, and the two calls of `loadMessages`.

## 5. Fairness

`hub_live` and `calls` need it.  In `hub_live`, `FairSpec` says that goroutines run: weak fairness of the hub's own steps, of each
loop over the clients, of each `readPump` that has an error to notice (the 60-second pong deadline ends
a read on a lost connection) and of each `writePump`.  Strong fairness is asked where a goroutine competes
for something that is free again and again: the hand-offs to the hub's `select`, which picks among
ready cases at random, and the read lock, which Go's `RWMutex` does not starve.  Nothing is assumed of peers,
of failures, of the timer, of kills or of restarts.

In `calls`, `FairSpec` asks weak fairness of `Receive` only: a signal on its way arrives, or is skipped, which is what
`hub_live` shows of the engine.  Neither the users nor the browser have to do anything: `HangUpIsHeard` allows for
a page that waits for its camera for ever.

## 6. Theorems

`HubProofs`, for any users, clients, capacity and messages; every failure, kill and restart is
allowed except where a theorem's hypothesis says otherwise:

* `TypeCorrect`.
* `NoClosedClients`: `RegisteredOpen`.  It is not inductive.  A loop also reaches clients it has copied
  into `todo` or holds in `at`, the hub one it has in hand, and a client object that is not yet used must be open
  and in nobody's list.  `MapInv` adds these: every client is in the entry of its own user
  (`OwnEntry`), the hub's loop drops nobody (`HubLoops`), the client being inserted has a reader that cannot
  end before (`InHand`), an unused client is untouched (`FreshUntouched`).
* `EndedAreRemoved`: `EndedIsRemoved`, from `MapInv` and its form for a client's own entry (`EndedInHand`).
* `ConnectedAreOnline`: while calls to Redis work, `ConnectedIsOnline`.  The strengthening is that the hub
  keeps the lock from the removal of the last client to `SetUserOffline` (`OfflineEmpty`).
* `OfflineAreStamped`: if moreover the process is not killed, `OfflineIsStamped`, from the same invariant and
  `SeenInv`: whoever was registered is online or stamped, or the hub is about to put them online.
* `OneLoopNoPanic`: a subscriber that is alone (no ticker, `MaxExpired = 0`, and no delete-for-me)
  cannot panic.  With `hub_panic`, which needs only one more
  goroutine under the read lock, this says exactly what the panic takes.

* `HubIsFanout`: `RefinesFanout`.  `broadcastLocal` visits the clients one by one while pumps run and
  connections come and go, yet the step in which the subscriber takes a message for all maps to `Broadcast` at once:
  what is still in `todo` counts as sent (`Pending`).  An insertion maps to `Join`, a flush that
  carries a broadcast to `Deliver`, a removal to `Leave`, the end of the process to `Crash`; handing a
  copy to a client, notices and signals stutter.  On top of `MapInv` this takes `StreamInv`: a subscriber that is idle owes
  nobody anything, frames are in the hands only of a writer that flushes, an unused client has an empty stream, and a
  loop visits only clients that are registered or whose channel is closed.  The broadcasts of two
  queues one behind the other are those of both (`BroadcastsCat`), by the least counterexample.
* `HubIsGapless`: the stream of a registered client has no hole, from `HubIsFanout` and `ServedIsGapless`.

`FanoutProofs`: `ServedIsGapless`, for any number of sessions: what a member has not read is a gapless run of
broadcasts up to the newest.

`GroupsProofs`, for any users, requests and conversations: `GroupsTypeCorrect`, `DirectsArePrivate`,
`OnlyFoundersLead`, `LeadIsGivenUp`, `DirectsAreFew`.  `DirectIsPrivate` needs that a request about to add somebody is about
a group, because it read an admin's row and only groups have one (`AddsToGroup` with `AdminIsFounder`); the
lead needs that who removes somebody else founded the group (`ByAdmin`).  `DirectsPerPair` counts the conversations
two users share together with the requests about to make one: a request begins to make one only when there
is none, and then the count is at most that of the requests.

`PollsProofs`, for any users, options, polls, hubs and API requests: `PollsTypeCorrect`; `AnswersAreFew`
(`AnswersPerVoter`: a vote begins by deleting its user's answers, and from then on only the votes that are under way
can add one each); `PollsAreBallots`, the refinement, and `AnswersStayOne` from it.  The invariant behind the
refinement (`OneVote`) says that while nothing failed or overlapped, a user has at most one vote under way in a poll and
the table still has what that vote has left and read there.
`TalliesAreShown` (`TallyShown`): while one process handles a poll, the last word about it on the bus, or the card if
there is none, is what the table says, unless that process is at work on it; and the page has the card or hears of the
poll before it hears of a vote (`Told`, `Started`).

`PresenceProofs`, for any users, processes and loads: `PresenceTypeCorrect`; `OnlineAreConnected`
(`OnlineIsSomewhere`, inductive with the types); `StickyAreOnline` (`StickyIsOnline`: a process speaks only of
users who have connected to it, and takes one out only when it has no connection left, `AtHome`); `ListIsLoaded`
(`SidebarFollows`: the answer to the last request holds the set, unless a change is still to be said, `Loaded`);
`HeaderIsTold` (`HeaderFollows`: the last word about the user of the header, on its way or arrived, is what the set is,
unless the one hub that speaks of this user is between a change and its word, `Right`).

`AccountsProofs`, for any names, addresses, requests and codes, and whatever statements fail: `AccountsTypeCorrect`;
`CodesUsedTogether` (`UsedTogether`: once a request with a code was answered the code is gone unless its DELETE failed,
`UsedIsGone`, and nothing inserts it again, because a request inserts a code of its own number, `CodesMade`); `LastCodeWorks`
(`LatestWorks`, with what a request that is about to insert holds); and, as long
as no other request overlaps a registration (`RegisterAlone`), `ConfirmedAreProved` (`VerifiedIsProved`) and
`ConfirmedAreKept` (`ConfirmedIsKept`): what a registration or a Google sign-in has read of its row
still holds when it writes (`HandHolds`).  `accounts_race` shows that the condition is needed.

`CallsProofs`, for any users and slots: `CallsTypeCorrect`; and, as long as calls follow each other (`Calm`),
`CamerasAreShown` (`CameraIsShown`): hanging up is allowed at any time, and only users who ever did so while `startCall`
waited for the camera (`hasty`) are excepted, each by themselves.  The invariant says of each page that one function at
a time is under way and, unless its user was hasty, has no line before the camera is granted (`PageInv`), that while
`startCall` is under way nobody else sees or says anything until the offer is out or its user has been hasty
(`StartsAlone`, `Holds`), and that the offer is the first thing its receiver hears from whoever was not hasty, and finds
it at rest (`OfferComes`).
For two users (`TwoUsers`; section 7 says what a third does), as long as neither was hasty (`Patient`), `CallersAgree`
(`PagesAgree`); the run checks `PagesAgree` without the latter condition.  It speaks of pages at rest
with nothing on its way, so its invariant `AgreeInv` has to say what each signal on its way means (`PairInv`): behind
`call_end` there is a page in no call; ahead of an offer there is one that waits for the answer or has hung up, and while
it travels nobody answers; whoever has been sent an answer and still waits is talked to; and whom a page talks to, or could
answer, waits, talks back or has hung up.  That a page that leaves always says so (`LeaveAgrees`) needs that whoever shows a call
knows whom to tell (`SelfInv`).

`RoomProofs`, for any users, emojis, messages, hubs and loads: `RoomTypeCorrect`, and `WithdrawnNeverReturns`
(`NeverReturns`): a bubble, a loaded history and an event on its way are each of a message that was there a step
before or was just posted, and `History` has no withdrawn rows.  And for one hub, `Hubs = {hub}`, which is needed
(section 7, two processes that publish in the other order), with any losses, failures and drops, and edits and
deletions by anybody:

* `CleanPageInOrder` (`InOrder`), `CleanPageTicked` (`ReadIsTicked`), `CleanPageConverges` (`Converged`).

None of the three is inductive, because they speak of a page with nothing on its way to it.  `Told(rows, feed, Pending)`
is what they follow from: it relates the rows, the bubbles, and the events the page has yet to handle.  A message that
stays is on the page or announced (`Present`); the last event that tells its text, or its bubble if there is none, tells
the text it has (`TextsTold`), and so for its counts (`CountsTold`); a deletion is on its way or done (`DeletionsTold`);
blue ticks are there, or an event that makes them, behind the one that announces the message (`ReadsTold`); and the
event of a new message comes behind all that is of earlier ones (`NewComesFirst`).  What a hub does appends an event
and keeps this (`HandledTold`, `PostedTold`), hiding and expiry keep it without one (`WithdrawnTold`), handling the
next event keeps it of the rest (`NextTold`), and the history has it of no event (`HistoryTold`).  During a load of a clean
page the feed is of no account; what is on its way then announces no message and is what the rows say
(`EventsTrue`), so that the history the load found and these events together have the relation (`MergeTold`,
`CleanLoad`).  Two pages that were told of all, with nothing pending, show
the same (`StandingIs`): both list the messages that stay by increasing ids, and there is one such list (`ClimbsEqual`).
That there is one at all (`ListExists`) is an induction on numbers, done by the least counterexample.

Assumptions: those named `*Assumption` in the modules, which TLC evaluates in the runs, `RegisterAlone` and
`Calm` where a theorem names them (they restrict the users, not the code), and `Reqs` finite in `Groups`.  Only model-checked: the four
properties that need fairness, `ServesFanout`, `Reaped`, `Heard` and `HangUpIsHeard`; liveness is beyond the prover.

## 7. Where code and intent differ

`PROJECT.json` quotes the lines of these three, each shown by a run.

* `hub_panic`: two goroutines drop the same slow client under the read lock, and the process panics.
* `room_erased`: an edit that changed no row is published, and a deleted message shows text again.
* `accounts_race`: a registration writes to an account that was confirmed after it looked.

Known and not kept as runs, each a small step from a module here:

* A client that `broadcastLocal` dropped is not in the map when it is unregistered (`hub.go:127`), so its user stays in
  `online_users`: the `ghosts` of `Presence`, and of `Hub` with one message and a full channel.
* `writePump` joins queued messages into one frame (`client.go:95`), which the page parses as one JSON text
  (`index.html:953`): `held` in `Hub` gets two messages as soon as two are queued, and both are lost.
* Two processes that write and then publish (`hub.go:240`), or count reactions between two writes (`db.go:1062`), may
  publish in the other order: with `Hubs` of two, `Converged` and, across processes, the tally of a poll are violated.
* An edit or a deletion by somebody other than the author changes no row (`db.go:982`, `db.go:1002`) and is published all the
  same (`hub.go:215-242`): open pages show it until they load again.  The page has its buttons on own messages only.  `Converged`
  exempts pages that were told of a change that was not made.
* A message posted while `loadMessages` waits, or a change behind its query, is lost with the bubbles that it clears
  (`index.html:1400`) or shown twice, and two loads that overlap show everything twice: `Converged` and `InOrder` exempt the
  page until it is loaded with nothing under way.
* Of two loads of the list of conversations the older may be answered last (`index.html:1159`), and the list stays old:
  `SidebarFollows` exempts a page whose older answer came last (`latest`) until it asks again.
* A code whose DELETE failed (`db.go:409`) was accepted and stays until it expires; a code whose INSERT failed is mailed
  though it does not work (`handlers.go:75, 151, 259`); `UsedTogether` and `LatestWorks` exempt these (`failed`).  Two requests
  with one code that overlap may both be accepted (`db.go:402-409`).
* A SELECT that fails is taken for no direct conversation (`db.go:575`), and makes a second one.
* A user connected to two processes is taken out of `online_users` when the connection to one ends (`hub.go:133`):
  without `homes[u] = {p}`, `StickyIsOnline` is violated.  nginx's `ip_hash` avoids it for one network address.
* The tally published with a vote carries the voter's `has_voted` (`hub.go:206`), and every page marks it as
  its own (`index.html:1522`).
* If `CreatePoll` fails the message stays, without a poll (`hub.go:186`).
* Whoever hangs up while `startCall` waits for the camera (`index.html:1979`) has it on afterwards, under a hidden
  overlay, and the offer is sent: without `hasty`, `Calls` violates `CameraIsShown` in four steps.
* Two users who call each other at once, or a call that comes in during another (`index.html:2001`), overwrite each
  other's offers and lines: without `Calm`, `PagesAgree` and `CameraIsShown` are violated; a line that was overwritten
  stays on.
* `call_end` goes to the open conversation rather than to the caller (`index.html:2127`), and ends whatever call its
  receiver is in (`index.html:969`); an offer that arrives during a call takes its place.  With three users
  neither `PagesAgree` nor `HangUpIsHeard` holds.
* `loadMessages` does not look whether its conversation is still open (`index.html:1402`).
* The notice of an expired message carries no conversation id, so the message stays on open
  pages (`hub.go:94`, `index.html:983`); `delete_message_for_me` has no branch in the page (`index.html:987`), so the
  bubble stays until the conversation is loaded again.
* Two overlapping requests of two users make two direct conversations (`DirectsPerPair` allows as many as
  requests overlap); when its only admin leaves, a group has none for good (`AdminIsFounder`).

## 8. Not modelled

Pin, mute, archive and wallpaper are flags in a member's own row; stories, call log, gallery, search, starred list
and profile are single statements without interplay.  Tokens, hashing, mail, uploads and link previews compute or
do input and output.  Of start-up only kill and restart matter to the rest.  Of calls, screen sharing, muting and ICE
candidates are left out: they change no state that the others read.  Of the feed, the page limit with 'load
older', the switch to another conversation during a load and a second socket are left out.

## 9. Plan

Done, in this order: `Fanout`, `Hub`, `HubProofs`, `Room`, `Accounts`, `Groups`, `GroupsProofs`, `FanoutProofs`, `Ballot`,
`Polls`, `PollsProofs`, `Presence`, `PresenceProofs`, `AccountsProofs`, `Calls`,
`CallsProofs`, `RoomProofs`.

Next: `Room` with a second conversation and the page limit.
