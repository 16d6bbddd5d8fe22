-------------------------------- MODULE Hub --------------------------------
(***************************************************************************)
(* The real-time engine of one server process: the hub goroutine, the      *)
(* Redis subscriber goroutine, the expiry ticker goroutine, and the read   *)
(* and write pumps of every websocket connection (internal/chat/hub.go,    *)
(* internal/chat/client.go, internal/broker/redis.go).  One action is what *)
(* a goroutine does between two points where another may act upon it.      *)
(***************************************************************************)
EXTENDS Naturals, Sequences

CONSTANTS
  Users,         \* user ids
  Conns,         \* Client objects; each is used for one websocket connection
  UserOf,        \* UserOf[c]: the user whose token opened c
  Everyone,      \* addressee of a message that broadcastLocal sends to all
  NoConn,        \* no client
  SendCap,       \* capacity of a client's send channel (1024 in the code)
  MaxSent,       \* bound: messages read from sockets
  MaxExpired,    \* bound: disappearing messages the ticker finds expired
  DeleteForMe,   \* whether peers send delete_message_for_me
  MayFail,       \* whether calls to Redis and to the database may fail
  MayCrash       \* whether the process may be killed and started again

ASSUME HubAssumption ==
  /\ UserOf \in [Conns -> Users]
  /\ Everyone \notin Users
  /\ NoConn \notin Conns
  /\ SendCap \in Nat \ {0}
  /\ MaxSent \in Nat
  /\ MaxExpired \in Nat
  /\ {DeleteForMe, MayFail, MayCrash} \subseteq BOOLEAN

VARIABLES
  reader,    \* reader[c]: where ServeWs, then readPump, is
  writer,    \* writer[c]: where writePump is
  sock,      \* sock[c]: the TCP connection
  send,      \* send[c]: the buffered channel Client.send
  closed,    \* the clients whose channel was closed
  held,      \* held[c]: the frame writePump is writing
  clients,   \* clients[u]: the Hub.clients entry of u, {} when there is none
  hubPc,     \* where Hub.Run is
  hubConn,   \* the client Hub.Run is registering or unregistering
  loop,      \* loop[g]: where goroutine g is in a loop over clients
  todo,      \* todo[g]: clients its loop has not visited
  at,        \* at[g]: the client it found full
  msgNo,     \* number of the broadcast the subscriber delivers, 0 for a signal
  fanned,    \* broadcasts the subscriber has received
  inbox,     \* Redis pub/sub messages on their way to this process
  online,    \* the Redis set online_users
  lastSeen,  \* users whose last_seen was stamped after their last session
  status,    \* of the process
  sent,      \* number of messages read from sockets
  expired    \* number of messages found expired

procVars == <<reader, writer, sock>>
chanVars == <<send, closed, held>>
hubVars  == <<clients, hubPc, hubConn>>
loopVars == <<loop, todo, at, msgNo, fanned>>
busVars  == <<inbox, online, lastSeen>>
envVars  == <<status, sent, expired>>
vars == <<procVars, chanVars, hubVars, loopVars, busVars, envVars>>

Loops == {"sub", "tick", "hub"}

\* What a published message may be for: one user (a call signal), or all.
Addressees == Users \cup {Everyone}

TypeOK ==
  /\ reader \in [Conns -> {"none", "register", "read", "broadcast", "unregister", "done"}]
  /\ writer \in [Conns -> {"none", "run", "flush", "done"}]
  /\ sock \in [Conns -> {"none", "open", "gone", "shut"}]
  /\ send \in [Conns -> Seq(Nat)]
  /\ closed \in SUBSET Conns
  /\ held \in [Conns -> Seq(Nat)]
  /\ clients \in [Users -> SUBSET Conns]
  /\ hubPc \in {"select", "lockReg", "online", "lockUnreg", "offline", "sendToUser"}
  /\ hubConn \in Conns \cup {NoConn}
  /\ hubPc \notin {"select", "sendToUser"} => hubConn \in Conns
  /\ loop \in [Loops -> {"idle", "iter", "full", "closed"}]
  /\ todo \in [Loops -> SUBSET Conns]
  /\ at \in [Loops -> Conns \cup {NoConn}]
  /\ \A g \in Loops : loop[g] \in {"full", "closed"} => at[g] \in Conns
  /\ msgNo \in Nat
  /\ fanned \in Nat
  /\ inbox \in Seq(Addressees)
  /\ online \in SUBSET Users
  /\ lastSeen \in SUBSET Users
  /\ status \in {"up", "panicked", "killed"}
  /\ sent \in 0 .. MaxSent
  /\ expired \in 0 .. MaxExpired

Init ==
  /\ reader = [c \in Conns |-> "none"]
  /\ writer = [c \in Conns |-> "none"]
  /\ sock = [c \in Conns |-> "none"]
  /\ send = [c \in Conns |-> <<>>]
  /\ closed = {}
  /\ held = [c \in Conns |-> <<>>]
  /\ clients = [u \in Users |-> {}]
  /\ hubPc = "select" /\ hubConn = NoConn
  /\ loop = [g \in Loops |-> "idle"]
  /\ todo = [g \in Loops |-> {}]
  /\ at = [g \in Loops |-> NoConn]
  /\ msgNo = 0 /\ fanned = 0
  /\ inbox = <<>> /\ online = {} /\ lastSeen = {}
  /\ status = "up" /\ sent = 0 /\ expired = 0
-----------------------------------------------------------------------------
(* ServeWs and readPump.                                                   *)

\* The token is valid and the upgrade succeeded; ServeWs offers the client.
ServeWs(c) ==
  /\ reader[c] = "none"
  /\ reader' = [reader EXCEPT ![c] = "register"]
  /\ sock' = [sock EXCEPT ![c] = "open"]
  /\ UNCHANGED <<writer, chanVars, hubVars, loopVars, busVars, envVars>>

\* A well-formed message arrives; readPump offers it to the hub.
PeerSend(c) ==
  /\ reader[c] = "read" /\ sock[c] = "open" /\ sent < MaxSent
  /\ reader' = [reader EXCEPT ![c] = "broadcast"]
  /\ sent' = sent + 1
  /\ UNCHANGED <<writer, sock, chanVars, hubVars, loopVars, busVars, status, expired>>

\* The peer closes, vanishes, or stalls beyond pongWait or writeWait.
PeerGone(c) ==
  /\ sock[c] = "open"
  /\ sock' = [sock EXCEPT ![c] = "gone"]
  /\ UNCHANGED <<reader, writer, chanVars, hubVars, loopVars, busVars, envVars>>

\* ReadMessage fails; the deferred function offers the client for removal.
ReadError(c) ==
  /\ reader[c] = "read" /\ sock[c] # "open"
  /\ reader' = [reader EXCEPT ![c] = "unregister"]
  /\ UNCHANGED <<writer, sock, chanVars, hubVars, loopVars, busVars, envVars>>
-----------------------------------------------------------------------------
(* writePump.                                                              *)

\* The first message and the n = len(c.send) queued behind it make one frame.
WriterTake(c) ==
  /\ writer[c] = "run" /\ send[c] # <<>>
  /\ held' = [held EXCEPT ![c] = send[c]]
  /\ send' = [send EXCEPT ![c] = <<>>]
  /\ writer' = [writer EXCEPT ![c] = "flush"]
  /\ UNCHANGED <<reader, sock, closed, hubVars, loopVars, busVars, envVars>>

\* w.Close() sends the frame.
WriterFlush(c) ==
  /\ writer[c] = "flush" /\ sock[c] # "shut"
  /\ held' = [held EXCEPT ![c] = <<>>]
  /\ writer' = [writer EXCEPT ![c] = "run"]
  /\ UNCHANGED <<reader, sock, send, closed, hubVars, loopVars, busVars, envVars>>

\* NextWriter, Close or a ping fails, and what is held is never sent; or the
\* channel is closed and empty.  writePump closes the connection and ends.
WriterEnd(c) ==
  /\ \/ writer[c] \in {"run", "flush"} /\ sock[c] # "open"
     \/ writer[c] = "run" /\ send[c] = <<>> /\ c \in closed
  /\ writer' = [writer EXCEPT ![c] = "done"]
  /\ sock' = [sock EXCEPT ![c] = "shut"]
  /\ UNCHANGED <<reader, chanVars, hubVars, loopVars, busVars, envVars>>
-----------------------------------------------------------------------------
(* Hub.Run: registration and removal.                                      *)

Registered == UNION {clients[u] : u \in Users}

\* Mutant: clients are inserted and deleted without taking h.mu.
LockFreeAlways == TRUE

\* A goroutine in a loop over clients holds h.mu for reading.
LockFree == \A g \in Loops : loop[g] = "idle"

\* delete(userClients, c) on the entry of c's user.  The mutant forgets it.
WithoutNothing(c) == clients

Without(c) == [clients EXCEPT ![UserOf[c]] = @ \ {c}]

\* Mutant: the client in hand is forgotten too early.
HubGotoForgets(pc) == hubPc' = pc /\ hubConn' = NoConn

\* Hub.Run goes on to pc; back in its select it has no client in hand.
HubGoto(pc) == /\ hubPc' = pc
               /\ hubConn' = IF pc = "select" THEN NoConn ELSE hubConn

\* client := <-h.register; ServeWs starts the pumps.
HubTakeRegister(c) ==
  /\ hubPc = "select" /\ reader[c] = "register"
  /\ reader' = [reader EXCEPT ![c] = "read"]
  /\ writer' = [writer EXCEPT ![c] = "run"]
  /\ hubPc' = "lockReg" /\ hubConn' = c
  /\ UNCHANGED <<sock, chanVars, clients, loopVars, busVars, envVars>>

User == UserOf[hubConn]

\* isFirstConn.
FirstConn == clients[User] \subseteq {hubConn}

\* Lock, insert, unlock.
HubRegister ==
  /\ hubPc = "lockReg" /\ LockFree
  /\ clients' = [clients EXCEPT ![User] = @ \cup {hubConn}]
  /\ lastSeen' = lastSeen \ {User}
  /\ HubGoto(IF FirstConn THEN "online" ELSE "select")
  /\ UNCHANGED <<procVars, chanVars, loopVars, inbox, online, envVars>>

\* SetUserOnline, and Publish on chat:presence.  Errors are ignored.
HubOnline ==
  /\ hubPc = "online"
  /\ online' \in {online \cup {User}} \cup IF MayFail THEN {online} ELSE {}
  /\ inbox' \in {Append(inbox, Everyone)} \cup IF MayFail THEN {inbox} ELSE {}
  /\ HubGoto("select")
  /\ UNCHANGED <<procVars, chanVars, clients, loopVars, lastSeen, envVars>>

\* client := <-h.unregister; readPump closes the connection and ends.
HubTakeUnregister(c) ==
  /\ hubPc = "select" /\ reader[c] = "unregister"
  /\ reader' = [reader EXCEPT ![c] = "done"]
  /\ sock' = [sock EXCEPT ![c] = "shut"]
  /\ hubPc' = "lockUnreg" /\ hubConn' = c
  /\ UNCHANGED <<writer, chanVars, clients, loopVars, busVars, envVars>>

\* len(userClients) == 0 after the removal.  The mutant does not look.
LastAlways == TRUE

LastConn == Without(hubConn)[User] = {}

\* Lock.  The client is still registered: delete it and close its channel.
HubUnregister ==
  /\ hubPc = "lockUnreg" /\ LockFree
  /\ hubConn \in clients[User]
  /\ clients' = Without(hubConn)
  /\ closed' = closed \cup {hubConn}
  /\ status' = IF hubConn \in closed THEN "panicked" ELSE status
  /\ HubGoto(IF LastConn THEN "offline" ELSE "select")
  /\ UNCHANGED <<procVars, send, held, loopVars, busVars, sent, expired>>

\* broadcastLocal has dropped the client before: there is nothing to do.
HubUnregisterGone ==
  /\ hubPc = "lockUnreg" /\ LockFree
  /\ hubConn \notin clients[User]
  /\ HubGoto("select")
  /\ UNCHANGED <<procVars, chanVars, clients, loopVars, busVars, envVars>>

\* Mutant: last_seen is not updated.
StampedNever == lastSeen

Stamped == lastSeen \cup {User}

\* Still locked: SetUserOffline, UpdateLastSeen, Publish.  Errors are ignored.
HubOffline ==
  /\ hubPc = "offline"
  /\ online' \in {online \ {User}} \cup IF MayFail THEN {online} ELSE {}
  /\ lastSeen' \in {Stamped} \cup IF MayFail THEN {lastSeen} ELSE {}
  /\ inbox' \in {Append(inbox, Everyone)} \cup IF MayFail THEN {inbox} ELSE {}
  /\ HubGoto("select")
  /\ UNCHANGED <<procVars, chanVars, clients, loopVars, envVars>>
-----------------------------------------------------------------------------
(* Hub.Run: messages.  What the database makes of them is another module's. *)

\* msg := <-h.broadcast, published to the conversation or to the called user.
\* A message that cannot be saved is dropped, and so is one not published.
HubRelay(c) ==
  /\ hubPc = "select" /\ reader[c] = "broadcast"
  /\ reader' = [reader EXCEPT ![c] = "read"]
  /\ inbox' \in {Append(inbox, to) : to \in Addressees}
                   \cup IF MayFail THEN {inbox} ELSE {}
  /\ UNCHANGED <<writer, sock, chanVars, hubVars, loopVars, online, lastSeen, envVars>>

\* delete_message_for_me: the hub itself loops over the sender's clients.
HubDeleteForMe(c) ==
  /\ DeleteForMe
  /\ hubPc = "select" /\ reader[c] = "broadcast"
  /\ reader' = [reader EXCEPT ![c] = "read"]
  /\ hubPc' = "sendToUser"
  /\ loop' = [loop EXCEPT !["hub"] = "iter"]
  /\ todo' = [todo EXCEPT !["hub"] = clients[UserOf[c]]]
  /\ UNCHANGED <<writer, sock, chanVars, clients, hubConn, at, msgNo, fanned, busVars, envVars>>
-----------------------------------------------------------------------------
(* The loops of broadcastLocal and sendToUser, under h.mu.RLock().         *)

\* RWMutex admits no reader while a writer holds the lock or waits for it.
MayRLock == hubPc \notin {"lockReg", "lockUnreg", "offline"}

\* The subscriber hands broadcastLocal a message for all, or a call signal.
SubReceive ==
  /\ loop["sub"] = "idle" /\ MayRLock /\ inbox # <<>>
  /\ inbox' = Tail(inbox)
  /\ \/ /\ Head(inbox) = Everyone
        /\ fanned' = fanned + 1
        /\ msgNo' = fanned + 1
        /\ todo' = [todo EXCEPT !["sub"] = Registered]
     \/ /\ Head(inbox) \in Users
        /\ todo' = [todo EXCEPT !["sub"] = clients[Head(inbox)]]
        /\ UNCHANGED <<fanned, msgNo>>
  /\ loop' = [loop EXCEPT !["sub"] = "iter"]
  /\ UNCHANGED <<procVars, chanVars, hubVars, at, online, lastSeen, envVars>>

\* The ticker hands broadcastLocal the notice of an expired message.
TickReceive ==
  /\ loop["tick"] = "idle" /\ MayRLock /\ expired < MaxExpired
  /\ expired' = expired + 1
  /\ todo' = [todo EXCEPT !["tick"] = Registered]
  /\ loop' = [loop EXCEPT !["tick"] = "iter"]
  /\ UNCHANGED <<procVars, chanVars, hubVars, at, msgNo, fanned, busVars, status, sent>>

\* Mutant: broadcasts, too, are skipped where the channel is full.
ToAllSkips(g) == g = "tick"

\* The loop over all clients drops those that lag; the one over a user's does not.
ToAll(g) == g = "tick" \/ (g = "sub" /\ msgNo > 0)

\* Notices of the ticker and what goes to one user only are not numbered.
Number(g) == IF g = "sub" THEN msgNo ELSE 0

Full(c) == Len(send[c]) >= SendCap

\* select { case client.send <- data: default: }
LoopSend(g, c) ==
  /\ loop[g] = "iter" /\ c \in todo[g] \ closed
  /\ Full(c) => ~ToAll(g)
  /\ send' = IF Full(c) THEN send ELSE [send EXCEPT ![c] = Append(@, Number(g))]
  /\ todo' = [todo EXCEPT ![g] = @ \ {c}]
  /\ UNCHANGED <<procVars, closed, held, hubVars, loop, at, msgNo, fanned, busVars, envVars>>

\* default: the client is to be dropped.
LoopFull(g, c) ==
  /\ loop[g] = "iter" /\ c \in todo[g] \ closed
  /\ Full(c) /\ ToAll(g)
  /\ loop' = [loop EXCEPT ![g] = "full"]
  /\ at' = [at EXCEPT ![g] = c]
  /\ UNCHANGED <<procVars, chanVars, hubVars, todo, msgNo, fanned, busVars, envVars>>

\* Sending on a channel that another loop has closed panics.
LoopSendPanics(g, c) ==
  /\ loop[g] = "iter" /\ c \in todo[g] \cap closed
  /\ status' = "panicked"
  /\ UNCHANGED <<procVars, chanVars, hubVars, loopVars, busVars, sent, expired>>

\* close(client.send), which panics when another loop has closed it.
LoopClose(g) ==
  /\ loop[g] = "full"
  /\ closed' = closed \cup {at[g]}
  /\ status' = IF at[g] \in closed THEN "panicked" ELSE status
  /\ loop' = [loop EXCEPT ![g] = "closed"]
  /\ UNCHANGED <<procVars, send, held, hubVars, todo, at, msgNo, fanned, busVars, sent, expired>>

\* delete(userClients, client).  The runtime may notice that another loop uses
\* the map and abort; if not, that loop may or may not still visit the client.
LoopDelete(g) ==
  /\ loop[g] = "closed"
  /\ clients' = Without(at[g])
  /\ at' = [at EXCEPT ![g] = NoConn]
  /\ loop' = [loop EXCEPT ![g] = "iter"]
  /\ LET others == {h \in Loops \ {g} : loop[h] # "idle"}
     IN /\ \E miss \in SUBSET others :
             todo' = [h \in Loops |-> IF h \in {g} \cup miss THEN todo[h] \ {at[g]} ELSE todo[h]]
        /\ status' \in {status} \cup IF others = {} THEN {} ELSE {"panicked"}
  /\ UNCHANGED <<procVars, chanVars, hubPc, hubConn, msgNo, fanned, busVars, sent, expired>>

\* Mutant: the hub does not come back from sendToUser.
AfterLoopStuck(g) == hubPc

AfterLoop(g) == IF g = "hub" THEN "select" ELSE hubPc

\* All were visited: RUnlock.
LoopEnd(g) ==
  /\ loop[g] = "iter" /\ todo[g] = {}
  /\ loop' = [loop EXCEPT ![g] = "idle"]
  /\ msgNo' = IF g = "sub" THEN 0 ELSE msgNo
  /\ hubPc' = AfterLoop(g)
  /\ UNCHANGED <<procVars, chanVars, clients, hubConn, todo, at, fanned, busVars, envVars>>
-----------------------------------------------------------------------------
(* Failures, and the specification.                                        *)

\* Redis pub/sub keeps nothing for a subscriber that is slow or reconnecting.
LoseMessage ==
  /\ MayFail /\ inbox # <<>>
  /\ inbox' = Tail(inbox)
  /\ UNCHANGED <<procVars, chanVars, hubVars, loopVars, online, lastSeen, envVars>>

Kill ==
  /\ MayCrash
  /\ status' = "killed"
  /\ UNCHANGED <<procVars, chanVars, hubVars, loopVars, busVars, sent, expired>>

\* After f's state died with the process, an unused client object is unused still.
Lost(f, v) == [c \in Conns |-> IF reader[c] = "none" THEN f[c] ELSE v]

\* The process starts again: Redis and the database keep what they had.
Restart ==
  /\ MayCrash /\ status # "up"
  /\ status' = "up"
  /\ reader' = Lost(reader, "done")
  /\ writer' = Lost(writer, "done")
  /\ sock' = Lost(sock, "shut")
  /\ clients' = [u \in Users |-> {}]
  /\ hubPc' = "select" /\ hubConn' = NoConn
  /\ loop' = [g \in Loops |-> "idle"]
  /\ todo' = [g \in Loops |-> {}]
  /\ at' = [g \in Loops |-> NoConn]
  /\ msgNo' = 0 /\ inbox' = <<>>
  /\ UNCHANGED <<chanVars, fanned, online, lastSeen, sent, expired>>

Writer(c) == WriterTake(c) \/ WriterFlush(c) \/ WriterEnd(c)

HubStep == HubRegister \/ HubOnline \/ HubUnregister \/ HubUnregisterGone \/ HubOffline

HubMessage(c) == HubRelay(c) \/ HubDeleteForMe(c)

Loop(g) == \/ \E c \in Conns : LoopSend(g, c) \/ LoopFull(g, c) \/ LoopSendPanics(g, c)
           \/ LoopClose(g) \/ LoopDelete(g) \/ LoopEnd(g)

Step == \/ \E c \in Conns : \/ ServeWs(c) \/ PeerSend(c) \/ PeerGone(c) \/ ReadError(c)
                            \/ Writer(c)
                            \/ HubTakeRegister(c) \/ HubTakeUnregister(c) \/ HubMessage(c)
        \/ HubStep \/ SubReceive \/ TickReceive
        \/ \E g \in Loops : Loop(g)
        \/ LoseMessage \/ Kill

\* The system may stop only here: the process is dead for good, or every
\* connection has come and gone and no goroutine has anything to do.
Quiet == /\ \/ status # "up" /\ ~MayCrash
            \/ /\ status = "up" /\ hubPc = "select" /\ inbox = <<>> /\ LockFree
               /\ \A c \in Conns : reader[c] = "done" /\ writer[c] = "done"
         /\ UNCHANGED vars

Next == (status = "up" /\ Step) \/ Restart \/ Quiet

Spec == Init /\ [][Next]_vars

\* Every goroutine runs.  A hand-off that the hub's select can make again and
\* again, and a read lock that is free again and again, are taken in the end.
\* Nothing is assumed of peers, crashes or failures.
FairSpec ==
  /\ Spec
  /\ WF_vars(status = "up" /\ HubStep)
  /\ SF_vars(status = "up" /\ SubReceive)
  /\ \A g \in Loops : WF_vars(status = "up" /\ Loop(g))
  /\ \A c \in Conns :
       /\ WF_vars(status = "up" /\ ReadError(c))
       /\ WF_vars(status = "up" /\ Writer(c))
       /\ SF_vars(status = "up" /\ HubTakeRegister(c))
       /\ SF_vars(status = "up" /\ HubTakeUnregister(c))
       /\ SF_vars(status = "up" /\ HubMessage(c))
-----------------------------------------------------------------------------
(* Properties.                                                             *)

\* No goroutine panics and none corrupts the client map: a slow client never
\* takes the process down (close and delete in broadcastLocal).
NoPanic == status # "panicked"

\* A client that a loop or the hub may find in the map has an open channel,
\* except between close and delete of the loop that drops it.
RegisteredOpen ==
  status = "up" =>
    \A c \in Registered \cap closed : \E g \in Loops : loop[g] = "closed" /\ at[g] = c

\* A connected user is in online_users, unless the hub is just about to add it:
\* isFirstConn and len(userClients) == 0 count the devices of a user right,
\* whatever broadcastLocal removed meanwhile.
ConnectedIsOnline ==
  \A u \in Users : clients[u] # {} => u \in online \/ (hubPc = "online" /\ User = u)

\* Whoever has been connected and is not online has a last_seen stamped after
\* the last session ended.
OfflineIsStamped ==
  hubPc = "select" =>
    \A c \in Conns : reader[c] \notin {"none", "register"} => UserOf[c] \in online \cup lastSeen

\* A client whose readPump has ended is in no map, unless the hub still waits
\* for the lock to remove it: nothing is sent to it for ever.
EndedIsRemoved ==
  \A c \in Registered : reader[c] = "done" => hubPc = "lockUnreg" /\ hubConn = c

\* The sessions that are being served, as module Fanout knows them.
Members == IF status = "up" THEN Registered \ closed ELSE {}

\* The broadcast under way counts as sent to the members not visited yet.
Pending(c) == IF msgNo > 0 /\ c \in Members \cap todo["sub"] THEN <<msgNo>> ELSE <<>>

\* The broadcasts among the messages q, without the notices and signals.
Broadcasts(q) ==
  LET first[n \in 0 .. Len(q)] ==
        IF n = 0 THEN <<>>
        ELSE IF q[n] > 0 THEN Append(first[n - 1], q[n]) ELSE first[n - 1]
  IN first[Len(q)]

Unread(c) == Broadcasts(held[c] \o send[c]) \o Pending(c)

Abs == INSTANCE Fanout WITH Sessions <- Conns, count <- fanned, members <- Members,
                            queue <- [c \in Conns |-> Unread(c)]

\* The hub implements Fanout: a broadcast, though it visits the clients one by
\* one, reaches all members, and none is served a stream with a hole in it.
RefinesFanout == Abs!Spec

\* And the fairness of Fanout: a member is served its broadcasts, or is ended.
ServesFanout == Abs!FairSpec

\* Every goroutine lets go of a connection that is lost.
Reaped ==
  \A c \in Conns : sock[c] \in {"gone", "shut"} ~>
    \/ reader[c] = "done" /\ writer[c] = "done" /\ c \notin Registered
    \/ status # "up"

\* A connection that waits for the hub is heard.
Heard ==
  \A c \in Conns : reader[c] \in {"register", "broadcast"} ~>
    reader[c] \notin {"register", "broadcast"} \/ status # "up"
=============================================================================
