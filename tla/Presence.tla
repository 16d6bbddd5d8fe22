------------------------------ MODULE Presence ------------------------------
(***************************************************************************)
(* Who is online, with several server processes over one set online_users *)
(* in Redis (internal/chat/hub.go, internal/broker/redis.go), and how the  *)
(* page of somebody else shows it (web/index.html): the dots of the list   *)
(* of conversations, loaded anew with every presence event, and the header *)
(* of the open conversation.  What goes on inside one process is module    *)
(* Hub; of it, the number of connections in the client map is left here.   *)
(* The page is on the tab of conversations, in which it has a direct one   *)
(* with every user, and keeps its own connection.                          *)
(***************************************************************************)
EXTENDS Naturals, Sequences

CONSTANTS
  Users,        \* those whose presence is shown
  Procs,        \* server processes, one hub goroutine each
  Slots,        \* calls of loadConversations that may be under way at once
  None,         \* no user, no slot
  MaxConnects   \* bound: connections that are made

ASSUME PresenceAssumption == None \notin Users /\ None \notin Slots /\ MaxConnects \in Nat

VARIABLES
  conns,    \* conns[p][u]: how many clients p has in its map for u
  hub,      \* hub[p]: what p's hub does about whom after a change of its map
  online,   \* set online_users
  bus,      \* presence events on their way to the page
  fetch,    \* fetch[i]: call i of loadConversations
  dots,     \* the users whose dot is lit
  listed,   \* the users with is_online in the objects of the list
  open,     \* activeTargetUser, or None
  shared,   \* activeTargetUser is an object of the list that is shown
  header,   \* its is_online
  made,     \* number of connections made
  homes,    \* history: homes[u] are the processes u has connected to
  ghosts,   \* history: those whose last connection to a process went without a word, or whose removal failed
  missing,  \* history: those whose SADD failed
  lost,     \* history: an event or an answer was lost
  newest,   \* history: the call that was asked last, if it is under way
  latest,   \* history: the list that is shown is the answer to the call asked last
  fresh     \* history: when the conversation was opened the list was as it should be

procVars == <<conns, hub, made, homes>>
redisVars == <<online, ghosts, missing>>
pageVars == <<dots, listed, open, shared, header, fresh>>
loadVars == <<fetch, newest, latest>>
vars == <<procVars, redisVars, bus, lost, pageVars, loadVars>>

Free == [at |-> "free", list |-> {}]
IdleHub == [pc |-> "idle", user |-> None]

TypeOK ==
  /\ conns \in [Procs -> [Users -> Nat]]
  /\ hub \in [Procs -> [pc: {"idle", "add", "on", "remove", "off"}, user: Users \cup {None}]]
  /\ \A p \in Procs : hub[p].pc # "idle" => hub[p].user \in Users
  /\ online \subseteq Users
  /\ bus \in Seq([user: Users, on: BOOLEAN])
  /\ fetch \in [Slots -> [at: {"free", "asked", "answered"}, list: SUBSET Users]]
  /\ dots \subseteq Users /\ listed \subseteq Users
  /\ open \in Users \cup {None}
  /\ shared \in BOOLEAN /\ header \in BOOLEAN
  /\ made \in Nat
  /\ homes \in [Users -> SUBSET Procs]
  /\ ghosts \subseteq Users /\ missing \subseteq Users
  /\ lost \in BOOLEAN /\ latest \in BOOLEAN /\ fresh \in BOOLEAN
  /\ newest \in Slots \cup {None}

Init ==
  /\ conns = [p \in Procs |-> [u \in Users |-> 0]]
  /\ hub = [p \in Procs |-> IdleHub]
  /\ online = {}
  /\ bus = <<>>
  /\ fetch = [i \in Slots |-> Free]
  /\ dots = {} /\ listed = {}
  /\ open = None /\ shared = FALSE /\ header = FALSE
  /\ made = 0
  /\ homes = [u \in Users |-> {}]
  /\ ghosts = {} /\ missing = {}
  /\ lost = FALSE /\ latest = TRUE /\ fresh = FALSE
  /\ newest = None
-----------------------------------------------------------------------------
(* The hub of process p.                                                   *)

FirstConn(p, u) == conns[p][u] = 0

\* Mutant: the end of any connection takes the user out.
AnyConn(p, u) == TRUE

\* Mutant: the map is looked at before the client is deleted from it.
NoConn(p, u) == conns[p][u] = 0

LastConn(p, u) == conns[p][u] = 1

HubGoto(p, pc, u) == hub' = [hub EXCEPT ![p] = [pc |-> pc, user |-> u]]

Register(p, u) ==
  /\ hub[p] = IdleHub
  /\ made < MaxConnects /\ made' = made + 1
  /\ conns' = [conns EXCEPT ![p][u] = @ + 1]
  /\ homes' = [homes EXCEPT ![u] = @ \cup {p}]
  /\ IF FirstConn(p, u) THEN HubGoto(p, "add", u) ELSE UNCHANGED hub
  /\ UNCHANGED <<redisVars, bus, lost, pageVars, loadVars>>

Unregister(p, u) ==
  /\ hub[p] = IdleHub
  /\ conns[p][u] > 0
  /\ conns' = [conns EXCEPT ![p][u] = @ - 1]
  /\ IF LastConn(p, u) THEN HubGoto(p, "remove", u) ELSE UNCHANGED hub
  /\ UNCHANGED <<made, homes, redisVars, bus, lost, pageVars, loadVars>>

\* SetUserOnline, whose error nobody looks at.
Add(p) ==
  /\ hub[p].pc = "add"
  /\ \/ /\ online' = online \cup {hub[p].user} /\ missing' = missing \ {hub[p].user}
        /\ ghosts' = IF conns[p][hub[p].user] = 0 THEN ghosts \cup {hub[p].user} ELSE ghosts
     \/ missing' = missing \cup {hub[p].user} /\ UNCHANGED <<online, ghosts>>
  /\ HubGoto(p, "on", hub[p].user)
  /\ UNCHANGED <<conns, made, homes, bus, lost, pageVars, loadVars>>

\* Mutant: the end of the last connection is not published.
RemoveUnsaid(p) ==
  /\ hub[p].pc = "remove"
  /\ online' = online \ {hub[p].user} /\ ghosts' = ghosts \ {hub[p].user}
  /\ hub' = [hub EXCEPT ![p] = IdleHub]
  /\ UNCHANGED <<conns, made, homes, missing, bus, lost, pageVars, loadVars>>

\* SetUserOffline, likewise; UpdateLastSeen is in module Hub.
Remove(p) ==
  /\ hub[p].pc = "remove"
  /\ \/ online' = online \ {hub[p].user} /\ ghosts' = ghosts \ {hub[p].user}
     \/ UNCHANGED online /\ ghosts' = ghosts \cup {hub[p].user}
  /\ HubGoto(p, "off", hub[p].user)
  /\ UNCHANGED <<conns, made, homes, missing, bus, lost, pageVars, loadVars>>

\* Publish, likewise.
Tell(p) ==
  /\ hub[p].pc \in {"on", "off"}
  /\ \/ bus' = Append(bus, [user |-> hub[p].user, on |-> hub[p].pc = "on"]) /\ UNCHANGED lost
     \/ lost' = TRUE /\ UNCHANGED bus
  /\ hub' = [hub EXCEPT ![p] = IdleHub]
  /\ UNCHANGED <<conns, made, homes, redisVars, pageVars, loadVars>>

\* Mutant: two goroutines drop one client, and each counts it.
DropAgain(p, u) ==
  /\ hub[p].pc \notin {"remove", "off"}
  /\ conns' = [conns EXCEPT ![p][u] = @ - 1]
  /\ ghosts' = ghosts \cup {u}
  /\ UNCHANGED <<hub, made, homes, online, missing, bus, lost, pageVars, loadVars>>

\* broadcastLocal drops a slow client, unless the hub has the lock: nobody is told.
Drop(p, u) ==
  /\ hub[p].pc \notin {"remove", "off"}
  /\ conns[p][u] > 0
  /\ conns' = [conns EXCEPT ![p][u] = @ - 1]
  /\ ghosts' = IF LastConn(p, u) THEN ghosts \cup {u} ELSE ghosts
  /\ UNCHANGED <<hub, made, homes, online, missing, bus, lost, pageVars, loadVars>>

\* p dies and is started again, with an empty map and online_users as it was.
Kill(p) ==
  /\ conns' = [conns EXCEPT ![p] = [u \in Users |-> 0]]
  /\ hub' = [hub EXCEPT ![p] = IdleHub]
  /\ ghosts' = ghosts \cup {u \in Users : conns[p][u] > 0 \/ hub[p].user = u}
  /\ lost' = (lost \/ hub[p] # IdleHub)
  /\ UNCHANGED <<made, homes, online, missing, bus, pageVars, loadVars>>
-----------------------------------------------------------------------------
(* The page.                                                               *)

Ask(i) ==
  /\ fetch[i] = Free
  /\ fetch' = [fetch EXCEPT ![i].at = "asked"]
  /\ newest' = i /\ latest' = FALSE

\* ws.onmessage with a presence event: load the list, and set the header.
Receive(i) ==
  /\ bus # <<>>
  /\ bus' = Tail(bus)
  /\ Ask(i)
  /\ IF Head(bus).user = open
     THEN /\ header' = Head(bus).on
          /\ listed' = IF ~shared THEN listed
                       ELSE IF Head(bus).on THEN listed \cup {open} ELSE listed \ {open}
     ELSE UNCHANGED <<header, listed>>
  /\ UNCHANGED <<dots, open, shared, fresh, lost, procVars, redisVars>>

\* Any other event, or the user, loads the list.
Refresh(i) == Ask(i) /\ UNCHANGED <<procVars, redisVars, bus, lost, pageVars>>

\* The members of online_users; if they cannot be read everybody is offline.
GetOnlineUserIDs(ids) == \/ ids = online /\ UNCHANGED lost
                         \/ ids = {} /\ lost' = TRUE

\* GetConversations.
Answer(i) ==
  /\ fetch[i].at = "asked"
  /\ \E ids \in SUBSET Users :
       GetOnlineUserIDs(ids) /\ fetch' = [fetch EXCEPT ![i] = [at |-> "answered", list |-> ids]]
  /\ UNCHANGED <<newest, latest, procVars, redisVars, bus, pageVars>>

\* The call is over.
Over(i) ==
  /\ fetch' = [fetch EXCEPT ![i] = Free]
  /\ newest' = IF newest = i THEN None ELSE newest

\* The answer arrives: renderConversations.
Render(i) ==
  /\ fetch[i].at = "answered"
  /\ dots' = fetch[i].list /\ listed' = fetch[i].list
  /\ shared' = FALSE
  /\ latest' = (newest = i)
  /\ Over(i)
  /\ UNCHANGED <<open, header, fresh, lost, procVars, redisVars, bus>>

\* The call fails, before or after the server has worked on it.
Fail(i) ==
  /\ fetch[i] # Free
  /\ lost' = TRUE
  /\ Over(i)
  /\ UNCHANGED <<latest, procVars, redisVars, bus, pageVars>>

\* No hub has anything to say, and nothing that was said is on its way.
Said == bus = <<>> /\ \A p \in Procs : hub[p] = IdleHub

\* openConversation from the list.
Open(u) ==
  /\ open' = u
  /\ header' = (u \in listed)
  /\ shared' = TRUE
  /\ fresh' = (Said /\ latest /\ ~lost)
  /\ UNCHANGED <<dots, listed, loadVars, procVars, redisVars, bus, lost>>

HubStep(p) == \/ \E u \in Users : Register(p, u) \/ Unregister(p, u) \/ Drop(p, u)
              \/ Add(p) \/ Remove(p) \/ Tell(p) \/ Kill(p)

PageStep(i) == Receive(i) \/ Refresh(i) \/ Answer(i) \/ Render(i) \/ Fail(i)

Next == \/ \E p \in Procs : HubStep(p)
        \/ \E i \in Slots : PageStep(i)
        \/ \E u \in Users : Open(u)

Spec == Init /\ [][Next]_vars
-----------------------------------------------------------------------------
(* Properties.                                                             *)

\* p has a connection of u, or its hub is about to take u out of the set.
Holds(p, u) == conns[p][u] > 0 \/ hub[p] = [pc |-> "remove", user |-> u]

\* Whoever is in online_users is connected to some process, until a connection ends
\* without a word or a removal fails; the next removal of that user heals this.
OnlineIsSomewhere == \A u \in online \ ghosts : \E p \in Procs : Holds(p, u)

\* p has a connection of u that its hub has announced.
Announced(p, u) == conns[p][u] > 0 /\ hub[p] # [pc |-> "add", user |-> u]

\* Whoever is connected, and always to the same process, is in online_users.
StickyIsOnline == \A u \in Users \ missing, p \in Procs :
  homes[u] = {p} /\ Announced(p, u) => u \in online

\* When all has been said, the answer to the list's last request is what the set is:
\* every change is made before it is published, by whichever process.
SidebarFollows == ~lost /\ Said /\ latest => dots = online

\* The header, which is told of changes and never loaded, follows as well, for whoever
\* connects to one process, if the conversation was opened from a list as it should be.
HeaderFollows == ~lost /\ Said /\ fresh =>
  \A u \in Users \ (ghosts \cup missing) :
    open = u /\ (\A p, q \in homes[u] : p = q) => (header <=> u \in online)
=============================================================================
