--------------------------- MODULE PresenceProofs ---------------------------
(***************************************************************************)
(* What module Presence promises for any number of processes, users,       *)
(* connections and loads.                                                  *)
(***************************************************************************)
EXTENDS Presence, SequenceTheorems, TLAPS

HubPcs == {"idle", "add", "on", "remove", "off"}

\* A hub is busy with a user, an idle one with nobody.
LEMMA HubTyped ==
  ASSUME TypeOK, NEW p \in Procs
  PROVE  /\ hub[p].pc \in HubPcs /\ hub[p].user \in Users \cup {None}
         /\ hub[p] = [pc |-> hub[p].pc, user |-> hub[p].user]
         /\ hub[p].pc # "idle" => hub[p].user \in Users
BY DEF TypeOK, HubPcs

\* The hubs' part of TypeOK.
HubsTyped(h) == /\ h \in [Procs -> [pc: HubPcs, user: Users \cup {None}]]
                /\ \A p \in Procs : h[p].pc # "idle" => h[p].user \in Users

LEMMA InitTypeOK == Init => TypeOK
<1> SUFFICES ASSUME Init PROVE TypeOK
  OBVIOUS
<1>1. bus \in Seq([user: Users, on: BOOLEAN])
  BY DEF Init
<1>2. Free \in [at: {"free", "asked", "answered"}, list: SUBSET Users]
  BY DEF Free
<1>3. IdleHub \in [pc: HubPcs, user: Users \cup {None}] /\ IdleHub.pc = "idle"
  BY DEF IdleHub, HubPcs
<1> QED
  BY <1>1, <1>2, <1>3 DEF Init, TypeOK, HubPcs

\* One hub moves on, the others stay.
LEMMA HubGotoTyped ==
  ASSUME TypeOK, NEW p \in Procs, NEW pc \in HubPcs, NEW u \in Users, HubGoto(p, pc, u)
  PROVE  /\ HubsTyped(hub')
         /\ hub'[p] = [pc |-> pc, user |-> u]
         /\ \A q \in Procs \ {p} : hub'[q] = hub[q]
<1>1. /\ hub' \in [Procs -> [pc: HubPcs, user: Users \cup {None}]]
      /\ hub'[p] = [pc |-> pc, user |-> u]
      /\ \A q \in Procs \ {p} : hub'[q] = hub[q]
  BY DEF TypeOK, HubGoto, HubPcs
<1>2. \A q \in Procs \ {p} : hub'[q].pc # "idle" => hub'[q].user \in Users
  BY <1>1 DEF TypeOK
<1>3. hub'[p].user = u
  BY <1>1
<1> QED
  BY <1>1, <1>2, <1>3 DEF HubsTyped

LEMMA HubIdles ==
  ASSUME TypeOK, NEW p \in Procs, hub' = [hub EXCEPT ![p] = IdleHub]
  PROVE  /\ HubsTyped(hub')
         /\ hub'[p] = IdleHub
         /\ \A q \in Procs \ {p} : hub'[q] = hub[q]
<1>1. /\ hub' \in [Procs -> [pc: HubPcs, user: Users \cup {None}]]
      /\ hub'[p] = IdleHub
      /\ \A q \in Procs \ {p} : hub'[q] = hub[q]
  BY DEF TypeOK, HubPcs, IdleHub
<1>2. \A q \in Procs : hub'[q].pc # "idle" => hub'[q].user \in Users
  BY <1>1 DEF TypeOK, IdleHub
<1> QED
  BY <1>1, <1>2 DEF HubsTyped

LEMMA HubsStay ==
  ASSUME TypeOK, hub' = hub
  PROVE  HubsTyped(hub')
BY DEF TypeOK, HubsTyped, HubPcs

\* One number of connections goes up,
LEMMA ConnsUp ==
  ASSUME TypeOK, NEW p \in Procs, NEW u \in Users,
         conns' = [conns EXCEPT ![p][u] = conns[p][u] + 1]
  PROVE  /\ conns' \in [Procs -> [Users -> Nat]]
         /\ conns'[p][u] = conns[p][u] + 1
         /\ \A q \in Procs, v \in Users : q # p \/ v # u => conns'[q][v] = conns[q][v]
BY DEF TypeOK

\* or down.
LEMMA ConnsDown ==
  ASSUME TypeOK, NEW p \in Procs, NEW u \in Users, conns[p][u] > 0,
         conns' = [conns EXCEPT ![p][u] = conns[p][u] - 1]
  PROVE  /\ conns' \in [Procs -> [Users -> Nat]]
         /\ conns'[p][u] = conns[p][u] - 1
         /\ \A q \in Procs, v \in Users : q # p \/ v # u => conns'[q][v] = conns[q][v]
BY DEF TypeOK

LEMMA NextTypeOK == TypeOK /\ [Next]_vars => TypeOK'
<1> SUFFICES ASSUME TypeOK, [Next]_vars
             PROVE  TypeOK'
  OBVIOUS
<1> USE DEF procVars, redisVars, pageVars, loadVars
<1>1. ASSUME NEW p \in Procs, NEW u \in Users, Register(p, u)
      PROVE  TypeOK'
  <2>1. conns[p][u] + 1 \in Nat /\ conns' = [conns EXCEPT ![p][u] = conns[p][u] + 1]
    BY <1>1 DEF TypeOK, Register
  <2>2. conns' \in [Procs -> [Users -> Nat]]
    BY <2>1, ConnsUp
  <2>3. HubsTyped(hub')
    BY <1>1, HubGotoTyped, HubsStay DEF Register, HubPcs
  <2>4. homes' \in [Users -> SUBSET Procs]
    BY <1>1 DEF Register, TypeOK
  <2> QED
    BY <1>1, <2>2, <2>3, <2>4 DEF Register, TypeOK, HubPcs, HubsTyped
<1>2. ASSUME NEW p \in Procs, NEW u \in Users, Unregister(p, u)
      PROVE  TypeOK'
  <2>1. conns[p][u] > 0 /\ conns[p][u] - 1 \in Nat /\ conns' = [conns EXCEPT ![p][u] = conns[p][u] - 1]
    BY <1>2 DEF TypeOK, Unregister
  <2>2. conns' \in [Procs -> [Users -> Nat]]
    BY <2>1, ConnsDown
  <2>3. HubsTyped(hub')
    BY <1>2, HubGotoTyped, HubsStay DEF Unregister, HubPcs
  <2> QED
    BY <1>2, <2>2, <2>3 DEF Unregister, TypeOK, HubPcs, HubsTyped
<1>3. ASSUME NEW p \in Procs, NEW u \in Users, Drop(p, u)
      PROVE  TypeOK'
  <2>1. conns[p][u] > 0 /\ conns[p][u] - 1 \in Nat /\ conns' = [conns EXCEPT ![p][u] = conns[p][u] - 1]
    BY <1>3 DEF TypeOK, Drop
  <2>2. conns' \in [Procs -> [Users -> Nat]]
    BY <2>1, ConnsDown
  <2> QED
    BY <1>3, <2>2 DEF Drop, TypeOK
<1>4. ASSUME NEW p \in Procs, Add(p) \/ Remove(p)
      PROVE  TypeOK'
  <2>1. hub[p].user \in Users
    BY <1>4 DEF Add, Remove, TypeOK
  <2>2. HubGoto(p, "on", hub[p].user) \/ HubGoto(p, "off", hub[p].user)
    BY <1>4 DEF Add, Remove
  <2>3. HubsTyped(hub')
    BY <2>1, <2>2, HubGotoTyped DEF HubPcs
  <2>4. online' \subseteq Users /\ ghosts' \subseteq Users /\ missing' \subseteq Users
    BY <1>4, <2>1 DEF Add, Remove, TypeOK
  <2> QED
    BY <1>4, <2>3, <2>4 DEF Add, Remove, TypeOK, HubPcs, HubsTyped
<1>5. ASSUME NEW p \in Procs, Tell(p)
      PROVE  TypeOK'
  <2>1. [user |-> hub[p].user, on |-> hub[p].pc = "on"] \in [user: Users, on: BOOLEAN]
    BY <1>5 DEF Tell, TypeOK
  <2> DEFINE e == [user |-> hub[p].user, on |-> hub[p].pc = "on"]
  <2>2. bus' \in Seq([user: Users, on: BOOLEAN])
    <3>1. bus' = bus \/ bus' = Append(bus, e)
      BY <1>5 DEF Tell
    <3> HIDE DEF e
    <3>2. e \in [user: Users, on: BOOLEAN]
      BY <2>1 DEF e
    <3>3. bus \in Seq([user: Users, on: BOOLEAN])
      BY DEF TypeOK
    <3>4. Append(bus, e) \in Seq([user: Users, on: BOOLEAN])
      BY <3>2, <3>3, AppendProperties
    <3> QED
      BY <3>1, <3>3, <3>4
  <2>3. HubsTyped(hub')
    BY <1>5, HubIdles DEF Tell
  <2> QED
    BY <1>5, <2>2, <2>3 DEF Tell, TypeOK, HubPcs, HubsTyped
<1>6. ASSUME NEW p \in Procs, Kill(p)
      PROVE  TypeOK'
  <2>1. conns' \in [Procs -> [Users -> Nat]]
    BY <1>6 DEF Kill, TypeOK
  <2>2. HubsTyped(hub')
    BY <1>6, HubIdles DEF Kill
  <2> QED
    BY <1>6, <2>1, <2>2 DEF Kill, TypeOK, HubPcs, HubsTyped
<1>7. ASSUME NEW i \in Slots, Receive(i) \/ Refresh(i)
      PROVE  TypeOK'
  <2>0. Ask(i)
    BY <1>7 DEF Receive, Refresh
  <2>1. fetch' \in [Slots -> [at: {"free", "asked", "answered"}, list: SUBSET Users]]
    BY <2>0 DEF Ask, TypeOK
  <2>2. CASE Refresh(i)
    BY <2>1, <2>2 DEF Refresh, Ask, TypeOK
  <2>3. CASE Receive(i)
    <3>1. Head(bus) \in [user: Users, on: BOOLEAN] /\ bus' \in Seq([user: Users, on: BOOLEAN])
      BY <2>3, HeadTailProperties DEF Receive, TypeOK
    <3>2. header' \in BOOLEAN
      BY <2>3, <3>1 DEF Receive, TypeOK
    <3>3. listed' \subseteq Users
      BY <2>3, <3>1 DEF Receive, TypeOK
    <3> QED
      BY <2>1, <2>3, <3>1, <3>2, <3>3 DEF Receive, Ask, TypeOK
  <2> QED
    BY <1>7, <2>2, <2>3
<1>8. ASSUME NEW i \in Slots, Answer(i) \/ Fail(i) \/ Render(i)
      PROVE  TypeOK'
  <2>1. Free \in [at: {"free", "asked", "answered"}, list: SUBSET Users]
        /\ [at |-> "answered", list |-> online] \in [at: {"free", "asked", "answered"}, list: SUBSET Users]
        /\ [at |-> "answered", list |-> {}] \in [at: {"free", "asked", "answered"}, list: SUBSET Users]
    BY DEF Free, TypeOK
  <2>2. fetch' \in [Slots -> [at: {"free", "asked", "answered"}, list: SUBSET Users]]
    BY <1>8, <2>1 DEF Answer, GetOnlineUserIDs, Fail, Render, Over, TypeOK
  <2>3. fetch[i].list \subseteq Users
    BY DEF TypeOK
  <2> QED
    BY <1>8, <2>2, <2>3 DEF Answer, GetOnlineUserIDs, Fail, Render, Over, TypeOK
<1>9. ASSUME NEW u \in Users, Open(u)
      PROVE  TypeOK'
  <2>1. header' \in BOOLEAN /\ fresh' \in BOOLEAN
    BY <1>9 DEF Open, Said, TypeOK
  <2> QED
    BY <1>9, <2>1 DEF Open, TypeOK
<1>10. CASE UNCHANGED vars
  BY <1>10 DEF vars, TypeOK
<1> QED
  BY <1>1, <1>2, <1>3, <1>4, <1>5, <1>6, <1>7, <1>8, <1>9, <1>10 DEF Next, HubStep, PageStep

\* Maps, hubs, the set, the bus and the page keep their types.
THEOREM PresenceTypeCorrect == Spec => []TypeOK
BY InitTypeOK, NextTypeOK, PTL DEF Spec

-----------------------------------------------------------------------------
(* Who is in the set is connected.                                         *)

\* What one hub does to whom it holds.
LEMMA NextSomewhere == TypeOK /\ OnlineIsSomewhere /\ [Next]_vars => OnlineIsSomewhere'
<1> SUFFICES ASSUME TypeOK, OnlineIsSomewhere, [Next]_vars
             PROVE  OnlineIsSomewhere'
  OBVIOUS
<1> USE DEF procVars, redisVars, pageVars, loadVars
<1>1. ASSUME NEW p \in Procs, NEW u \in Users, Register(p, u)
      PROVE  OnlineIsSomewhere'
  <2>1. conns[p][u] + 1 \in Nat /\ conns' = [conns EXCEPT ![p][u] = conns[p][u] + 1]
    BY <1>1 DEF TypeOK, Register
  <2>2. \A q \in Procs, v \in Users : conns[q][v] > 0 => conns'[q][v] > 0
    BY <2>1, ConnsUp DEF TypeOK
  <2>3. hub[p].pc = "idle" /\ \A q \in Procs \ {p} : hub'[q] = hub[q]
    BY <1>1 DEF Register, HubGoto, IdleHub, TypeOK
  <2>4. \A q \in Procs, v \in Users : Holds(q, v) => Holds(q, v)'
    BY <2>2, <2>3 DEF Holds
  <2> QED
    BY <1>1, <2>4 DEF Register, OnlineIsSomewhere, TypeOK
<1>2. ASSUME NEW p \in Procs, NEW u \in Users, Unregister(p, u)
      PROVE  OnlineIsSomewhere'
  <2>1. conns[p][u] > 0 /\ conns[p][u] \in Nat /\ conns[p][u] - 1 \in Nat /\ conns' = [conns EXCEPT ![p][u] = conns[p][u] - 1]
    BY <1>2 DEF TypeOK, Unregister
  <2>2. conns'[p][u] = conns[p][u] - 1 /\ \A q \in Procs, v \in Users : q # p \/ v # u => conns'[q][v] = conns[q][v]
    BY <2>1, ConnsDown
  <2>3. hub[p].pc = "idle" /\ \A q \in Procs \ {p} : hub'[q] = hub[q]
    BY <1>2 DEF Unregister, HubGoto, IdleHub, TypeOK
  <2>4. conns[p][u] = 1 => hub'[p] = [pc |-> "remove", user |-> u]
    BY <1>2, HubGotoTyped DEF Unregister, LastConn, HubPcs
  <2>5. \A q \in Procs, v \in Users : Holds(q, v) => Holds(q, v)'
    BY <2>1, <2>2, <2>3, <2>4 DEF Holds
  <2> QED
    BY <1>2, <2>5 DEF Unregister, OnlineIsSomewhere, TypeOK
<1>3. ASSUME NEW p \in Procs, NEW u \in Users, Drop(p, u)
      PROVE  OnlineIsSomewhere'
  <2>1. conns[p][u] > 0 /\ conns[p][u] \in Nat /\ conns[p][u] - 1 \in Nat /\ conns' = [conns EXCEPT ![p][u] = conns[p][u] - 1]
    BY <1>3 DEF TypeOK, Drop
  <2>2. conns'[p][u] = conns[p][u] - 1 /\ \A q \in Procs, v \in Users : q # p \/ v # u => conns'[q][v] = conns[q][v]
    BY <2>1, ConnsDown
  <2>3. \A q \in Procs, v \in Users \ ghosts' : Holds(q, v) => Holds(q, v)'
    BY <1>3, <2>1, <2>2 DEF Holds, Drop, LastConn
  <2> QED
    BY <1>3, <2>3 DEF Drop, OnlineIsSomewhere, TypeOK
<1>4. ASSUME NEW p \in Procs, Add(p)
      PROVE  OnlineIsSomewhere'
  <2>1. PICK u \in Users : hub[p] = [pc |-> "add", user |-> u]
    BY <1>4, HubTyped DEF Add
  <2>2. UNCHANGED conns /\ \A q \in Procs \ {p} : hub'[q] = hub[q]
    BY <1>4 DEF Add, HubGoto, TypeOK
  <2>3. \A q \in Procs, v \in Users : Holds(q, v) => Holds(q, v)'
    BY <2>1, <2>2 DEF Holds
  <2>4. conns[p][u] = 0 \/ Holds(p, u)'
    BY <2>2 DEF Holds, TypeOK
  <2>5. ghosts \subseteq ghosts' /\ online' \subseteq online \cup {u} /\ (conns[p][u] = 0 => u \in online \cup ghosts' \/ u \notin online')
    BY <1>4, <2>1 DEF Add
  <2> QED
    BY <2>3, <2>4, <2>5 DEF OnlineIsSomewhere, TypeOK
<1>5. ASSUME NEW p \in Procs, Remove(p)
      PROVE  OnlineIsSomewhere'
  <2>1. hub[p].user \in Users /\ UNCHANGED conns
    BY <1>5 DEF Remove, TypeOK
  <2>2. \A q \in Procs \ {p} : hub'[q] = hub[q]
    BY <1>5 DEF Remove, HubGoto, TypeOK
  <2>3. \A q \in Procs, v \in Users \ {hub[p].user} : Holds(q, v) => Holds(q, v)'
    BY <2>1, <2>2 DEF Holds
  <2>4. online' \ ghosts' \subseteq (online \ ghosts) \ {hub[p].user}
    BY <1>5 DEF Remove
  <2> QED
    BY <2>3, <2>4 DEF OnlineIsSomewhere, TypeOK
<1>6. ASSUME NEW p \in Procs, Tell(p)
      PROVE  OnlineIsSomewhere'
  <2>1. \A q \in Procs \ {p} : hub'[q] = hub[q]
    BY <1>6 DEF Tell, TypeOK
  <2>2. \A q \in Procs, v \in Users : Holds(q, v) => Holds(q, v)'
    BY <1>6, <2>1 DEF Holds, Tell
  <2> QED
    BY <1>6, <2>2 DEF Tell, OnlineIsSomewhere, TypeOK
<1>7. ASSUME NEW p \in Procs, Kill(p)
      PROVE  OnlineIsSomewhere'
  <2>1. \A q \in Procs \ {p} : hub'[q] = hub[q] /\ conns'[q] = conns[q]
    BY <1>7 DEF Kill, TypeOK
  <2>2. \A q \in Procs, v \in Users \ ghosts' : Holds(q, v) => Holds(q, v)'
    BY <1>7, <2>1 DEF Holds, Kill
  <2> QED
    BY <1>7, <2>2 DEF Kill, OnlineIsSomewhere, TypeOK
<1>8. CASE (\E i \in Slots : PageStep(i)) \/ (\E u \in Users : Open(u)) \/ UNCHANGED vars
  BY <1>8 DEF PageStep, Receive, Refresh, Answer, GetOnlineUserIDs, Render, Fail, Open, vars, OnlineIsSomewhere, Holds
<1> QED
  BY <1>1, <1>2, <1>3, <1>4, <1>5, <1>6, <1>7, <1>8 DEF Next, HubStep

\* Whatever processes share the set, nobody stays in it without a connection, unless one
\* ended without a word or a removal failed.
THEOREM OnlineAreConnected == Spec => []OnlineIsSomewhere
<1>1. Init => OnlineIsSomewhere
  BY DEF Init, OnlineIsSomewhere
<1> QED
  BY <1>1, InitTypeOK, NextTypeOK, NextSomewhere, PTL DEF Spec

-----------------------------------------------------------------------------
(* Who is connected is in the set, if always to the same process.          *)

\* A process that has, or whose hub is busy with, a user is a home of theirs; and a hub
\* that takes a user out has no connection of theirs.
AtHome == /\ \A p \in Procs, u \in Users : conns[p][u] > 0 \/ hub[p].user = u => p \in homes[u]
          /\ \A p \in Procs : hub[p].pc = "remove" => conns[p][hub[p].user] = 0

StickyInv == TypeOK /\ AtHome /\ StickyIsOnline

LEMMA NextSticky == StickyInv /\ TypeOK' /\ [Next]_vars => (AtHome /\ StickyIsOnline)'
<1> SUFFICES ASSUME StickyInv, TypeOK', [Next]_vars
             PROVE  (AtHome /\ StickyIsOnline)'
  OBVIOUS
<1> USE DEF procVars, redisVars, pageVars, loadVars, StickyInv
<1>1. ASSUME NEW p \in Procs, NEW u \in Users, Register(p, u)
      PROVE  (AtHome /\ StickyIsOnline)'
  <2>1. conns[p][u] \in Nat /\ conns[p][u] + 1 \in Nat /\ conns' = [conns EXCEPT ![p][u] = conns[p][u] + 1]
    BY <1>1 DEF TypeOK, Register
  <2>2. conns'[p][u] = conns[p][u] + 1 /\ \A q \in Procs, v \in Users : q # p \/ v # u => conns'[q][v] = conns[q][v]
    BY <2>1, ConnsUp
  <2>3. hub[p] = IdleHub /\ \A q \in Procs \ {p} : hub'[q] = hub[q]
    BY <1>1 DEF Register, HubGoto, TypeOK
  <2>4. IF conns[p][u] = 0 THEN hub'[p] = [pc |-> "add", user |-> u] ELSE hub'[p] = IdleHub
    BY <1>1, <2>3, HubGotoTyped DEF Register, FirstConn, HubPcs
  <2>5. homes'[u] = homes[u] \cup {p} /\ \A v \in Users \ {u} : homes'[v] = homes[v]
    BY <1>1 DEF Register, TypeOK
  <2>6. UNCHANGED <<online, missing>>
    BY <1>1 DEF Register
  <2>7. AtHome'
    <3>1. \A q \in Procs, v \in Users : conns'[q][v] > 0 => q \in homes'[v]
      BY <2>2, <2>5 DEF AtHome
    <3>2. \A q \in Procs, v \in Users : hub'[q].user = v => q \in homes'[v]
      BY <2>3, <2>4, <2>5, PresenceAssumption DEF AtHome, IdleHub
    <3>3. \A q \in Procs : hub'[q].pc = "remove" => q # p /\ hub'[q] = hub[q] /\ hub[q].user \in Users
      BY <2>3, <2>4 DEF IdleHub, TypeOK
    <3>4. \A q \in Procs : hub'[q].pc = "remove" => conns'[q][hub'[q].user] = 0
      BY <2>2, <3>3 DEF AtHome
    <3> QED
      BY <3>1, <3>2, <3>4 DEF AtHome
  <2>8. ASSUME NEW q \in Procs, NEW v \in Users \ missing, homes'[v] = {q}, Announced(q, v)'
        PROVE  v \in online
    <3>1. CASE q = p /\ v = u
      <4>1. conns[p][u] > 0 /\ p \in homes[u]
        BY <2>1, <2>2, <2>4, <2>8, <3>1 DEF Announced, AtHome
      <4>2. homes[u] = {p} /\ Announced(p, u)
        BY <2>3, <2>5, <2>8, <3>1, <4>1 DEF Announced, IdleHub
      <4> QED
        BY <2>8, <3>1, <4>2 DEF StickyIsOnline
    <3>2. CASE q # p \/ v # u
      <4>1. Announced(q, v)
        BY <2>2, <2>3, <2>8, <3>2 DEF Announced, IdleHub
      <4>2. homes[v] = {q}
        BY <2>5, <2>8, <4>1 DEF AtHome, Announced
      <4> QED
        BY <2>8, <4>1, <4>2 DEF StickyIsOnline
    <3> QED
      BY <3>1, <3>2
  <2> QED
    BY <2>6, <2>7, <2>8 DEF StickyIsOnline
<1>2. ASSUME NEW p \in Procs, NEW u \in Users, Unregister(p, u) \/ Drop(p, u)
      PROVE  (AtHome /\ StickyIsOnline)'
  <2>1. conns[p][u] > 0 /\ conns[p][u] \in Nat /\ conns[p][u] - 1 \in Nat /\ conns' = [conns EXCEPT ![p][u] = conns[p][u] - 1]
    BY <1>2 DEF TypeOK, Unregister, Drop
  <2>2. conns'[p][u] = conns[p][u] - 1 /\ \A q \in Procs, v \in Users : q # p \/ v # u => conns'[q][v] = conns[q][v]
    BY <2>1, ConnsDown
  <2>3. \A q \in Procs, v \in Users : conns'[q][v] > 0 => conns[q][v] > 0
    BY <2>1, <2>2 DEF TypeOK
  <2>4. UNCHANGED <<homes, online, missing>>
    BY <1>2 DEF Unregister, Drop
  <2>5. /\ \A q \in Procs \ {p} : hub'[q] = hub[q]
        /\ hub'[p] = hub[p] \/ (hub'[p] = [pc |-> "remove", user |-> u] /\ conns[p][u] = 1 /\ hub[p] = IdleHub)
    BY <1>2, HubGotoTyped DEF Unregister, Drop, LastConn, HubPcs
  <2>6. hub[p].pc # "remove" /\ conns[p][u] > 0
    BY <1>2 DEF Unregister, Drop, IdleHub
  <2>7. AtHome'
    <3>1. \A q \in Procs, v \in Users : conns'[q][v] > 0 \/ hub'[q].user = v => q \in homes[v]
      BY <2>3, <2>5, <2>6 DEF AtHome
    <3>2. \A q \in Procs : hub'[q].pc = "remove" => conns'[q][hub'[q].user] = 0
      BY <2>1, <2>2, <2>5, <2>6 DEF AtHome, TypeOK
    <3> QED
      BY <2>4, <3>1, <3>2 DEF AtHome
  <2>8. \A q \in Procs, v \in Users : Announced(q, v)' => Announced(q, v)
    BY <2>3, <2>5 DEF Announced, IdleHub
  <2> QED
    BY <2>4, <2>7, <2>8 DEF StickyIsOnline
<1>3. ASSUME NEW p \in Procs, Add(p) \/ Remove(p)
      PROVE  (AtHome /\ StickyIsOnline)'
  <2>0. hub[p].user \in Users /\ hub[p].pc \in {"add", "remove"}
    BY <1>3 DEF Add, Remove, TypeOK
  <2> PICK u \in Users : hub[p].user = u
    BY <2>0
  <2>1. UNCHANGED <<conns, homes>>
    BY <1>3 DEF Add, Remove
  <2>2. \A q \in Procs \ {p} : hub'[q] = hub[q]
    BY <1>3 DEF Add, Remove, HubGoto, TypeOK
  <2>3. hub'[p].user = u /\ hub'[p].pc \in {"on", "off"}
    BY <1>3 DEF Add, Remove, HubGoto, TypeOK
  <2>4. AtHome'
    BY <2>1, <2>2, <2>3 DEF AtHome
  <2>5. \A v \in Users \ {u} : (v \in online' <=> v \in online) /\ (v \in missing' <=> v \in missing)
    BY <1>3 DEF Add, Remove
  <2>6. \A q \in Procs, v \in Users : v # u \/ q # p => (Announced(q, v)' <=> Announced(q, v))
    BY <2>1, <2>2, <2>3 DEF Announced
  <2>7. ASSUME NEW q \in Procs, u \notin missing', homes[u] = {q}, Announced(q, u)'
        PROVE  u \in online'
    <3>1. q = p
      BY <2>1, <2>7 DEF AtHome
    <3>2. Add(p)
      <4>1. conns[p][u] > 0 /\ conns[p][u] \in Nat
        BY <2>1, <2>7, <3>1 DEF Announced, TypeOK
      <4>2. hub[p].pc # "remove"
        BY <4>1 DEF AtHome
      <4> QED
        BY <1>3, <4>2 DEF Remove
    <3> QED
      BY <2>7, <3>2 DEF Add
  <2>8. ASSUME NEW q \in Procs, NEW v \in Users \ missing', homes[v] = {q}, Announced(q, v)', v # u
        PROVE  v \in online'
    BY <2>5, <2>6, <2>8 DEF StickyIsOnline
  <2>9. StickyIsOnline'
    <3> SUFFICES ASSUME NEW v \in Users \ missing', NEW q \in Procs, homes[v] = {q}, Announced(q, v)'
                 PROVE  v \in online'
      BY <2>1 DEF StickyIsOnline
    <3> QED
      BY <2>7, <2>8
  <2> QED
    BY <2>4, <2>9
<1>4. ASSUME NEW p \in Procs, Tell(p)
      PROVE  (AtHome /\ StickyIsOnline)'
  <2>1. \A q \in Procs \ {p} : hub'[q] = hub[q]
    BY <1>4 DEF Tell, TypeOK
  <2>2. hub'[p] = IdleHub /\ hub[p].pc \in {"on", "off"} /\ UNCHANGED <<conns, homes, online, missing>>
    BY <1>4 DEF Tell, TypeOK
  <2>3. \A q \in Procs, v \in Users : Announced(q, v)' => Announced(q, v)
    BY <2>1, <2>2 DEF Announced
  <2>4. AtHome'
    BY <2>1, <2>2, PresenceAssumption DEF AtHome, IdleHub
  <2> QED
    BY <2>2, <2>3, <2>4 DEF StickyIsOnline
<1>5. ASSUME NEW p \in Procs, Kill(p)
      PROVE  (AtHome /\ StickyIsOnline)'
  <2>1. \A q \in Procs \ {p} : hub'[q] = hub[q] /\ conns'[q] = conns[q]
    BY <1>5 DEF Kill, TypeOK
  <2>2. hub'[p] = IdleHub /\ UNCHANGED <<homes, online, missing>> /\ \A v \in Users : conns'[p][v] = 0
    BY <1>5 DEF Kill, TypeOK
  <2>3. \A q \in Procs, v \in Users : Announced(q, v)' => Announced(q, v)
    BY <2>1, <2>2 DEF Announced
  <2>4. AtHome'
    BY <2>1, <2>2, PresenceAssumption DEF AtHome, IdleHub
  <2> QED
    BY <2>2, <2>3, <2>4 DEF StickyIsOnline
<1>6. CASE (\E i \in Slots : PageStep(i)) \/ (\E u \in Users : Open(u)) \/ UNCHANGED vars
  BY <1>6 DEF PageStep, Receive, Refresh, Answer, GetOnlineUserIDs, Render, Fail, Open, vars, AtHome, StickyIsOnline, Announced
<1> QED
  BY <1>1, <1>2, <1>3, <1>4, <1>5, <1>6 DEF Next, HubStep

\* Whoever always connects to the same process, as nginx arranges it for one address, is
\* in the set while connected, whatever the other processes do about others.
THEOREM StickyAreOnline == Spec => []StickyIsOnline
<1>1. Init => AtHome /\ StickyIsOnline
  BY PresenceAssumption DEF Init, AtHome, StickyIsOnline, IdleHub
<1> QED
  BY <1>1, InitTypeOK, NextTypeOK, NextSticky, PTL DEF Spec, StickyInv

-----------------------------------------------------------------------------
(* The list follows the set.                                               *)

\* Some hub is about to publish a change, or the page has not heard of it.
Unsaid == bus # <<>> \/ \E p \in Procs : hub[p].pc \in {"on", "off"}

\* Between changes: what the newest call has read, or what it has led to, is the set.
Loaded == ~lost /\ ~Unsaid =>
  /\ newest # None /\ fetch[newest].at = "answered" => fetch[newest].list = online
  /\ latest => dots = online

\* As long as no call is made, nothing is changed in the objects of the list.
Mirrors == latest => listed = dots

ListInv == TypeOK /\ Loaded /\ Mirrors

LEMMA NextList == ListInv /\ [Next]_vars => (Loaded /\ Mirrors)'
<1> SUFFICES ASSUME ListInv, [Next]_vars
             PROVE  (Loaded /\ Mirrors)'
  OBVIOUS
<1> USE DEF procVars, redisVars, pageVars, loadVars, ListInv
<1>1. ASSUME NEW p \in Procs, NEW u \in Users, Register(p, u) \/ Unregister(p, u) \/ Drop(p, u)
      PROVE  (Loaded /\ Mirrors)'
  <2>1. \A q \in Procs : hub'[q] = hub[q] \/ (hub[q].pc = "idle" /\ hub'[q].pc \in {"add", "remove"})
    BY <1>1 DEF Register, Unregister, Drop, HubGoto, IdleHub, TypeOK
  <2>2. Unsaid' <=> Unsaid
    BY <1>1, <2>1 DEF Unsaid, Register, Unregister, Drop
  <2> QED
    BY <1>1, <2>2 DEF Register, Unregister, Drop, Loaded, Mirrors
<1>2. ASSUME NEW p \in Procs, Add(p) \/ Remove(p)
      PROVE  (Loaded /\ Mirrors)'
  <2>1. hub'[p].pc \in {"on", "off"}
    BY <1>2 DEF Add, Remove, HubGoto, TypeOK
  <2>2. Unsaid'
    BY <2>1 DEF Unsaid
  <2> QED
    BY <1>2, <2>2 DEF Add, Remove, Loaded, Mirrors
<1>3. ASSUME NEW p \in Procs, Tell(p)
      PROVE  (Loaded /\ Mirrors)'
  <2>1. lost' \/ bus' # <<>>
    BY <1>3 DEF Tell, TypeOK
  <2> QED
    BY <1>3, <2>1 DEF Tell, Unsaid, Loaded, Mirrors
<1>4. ASSUME NEW p \in Procs, Kill(p)
      PROVE  (Loaded /\ Mirrors)'
  <2>1. lost' \/ hub' = hub
    <3>1. hub[p] # IdleHub => lost'
      BY <1>4, Zenon DEF Kill
    <3>2. hub[p] = IdleHub => hub' = hub
      BY <1>4 DEF Kill, TypeOK
    <3> QED
      BY <3>1, <3>2
  <2>2. CASE lost'
    BY <1>4, <2>2 DEF Kill, Loaded, Mirrors
  <2>3. CASE hub' = hub /\ ~lost'
    <3>1. ~lost
      BY <1>4, <2>3, Zenon DEF Kill
    <3> QED
      BY <1>4, <2>3, <3>1 DEF Kill, Unsaid, Loaded, Mirrors
  <2> QED
    BY <2>1, <2>2, <2>3
<1>5. ASSUME NEW i \in Slots, Receive(i) \/ Refresh(i)
      PROVE  (Loaded /\ Mirrors)'
  <2>1. newest' = i /\ fetch'[i].at = "asked" /\ ~latest'
    BY <1>5 DEF Receive, Refresh, Ask, TypeOK
  <2> QED
    BY <2>1 DEF Loaded, Mirrors
<1>6. ASSUME NEW i \in Slots, Answer(i)
      PROVE  (Loaded /\ Mirrors)'
  <2>1. Unsaid' <=> Unsaid
    BY <1>6 DEF Answer, GetOnlineUserIDs, Unsaid
  <2>2. lost' \/ (~lost' /\ fetch'[i].list = online /\ lost = lost')
    BY <1>6 DEF Answer, GetOnlineUserIDs, TypeOK
  <2>3. \A j \in Slots \ {i} : fetch'[j] = fetch[j]
    BY <1>6 DEF Answer, GetOnlineUserIDs, TypeOK
  <2>4. UNCHANGED <<newest, latest, dots, listed, online>> /\ newest \in Slots \cup {None}
    BY <1>6 DEF Answer, GetOnlineUserIDs, TypeOK
  <2> QED
    BY <2>1, <2>2, <2>3, <2>4 DEF Loaded, Mirrors
<1>7. ASSUME NEW i \in Slots, Render(i)
      PROVE  (Loaded /\ Mirrors)'
  <2>1. Unsaid' <=> Unsaid
    BY <1>7 DEF Render, Unsaid
  <2>2. dots' = fetch[i].list /\ listed' = fetch[i].list /\ fetch[i].at = "answered" /\ UNCHANGED <<lost, online>>
    BY <1>7 DEF Render
  <2>3. CASE newest = i
    BY <1>7, <2>1, <2>2, <2>3, PresenceAssumption DEF Render, Over, Loaded, Mirrors
  <2>4. CASE newest # i
    <3>1. newest' = newest /\ ~latest' /\ (newest # None => fetch'[newest] = fetch[newest])
      BY <1>7, <2>4 DEF Render, Over, TypeOK
    <3> QED
      BY <2>1, <2>2, <3>1 DEF Loaded, Mirrors
  <2> QED
    BY <2>3, <2>4
<1>8. ASSUME NEW i \in Slots, Fail(i)
      PROVE  (Loaded /\ Mirrors)'
  BY <1>8 DEF Fail, Loaded, Mirrors
<1>9. CASE (\E u \in Users : Open(u)) \/ UNCHANGED vars
  BY <1>9 DEF Open, vars, Loaded, Mirrors, Unsaid
<1> QED
  BY <1>1, <1>2, <1>3, <1>4, <1>5, <1>6, <1>7, <1>8, <1>9 DEF Next, HubStep, PageStep

LEMMA InitList == Init => Loaded /\ Mirrors
BY DEF Init, Loaded, Mirrors

LEMMA SaidIsLoaded == Loaded => SidebarFollows
BY DEF Loaded, Unsaid, SidebarFollows, Said, IdleHub

\* When all has been said, the answer to the last request of the list is what the set is.
THEOREM ListIsLoaded == Spec => []SidebarFollows
BY InitTypeOK, NextTypeOK, InitList, NextList, SaidIsLoaded, PTL DEF Spec, ListInv
-----------------------------------------------------------------------------
(* The header.                                                             *)

OneHome(u) == \A p, q \in homes[u] : p = q

\* p's hub has changed something about u and not yet said so.
Busy(p, u) == hub[p].pc # "idle" /\ hub[p].user = u

\* The last word about u, on its way or arrived, is what the set is.
Told(u) ==
  /\ \A i \in 1 .. Len(bus) :
       bus[i].user = u /\ (\A j \in 1 .. Len(bus) : j > i => bus[j].user # u) =>
         (bus[i].on = TRUE <=> u \in online)
  /\ (\A i \in 1 .. Len(bus) : bus[i].user # u) => (header = TRUE <=> u \in online)

Right(u) == /\ (\A p \in Procs : ~Busy(p, u)) => Told(u)
            /\ \A p \in Procs : Busy(p, u) /\ hub[p].pc = "on" => u \in online
            /\ \A p \in Procs : Busy(p, u) /\ hub[p].pc = "off" => u \notin online

HeaderRight == ~lost /\ fresh =>
  \A u \in Users \ (ghosts \cup missing) : open = u /\ OneHome(u) => Right(u)

HeaderInv == ListInv /\ AtHome /\ HeaderRight

LEMMA ToldKept ==
  ASSUME NEW u \in Users, Told(u), UNCHANGED <<bus, header>>, u \in online' <=> u \in online
  PROVE  Told(u)'
BY DEF Told

\* What is received is the next word, and what was the last one is so still.
LEMMA ToldReceived ==
  ASSUME TypeOK, NEW u \in Users, Told(u), bus # <<>>, bus' = Tail(bus), UNCHANGED online,
         IF Head(bus).user = u THEN header' = Head(bus).on ELSE header' = header
  PROVE  Told(u)'
<1>1. /\ bus \in Seq([user: Users, on: BOOLEAN]) /\ Len(bus) \in Nat \ {0}
      /\ Head(bus) = bus[1] /\ Len(bus') = Len(bus) - 1
      /\ \A i \in 1 .. Len(bus') : bus'[i] = bus[i + 1]
  BY DEF TypeOK
<1>2. ASSUME NEW i \in 1 .. Len(bus'), bus'[i].user = u,
             \A j \in 1 .. Len(bus') : j > i => bus'[j].user # u
      PROVE  bus'[i].on = TRUE <=> u \in online
  <2>1. i + 1 \in 1 .. Len(bus) /\ bus[i + 1] = bus'[i]
    BY <1>1
  <2>2. ASSUME NEW j \in 1 .. Len(bus), j > i + 1 PROVE bus[j].user # u
    <3>1. j - 1 \in 1 .. Len(bus') /\ j - 1 > i /\ bus'[j - 1] = bus[j]
      BY <1>1, <2>2
    <3> QED
      BY <1>2, <3>1
  <2> QED
    BY <1>2, <2>1, <2>2 DEF Told
<1>3. ASSUME \A i \in 1 .. Len(bus') : bus'[i].user # u
      PROVE  header' = TRUE <=> u \in online
  <2>1. ASSUME NEW j \in 1 .. Len(bus), j > 1 PROVE bus[j].user # u
    <3>1. j - 1 \in 1 .. Len(bus') /\ bus'[j - 1] = bus[j]
      BY <1>1, <2>1
    <3> QED
      BY <1>3, <3>1
  <2>2. 1 \in 1 .. Len(bus)
    BY <1>1
  <2>3. CASE bus[1].user = u
    BY <1>1, <2>1, <2>2, <2>3 DEF Told
  <2>4. CASE bus[1].user # u
    <3>1. \A i \in 1 .. Len(bus) : bus[i].user # u
      BY <1>1, <2>1, <2>4
    <3> QED
      BY <1>1, <2>4, <3>1 DEF Told
  <2> QED
    BY <2>3, <2>4
<1> QED
  BY <1>2, <1>3 DEF Told

\* What is said about u is the last word, and what is said about others is none.
LEMMA ToldSaid ==
  ASSUME TypeOK, NEW u \in Users, NEW e \in [user: Users, on: BOOLEAN], bus' = Append(bus, e),
         UNCHANGED <<header, online>>,
         IF e.user = u THEN (e.on = TRUE <=> u \in online) ELSE Told(u)
  PROVE  Told(u)'
<1>1. /\ bus \in Seq([user: Users, on: BOOLEAN]) /\ Len(bus) \in Nat
      /\ Len(bus') = Len(bus) + 1 /\ bus'[Len(bus) + 1] = e
      /\ \A i \in 1 .. Len(bus) : bus'[i] = bus[i]
  BY DEF TypeOK
<1>2. Len(bus) + 1 \in 1 .. Len(bus')
  BY <1>1
<1>3. \A i \in 1 .. Len(bus') : i \in 1 .. Len(bus) \/ i = Len(bus) + 1
  BY <1>1
<1>4. CASE e.user = u
  <2>1. \A i \in 1 .. Len(bus) : Len(bus) + 1 > i
    BY <1>1
  <2> QED
    BY <1>1, <1>2, <1>3, <1>4, <2>1 DEF Told
<1>5. CASE e.user # u
  <2>1. \A i \in 1 .. Len(bus) : i \in 1 .. Len(bus')
    BY <1>1
  <2> QED
    BY <1>1, <1>2, <1>3, <1>5, <2>1 DEF Told
<1> QED
  BY <1>4, <1>5

\* The only home of u is the only process whose hub is about u.
LEMMA BusyAtHome ==
  ASSUME AtHome, NEW u \in Users, OneHome(u), NEW p \in Procs, NEW q \in Procs, Busy(p, u), Busy(q, u)
  PROVE  p = q
BY DEF AtHome, OneHome, Busy

LEMMA NextHeader == HeaderInv /\ TypeOK' /\ [Next]_vars => HeaderRight'
<1> SUFFICES ASSUME HeaderInv, TypeOK', [Next]_vars, ~lost', fresh',
                    NEW u \in Users \ (ghosts' \cup missing'), open' = u, OneHome(u)'
             PROVE  Right(u)'
  BY DEF HeaderRight
<1> USE DEF procVars, redisVars, pageVars, loadVars, HeaderInv, ListInv
<1>1. ASSUME NEW p \in Procs, NEW v \in Users, Register(p, v) \/ Unregister(p, v) \/ Drop(p, v)
      PROVE  Right(u)'
  <2>1. UNCHANGED <<bus, header, online, missing, lost, fresh, open>> /\ ghosts \subseteq ghosts'
    BY <1>1 DEF Register, Unregister, Drop
  <2>2. homes' = homes \/ homes' = [homes EXCEPT ![v] = @ \cup {p}]
    BY <1>1 DEF Register, Unregister, Drop
  <2>3. homes[u] \subseteq homes'[u]
    <3>1. homes \in [Users -> SUBSET Procs] /\ u \in Users
      BY DEF TypeOK
    <3> QED
      BY <2>2, <3>1
  <2>4. Right(u)
    BY <2>1, <2>3 DEF HeaderRight, OneHome
  <2>5. /\ \A q \in Procs \ {p} : hub'[q] = hub[q]
        /\ hub'[p] = hub[p] \/ (hub[p].pc = "idle" /\ hub'[p].pc \in {"add", "remove"})
    <3>1. \/ hub' = hub
          \/ hub[p].pc = "idle" /\ (HubGoto(p, "add", v) \/ HubGoto(p, "remove", v))
      <4>1. IdleHub.pc = "idle"
        BY DEF IdleHub
      <4>2. CASE Register(p, v)
        BY <4>1, <4>2 DEF Register
      <4>3. CASE Unregister(p, v)
        BY <4>1, <4>3 DEF Unregister
      <4>4. CASE Drop(p, v)
        BY <4>4 DEF Drop
      <4> QED
        BY <1>1, <4>2, <4>3, <4>4
    <3> QED
      BY <3>1 DEF HubGoto, TypeOK
  <2>6. \A q \in Procs : Busy(q, u) => Busy(q, u)'
    BY <2>5 DEF Busy
  <2>7. (\A q \in Procs : ~Busy(q, u)') => Told(u)'
    BY <2>1, <2>4, <2>6, ToldKept DEF Right
  <2> QED
    BY <2>1, <2>4, <2>5, <2>7 DEF Right, Busy
<1>2. ASSUME NEW p \in Procs, Add(p) \/ Remove(p)
      PROVE  Right(u)'
  <2>1. UNCHANGED <<bus, header, lost, fresh, open, homes>>
    BY <1>2 DEF Add, Remove
  <2>2. \A q \in Procs \ {p} : hub'[q] = hub[q]
    BY <1>2 DEF Add, Remove, HubGoto, TypeOK
  <2>3. /\ hub'[p].user = hub[p].user
        /\ \/ hub'[p].pc = "on" /\ Add(p)
           \/ hub'[p].pc = "off" /\ Remove(p)
        /\ hub[p].pc # "idle"
    <3>1. CASE Add(p)
      BY <3>1 DEF Add, HubGoto, TypeOK
    <3>2. CASE Remove(p)
      BY <3>2 DEF Remove, HubGoto, TypeOK
    <3> QED
      BY <1>2, <3>1, <3>2
  <2>4. \A q \in Procs : Busy(q, u)' <=> Busy(q, u)
    BY <2>2, <2>3 DEF Busy
  <2>5. CASE hub[p].user = u
    <3>1. (Add(p) => u \in online') /\ (Remove(p) => u \notin online')
      BY <2>5 DEF Add, Remove
    <3>2. Busy(p, u)
      BY <2>3, <2>5 DEF Busy
    <3>3. \A q \in Procs : Busy(q, u) => q = p
      BY <2>1, <3>2, BusyAtHome DEF OneHome
    <3> QED
      BY <2>3, <2>4, <3>1, <3>2, <3>3 DEF Right
  <2>6. CASE hub[p].user # u
    <3>1. (u \in online' <=> u \in online) /\ u \notin ghosts \cup missing
      BY <1>2, <2>6 DEF Add, Remove
    <3>2. Right(u)
      BY <2>1, <3>1 DEF HeaderRight, OneHome
    <3>3. (\A q \in Procs : ~Busy(q, u)') => Told(u)'
      BY <2>1, <2>4, <3>1, <3>2, ToldKept DEF Right
    <3> QED
      BY <2>2, <2>3, <2>4, <2>6, <3>1, <3>2, <3>3 DEF Right, Busy
  <2> QED
    BY <2>5, <2>6
<1>3. ASSUME NEW p \in Procs, Tell(p)
      PROVE  Right(u)'
  <2>0. bus' = Append(bus, [user |-> hub[p].user, on |-> hub[p].pc = "on"]) /\ ~lost
    <3>1. lost' # TRUE
      OBVIOUS
    <3>2. bus' = Append(bus, [user |-> hub[p].user, on |-> hub[p].pc = "on"]) /\ lost' = lost
      BY <1>3, <3>1, Zenon DEF Tell
    <3> QED
      BY <3>2, Zenon
  <2>1. UNCHANGED <<header, online, ghosts, missing, fresh, open, homes>> /\ ~lost
    BY <1>3, <2>0 DEF Tell
  <2>2. Right(u)
    BY <2>1 DEF HeaderRight, OneHome
  <2>3. hub[p].pc \in {"on", "off"} /\ hub'[p].pc = "idle" /\ \A q \in Procs \ {p} : hub'[q] = hub[q]
    BY <1>3 DEF Tell, TypeOK, IdleHub
  <2> DEFINE e == [user |-> hub[p].user, on |-> hub[p].pc = "on"]
  <2>4. bus' = Append(bus, e) /\ e \in [user: Users, on: BOOLEAN] /\ e.user = hub[p].user
    BY <1>3, <2>0, <2>3 DEF TypeOK
  <2>5. e.on = TRUE <=> hub[p].pc = "on"
    OBVIOUS
  <2> HIDE DEF e
  <2>6. \A q \in Procs : Busy(q, u)' => Busy(q, u) /\ hub'[q] = hub[q]
    BY <2>3 DEF Busy
  <2>7. CASE hub[p].user = u
    <3>1. Busy(p, u)
      BY <2>3, <2>7 DEF Busy
    <3>2. e.on = TRUE <=> u \in online
      BY <2>2, <2>3, <2>5, <3>1 DEF Right
    <3>3. Told(u)'
      BY <2>1, <2>4, <2>7, <3>2, ToldSaid
    <3> QED
      BY <2>1, <2>2, <2>6, <3>3 DEF Right
  <2>8. CASE hub[p].user # u
    <3>1. \A q \in Procs : Busy(q, u) => Busy(q, u)'
      BY <2>3, <2>8 DEF Busy
    <3>2. (\A q \in Procs : ~Busy(q, u)') => Told(u)
      BY <2>2, <3>1 DEF Right
    <3>3. (\A q \in Procs : ~Busy(q, u)') => Told(u)'
      BY <2>1, <2>4, <2>8, <3>2, ToldSaid
    <3> QED
      BY <2>1, <2>2, <2>6, <3>3 DEF Right
  <2> QED
    BY <2>7, <2>8
<1>4. ASSUME NEW p \in Procs, Kill(p)
      PROVE  Right(u)'
  <2>1. UNCHANGED <<bus, header, online, missing, fresh, open, homes>> /\ ghosts \subseteq ghosts'
    BY <1>4 DEF Kill
  <2>2. ~lost /\ hub[p] = IdleHub
    BY <1>4, Zenon DEF Kill
  <2>3. hub' = hub
    BY <1>4, <2>2 DEF Kill, TypeOK
  <2>4. Right(u)
    BY <2>1, <2>2 DEF HeaderRight, OneHome
  <2> QED
    BY <2>1, <2>3, <2>4 DEF Right, Told, Busy
<1>5. ASSUME NEW i \in Slots, Receive(i)
      PROVE  Right(u)'
  <2>1. UNCHANGED <<hub, online, ghosts, missing, fresh, open, homes>> /\ ~lost
    BY <1>5 DEF Receive
  <2>2. Right(u)
    BY <2>1 DEF HeaderRight, OneHome
  <2>3. bus # <<>> /\ bus' = Tail(bus) /\ (IF Head(bus).user = u THEN header' = Head(bus).on ELSE header' = header)
    BY <1>5, <2>1 DEF Receive
  <2>4. Told(u) => Told(u)'
    BY <2>1, <2>3, ToldReceived
  <2> QED
    BY <2>1, <2>2, <2>4 DEF Right, Busy
<1>6. ASSUME NEW i \in Slots, Refresh(i) \/ Answer(i) \/ Render(i) \/ Fail(i)
      PROVE  Right(u)'
  <2>0. ~lost
    BY <1>6, Zenon DEF Refresh, Answer, GetOnlineUserIDs, Render, Fail
  <2>1. UNCHANGED <<hub, online, bus, header, ghosts, missing, fresh, open, homes>> /\ ~lost
    BY <1>6, <2>0 DEF Refresh, Answer, Render, Fail
  <2>2. Right(u)
    BY <2>1 DEF HeaderRight, OneHome
  <2> QED
    BY <2>1, <2>2 DEF Right, Told, Busy
<1>7. ASSUME NEW v \in Users, Open(v)
      PROVE  Right(u)'
  <2>1. v = u /\ Said /\ latest /\ ~lost /\ UNCHANGED <<hub, online, bus>>
    BY <1>7 DEF Open
  <2>2. header' = (u \in listed)
    BY <1>7, <2>1 DEF Open
  <2>3. listed = online
    BY <2>1, SaidIsLoaded DEF SidebarFollows, Mirrors
  <2>4. Len(bus) = 0 /\ \A p \in Procs : hub[p].pc = "idle"
    BY <2>1 DEF Said, IdleHub
  <2>5. \A p \in Procs : ~Busy(p, u)'
    BY <2>1, <2>4 DEF Busy
  <2>6. Told(u)'
    <3>1. Len(bus') = 0 /\ (header' = TRUE <=> u \in online')
      BY <2>1, <2>2, <2>3, <2>4
    <3> QED
      BY <3>1 DEF Told
  <2> QED
    BY <2>5, <2>6 DEF Right
<1>8. CASE UNCHANGED vars
  <2>1. Right(u)
    BY <1>8 DEF vars, HeaderRight, OneHome
  <2> QED
    BY <1>8, <2>1 DEF vars, Right, Told, Busy
<1> QED
  BY <1>1, <1>2, <1>3, <1>4, <1>5, <1>6, <1>7, <1>8 DEF Next, HubStep, PageStep

LEMMA RightIsShown == TypeOK /\ HeaderRight => HeaderFollows
<1> SUFFICES ASSUME TypeOK, HeaderRight, ~lost, Said, fresh, NEW u \in Users \ (ghosts \cup missing),
                    open = u, OneHome(u)
             PROVE  header <=> u \in online
  BY DEF HeaderFollows, OneHome
<1>1. Len(bus) = 0 /\ \A p \in Procs : ~Busy(p, u)
  BY DEF Said, IdleHub, Busy
<1>2. header = TRUE <=> u \in online
  BY <1>1 DEF HeaderRight, Right, Told
<1>3. header \in BOOLEAN
  BY DEF TypeOK
<1> QED
  BY <1>2, <1>3

\* The header, which is told of changes and never loaded, shows whether its user is in the
\* set, however many calls of loadConversations overtake each other in the meantime.
THEOREM HeaderIsTold == Spec => []HeaderFollows
<1>1. Init => HeaderRight
  BY DEF Init, HeaderRight
<1>2. Init => AtHome /\ StickyIsOnline
  BY PresenceAssumption DEF Init, AtHome, StickyIsOnline, IdleHub
<1> QED
  BY <1>1, InitTypeOK, NextTypeOK, InitList, NextList, <1>2, NextSticky, NextHeader, RightIsShown,
     PTL DEF Spec, HeaderInv, ListInv, StickyInv
=============================================================================
