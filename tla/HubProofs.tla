------------------------------ MODULE HubProofs ------------------------------
(***************************************************************************)
(* Theorems about module Hub, for any users, connections and capacities.   *)
(***************************************************************************)
EXTENDS Hub, SequenceTheorems, WellFoundedInduction, TLAPS

ConnStep(c) == \/ ServeWs(c) \/ PeerSend(c) \/ PeerGone(c) \/ ReadError(c) \/ Writer(c)
               \/ HubTakeRegister(c) \/ HubTakeUnregister(c) \/ HubMessage(c)

\* Publishing to anyone keeps the bus typed.
LEMMA PublishTyped ==
  ASSUME TypeOK, NEW to \in Addressees
  PROVE  Append(inbox, to) \in Seq(Addressees)
<1>1. inbox \in Seq(Addressees)
  BY DEF TypeOK
<1> QED
  BY <1>1

LEMMA EveryoneTyped == Everyone \in Addressees
BY DEF Addressees

LEMMA PresenceTyped ==
  ASSUME TypeOK, inbox' = inbox \/ inbox' = Append(inbox, Everyone)
  PROVE  inbox' \in Seq(Addressees)
<1>1. inbox \in Seq(Addressees)
  BY DEF TypeOK
<1> QED
  BY <1>1, PublishTyped, EveryoneTyped

\* Typing of the connection's own steps.
LEMMA TypeConn ==
  ASSUME TypeOK, NEW c \in Conns, ConnStep(c)
  PROVE  TypeOK'
<1> USE HubAssumption DEF TypeOK, procVars, chanVars, hubVars, loopVars,
        busVars, envVars, Loops
<1>1. CASE ServeWs(c)
  BY <1>1 DEF ServeWs
<1>2. CASE PeerSend(c)
  BY <1>2, SMTT(30) DEF PeerSend
<1>3. CASE PeerGone(c)
  BY <1>3 DEF PeerGone
<1>4. CASE ReadError(c)
  BY <1>4 DEF ReadError
<1>5. CASE WriterTake(c)
  BY <1>5, SMTT(30) DEF WriterTake
<1>6. CASE WriterFlush(c)
  BY <1>6, SMTT(30) DEF WriterFlush
<1>7. CASE WriterEnd(c)
  BY <1>7 DEF WriterEnd
<1>8. CASE HubTakeRegister(c)
  BY <1>8 DEF HubTakeRegister
<1>9. CASE HubTakeUnregister(c)
  BY <1>9 DEF HubTakeUnregister
<1>10. CASE HubRelay(c)
  <2>1. inbox' \in Seq(Addressees)
    <3>1. CASE inbox' = inbox
      BY <3>1
    <3>2. CASE \E to \in Addressees : inbox' = Append(inbox, to)
      BY <3>2, PublishTyped
    <3> QED
      BY <1>10, <3>1, <3>2 DEF HubRelay
  <2> QED
    BY <1>10, <2>1 DEF HubRelay
<1>11. CASE HubDeleteForMe(c)
  BY <1>11 DEF HubDeleteForMe
<1> QED
  BY <1>1, <1>2, <1>3, <1>4, <1>5, <1>6, <1>7, <1>8, <1>9, <1>10, <1>11
  DEF ConnStep, Writer, HubMessage

\* Typing of the steps of the hub that concern no message.
LEMMA TypeHub ==
  ASSUME TypeOK, HubStep
  PROVE  TypeOK'
<1> USE HubAssumption DEF TypeOK, procVars, chanVars, hubVars, loopVars,
        busVars, envVars, HubGoto, User
<1>1. CASE HubRegister
  BY <1>1 DEF HubRegister
<1>2. CASE HubOnline
  <2>1. inbox' \in Seq(Addressees)
    <3>1. inbox' = inbox \/ inbox' = Append(inbox, Everyone)
      BY <1>2 DEF HubOnline
    <3> HIDE DEF TypeOK
    <3> QED
      BY <3>1, PresenceTyped
  <2>2. online' \in SUBSET Users
    BY <1>2 DEF HubOnline
  <2> QED
    BY <1>2, <2>1, <2>2 DEF HubOnline
<1>3. CASE HubUnregister
  BY <1>3 DEF HubUnregister, Without
<1>4. CASE HubUnregisterGone
  BY <1>4 DEF HubUnregisterGone
<1>5. CASE HubOffline
  <2>1. inbox' \in Seq(Addressees)
    <3>1. inbox' = inbox \/ inbox' = Append(inbox, Everyone)
      BY <1>5 DEF HubOffline
    <3> HIDE DEF TypeOK
    <3> QED
      BY <3>1, PresenceTyped
  <2>2. User \in Users
    BY <1>5 DEF HubOffline
  <2>3. online' \subseteq online
    BY <1>5 DEF HubOffline
  <2>4. lastSeen' \subseteq lastSeen \cup {User}
    BY <1>5 DEF HubOffline, Stamped
  <2>5. hubPc' = "select" /\ hubConn' = NoConn
    BY <1>5 DEF HubOffline
  <2>6. UNCHANGED <<procVars, chanVars, clients, loopVars, envVars>>
    BY <1>5 DEF HubOffline
  <2> QED
    BY <2>1, <2>2, <2>3, <2>4, <2>5, <2>6
<1> QED
  BY <1>1, <1>2, <1>3, <1>4, <1>5 DEF HubStep

\* Typing of the three goroutines' loops over the clients.
LEMMA TypeLoop ==
  ASSUME TypeOK, NEW g \in Loops, Loop(g)
  PROVE  TypeOK'
<1> USE HubAssumption DEF TypeOK, procVars, chanVars, hubVars, loopVars,
        busVars, envVars
<1>1. ASSUME NEW c \in Conns, LoopSend(g, c) PROVE TypeOK'
  BY <1>1 DEF LoopSend, Number
<1>2. ASSUME NEW c \in Conns, LoopFull(g, c) PROVE TypeOK'
  BY <1>2 DEF LoopFull
<1>3. ASSUME NEW c \in Conns, LoopSendPanics(g, c) PROVE TypeOK'
  BY <1>3 DEF LoopSendPanics
<1>4. CASE LoopClose(g)
  BY <1>4 DEF LoopClose
<1>5. CASE LoopDelete(g)
  BY <1>5 DEF LoopDelete, Without
<1>6. CASE LoopEnd(g)
  BY <1>6 DEF LoopEnd, AfterLoop
<1> QED
  BY <1>1, <1>2, <1>3, <1>4, <1>5, <1>6 DEF Loop

\* Typing of the receptions and of the failures.
LEMMA TypeRest ==
  ASSUME TypeOK,
         SubReceive \/ TickReceive \/ LoseMessage \/ Kill \/ Restart \/ UNCHANGED vars
  PROVE  TypeOK'
<1> USE HubAssumption DEF TypeOK, procVars, chanVars, hubVars, loopVars,
        busVars, envVars, Loops
<1>r. Registered \in SUBSET Conns
  BY DEF Registered
<1>1. CASE SubReceive
  <2>1. inbox' \in Seq(Addressees)
    BY <1>1 DEF SubReceive
  <2>2. todo' \in [Loops -> SUBSET Conns] /\ msgNo' \in Nat /\ fanned' \in Nat
    BY <1>r, <1>1 DEF SubReceive
  <2>3. loop' \in [Loops -> {"idle", "iter", "full", "closed"}]
    BY <1>1 DEF SubReceive
  <2> QED
    BY <1>1, <2>1, <2>2, <2>3 DEF SubReceive
<1>2. CASE TickReceive
  BY <1>r, <1>2 DEF TickReceive
<1>3. CASE LoseMessage
  BY <1>3 DEF LoseMessage
<1>4. CASE Kill
  BY <1>4 DEF Kill
<1>5. CASE Restart
  BY <1>5 DEF Restart, Lost
<1>6. CASE UNCHANGED vars
  BY <1>6 DEF vars
<1> QED
  BY <1>1, <1>2, <1>3, <1>4, <1>5, <1>6

\* Every step of the specification, by the goroutine that takes it.
LEMMA StepCases ==
  ASSUME [Next]_vars
  PROVE  \/ status = "up" /\ \E c \in Conns : ConnStep(c)
         \/ status = "up" /\ HubStep
         \/ status = "up" /\ \E g \in Loops : Loop(g)
         \/ status = "up" /\ (SubReceive \/ TickReceive \/ LoseMessage \/ Kill)
         \/ Restart
         \/ UNCHANGED vars
BY DEF Next, Step, ConnStep, Quiet

\* Every variable keeps its type, whatever fails or crashes.
THEOREM TypeCorrect == Spec => []TypeOK
<1>1. Init => TypeOK
  BY HubAssumption DEF Init, TypeOK, Loops
<1>2. ASSUME TypeOK, [Next]_vars PROVE TypeOK'
  BY <1>2, StepCases, TypeConn, TypeHub, TypeLoop, TypeRest
<1> QED
  BY <1>1, <1>2, PTL DEF Spec
-----------------------------------------------------------------------------
(* The client map.  RegisteredOpen and EndedIsRemoved are not inductive: a  *)
(* client must also be known to sit in its own user's entry only, and to be *)
(* in no map, loop or closed channel before the hub has inserted it.        *)

InMap(c) == c \in clients[UserOf[c]]

OwnEntry == \A u \in Users : \A c \in clients[u] : UserOf[c] = u

\* Only sendToUser loops in the hub, and it drops nobody.
HubLoops == /\ loop["hub"] \in {"idle", "iter"}
            /\ loop["hub"] = "iter" => hubPc = "sendToUser"

\* The hub has not inserted c yet.
Fresh(c) == reader[c] \in {"none", "register"} \/ (hubPc = "lockReg" /\ hubConn = c)

Untouched(c) == /\ ~InMap(c)
                /\ c \notin closed
                /\ \A g \in Loops : c \notin todo[g] /\ at[g] # c

FreshUntouched == \A c \in Conns : Fresh(c) => Untouched(c)

Dropping(c) == \E g \in Loops : loop[g] = "closed" /\ at[g] = c

OpenInMap == status = "up" => \A c \in Conns : InMap(c) /\ c \in closed => Dropping(c)

\* While the hub inserts a client, its readPump runs but cannot end.
InHand == hubPc = "lockReg" => reader[hubConn] \in {"read", "broadcast", "unregister"}

MapInv == TypeOK /\ OwnEntry /\ HubLoops /\ InHand /\ FreshUntouched /\ OpenInMap

LEMMA RegisteredInMap ==
  ASSUME TypeOK, OwnEntry
  PROVE  \A c \in Conns : c \in Registered <=> InMap(c)
BY HubAssumption DEF TypeOK, OwnEntry, InMap, Registered, HubAssumption

\* The steps that touch nothing of this.
LEMMA MapKept ==
  ASSUME MapInv, TypeOK',
         UNCHANGED <<reader, closed, clients, hubPc, hubConn, loop, todo, at, status>>
  PROVE  MapInv'
<1>1. OwnEntry' /\ HubLoops' /\ InHand'
  BY DEF MapInv, OwnEntry, HubLoops, InHand
<1>2. FreshUntouched'
  BY DEF MapInv, FreshUntouched, Fresh, Untouched, InMap
<1>3. OpenInMap'
  BY DEF MapInv, OpenInMap, InMap, Dropping
<1> QED
  BY <1>1, <1>2, <1>3 DEF MapInv

\* The steps that only tell how far a running readPump is.
LEMMA MapReader ==
  ASSUME MapInv, TypeOK', NEW c \in Conns, NEW place \in {"read", "broadcast", "unregister"},
         reader[c] \in {"read", "broadcast"}, reader' = [reader EXCEPT ![c] = place],
         UNCHANGED <<closed, clients, hubPc, hubConn, loop, todo, at, status>>
  PROVE  MapInv'
<1>1. reader'[c] = place /\ \A d \in Conns \ {c} : reader'[d] = reader[d]
  BY DEF MapInv, TypeOK
<1>2. OwnEntry' /\ HubLoops'
  BY DEF MapInv, OwnEntry, HubLoops
<1>3. InHand'
  BY <1>1 DEF MapInv, InHand, TypeOK
<1>4. \A d \in Conns : Fresh(d)' => Fresh(d)
  BY <1>1 DEF Fresh
<1>5. FreshUntouched'
  BY <1>4 DEF MapInv, FreshUntouched, Untouched, InMap
<1>6. OpenInMap'
  BY DEF MapInv, OpenInMap, InMap, Dropping
<1> QED
  BY <1>2, <1>3, <1>5, <1>6 DEF MapInv

\* The steps of one connection.
LEMMA MapConn ==
  ASSUME MapInv, TypeOK', NEW c \in Conns, ConnStep(c)
  PROVE  MapInv'
<1> USE HubAssumption DEF HubAssumption, procVars, chanVars, hubVars, loopVars, busVars, envVars, Loops
<1>1. CASE ServeWs(c)
  BY <1>1 DEF ServeWs, MapInv, TypeOK, OwnEntry, HubLoops, InHand,
     FreshUntouched, Fresh, Untouched, OpenInMap, Dropping, InMap
<1>2. CASE PeerSend(c)
  BY <1>2, MapReader DEF PeerSend
<1>3. CASE PeerGone(c)
  BY <1>3, MapKept DEF PeerGone
<1>4. CASE ReadError(c)
  BY <1>4, MapReader DEF ReadError
<1>5. CASE WriterTake(c)
  BY <1>5, MapKept DEF WriterTake
<1>6. CASE WriterFlush(c)
  BY <1>6, MapKept DEF WriterFlush
<1>7. CASE WriterEnd(c)
  BY <1>7, MapKept DEF WriterEnd
<1>8. CASE HubTakeRegister(c)
  BY <1>8 DEF HubTakeRegister, MapInv, TypeOK, OwnEntry, HubLoops, InHand,
     FreshUntouched, Fresh, Untouched, OpenInMap, Dropping, InMap
<1>9. CASE HubTakeUnregister(c)
  BY <1>9 DEF HubTakeUnregister, MapInv, TypeOK, OwnEntry, HubLoops, InHand,
     FreshUntouched, Fresh, Untouched, OpenInMap, Dropping, InMap
<1>10. CASE HubRelay(c)
  BY <1>10, MapReader DEF HubRelay
<1>11. CASE HubDeleteForMe(c)
  BY <1>11 DEF HubDeleteForMe, MapInv, TypeOK, OwnEntry, HubLoops, InHand,
     FreshUntouched, Fresh, Untouched, OpenInMap, Dropping, InMap
<1> QED
  BY <1>1, <1>2, <1>3, <1>4, <1>5, <1>6, <1>7, <1>8, <1>9, <1>10, <1>11
  DEF ConnStep, Writer, HubMessage

LEMMA MapHub ==
  ASSUME MapInv, TypeOK', HubStep, status = "up"
  PROVE  MapInv'
<1> USE HubAssumption DEF HubAssumption, MapInv, TypeOK, OwnEntry, HubLoops, InHand, FreshUntouched,
        Fresh, Untouched, OpenInMap, Dropping, InMap, procVars, chanVars, hubVars, loopVars,
        busVars, envVars, Loops, User, HubGoto
<1>1. CASE HubRegister
  <2>1. /\ hubConn \in Conns
        /\ \A c \in Conns : InMap(c)' <=> InMap(c) \/ c = hubConn
        /\ UNCHANGED <<reader, closed, loop, todo, at, status>>
        /\ hubPc = "lockReg" /\ hubPc' # "lockReg" /\ hubPc' # "sendToUser"
    BY <1>1 DEF HubRegister
  <2>2. OwnEntry'
    BY <1>1 DEF HubRegister
  <2>3. HubLoops' /\ InHand'
    BY <2>1
  <2>4. FreshUntouched'
    BY <2>1
  <2>5. hubConn \notin closed
    BY <2>1
  <2>6. ASSUME NEW c \in Conns, InMap(c)', c \in closed' PROVE Dropping(c)'
    <3>1. InMap(c) /\ c \in closed
      BY <2>1, <2>5, <2>6
    <3>2. Dropping(c)
      BY <3>1
    <3> QED
      BY <2>1, <3>2
  <2> QED
    BY <2>2, <2>3, <2>4, <2>6
<1>2. CASE HubOnline
  BY <1>2 DEF HubOnline
<1>3. CASE HubUnregister
  BY <1>3 DEF HubUnregister, Without
<1>4. CASE HubUnregisterGone
  BY <1>4 DEF HubUnregisterGone
<1>5. CASE HubOffline
  BY <1>5 DEF HubOffline
<1> QED
  BY <1>1, <1>2, <1>3, <1>4, <1>5 DEF HubStep

LEMMA MapLoop ==
  ASSUME MapInv, TypeOK', NEW g \in Loops, Loop(g), status = "up"
  PROVE  MapInv'
<1> USE HubAssumption DEF HubAssumption, MapInv, TypeOK, OwnEntry, HubLoops, InHand, FreshUntouched,
        Fresh, Untouched, OpenInMap, Dropping, InMap, procVars, chanVars, hubVars, loopVars,
        busVars, envVars
<1>1. ASSUME NEW c \in Conns, LoopSend(g, c) PROVE MapInv'
  BY <1>1 DEF LoopSend
<1>2. ASSUME NEW c \in Conns, LoopFull(g, c) PROVE MapInv'
  BY <1>2 DEF LoopFull, Loops, ToAll
<1>3. ASSUME NEW c \in Conns, LoopSendPanics(g, c) PROVE MapInv'
  BY <1>3 DEF LoopSendPanics
<1>4. CASE LoopClose(g)
  BY <1>4 DEF LoopClose, Loops
<1>5. CASE LoopDelete(g)
  BY <1>5 DEF LoopDelete, Without, Loops
<1>6. CASE LoopEnd(g)
  BY <1>6 DEF LoopEnd, AfterLoop, Loops
<1> QED
  BY <1>1, <1>2, <1>3, <1>4, <1>5, <1>6 DEF Loop

LEMMA MapRest ==
  ASSUME MapInv, TypeOK',
         SubReceive \/ TickReceive \/ LoseMessage \/ Kill \/ Restart \/ UNCHANGED vars
  PROVE  MapInv'
<1>r. Registered = {c \in Conns : InMap(c)}
  <2>1. Registered \in SUBSET Conns
    BY DEF MapInv, TypeOK, Registered
  <2> QED
    BY <2>1, RegisteredInMap DEF MapInv
<1> USE HubAssumption DEF HubAssumption, MapInv, TypeOK, OwnEntry, HubLoops, InHand, FreshUntouched,
        Fresh, Untouched, OpenInMap, Dropping, InMap, procVars, chanVars, hubVars, loopVars,
        busVars, envVars, Loops
<1>1. CASE SubReceive
  <2>1. \A c \in todo'["sub"] : InMap(c)
    <3>1. \A u \in Users : \A c \in clients[u] : InMap(c)
      OBVIOUS
    <3>2. \/ Head(inbox) = Everyone /\ todo'["sub"] = Registered
          \/ Head(inbox) \in Users /\ todo'["sub"] = clients[Head(inbox)]
      BY <1>1 DEF SubReceive
    <3> QED
      BY <3>1, <3>2, <1>r
  <2>2. /\ UNCHANGED <<reader, clients, closed, hubPc, hubConn, at, status>>
        /\ \A g \in Loops \ {"sub"} : todo'[g] = todo[g] /\ loop'[g] = loop[g]
        /\ loop["sub"] = "idle"
    BY <1>1 DEF SubReceive
  <2>3. OwnEntry' /\ HubLoops' /\ InHand' /\ FreshUntouched'
    BY <2>1, <2>2, SMTT(30)
  <2>4. OpenInMap'
    BY <2>2, SMTT(30)
  <2> QED
    BY <2>3, <2>4
<1>2. CASE TickReceive
  BY <1>2, <1>r DEF TickReceive
<1>3. CASE LoseMessage
  BY <1>3, MapKept DEF LoseMessage
<1>4. CASE Kill
  BY <1>4 DEF Kill
<1>5. CASE Restart
  BY <1>5 DEF Restart, Lost
<1>6. CASE UNCHANGED vars
  BY <1>6, MapKept DEF vars
<1> QED
  BY <1>1, <1>2, <1>3, <1>4, <1>5, <1>6

\* The invariant of the client map, from which the two theorems below follow.
LEMMA MapCorrect == Spec => []MapInv
<1>1. Init => MapInv
  <2>1. Init => TypeOK
    BY HubAssumption DEF Init, TypeOK, Loops
  <2>2. Init => OwnEntry /\ HubLoops /\ InHand /\ FreshUntouched /\ OpenInMap
    BY HubAssumption DEF HubAssumption, Init, OwnEntry, HubLoops, InHand, FreshUntouched,
       Untouched, OpenInMap, InMap, Loops
  <2> QED
    BY <2>1, <2>2 DEF MapInv
<1>2. ASSUME TypeOK', MapInv, [Next]_vars PROVE MapInv'
  BY <1>2, StepCases, MapConn, MapHub, MapLoop, MapRest
<1> QED
  BY <1>1, <1>2, TypeCorrect, PTL DEF Spec

\* A client that a loop may find in the map has an open channel, unless the
\* loop that drops it stands between close and delete (broadcastLocal and the
\* unregister case of Hub.Run close only what they also remove).
THEOREM NoClosedClients == Spec => []RegisteredOpen
<1>1. MapInv => RegisteredOpen
  <2> SUFFICES ASSUME MapInv, status = "up", NEW c \in Registered \cap closed
               PROVE  Dropping(c)
    BY DEF RegisteredOpen, Dropping
  <2>1. c \in Conns
    BY DEF MapInv, TypeOK
  <2>2. InMap(c)
    BY <2>1, RegisteredInMap DEF MapInv
  <2> QED
    BY <2>1, <2>2 DEF MapInv, OpenInMap
<1> QED
  BY <1>1, MapCorrect, PTL

\* The inductive form of EndedIsRemoved.
EndedInHand == \A c \in Conns : reader[c] = "done" /\ InMap(c) => hubPc = "lockUnreg" /\ hubConn = c

LEMMA EndedStep ==
  ASSUME MapInv, EndedInHand, [Next]_vars
  PROVE  EndedInHand'
<1> USE HubAssumption DEF HubAssumption, MapInv, TypeOK, InMap, EndedInHand, procVars, chanVars,
        hubVars, loopVars, busVars, envVars
<1>1. ASSUME NEW c \in Conns, ConnStep(c) PROVE EndedInHand'
  BY <1>1 DEF ConnStep, ServeWs, PeerSend, PeerGone, ReadError, Writer, WriterTake, WriterFlush,
     WriterEnd, HubTakeRegister, HubTakeUnregister, HubMessage, HubRelay, HubDeleteForMe
<1>2. CASE HubStep
  <2> USE DEF User, HubGoto
  <2>1. CASE HubRegister
    BY <2>1 DEF HubRegister, InHand
  <2>2. CASE HubOnline
    BY <2>2 DEF HubOnline
  <2>3. CASE HubUnregister
    BY <2>3 DEF HubUnregister, Without
  <2>4. CASE HubUnregisterGone
    BY <2>4 DEF HubUnregisterGone
  <2>5. CASE HubOffline
    BY <2>5 DEF HubOffline
  <2> QED
    BY <1>2, <2>1, <2>2, <2>3, <2>4, <2>5 DEF HubStep
<1>3. ASSUME NEW g \in Loops, Loop(g) PROVE EndedInHand'
  <2>1. ASSUME NEW c \in Conns, LoopSend(g, c) \/ LoopFull(g, c) \/ LoopSendPanics(g, c)
        PROVE  EndedInHand'
    BY <2>1 DEF LoopSend, LoopFull, LoopSendPanics
  <2>2. CASE LoopClose(g)
    BY <2>2 DEF LoopClose
  <2>3. CASE LoopDelete(g)
    BY <2>3 DEF LoopDelete, Without
  <2>4. CASE LoopEnd(g)
    BY <2>4 DEF LoopEnd, AfterLoop, HubLoops
  <2> QED
    BY <1>3, <2>1, <2>2, <2>3, <2>4 DEF Loop
<1>4. CASE SubReceive \/ TickReceive \/ LoseMessage \/ Kill \/ UNCHANGED vars
  BY <1>4 DEF SubReceive, TickReceive, LoseMessage, Kill, vars
<1>5. CASE Restart
  BY <1>5 DEF Restart
<1> QED
  BY <1>1, <1>2, <1>3, <1>4, <1>5, StepCases

\* A client whose readPump has ended stays in no map: the hub's removal is the
\* last that is heard of it, even if broadcastLocal has dropped it before.
THEOREM EndedAreRemoved == Spec => []EndedIsRemoved
<1>1. Init => EndedInHand
  BY DEF Init, EndedInHand
<1>2. MapInv /\ EndedInHand /\ [Next]_vars => EndedInHand'
  BY EndedStep
<1>3. MapInv /\ EndedInHand => EndedIsRemoved
  <2> SUFFICES ASSUME MapInv, EndedInHand, NEW c \in Registered, reader[c] = "done"
               PROVE  hubPc = "lockUnreg" /\ hubConn = c
    BY DEF EndedIsRemoved
  <2>1. c \in Conns
    BY DEF MapInv, TypeOK, Registered
  <2>2. InMap(c)
    BY <2>1, RegisteredInMap DEF MapInv
  <2> QED
    BY <2>1, <2>2 DEF EndedInHand
<1> QED
  BY <1>1, <1>2, <1>3, MapCorrect, PTL DEF Spec
-----------------------------------------------------------------------------
(* Presence, when Redis answers.                                           *)

\* The hub takes a user offline only if no client of the user is in the map,
\* and keeps h.mu until it has done so.
OfflineEmpty == hubPc = "offline" => clients[User] = {}

PresenceInv == OfflineEmpty /\ ConnectedIsOnline

LEMMA PresenceHub ==
  ASSUME TypeOK, PresenceInv, HubStep, ~MayFail
  PROVE  PresenceInv'
<1> USE HubAssumption DEF HubAssumption, TypeOK, PresenceInv, OfflineEmpty, ConnectedIsOnline,
        procVars, chanVars, hubVars, loopVars, busVars, envVars, User, HubGoto
<1>1. CASE HubRegister
  BY <1>1 DEF HubRegister, FirstConn
<1>2. CASE HubOnline
  BY <1>2 DEF HubOnline
<1>3. CASE HubUnregister
  BY <1>3 DEF HubUnregister, Without, LastConn
<1>4. CASE HubUnregisterGone
  BY <1>4 DEF HubUnregisterGone
<1>5. CASE HubOffline
  BY <1>5 DEF HubOffline
<1> QED
  BY <1>1, <1>2, <1>3, <1>4, <1>5 DEF HubStep

LEMMA PresenceStep ==
  ASSUME TypeOK, HubLoops, PresenceInv, [Next]_vars, ~MayFail
  PROVE  PresenceInv'
<1> USE HubAssumption DEF HubAssumption, TypeOK, PresenceInv, OfflineEmpty, ConnectedIsOnline,
        procVars, chanVars, hubVars, loopVars, busVars, envVars, User
<1>1. ASSUME NEW c \in Conns, ConnStep(c) PROVE PresenceInv'
  BY <1>1 DEF ConnStep, ServeWs, PeerSend, PeerGone, ReadError, Writer, WriterTake, WriterFlush,
     WriterEnd, HubTakeRegister, HubTakeUnregister, HubMessage, HubRelay, HubDeleteForMe
<1>2. CASE HubStep
  BY <1>2, PresenceHub
<1>3. ASSUME NEW g \in Loops, Loop(g) PROVE PresenceInv'
  <2>1. ASSUME NEW c \in Conns, LoopSend(g, c) \/ LoopFull(g, c) \/ LoopSendPanics(g, c)
        PROVE  PresenceInv'
    BY <2>1 DEF LoopSend, LoopFull, LoopSendPanics
  <2>2. CASE LoopClose(g)
    BY <2>2 DEF LoopClose
  <2>3. CASE LoopDelete(g)
    BY <2>3 DEF LoopDelete, Without
  <2>4. CASE LoopEnd(g)
    BY <2>4 DEF LoopEnd, AfterLoop, HubLoops
  <2> QED
    BY <1>3, <2>1, <2>2, <2>3, <2>4 DEF Loop
<1>4. CASE SubReceive \/ TickReceive \/ LoseMessage \/ Kill \/ UNCHANGED vars
  BY <1>4 DEF SubReceive, TickReceive, LoseMessage, Kill, vars
<1>5. CASE Restart
  BY <1>5 DEF Restart
<1> QED
  BY <1>1, <1>2, <1>3, <1>4, <1>5, StepCases

\* While Redis answers, every user with a registered connection is in
\* online_users or about to be put there, however the devices come and go and
\* whomever broadcastLocal drops (isFirstConn, len(userClients) == 0).
THEOREM ConnectedAreOnline ==
  ASSUME ~MayFail
  PROVE  Spec => []ConnectedIsOnline
<1>1. Init => PresenceInv
  BY DEF Init, PresenceInv, OfflineEmpty, ConnectedIsOnline
<1>2. TypeOK /\ MapInv /\ PresenceInv /\ [Next]_vars => PresenceInv'
  BY PresenceStep DEF MapInv
<1>3. PresenceInv => ConnectedIsOnline
  BY DEF PresenceInv
<1> QED
  BY <1>1, <1>2, <1>3, TypeCorrect, MapCorrect, PTL DEF Spec

\* Whoever has been registered is online or stamped, unless the hub is about
\* to put them online.
SeenInv ==
  \A c \in Conns : reader[c] \notin {"none", "register"} =>
    \/ UserOf[c] \in online \cup lastSeen
    \/ hubPc \in {"lockReg", "online"} /\ User = UserOf[c]

LEMMA SeenHub ==
  ASSUME TypeOK, PresenceInv, SeenInv, HubStep, ~MayFail
  PROVE  SeenInv'
<1> USE HubAssumption DEF HubAssumption, TypeOK, SeenInv,
        procVars, chanVars, hubVars, loopVars, busVars, envVars, User, HubGoto
<1>1. CASE HubRegister
  <2>1. CASE FirstConn
    BY <1>1, <2>1 DEF HubRegister
  <2>2. CASE ~FirstConn
    <3>1. clients[User] # {} /\ hubPc = "lockReg" /\ User \in Users
      BY <1>1, <2>2 DEF HubRegister, FirstConn
    <3>2. User \in online
      BY <3>1 DEF PresenceInv, ConnectedIsOnline
    <3> QED
      BY <1>1, <2>2, <3>2 DEF HubRegister
  <2> QED
    BY <2>1, <2>2
<1>2. CASE HubOnline
  BY <1>2 DEF HubOnline
<1>3. CASE HubUnregister
  BY <1>3 DEF HubUnregister
<1>4. CASE HubUnregisterGone
  BY <1>4 DEF HubUnregisterGone
<1>5. CASE HubOffline
  BY <1>5 DEF HubOffline, Stamped
<1> QED
  BY <1>1, <1>2, <1>3, <1>4, <1>5 DEF HubStep

LEMMA SeenStep ==
  ASSUME TypeOK, HubLoops, PresenceInv, SeenInv, [Next]_vars, ~MayFail, ~MayCrash
  PROVE  SeenInv'
<1> USE HubAssumption DEF HubAssumption, TypeOK, SeenInv,
        procVars, chanVars, hubVars, loopVars, busVars, envVars, User
<1>1. ASSUME NEW c \in Conns, ConnStep(c) PROVE SeenInv'
  <2>1. CASE ServeWs(c) \/ PeerSend(c) \/ PeerGone(c) \/ ReadError(c)
    BY <2>1 DEF ServeWs, PeerSend, PeerGone, ReadError
  <2>2. CASE Writer(c)
    BY <2>2 DEF Writer, WriterTake, WriterFlush, WriterEnd
  <2>3. CASE HubTakeRegister(c)
    BY <2>3 DEF HubTakeRegister
  <2>4. CASE HubTakeUnregister(c)
    BY <2>4 DEF HubTakeUnregister
  <2>5. CASE HubRelay(c)
    BY <2>5 DEF HubRelay
  <2>6. CASE HubDeleteForMe(c)
    BY <2>6 DEF HubDeleteForMe
  <2> QED
    BY <1>1, <2>1, <2>2, <2>3, <2>4, <2>5, <2>6 DEF ConnStep, HubMessage
<1>2. CASE HubStep
  BY <1>2, SeenHub
<1>3. ASSUME NEW g \in Loops, Loop(g) PROVE SeenInv'
  <2>1. UNCHANGED <<reader, online, lastSeen, hubConn>>
    BY <1>3 DEF Loop, LoopSend, LoopFull, LoopSendPanics, LoopClose, LoopDelete, LoopEnd
  <2>2. hubPc' = hubPc \/ (g = "hub" /\ hubPc = "sendToUser")
    BY <1>3 DEF Loop, LoopSend, LoopFull, LoopSendPanics, LoopClose, LoopDelete, LoopEnd, AfterLoop, HubLoops
  <2> QED
    BY <2>1, <2>2
<1>4. CASE SubReceive \/ TickReceive \/ LoseMessage \/ Kill \/ UNCHANGED vars
  BY <1>4 DEF SubReceive, TickReceive, LoseMessage, Kill, vars
<1>5. CASE Restart
  BY <1>5 DEF Restart
<1> QED
  BY <1>1, <1>2, <1>3, <1>4, <1>5, StepCases

\* While Redis answers and the process lives, whoever has been connected and is
\* not in online_users has a last_seen of the end of the last session, whatever
\* broadcastLocal dropped and however devices overlap (UpdateLastSeen).
THEOREM OfflineAreStamped ==
  ASSUME ~MayFail, ~MayCrash
  PROVE  Spec => []OfflineIsStamped
<1>1. Init => PresenceInv /\ SeenInv
  BY DEF Init, PresenceInv, OfflineEmpty, ConnectedIsOnline, SeenInv
<1>2. TypeOK /\ MapInv /\ PresenceInv /\ SeenInv /\ [Next]_vars => (PresenceInv /\ SeenInv)'
  BY PresenceStep, SeenStep DEF MapInv
<1>3. PresenceInv /\ SeenInv => OfflineIsStamped
  BY DEF SeenInv, OfflineIsStamped
<1> QED
  BY <1>1, <1>2, <1>3, TypeCorrect, MapCorrect, PTL DEF Spec
-----------------------------------------------------------------------------
(* Panics.  Alone among the goroutines, the subscriber cannot panic.       *)

Alone == loop["tick"] = "idle" /\ loop["hub"] = "idle"

\* What the subscriber has yet to visit is open, but for the client that it
\* has closed itself and is about to delete.
Unharmed ==
  /\ loop["sub"] \in {"iter", "full"} => todo["sub"] \cap closed = {}
  /\ loop["sub"] = "full" => at["sub"] \notin closed
  /\ loop["sub"] = "closed" => todo["sub"] \cap closed \subseteq {at["sub"]}

CalmInv == NoPanic /\ Alone /\ Unharmed

LEMMA CalmLoop ==
  ASSUME TypeOK, CalmInv, NEW g \in Loops, Loop(g)
  PROVE  CalmInv'
<1> USE DEF TypeOK, CalmInv, NoPanic, Alone, Unharmed, procVars, chanVars, hubVars, loopVars,
        busVars, envVars, Loops
<1>g. g = "sub"
  <2>1. loop[g] # "idle"
    BY DEF Loop, LoopSend, LoopFull, LoopSendPanics, LoopClose, LoopDelete, LoopEnd
  <2> QED
    BY <2>1
<1>1. ASSUME NEW c \in Conns, LoopSend(g, c) \/ LoopFull(g, c) \/ LoopSendPanics(g, c)
      PROVE  CalmInv'
  BY <1>1, <1>g DEF LoopSend, LoopFull, LoopSendPanics
<1>2. CASE LoopClose(g)
  BY <1>2, <1>g DEF LoopClose
<1>3. CASE LoopDelete(g)
  <2>1. {h \in Loops \ {g} : loop[h] # "idle"} = {}
    BY <1>g
  <2>2. status' = status /\ todo'["sub"] = todo["sub"] \ {at["sub"]}
    BY <1>3, <2>1, <1>g DEF LoopDelete
  <2> QED
    BY <1>3, <2>2, <1>g DEF LoopDelete
<1>4. CASE LoopEnd(g)
  BY <1>4, <1>g DEF LoopEnd
<1> QED
  BY <1>1, <1>2, <1>3, <1>4 DEF Loop

LEMMA CalmStep ==
  ASSUME MapInv, CalmInv, [Next]_vars, MaxExpired = 0, ~DeleteForMe
  PROVE  CalmInv'
<1> USE DEF CalmInv, NoPanic, Alone, Unharmed, procVars, chanVars, hubVars, loopVars,
        busVars, envVars
<1>t. TypeOK /\ OwnEntry
  BY DEF MapInv
<1>o. ASSUME status = "up", LockFree PROVE \A c \in Registered : c \notin closed
  <2>1. \A c \in Registered : c \in Conns
    BY <1>t DEF TypeOK, Registered
  <2>2. \A c \in Registered : InMap(c)
    BY <1>t, <2>1, RegisteredInMap
  <2>3. \A c \in Conns : ~Dropping(c)
    BY <1>o DEF LockFree, Dropping
  <2> QED
    BY <1>o, <2>1, <2>2, <2>3 DEF MapInv, OpenInMap
<1>1. ASSUME NEW c \in Conns, ConnStep(c) PROVE CalmInv'
  BY <1>1 DEF ConnStep, ServeWs, PeerSend, PeerGone, ReadError, Writer, WriterTake, WriterFlush,
     WriterEnd, HubTakeRegister, HubTakeUnregister, HubMessage, HubRelay, HubDeleteForMe
<1>2. ASSUME status = "up", HubStep PROVE CalmInv'
  <2>1. CASE HubUnregister
    <3>1. LockFree /\ hubConn \in Registered
      BY <1>t, <2>1, HubAssumption DEF HubUnregister, User, Registered, TypeOK, HubAssumption
    <3>2. hubConn \notin closed /\ loop["sub"] = "idle"
      BY <1>o, <1>2, <3>1 DEF LockFree, Loops
    <3> QED
      BY <2>1, <3>2 DEF HubUnregister
  <2>2. CASE HubRegister \/ HubOnline \/ HubUnregisterGone \/ HubOffline
    BY <2>2 DEF HubRegister, HubOnline, HubUnregisterGone, HubOffline
  <2> QED
    BY <1>2, <2>1, <2>2 DEF HubStep
<1>3. ASSUME NEW g \in Loops, Loop(g) PROVE CalmInv'
  BY <1>3, <1>t, CalmLoop
<1>4. ASSUME status = "up", SubReceive PROVE CalmInv'
  <2>1. LockFree
    BY <1>4 DEF SubReceive, LockFree, Loops
  <2>2. \/ todo'["sub"] = Registered
        \/ Head(inbox) \in Users /\ todo'["sub"] = clients[Head(inbox)]
    BY <1>4, <1>t DEF SubReceive, TypeOK, Loops
  <2>3. todo'["sub"] \subseteq Registered
    BY <2>2 DEF Registered
  <2>4. UNCHANGED <<closed, status>> /\ loop' = [loop EXCEPT !["sub"] = "iter"]
    BY <1>4 DEF SubReceive
  <2> QED
    BY <1>4, <1>o, <1>t, <2>1, <2>3, <2>4 DEF TypeOK, Loops
<1>5. ASSUME TickReceive PROVE FALSE
  BY <1>5, <1>t DEF TickReceive, TypeOK
<1>6. CASE LoseMessage \/ Kill \/ UNCHANGED vars
  BY <1>6 DEF LoseMessage, Kill, vars
<1>7. CASE Restart
  BY <1>7 DEF Restart, Loops
<1> QED
  BY <1>1, <1>2, <1>3, <1>4, <1>5, <1>6, <1>7, StepCases

\* Were broadcastLocal never called by the expiry ticker and sendToUser never
\* by the hub, the process could not panic, whatever its clients do and however
\* slow they are: the second goroutine under the read lock is what it takes.
THEOREM OneLoopNoPanic ==
  ASSUME MaxExpired = 0, ~DeleteForMe
  PROVE  Spec => []NoPanic
<1>1. Init => CalmInv
  BY DEF Init, CalmInv, NoPanic, Alone, Unharmed, Loops
<1>2. MapInv /\ CalmInv /\ [Next]_vars => CalmInv'
  BY CalmStep
<1>3. CalmInv => NoPanic
  BY DEF CalmInv
<1> QED
  BY <1>1, <1>2, <1>3, MapCorrect, PTL DEF Spec
-----------------------------------------------------------------------------
(* What is a broadcast in a queue of messages.                             *)

\* Every set of natural numbers that is not empty has a least element.
LEMMA LeastNumber ==
  ASSUME NEW T, T \subseteq Nat, T # {}
  PROVE  \E x \in T : \A y \in T : x <= y
<1>1. PICK x \in T : \A y \in T : ~(<<y, x>> \in OpToRel(<, Nat))
  BY NatLessThanWellFounded, WFMin
<1>2. \A y \in T : ~(y < x)
  BY <1>1 DEF OpToRel
<1> QED
  BY <1>2

\* Message m behind the broadcasts r.
Kept(r, m) == IF m > 0 THEN Append(r, m) ELSE r

\* f[n] is the broadcasts among the first n messages of q.
Sifts(f, q) ==
  /\ f \in [0 .. Len(q) -> Seq(Nat)]
  /\ f[0] = <<>>
  /\ \A n \in 1 .. Len(q) : f[n] = Kept(f[n - 1], q[n])

LEMMA SiftExists ==
  ASSUME NEW q \in Seq(Nat)
  PROVE  \E f : Sifts(f, q)
<1> DEFINE P(m) == \E f \in [0 .. m -> Seq(Nat)] :
                     f[0] = <<>> /\ \A n \in 1 .. m : f[n] = Kept(f[n - 1], q[n])
           T == {m \in 0 .. Len(q) : ~P(m)}
<1>1. Len(q) \in Nat /\ \A n \in 1 .. Len(q) : q[n] \in Nat
  OBVIOUS
<1>2. P(0)
  <2> DEFINE f == [n \in 0 .. 0 |-> <<>>]
  <2>1. f \in [0 .. 0 -> Seq(Nat)] /\ f[0] = <<>> /\ \A n \in 1 .. 0 : f[n] = Kept(f[n - 1], q[n])
    OBVIOUS
  <2> QED
    BY <2>1
<1>3. ASSUME NEW m \in 1 .. Len(q), P(m - 1) PROVE P(m)
  <2>1. PICK g \in [0 .. m - 1 -> Seq(Nat)] :
          g[0] = <<>> /\ \A n \in 1 .. m - 1 : g[n] = Kept(g[n - 1], q[n])
    BY <1>3
  <2> DEFINE f == [n \in 0 .. m |-> IF n = m THEN Kept(g[m - 1], q[m]) ELSE g[n]]
  <2>2. Kept(g[m - 1], q[m]) \in Seq(Nat)
    <3>1. g[m - 1] \in Seq(Nat) /\ q[m] \in Nat
      BY <1>1, <1>3
    <3> QED
      BY <3>1 DEF Kept
  <2>3. f \in [0 .. m -> Seq(Nat)]
    BY <1>3, <2>2
  <2>4. f[0] = <<>>
    BY <1>3, <2>1
  <2>5. ASSUME NEW n \in 1 .. m PROVE f[n] = Kept(f[n - 1], q[n])
    <3>1. f[n - 1] = g[n - 1] /\ n - 1 \in 0 .. m - 1
      BY <1>3
    <3>2. CASE n = m
      BY <1>3, <3>1, <3>2
    <3>3. CASE n \in 1 .. m - 1
      BY <1>3, <2>1, <3>1, <3>3
    <3> QED
      BY <1>3, <3>2, <3>3
  <2> QED
    BY <2>3, <2>4, <2>5
<1> HIDE DEF P
<1>4. T = {}
  <2> SUFFICES ASSUME T # {} PROVE FALSE
    OBVIOUS
  <2>1. T \subseteq Nat
    BY <1>1
  <2>2. PICK m \in T : \A y \in T : m <= y
    BY <2>1, LeastNumber
  <2>3. m \in 1 .. Len(q) /\ m - 1 \in 0 .. Len(q) /\ ~P(m)
    BY <1>1, <1>2, <2>2
  <2>4. P(m - 1)
    BY <1>1, <2>2, <2>3
  <2> QED
    BY <1>3, <2>3, <2>4
<1>5. P(Len(q))
  BY <1>1, <1>4
<1> QED
  BY <1>5 DEF P, Sifts

\* There is one such function.
LEMMA SiftPrefix ==
  ASSUME NEW p \in Seq(Nat), NEW q \in Seq(Nat), NEW f, NEW g, Sifts(f, p), Sifts(g, q),
         Len(p) <= Len(q), \A n \in 1 .. Len(p) : p[n] = q[n]
  PROVE  \A n \in 0 .. Len(p) : f[n] = g[n]
<1> DEFINE T == {n \in 0 .. Len(p) : f[n] # g[n]}
<1> SUFFICES ASSUME T # {} PROVE FALSE
  OBVIOUS
<1>1. Len(p) \in Nat /\ Len(q) \in Nat
  OBVIOUS
<1>2. T \subseteq Nat
  BY <1>1
<1>3. PICK n \in T : \A y \in T : n <= y
  BY <1>2, LeastNumber
<1>4. n # 0
  BY <1>3 DEF Sifts
<1>5. n \in 1 .. Len(p) /\ n \in 1 .. Len(q) /\ n - 1 \in 0 .. Len(p) /\ n - 1 \notin T
  BY <1>1, <1>3, <1>4
<1>6. f[n] = Kept(f[n - 1], p[n]) /\ g[n] = Kept(g[n - 1], q[n]) /\ f[n - 1] = g[n - 1] /\ p[n] = q[n]
  BY <1>5 DEF Sifts
<1> QED
  BY <1>3, <1>6

LEMMA BroadcastsIs ==
  ASSUME NEW q \in Seq(Nat)
  PROVE  \E f : Sifts(f, q) /\ Broadcasts(q) = f[Len(q)]
<1> DEFINE D(f) == [n \in 0 .. Len(q) |->
                      IF n = 0 THEN <<>>
                      ELSE IF q[n] > 0 THEN Append(f[n - 1], q[n]) ELSE f[n - 1]]
           first == CHOOSE f : f = D(f)
<1>1. Broadcasts(q) = first[Len(q)]
  BY DEF Broadcasts
<1>2. PICK g : Sifts(g, q)
  BY SiftExists
<1>3. Len(q) \in Nat
  OBVIOUS
<1>4. g = D(g)
  <2>1. ASSUME NEW n \in 0 .. Len(q) PROVE g[n] = D(g)[n]
    <3>1. CASE n = 0
      BY <1>2, <3>1 DEF Sifts
    <3>2. CASE n \in 1 .. Len(q)
      <4>1. g[n] = Kept(g[n - 1], q[n])
        BY <1>2, <3>2 DEF Sifts
      <4> QED
        BY <3>2, <4>1 DEF Kept
    <3> QED
      BY <1>3, <3>1, <3>2
  <2>2. g = [n \in 0 .. Len(q) |-> g[n]]
    BY <1>2 DEF Sifts
  <2> QED
    BY <2>1, <2>2
<1>5. first = D(first)
  BY <1>4
<1> HIDE DEF first
<1>6. first[0] = <<>> /\ \A n \in 1 .. Len(q) : first[n] = Kept(first[n - 1], q[n])
  <2>1. \A n \in 0 .. Len(q) : D(first)[n] = IF n = 0 THEN <<>> ELSE Kept(first[n - 1], q[n])
    BY DEF Kept
  <2>2. \A n \in 0 .. Len(q) : first[n] = D(first)[n]
    BY <1>5
  <2>3. 0 \in 0 .. Len(q) /\ \A n \in 1 .. Len(q) : n \in 0 .. Len(q) /\ n # 0
    BY <1>3
  <2> HIDE DEF D
  <2> QED
    BY <2>1, <2>2, <2>3
<1>7. \A n \in 0 .. Len(q) : first[n] = g[n]
  <2> DEFINE T == {n \in 0 .. Len(q) : first[n] # g[n]}
  <2> SUFFICES ASSUME T # {} PROVE FALSE
    OBVIOUS
  <2>1. T \subseteq Nat
    BY <1>3
  <2>2. PICK n \in T : \A y \in T : n <= y
    BY <2>1, LeastNumber
  <2>3. n # 0
    BY <1>2, <1>6, <2>2 DEF Sifts
  <2>4. n \in 1 .. Len(q) /\ n - 1 \in 0 .. Len(q) /\ n - 1 \notin T
    BY <1>3, <2>2, <2>3
  <2>5. first[n] = Kept(first[n - 1], q[n]) /\ g[n] = Kept(g[n - 1], q[n]) /\ first[n - 1] = g[n - 1]
    BY <1>2, <1>6, <2>4 DEF Sifts
  <2> QED
    BY <2>2, <2>5
<1> QED
  BY <1>1, <1>2, <1>3, <1>7

\* An element appended to the second of two sequences.
LEMMA ConcatAppend ==
  ASSUME NEW r \in Seq(Nat), NEW s \in Seq(Nat), NEW m \in Nat
  PROVE  r \o Append(s, m) = Append(r \o s, m)
<1> DEFINE a == r \o Append(s, m)
           b == Append(r \o s, m)
<1>1. Append(s, m) \in Seq(Nat) /\ Len(Append(s, m)) = Len(s) + 1 /\ Append(s, m)[Len(s) + 1] = m
      /\ \A i \in 1 .. Len(s) : Append(s, m)[i] = s[i]
  OBVIOUS
<1>2. a \in Seq(Nat) /\ b \in Seq(Nat) /\ Len(a) = Len(r) + Len(s) + 1 /\ Len(b) = Len(a)
  BY <1>1
<1>3. ASSUME NEW i \in 1 .. Len(a) PROVE a[i] = b[i]
  <2>1. CASE i \in 1 .. Len(r)
    BY <1>1, <2>1
  <2>2. CASE i \in Len(r) + 1 .. Len(r) + Len(s)
    <3>1. i - Len(r) \in 1 .. Len(s)
      BY <2>2
    <3> QED
      BY <1>1, <2>2, <3>1
  <2>3. CASE i = Len(r) + Len(s) + 1
    BY <1>1, <2>3
  <2> QED
    BY <1>2, <2>1, <2>2, <2>3
<1> HIDE DEF a, b
<1>4. a = b
  BY <1>2, <1>3, SeqEqual
<1> QED
  BY <1>4 DEF a, b

\* The elements of a concatenation.
LEMMA ConcatIs ==
  ASSUME NEW r \in Seq(Nat), NEW s \in Seq(Nat)
  PROVE  /\ r \o s \in Seq(Nat) /\ Len(r \o s) = Len(r) + Len(s)
         /\ \A i \in 1 .. Len(r) : (r \o s)[i] = r[i]
         /\ \A i \in Len(r) + 1 .. Len(r) + Len(s) : (r \o s)[i] = s[i - Len(r)]
  OBVIOUS

\* Positions in three sequences, one behind the other.
LEMMA ThreeRanges ==
  ASSUME NEW x \in Nat, NEW y \in Nat, NEW z \in Nat, NEW i \in 1 .. x + y + z
  PROVE  i \in 1 .. x \/ i \in x + 1 .. x + y \/ i \in x + y + 1 .. x + y + z
  OBVIOUS

\* Concatenation is associative.
LEMMA ConcatAssoc ==
  ASSUME NEW r \in Seq(Nat), NEW s \in Seq(Nat), NEW u \in Seq(Nat)
  PROVE  (r \o s) \o u = r \o (s \o u)
<1> DEFINE rs == r \o s
           su == s \o u
           a == rs \o u
           b == r \o su
<1>1. /\ rs \in Seq(Nat) /\ Len(rs) = Len(r) + Len(s)
      /\ \A i \in 1 .. Len(r) : rs[i] = r[i]
      /\ \A i \in Len(r) + 1 .. Len(r) + Len(s) : rs[i] = s[i - Len(r)]
  BY ConcatIs
<1>2. /\ su \in Seq(Nat) /\ Len(su) = Len(s) + Len(u)
      /\ \A i \in 1 .. Len(s) : su[i] = s[i]
      /\ \A i \in Len(s) + 1 .. Len(s) + Len(u) : su[i] = u[i - Len(s)]
  BY ConcatIs
<1> HIDE DEF rs, su
<1>3. /\ a \in Seq(Nat) /\ Len(a) = Len(rs) + Len(u)
      /\ \A i \in 1 .. Len(rs) : a[i] = rs[i]
      /\ \A i \in Len(rs) + 1 .. Len(rs) + Len(u) : a[i] = u[i - Len(rs)]
  BY <1>1, ConcatIs
<1>4. /\ b \in Seq(Nat) /\ Len(b) = Len(r) + Len(su)
      /\ \A i \in 1 .. Len(r) : b[i] = r[i]
      /\ \A i \in Len(r) + 1 .. Len(r) + Len(su) : b[i] = su[i - Len(r)]
  BY <1>2, ConcatIs
<1> HIDE DEF a, b
<1>5. Len(r) \in Nat /\ Len(s) \in Nat /\ Len(u) \in Nat
  OBVIOUS
<1>6. ASSUME NEW i \in 1 .. Len(a) PROVE a[i] = b[i]
  <2>1. CASE i \in 1 .. Len(r)
    <3>1. i \in 1 .. Len(rs)
      BY <1>1, <1>5, <2>1
    <3> QED
      BY <1>1, <1>3, <1>4, <2>1, <3>1
  <2>2. CASE i \in Len(r) + 1 .. Len(r) + Len(s)
    <3>1. i \in 1 .. Len(rs) /\ i \in Len(r) + 1 .. Len(r) + Len(su) /\ i - Len(r) \in 1 .. Len(s)
      BY <1>1, <1>2, <1>5, <2>2
    <3> QED
      BY <1>1, <1>2, <1>3, <1>4, <2>2, <3>1
  <2>3. CASE i \in Len(r) + Len(s) + 1 .. Len(r) + Len(s) + Len(u)
    <3>1. /\ i \in Len(rs) + 1 .. Len(rs) + Len(u) /\ i \in Len(r) + 1 .. Len(r) + Len(su)
          /\ i - Len(r) \in Len(s) + 1 .. Len(s) + Len(u)
          /\ i - Len(rs) = (i - Len(r)) - Len(s)
      BY <1>1, <1>2, <1>5, <2>3
    <3> QED
      BY <1>2, <1>3, <1>4, <3>1
  <2>4. i \in 1 .. Len(r) \/ i \in Len(r) + 1 .. Len(r) + Len(s)
        \/ i \in Len(r) + Len(s) + 1 .. Len(r) + Len(s) + Len(u)
    <3>1. Len(a) = Len(r) + Len(s) + Len(u)
      BY <1>1, <1>3
    <3>2. i \in 1 .. Len(r) + Len(s) + Len(u)
      BY <3>1
    <3> QED
      BY <1>5, <3>2, ThreeRanges
  <2> QED
    BY <2>1, <2>2, <2>3, <2>4
<1>7. Len(a) = Len(b)
  BY <1>1, <1>2, <1>3, <1>4, <1>5
<1>8. a = b
  BY <1>3, <1>4, <1>6, <1>7, SeqEqual
<1> QED
  BY <1>8 DEF a, b, rs, su

\* The broadcasts of two queues, one behind the other.
LEMMA BroadcastsCat ==
  ASSUME NEW p \in Seq(Nat), NEW q \in Seq(Nat)
  PROVE  /\ Broadcasts(p) \in Seq(Nat)
         /\ Broadcasts(p \o q) = Broadcasts(p) \o Broadcasts(q)
<1>1. PICK f : Sifts(f, p) /\ Broadcasts(p) = f[Len(p)]
  BY BroadcastsIs
<1>2. PICK g : Sifts(g, q) /\ Broadcasts(q) = g[Len(q)]
  BY BroadcastsIs
<1>3. p \o q \in Seq(Nat) /\ Len(p) \in Nat /\ Len(q) \in Nat /\ Len(p \o q) = Len(p) + Len(q)
  OBVIOUS
<1>4. PICK h : Sifts(h, p \o q) /\ Broadcasts(p \o q) = h[Len(p \o q)]
  BY <1>3, BroadcastsIs
<1>5. h[Len(p)] = f[Len(p)]
  <2>1. \A n \in 1 .. Len(p) : p[n] = (p \o q)[n]
    OBVIOUS
  <2>2. PICK r \in Seq(Nat) : r = p \o q
    BY <1>3
  <2>3. Sifts(h, r) /\ Len(p) <= Len(r) /\ \A n \in 1 .. Len(p) : p[n] = r[n]
    BY <1>3, <1>4, <2>1, <2>2
  <2>4. \A n \in 0 .. Len(p) : f[n] = h[n]
    BY <1>1, <2>3, SiftPrefix
  <2> QED
    BY <1>3, <2>4
<1>6. f[Len(p)] \in Seq(Nat)
  BY <1>1, <1>3 DEF Sifts
<1>7. ASSUME NEW n \in 1 .. Len(q), h[Len(p) + (n - 1)] = f[Len(p)] \o g[n - 1]
      PROVE  h[Len(p) + n] = f[Len(p)] \o g[n]
  <2>1. n - 1 \in 0 .. Len(q) /\ Len(p) + n \in 1 .. Len(p \o q) /\ (Len(p) + n) - 1 = Len(p) + (n - 1)
    BY <1>3
  <2>2. h[Len(p) + n] = Kept(h[Len(p) + (n - 1)], (p \o q)[Len(p) + n])
    BY <1>4, <2>1 DEF Sifts
  <2>3. (p \o q)[Len(p) + n] = q[n] /\ q[n] \in Nat
    BY <1>3
  <2>4. g[n] = Kept(g[n - 1], q[n]) /\ g[n - 1] \in Seq(Nat)
    BY <1>2, <2>1 DEF Sifts
  <2>5. ASSUME NEW r \in Seq(Nat), NEW s \in Seq(Nat), NEW m \in Nat
        PROVE  r \o Append(s, m) = Append(r \o s, m)
    BY ConcatAppend
  <2>6. f[Len(p)] \o Append(g[n - 1], q[n]) = Append(f[Len(p)] \o g[n - 1], q[n])
    BY <1>6, <2>3, <2>4, <2>5
  <2> QED
    BY <1>7, <2>2, <2>3, <2>4, <2>6 DEF Kept
<1> DEFINE Same(n) == h[Len(p) + n] = f[Len(p)] \o g[n]
<1>8. Same(0)
  BY <1>2, <1>3, <1>5, <1>6 DEF Sifts
<1>9. ASSUME NEW n \in 1 .. Len(q), Same(n - 1) PROVE Same(n)
  BY <1>7, <1>9
<1> HIDE DEF Same
<1>10. Same(Len(q))
  <2> DEFINE T == {n \in 0 .. Len(q) : ~Same(n)}
  <2> SUFFICES ASSUME T # {} PROVE FALSE
    BY <1>3
  <2>1. T \subseteq Nat
    OBVIOUS
  <2>2. PICK n \in T : \A y \in T : n <= y
    BY <2>1, LeastNumber
  <2>3. n # 0
    BY <1>8, <2>2
  <2>4. n \in 1 .. Len(q) /\ n - 1 \in 0 .. Len(q) /\ n - 1 \notin T
    BY <2>2, <2>3
  <2> QED
    BY <1>9, <2>2, <2>4
<1> QED
  BY <1>1, <1>2, <1>3, <1>4, <1>6, <1>10 DEF Same

LEMMA BroadcastsEmpty == Broadcasts(<<>>) = <<>>
<1>1. <<>> \in Seq(Nat) /\ Len(<<>>) = 0
  OBVIOUS
<1>2. PICK f : Sifts(f, <<>>) /\ Broadcasts(<<>>) = f[Len(<<>>)]
  BY <1>1, BroadcastsIs
<1> QED
  BY <1>1, <1>2 DEF Sifts

\* A message more.
LEMMA BroadcastsAppend ==
  ASSUME NEW q \in Seq(Nat), NEW m \in Nat
  PROVE  Broadcasts(Append(q, m)) = IF m > 0 THEN Append(Broadcasts(q), m) ELSE Broadcasts(q)
<1>1. <<m>> \in Seq(Nat) /\ Len(<<m>>) = 1 /\ <<m>>[1] = m /\ Append(q, m) = q \o <<m>>
  OBVIOUS
<1>2. PICK f : Sifts(f, <<m>>) /\ Broadcasts(<<m>>) = f[Len(<<m>>)]
  BY <1>1, BroadcastsIs
<1>3. f[1] = Kept(<<>>, m)
  <2>1. 1 \in 1 .. Len(<<m>>) /\ 1 - 1 = 0
    BY <1>1
  <2>2. f[1] = Kept(f[1 - 1], <<m>>[1]) /\ f[0] = <<>>
    BY <1>2, <2>1 DEF Sifts
  <2> QED
    BY <1>1, <2>1, <2>2
<1>4. Broadcasts(<<m>>) = IF m > 0 THEN <<m>> ELSE <<>>
  BY <1>1, <1>2, <1>3 DEF Kept
<1>5. Broadcasts(q) \in Seq(Nat) /\ Broadcasts(q \o <<m>>) = Broadcasts(q) \o Broadcasts(<<m>>)
  BY <1>1, BroadcastsCat
<1>6. \A r \in Seq(Nat) : r \o <<m>> = Append(r, m) /\ r \o <<>> = r
  OBVIOUS
<1> QED
  BY <1>1, <1>4, <1>5, <1>6
-----------------------------------------------------------------------------
(* The hub implements module Fanout.                                       *)

\* The subscriber has a broadcast in hand only in its loop; a frame is held only while it is
\* written; a client that is not inserted yet was sent nothing; and a loop visits, and finds
\* full, clients that are in the map or closed.
SubIdle == loop["sub"] = "idle" => msgNo = 0
HeldInFlush == \A c \in Conns : writer[c] \in {"none", "run"} => held[c] = <<>>
FreshEmpty == \A c \in Conns : Fresh(c) => held[c] = <<>> /\ send[c] = <<>>
Known(c) == InMap(c) \/ c \in closed
LoopsKnow == \A g \in Loops :
  /\ \A c \in todo[g] : Known(c)
  /\ loop[g] = "full" => Known(at[g])
  /\ loop[g] = "closed" => at[g] \in closed

StreamInv == MapInv /\ SubIdle /\ HeldInFlush /\ FreshEmpty /\ LoopsKnow

\* Steps that leave the loops and the map alone.
LEMMA LoopsKept ==
  ASSUME StreamInv, UNCHANGED <<loop, todo, at, msgNo, clients, closed>>
  PROVE  SubIdle' /\ LoopsKnow'
BY DEF StreamInv, SubIdle, LoopsKnow, Known, InMap

\* Steps that leave the channels and the pumps alone, and make nobody new.
LEMMA PumpsKept ==
  ASSUME StreamInv, UNCHANGED <<writer, held, send>>, \A c \in Conns : Fresh(c)' => Fresh(c)
  PROVE  HeldInFlush' /\ FreshEmpty'
BY DEF StreamInv, HeldInFlush, FreshEmpty

LEMMA StreamConn ==
  ASSUME StreamInv, MapInv', NEW c \in Conns, ConnStep(c)
  PROVE  StreamInv'
<1> USE DEF procVars, chanVars, hubVars, loopVars, busVars, envVars
<1>t. TypeOK
  BY DEF StreamInv, MapInv
<1>1. CASE ServeWs(c)
  <2>1. \A d \in Conns : Fresh(d)' => Fresh(d)
    BY <1>t, <1>1 DEF ServeWs, Fresh, TypeOK
  <2>2. SubIdle' /\ LoopsKnow' /\ HeldInFlush' /\ FreshEmpty'
    BY <1>1, <2>1, LoopsKept, PumpsKept DEF ServeWs
  <2> QED
    BY <2>2 DEF StreamInv
<1>2. CASE PeerSend(c) \/ PeerGone(c) \/ ReadError(c) \/ HubRelay(c)
  <2>1. \A d \in Conns : Fresh(d)' => Fresh(d)
    BY <1>t, <1>2 DEF PeerSend, PeerGone, ReadError, HubRelay, Fresh, TypeOK
  <2>2. SubIdle' /\ LoopsKnow' /\ HeldInFlush' /\ FreshEmpty'
    BY <1>2, <2>1, LoopsKept, PumpsKept DEF PeerSend, PeerGone, ReadError, HubRelay
  <2> QED
    BY <2>2 DEF StreamInv
<1>3. CASE WriterTake(c)
  <2>1. SubIdle' /\ LoopsKnow'
    BY <1>3, LoopsKept DEF WriterTake
  <2>2. HeldInFlush'
    BY <1>t, <1>3 DEF WriterTake, StreamInv, HeldInFlush, TypeOK
  <2>3. FreshEmpty'
    <3>1. ~Fresh(c)
      BY <1>3 DEF WriterTake, StreamInv, FreshEmpty
    <3>2. \A d \in Conns : (Fresh(d)' <=> Fresh(d)) /\ (d # c => held'[d] = held[d] /\ send'[d] = send[d])
      BY <1>t, <1>3 DEF WriterTake, Fresh, TypeOK
    <3> QED
      BY <3>1, <3>2 DEF StreamInv, FreshEmpty
  <2> QED
    BY <2>1, <2>2, <2>3 DEF StreamInv
<1>4. CASE WriterFlush(c)
  <2>1. SubIdle' /\ LoopsKnow'
    BY <1>4, LoopsKept DEF WriterFlush
  <2>2. \A d \in Conns : held'[d] = IF d = c THEN <<>> ELSE held[d]
    BY <1>t, <1>4 DEF WriterFlush, TypeOK
  <2>3. HeldInFlush' /\ FreshEmpty'
    BY <1>t, <1>4, <2>2 DEF WriterFlush, StreamInv, HeldInFlush, FreshEmpty, Fresh, TypeOK
  <2> QED
    BY <2>1, <2>3 DEF StreamInv
<1>5. CASE WriterEnd(c)
  <2>1. SubIdle' /\ LoopsKnow'
    BY <1>5, LoopsKept DEF WriterEnd
  <2>2. HeldInFlush' /\ FreshEmpty'
    BY <1>t, <1>5 DEF WriterEnd, StreamInv, HeldInFlush, FreshEmpty, Fresh, TypeOK
  <2> QED
    BY <2>1, <2>2 DEF StreamInv
<1>6. CASE HubTakeRegister(c)
  <2>1. SubIdle' /\ LoopsKnow'
    BY <1>6, LoopsKept DEF HubTakeRegister
  <2>2. Fresh(c) /\ held[c] = <<>>
    BY <1>6 DEF HubTakeRegister, Fresh, StreamInv, FreshEmpty
  <2>3. \A d \in Conns : Fresh(d)' => Fresh(d)
    BY <1>t, <1>6, <2>2 DEF HubTakeRegister, Fresh, TypeOK
  <2>4. HeldInFlush' /\ FreshEmpty'
    BY <1>t, <1>6, <2>2, <2>3 DEF HubTakeRegister, StreamInv, HeldInFlush, FreshEmpty, TypeOK
  <2> QED
    BY <2>1, <2>4 DEF StreamInv
<1>7. CASE HubTakeUnregister(c)
  <2>1. \A d \in Conns : Fresh(d)' => Fresh(d)
    BY <1>t, <1>7 DEF HubTakeUnregister, Fresh, TypeOK
  <2>2. SubIdle' /\ LoopsKnow' /\ HeldInFlush' /\ FreshEmpty'
    BY <1>7, <2>1, LoopsKept, PumpsKept DEF HubTakeUnregister
  <2> QED
    BY <2>2 DEF StreamInv
<1>8. CASE HubDeleteForMe(c)
  <2>1. \A d \in Conns : Fresh(d)' => Fresh(d)
    BY <1>t, <1>8 DEF HubDeleteForMe, Fresh, TypeOK
  <2>2. HeldInFlush' /\ FreshEmpty'
    BY <1>8, <2>1, PumpsKept DEF HubDeleteForMe
  <2>3. /\ \A g \in Loops : todo'[g] \in {todo[g], clients[UserOf[c]]} /\ (loop'[g] # loop[g] => loop'[g] = "iter")
        /\ loop'["sub"] = loop["sub"] /\ UNCHANGED <<at, msgNo, clients, closed>>
    BY <1>t, <1>8 DEF HubDeleteForMe, TypeOK, Loops
  <2>4. \A d \in clients[UserOf[c]] : Known(d)
    BY <1>t, HubAssumption DEF StreamInv, MapInv, OwnEntry, Known, InMap, HubAssumption
  <2>5. SubIdle' /\ LoopsKnow'
    BY <2>3, <2>4 DEF StreamInv, SubIdle, LoopsKnow, Known, InMap
  <2> QED
    BY <2>2, <2>5 DEF StreamInv
<1> QED
  BY <1>1, <1>2, <1>3, <1>4, <1>5, <1>6, <1>7, <1>8 DEF ConnStep, Writer, HubMessage

LEMMA StreamHub ==
  ASSUME StreamInv, MapInv', HubStep
  PROVE  StreamInv'
<1> USE HubAssumption DEF HubAssumption, procVars, chanVars, hubVars, loopVars, busVars, envVars
<1>1. TypeOK /\ OwnEntry
  BY DEF StreamInv, MapInv
<1>2. UNCHANGED <<reader, writer, held, send, loop, todo, at, msgNo>> /\ hubPc' # "lockReg"
  BY DEF HubStep, HubRegister, HubOnline, HubUnregister, HubUnregisterGone, HubOffline, HubGoto
<1>3. HeldInFlush' /\ FreshEmpty'
  BY <1>2, PumpsKept DEF Fresh
<1>4. \A c \in Conns : Known(c) => Known(c)'
  <2>1. CASE HubRegister
    BY <1>1, <2>1 DEF HubRegister, Known, InMap, User, TypeOK
  <2>2. CASE HubUnregister
    BY <1>1, <2>2 DEF HubUnregister, Without, Known, InMap, User, TypeOK
  <2>3. CASE HubOnline \/ HubUnregisterGone \/ HubOffline
    BY <2>3 DEF HubOnline, HubUnregisterGone, HubOffline, Known, InMap
  <2> QED
    BY <2>1, <2>2, <2>3 DEF HubStep
<1>5. closed \subseteq closed'
  BY DEF HubStep, HubRegister, HubOnline, HubUnregister, HubUnregisterGone, HubOffline
<1>6. SubIdle' /\ LoopsKnow'
  BY <1>1, <1>2, <1>4, <1>5 DEF StreamInv, SubIdle, LoopsKnow, TypeOK
<1> QED
  BY <1>3, <1>6 DEF StreamInv

LEMMA StreamLoop ==
  ASSUME StreamInv, MapInv', NEW g \in Loops, Loop(g)
  PROVE  StreamInv'
<1> USE DEF procVars, chanVars, hubVars, loopVars, busVars, envVars
<1>1. TypeOK /\ FreshUntouched
  BY DEF StreamInv, MapInv
<1>2. /\ UNCHANGED <<reader, writer, held>>
      /\ \A c \in Conns : Fresh(c)' => Fresh(c)
  BY DEF Loop, LoopSend, LoopFull, LoopSendPanics, LoopClose, LoopDelete, LoopEnd, AfterLoop, Fresh
<1>3. ASSUME NEW c \in Conns, LoopSend(g, c) PROVE StreamInv'
  <2>1. ~Fresh(c) /\ \A d \in Conns \ {c} : send'[d] = send[d]
    BY <1>1, <1>3 DEF LoopSend, FreshUntouched, Untouched, TypeOK
  <2>2. HeldInFlush' /\ FreshEmpty'
    BY <1>2, <2>1 DEF StreamInv, HeldInFlush, FreshEmpty
  <2>3. UNCHANGED <<loop, at, msgNo, clients, closed>> /\ \A h \in Loops : todo'[h] \subseteq todo[h]
    BY <1>1, <1>3 DEF LoopSend, TypeOK
  <2>4. SubIdle' /\ LoopsKnow'
    BY <2>3 DEF StreamInv, SubIdle, LoopsKnow, Known, InMap
  <2> QED
    BY <2>2, <2>4 DEF StreamInv
<1>4. ASSUME ~\E c \in Conns : LoopSend(g, c) PROVE HeldInFlush' /\ FreshEmpty'
  <2>1. UNCHANGED <<writer, held, send>>
    BY <1>4 DEF Loop, LoopFull, LoopSendPanics, LoopClose, LoopDelete, LoopEnd
  <2> QED
    BY <1>2, <2>1, PumpsKept
<1>5. ASSUME NEW c \in Conns, LoopFull(g, c) PROVE SubIdle' /\ LoopsKnow'
  <2>1. Known(c)
    BY <1>5 DEF LoopFull, StreamInv, LoopsKnow
  <2>2. /\ UNCHANGED <<todo, msgNo, clients, closed>> /\ loop'[g] = "full" /\ at'[g] = c
        /\ \A h \in Loops \ {g} : loop'[h] = loop[h] /\ at'[h] = at[h]
    BY <1>1, <1>5 DEF LoopFull, TypeOK
  <2> QED
    BY <1>5, <2>1, <2>2 DEF LoopFull, StreamInv, SubIdle, LoopsKnow, Known, InMap
<1>6. ASSUME NEW c \in Conns, LoopSendPanics(g, c) PROVE SubIdle' /\ LoopsKnow'
  BY <1>6, LoopsKept DEF LoopSendPanics
<1>7. ASSUME LoopClose(g) PROVE SubIdle' /\ LoopsKnow'
  <2>1. /\ UNCHANGED <<todo, at, msgNo, clients>> /\ loop'[g] = "closed" /\ loop[g] = "full"
        /\ \A h \in Loops \ {g} : loop'[h] = loop[h]
        /\ closed' = closed \cup {at[g]}
    BY <1>1, <1>7 DEF LoopClose, TypeOK
  <2> QED
    BY <2>1 DEF StreamInv, SubIdle, LoopsKnow, Known, InMap, Loops
<1>8. ASSUME LoopDelete(g) PROVE SubIdle' /\ LoopsKnow'
  <2>1. at[g] \in closed /\ closed' = closed /\ msgNo' = msgNo
    BY <1>8 DEF LoopDelete, StreamInv, LoopsKnow
  <2>2. /\ \A h \in Loops : todo'[h] \subseteq todo[h]
        /\ \A h \in Loops \ {g} : loop'[h] = loop[h] /\ at'[h] = at[h]
        /\ loop'[g] = "iter"
    BY <1>1, <1>8 DEF LoopDelete, TypeOK
  <2>3. \A c \in Conns : Known(c) => Known(c)'
    BY <1>1, <1>8, <2>1, HubAssumption DEF LoopDelete, Without, Known, InMap, TypeOK, HubAssumption
  <2>4. \A h \in Loops : loop[h] = "full" => at[h] \in Conns
    BY <1>1 DEF TypeOK
  <2>5. \A h \in Loops : todo[h] \subseteq Conns
    BY <1>1 DEF TypeOK
  <2> QED
    BY <1>8, <2>1, <2>2, <2>3, <2>4, <2>5 DEF LoopDelete, StreamInv, SubIdle, LoopsKnow
<1>9. ASSUME LoopEnd(g) PROVE SubIdle' /\ LoopsKnow'
  <2>1. /\ UNCHANGED <<todo, at, clients, closed>> /\ loop'[g] = "idle"
        /\ \A h \in Loops \ {g} : loop'[h] = loop[h]
        /\ msgNo' = IF g = "sub" THEN 0 ELSE msgNo
    BY <1>1, <1>9 DEF LoopEnd, TypeOK
  <2> QED
    BY <2>1 DEF StreamInv, SubIdle, LoopsKnow, Known, InMap, Loops
<1> QED
  BY <1>3, <1>4, <1>5, <1>6, <1>7, <1>8, <1>9 DEF Loop, StreamInv

LEMMA StreamRest ==
  ASSUME StreamInv, MapInv',
         SubReceive \/ TickReceive \/ LoseMessage \/ Kill \/ Restart \/ UNCHANGED vars
  PROVE  StreamInv'
<1> USE DEF procVars, chanVars, hubVars, loopVars, busVars, envVars
<1>1. TypeOK /\ OwnEntry
  BY DEF StreamInv, MapInv
<1>2. /\ \A c \in Registered : Known(c)
      /\ \A u \in Users : \A c \in clients[u] : Known(c)
  BY <1>1 DEF Registered, OwnEntry, Known, InMap
<1>3. ASSUME ~Restart PROVE HeldInFlush' /\ FreshEmpty'
  <2>1. UNCHANGED <<reader, writer, held, send, hubPc, hubConn>>
    BY <1>3 DEF SubReceive, TickReceive, LoseMessage, Kill, vars
  <2> QED
    BY <2>1, PumpsKept DEF Fresh
<1>4. ASSUME SubReceive PROVE SubIdle' /\ LoopsKnow'
  <2>1. /\ loop'["sub"] = "iter" /\ \A h \in Loops \ {"sub"} : loop'[h] = loop[h] /\ todo'[h] = todo[h]
        /\ todo'["sub"] = Registered \/ \E u \in Users : todo'["sub"] = clients[u]
        /\ UNCHANGED <<at, clients, closed>>
    BY <1>1, <1>4 DEF SubReceive, TypeOK, Loops
  <2> QED
    BY <1>2, <2>1 DEF StreamInv, SubIdle, LoopsKnow, Known, InMap
<1>5. ASSUME TickReceive PROVE SubIdle' /\ LoopsKnow'
  <2>1. /\ loop'["tick"] = "iter" /\ todo'["tick"] = Registered
        /\ \A h \in Loops \ {"tick"} : loop'[h] = loop[h] /\ todo'[h] = todo[h]
        /\ UNCHANGED <<at, msgNo, clients, closed>>
    BY <1>1, <1>5 DEF TickReceive, TypeOK, Loops
  <2> QED
    BY <1>2, <2>1 DEF StreamInv, SubIdle, LoopsKnow, Known, InMap, Loops
<1>6. ASSUME LoseMessage \/ Kill \/ UNCHANGED vars PROVE SubIdle' /\ LoopsKnow'
  BY <1>6, LoopsKept DEF LoseMessage, Kill, vars
<1>7. CASE Restart
  <2>1. /\ \A c \in Conns : Fresh(c)' => reader[c] = "none"
        /\ \A c \in Conns : writer'[c] \in {"none", "run"} => writer[c] \in {"none", "run"}
        /\ UNCHANGED <<held, send>>
    BY <1>1, <1>7 DEF Restart, Lost, Fresh, TypeOK
  <2>2. HeldInFlush' /\ FreshEmpty'
    BY <2>1 DEF StreamInv, HeldInFlush, FreshEmpty, Fresh
  <2>3. SubIdle' /\ LoopsKnow'
    BY <1>7 DEF Restart, SubIdle, LoopsKnow
  <2> QED
    BY <2>2, <2>3 DEF StreamInv
<1> QED
  BY <1>3, <1>4, <1>5, <1>6, <1>7 DEF StreamInv

LEMMA StreamCorrect == Spec => []StreamInv
<1>1. Init => SubIdle /\ HeldInFlush /\ FreshEmpty /\ LoopsKnow
  BY DEF Init, SubIdle, HeldInFlush, FreshEmpty, LoopsKnow
<1>2. ASSUME StreamInv, MapInv', [Next]_vars PROVE StreamInv'
  BY <1>2, StepCases, StreamConn, StreamHub, StreamLoop, StreamRest
<1> QED
  BY <1>1, <1>2, MapCorrect, PTL DEF Spec, StreamInv

\* The broadcasts in the hands of writePump and in the channel.
Stream(c) == Broadcasts(held[c] \o send[c])

LEMMA StreamTyped ==
  ASSUME TypeOK, NEW c \in Conns
  PROVE  /\ Stream(c) \in Seq(Nat) /\ held[c] \o send[c] \in Seq(Nat)
         /\ Unread(c) = Stream(c) \o Pending(c)
         /\ Pending(c) = <<>> \/ Pending(c) = <<msgNo>>
<1>1. held[c] \in Seq(Nat) /\ send[c] \in Seq(Nat)
  BY DEF TypeOK
<1>2. held[c] \o send[c] \in Seq(Nat)
  BY <1>1
<1>3. Stream(c) \in Seq(Nat)
  BY <1>2, BroadcastsCat DEF Stream
<1> QED
  BY <1>2, <1>3 DEF Unread, Stream, Pending

\* With a broadcast that waits for c, and without one.
LEMMA UnreadIs ==
  ASSUME TypeOK, NEW c \in Conns
  PROVE  /\ Pending(c) = <<>> => Unread(c) = Stream(c)
         /\ Pending(c) # <<>> => Unread(c) = Append(Stream(c), msgNo) /\ c \in Members
<1>1. \A s \in Seq(Nat), m \in Nat : s \o <<>> = s /\ s \o <<m>> = Append(s, m)
  OBVIOUS
<1>2. msgNo \in Nat
  BY DEF TypeOK
<1> QED
  BY <1>1, <1>2, StreamTyped DEF Pending

\* A sequence without its last element.
LEMMA FrontIs ==
  ASSUME NEW s \in Seq(Nat), NEW m \in Nat
  PROVE  /\ SubSeq(s, 1, Len(s)) = s
         /\ Len(Append(s, m)) = Len(s) + 1 /\ Len(s) \in Nat
         /\ SubSeq(Append(s, m), 1, Len(s)) = s
OBVIOUS

\* A sequence without its beginning.
LEMMA RestIs ==
  ASSUME NEW s \in Seq(Nat), NEW t \in Seq(Nat)
  PROVE  SubSeq(s \o t, Len(s) + 1, Len(s \o t)) = t
<1> DEFINE a == SubSeq(s \o t, Len(s) + 1, Len(s \o t))
<1>1. s \o t \in Seq(Nat) /\ Len(s \o t) = Len(s) + Len(t) /\ Len(s) \in Nat /\ Len(t) \in Nat
  OBVIOUS
<1>2. a \in Seq(Nat) /\ Len(a) = Len(t)
  BY <1>1
<1>3. \A i \in 1 .. Len(t) : a[i] = t[i]
  BY <1>1, <1>2
<1> HIDE DEF a
<1>4. a = t
  BY <1>2, <1>3, SeqEqual
<1> QED
  BY <1>4 DEF a

\* Fanout does not see a step that leaves the streams, the members and the loop alone.
LEMMA Unseen ==
  ASSUME UNCHANGED <<fanned, held, send, msgNo>>, Members' = Members, todo'["sub"] = todo["sub"]
  PROVE  UNCHANGED Abs!vars
<1>1. \A c \in Conns : Unread(c)' = Unread(c)
  BY DEF Unread, Pending
<1> QED
  BY <1>1 DEF Abs!vars

LEMMA Crashes ==
  ASSUME StreamInv, status' # "up", UNCHANGED <<fanned, held, send>>
  PROVE  Abs!Crash
<1> DEFINE lost == {c \in Conns : Pending(c) # <<>>}
<1>1. TypeOK /\ msgNo \in Nat
  BY DEF StreamInv, MapInv, TypeOK
<1>2. Members' = {} /\ lost \in SUBSET Members
  BY DEF Members, Pending
<1>3. ASSUME NEW c \in Conns
      PROVE  Unread(c)' = IF c \in lost THEN SubSeq(Unread(c), 1, Len(Unread(c)) - 1) ELSE Unread(c)
  <2>1. Pending(c)' = <<>>
    BY <1>2 DEF Pending
  <2>2. Stream(c)' = Stream(c) /\ Stream(c) \in Seq(Nat)
    BY <1>1, StreamTyped DEF Stream
  <2>3. Unread(c)' = Stream(c)
    <3>1. \A s \in Seq(Nat) : s \o <<>> = s
      OBVIOUS
    <3> QED
      BY <2>1, <2>2, <3>1 DEF Unread, Stream
  <2>4. CASE c \notin lost
    BY <1>1, <2>3, <2>4, UnreadIs
  <2>5. CASE c \in lost
    <3>1. Unread(c) = Append(Stream(c), msgNo)
      BY <1>1, <2>5, UnreadIs
    <3> QED
      BY <1>1, <2>2, <2>3, <2>5, <3>1, FrontIs
  <2> QED
    BY <2>4, <2>5
<1> QED
  BY <1>2, <1>3 DEF Abs!Crash

LEMMA Leaves ==
  ASSUME StreamInv, NEW d \in Members, d \in Conns, Members' = Members \ {d},
         UNCHANGED <<fanned, held, send, msgNo>>, todo'["sub"] = todo["sub"]
  PROVE  Abs!Leave(d)
<1>1. TypeOK /\ msgNo \in Nat
  BY DEF StreamInv, MapInv, TypeOK
<1>2. ASSUME NEW c \in Conns PROVE Stream(c)' = Stream(c) /\ (c # d => Unread(c)' = Unread(c))
  BY DEF Stream, Unread, Pending
<1>3. Unread(d)' = Stream(d)
  <2>1. Pending(d)' = <<>>
    BY DEF Pending
  <2>2. \A s \in Seq(Nat) : s \o <<>> = s
    OBVIOUS
  <2> QED
    BY <1>1, <1>2, <2>1, <2>2, StreamTyped DEF Unread, Stream
<1>4. \E n \in 0 .. Len(Unread(d)) : Unread(d)' = SubSeq(Unread(d), 1, n)
  <2>1. Stream(d) \in Seq(Nat) /\ Len(Stream(d)) \in Nat
    BY <1>1, StreamTyped
  <2>2. Unread(d) \in {Stream(d), Append(Stream(d), msgNo)}
    BY <1>1, UnreadIs
  <2>3. Len(Stream(d)) \in 0 .. Len(Unread(d)) /\ SubSeq(Unread(d), 1, Len(Stream(d))) = Stream(d)
    BY <1>1, <2>1, <2>2, FrontIs
  <2> QED
    BY <1>3, <2>3
<1>5. PICK n \in 0 .. Len(Unread(d)) : Unread(d)' = SubSeq(Unread(d), 1, n)
  BY <1>4
<1> DEFINE q == [c \in Conns |-> Unread(c)]
<1>6. q' = [q EXCEPT ![d] = SubSeq(@, 1, n)]
  BY <1>2, <1>5
<1> QED
  BY <1>5, <1>6 DEF Abs!Leave

LEMMA MembersIs ==
  ASSUME MapInv
  PROVE  Members = {c \in Conns : status = "up" /\ InMap(c) /\ c \notin closed}
<1>1. Registered \subseteq Conns
  BY DEF MapInv, TypeOK, Registered
<1> QED
  BY <1>1, RegisteredInMap DEF MapInv, Members

\* A frame takes its broadcasts off the stream; one of notices and signals only is not seen.
LEMMA FlushDelivers ==
  ASSUME StreamInv, NEW c \in Conns, WriterFlush(c)
  PROVE  Abs!Deliver(c) \/ UNCHANGED Abs!vars
<1>1. TypeOK /\ held[c] \in Seq(Nat) /\ send[c] \in Seq(Nat)
  BY DEF StreamInv, MapInv, TypeOK
<1>2. /\ UNCHANGED <<fanned, send, msgNo, todo, Members>> /\ held'[c] = <<>>
      /\ \A d \in Conns \ {c} : held'[d] = held[d]
  BY <1>1 DEF WriterFlush, chanVars, hubVars, loopVars, envVars, Members, Registered, TypeOK
<1>3. \A d \in Conns : Pending(d)' = Pending(d) /\ (d # c => Unread(d)' = Unread(d))
  BY <1>2 DEF Unread, Pending
<1> DEFINE h == Broadcasts(held[c])
           t == Broadcasts(send[c]) \o Pending(c)
<1>4. h \in Seq(Nat) /\ Broadcasts(send[c]) \in Seq(Nat) /\ Pending(c) \in Seq(Nat)
  <2>1. msgNo \in Nat
    BY <1>1 DEF TypeOK
  <2> QED
    BY <1>1, <2>1, BroadcastsCat DEF Pending
<1>5. Unread(c) = h \o t /\ t \in Seq(Nat)
  <2>1. Unread(c) = (h \o Broadcasts(send[c])) \o Pending(c)
    BY <1>1, BroadcastsCat DEF Unread
  <2> HIDE DEF h
  <2>2. (h \o Broadcasts(send[c])) \o Pending(c) = h \o t
    BY <1>4, ConcatAssoc
  <2>3. t \in Seq(Nat)
    BY <1>4
  <2> QED
    BY <2>1, <2>2, <2>3 DEF h
<1>6. Unread(c)' = t
  <2>1. \A s \in Seq(Nat) : <<>> \o s = s
    OBVIOUS
  <2> QED
    BY <1>1, <1>2, <1>3, <2>1 DEF Unread
<1> HIDE DEF h, t
<1>7. CASE h = <<>>
  <2>1. Unread(c) = t
    BY <1>5, <1>7
  <2> QED
    BY <1>2, <1>3, <1>6, <2>1 DEF Abs!vars
<1>8. CASE h # <<>>
  <2>1. Len(h) \in 1 .. Len(h \o t)
    BY <1>4, <1>5, <1>8
  <2>2. SubSeq(h \o t, Len(h) + 1, Len(h \o t)) = t
    BY <1>4, <1>5, RestIs
  <2> DEFINE q == [d \in Conns |-> Unread(d)]
  <2>3. \E n \in 1 .. Len(Unread(c)) : Unread(c)' = SubSeq(Unread(c), n + 1, Len(Unread(c)))
    BY <1>5, <1>6, <2>1, <2>2
  <2>4. PICK n \in 1 .. Len(Unread(c)) : Unread(c)' = SubSeq(Unread(c), n + 1, Len(Unread(c)))
    BY <2>3
  <2>5. q' = [q EXCEPT ![c] = SubSeq(@, n + 1, Len(@))]
    BY <1>3, <2>4
  <2> QED
    BY <1>2, <2>4, <2>5 DEF Abs!Deliver
<1> QED
  BY <1>7, <1>8

LEMMA ConnImplements ==
  ASSUME StreamInv, NEW c \in Conns, ConnStep(c)
  PROVE  [Abs!Next]_Abs!vars
<1> USE DEF procVars, chanVars, hubVars, loopVars, busVars, envVars
<1>1. TypeOK
  BY DEF StreamInv, MapInv
<1>2. CASE WriterTake(c)
  <2>1. held[c] = <<>>
    BY <1>2 DEF WriterTake, StreamInv, HeldInFlush
  <2>2. /\ UNCHANGED <<fanned, msgNo, todo, Members>> /\ held'[c] = send[c] /\ send'[c] = <<>>
        /\ \A d \in Conns \ {c} : held'[d] = held[d] /\ send'[d] = send[d]
    BY <1>1, <1>2 DEF WriterTake, Members, Registered, TypeOK
  <2>3. held'[c] \o send'[c] = held[c] \o send[c]
    <3>1. \A s \in Seq(Nat) : <<>> \o s = s \o <<>>
      OBVIOUS
    <3>2. send[c] \in Seq(Nat)
      BY <1>1 DEF TypeOK
    <3> QED
      BY <2>1, <2>2, <3>1, <3>2
  <2>4. \A d \in Conns : Unread(d)' = Unread(d)
    BY <2>2, <2>3 DEF Unread, Pending
  <2> QED
    BY <2>2, <2>4 DEF Abs!vars
<1>3. CASE WriterFlush(c)
  BY <1>3, FlushDelivers DEF Abs!Next
<1>4. ASSUME ~WriterTake(c), ~WriterFlush(c) PROVE UNCHANGED Abs!vars
  <2>1. UNCHANGED <<fanned, held, send, msgNo, status, clients, closed>>
    BY <1>4 DEF ConnStep, Writer, HubMessage, ServeWs, PeerSend, PeerGone, ReadError, WriterEnd,
       HubTakeRegister, HubTakeUnregister, HubRelay, HubDeleteForMe
  <2>2. todo'["sub"] = todo["sub"]
    BY <1>1, <1>4 DEF ConnStep, Writer, HubMessage, ServeWs, PeerSend, PeerGone, ReadError, WriterEnd,
       HubTakeRegister, HubTakeUnregister, HubRelay, HubDeleteForMe, TypeOK, Loops
  <2> QED
    BY <2>1, <2>2, Unseen DEF Members, Registered
<1> QED
  BY <1>2, <1>3, <1>4

LEMMA HubImplements ==
  ASSUME StreamInv, HubStep, status = "up"
  PROVE  [Abs!Next]_Abs!vars
<1> USE DEF procVars, chanVars, hubVars, loopVars, busVars, envVars
<1>1. TypeOK /\ MapInv /\ hubConn \in Conns /\ UserOf[hubConn] \in Users
  BY HubAssumption DEF HubAssumption, StreamInv, MapInv, TypeOK, HubStep, HubRegister, HubOnline,
     HubUnregister, HubUnregisterGone, HubOffline
<1>2. CASE HubRegister
  <2>1. Fresh(hubConn)
    BY <1>2 DEF HubRegister, Fresh
  <2>2. /\ held[hubConn] = <<>> /\ send[hubConn] = <<>> /\ hubConn \notin closed /\ hubConn \notin Members
    BY <1>1, <2>1, MembersIs DEF StreamInv, FreshEmpty, MapInv, FreshUntouched, Untouched
  <2>3. msgNo = 0 /\ UNCHANGED <<fanned, held, send, msgNo, status, closed>>
    BY <1>2 DEF HubRegister, LockFree, StreamInv, SubIdle, Loops
  <2>4. Registered' = Registered \cup {hubConn}
    <3>1. clients' = [clients EXCEPT ![UserOf[hubConn]] = @ \cup {hubConn}] /\ clients \in [Users -> SUBSET Conns]
      BY <1>1, <1>2 DEF HubRegister, User, TypeOK
    <3> QED
      BY <1>1, <3>1 DEF Registered
  <2>5. Members' = Members \cup {hubConn}
    BY <2>2, <2>3, <2>4 DEF Members
  <2>6. \A c \in Conns : Unread(c)' = Unread(c)
    BY <2>3 DEF Unread, Pending
  <2>7. Unread(hubConn) = <<>>
    <3>1. Pending(hubConn) = <<>> /\ held[hubConn] \o send[hubConn] = <<>>
      BY <2>2, <2>3 DEF Pending
    <3> QED
      BY <3>1, BroadcastsEmpty DEF Unread
  <2>8. Abs!Join(hubConn)
    BY <1>1, <2>2, <2>3, <2>5, <2>6, <2>7 DEF Abs!Join
  <2> QED
    BY <1>1, <2>8 DEF Abs!Next
<1>3. CASE HubUnregister
  <2>1. UNCHANGED <<fanned, held, send, msgNo, todo>>
    BY <1>3 DEF HubUnregister
  <2>2. CASE hubConn \in closed
    BY <1>3, <2>1, <2>2, Crashes DEF HubUnregister, Abs!Next
  <2>3. CASE hubConn \notin closed
    <3>1. status' = status /\ closed' = closed \cup {hubConn} /\ InMap(hubConn)
      BY <1>3, <2>3 DEF HubUnregister, InMap, User
    <3>2. Registered' \cup {hubConn} = Registered
      <4>1. clients' = [clients EXCEPT ![UserOf[hubConn]] = @ \ {hubConn}] /\ clients \in [Users -> SUBSET Conns]
        BY <1>1, <1>3 DEF HubUnregister, Without, TypeOK
      <4>2. \A u \in Users : clients'[u] = IF u = UserOf[hubConn] THEN clients[u] \ {hubConn} ELSE clients[u]
        BY <1>1, <4>1
      <4>3. /\ \A c : c \in Registered <=> \E u \in Users : c \in clients[u]
            /\ \A c : c \in Registered' <=> \E u \in Users : c \in clients'[u]
        BY DEF Registered
      <4>4. hubConn \in clients[UserOf[hubConn]]
        BY <3>1 DEF InMap
      <4> QED
        BY <1>1, <4>2, <4>3, <4>4
    <3>3. hubConn \in Members /\ Members' = Members \ {hubConn}
      BY <1>1, <2>3, <3>1, <3>2, MembersIs DEF Members
    <3>4. Abs!Leave(hubConn)
      BY <1>1, <2>1, <3>3, Leaves
    <3> QED
      BY <1>1, <3>4 DEF Abs!Next
  <2> QED
    BY <2>2, <2>3
<1>4. CASE HubOnline \/ HubUnregisterGone \/ HubOffline
  <2>1. UNCHANGED <<fanned, held, send, msgNo, todo, status, clients, closed>>
    BY <1>4 DEF HubOnline, HubUnregisterGone, HubOffline
  <2> QED
    BY <2>1, Unseen DEF Members, Registered
<1> QED
  BY <1>2, <1>3, <1>4 DEF HubStep

\* A broadcast goes from Pending into the channel; a notice or a signal is not seen.
LEMMA SendUnseen ==
  ASSUME StreamInv, NEW g \in Loops, NEW c \in Conns, LoopSend(g, c), status = "up"
  PROVE  UNCHANGED Abs!vars
<1>1. TypeOK /\ MapInv
  BY DEF StreamInv, MapInv
<1>2. /\ UNCHANGED <<fanned, held, msgNo, Members>> /\ c \in todo[g] \ closed /\ loop[g] = "iter"
      /\ \A d \in Conns \ {c} : send'[d] = send[d]
      /\ \A d \in Conns \ {c} : d \in todo'["sub"] <=> d \in todo["sub"]
      /\ g # "sub" => todo'["sub"] = todo["sub"]
      /\ c \notin todo'[g]
  <2>1. /\ UNCHANGED <<fanned, held, msgNo, status, clients, closed>>
        /\ c \in todo[g] \ closed /\ loop[g] = "iter"
    BY DEF LoopSend, hubVars, busVars, envVars
  <2>2. \A d \in Conns \ {c} : send'[d] = send[d]
    BY <1>1 DEF LoopSend, TypeOK
  <2>3. \A h \in Loops : todo'[h] = IF h = g THEN todo[h] \ {c} ELSE todo[h]
    BY <1>1 DEF LoopSend, TypeOK
  <2>4. "sub" \in Loops
    BY DEF Loops
  <2> QED
    BY <2>1, <2>2, <2>3, <2>4 DEF Members, Registered
<1>3. c \in Members
  BY <1>1, <1>2, MembersIs DEF StreamInv, LoopsKnow, Known
<1>4. \A d \in Conns \ {c} : Unread(d)' = Unread(d)
  BY <1>2 DEF Unread, Pending
<1>5. held[c] \in Seq(Nat) /\ send[c] \in Seq(Nat) /\ held[c] \o send[c] \in Seq(Nat) /\ msgNo \in Nat
  BY <1>1, StreamTyped DEF TypeOK
<1>6. ASSUME NEW m \in Nat, send'[c] = Append(send[c], m)
      PROVE  Stream(c)' = IF m > 0 THEN Append(Stream(c), m) ELSE Stream(c)
  <2>1. held'[c] \o send'[c] = Append(held[c] \o send[c], m)
    <3>1. held[c] \o Append(send[c], m) = Append(held[c] \o send[c], m)
      BY <1>5, ConcatAppend
    <3> QED
      BY <1>2, <1>6, <3>1
  <2> QED
    BY <1>5, <2>1, BroadcastsAppend DEF Stream
<1>7. CASE g = "sub" /\ msgNo > 0
  <2>1. send'[c] = Append(send[c], msgNo)
    BY <1>1, <1>7 DEF LoopSend, ToAll, Number, TypeOK
  <2>2. Stream(c)' = Append(Stream(c), msgNo)
    BY <1>5, <1>6, <1>7, <2>1
  <2>3. Pending(c) # <<>> /\ Pending(c)' = <<>>
    BY <1>2, <1>3, <1>7 DEF Pending
  <2>4. Unread(c)' = Stream(c)'
    <3>1. Append(Stream(c), msgNo) \in Seq(Nat) /\ \A s \in Seq(Nat) : s \o <<>> = s
      BY <1>1, <1>5, StreamTyped
    <3> QED
      BY <2>2, <2>3, <3>1 DEF Unread, Stream
  <2>5. Unread(c)' = Unread(c)
    BY <1>1, <2>2, <2>3, <2>4, UnreadIs
  <2> QED
    BY <1>2, <1>4, <2>5 DEF Abs!vars
<1>8. CASE ~(g = "sub" /\ msgNo > 0)
  <2>1. Number(g) = 0
    BY <1>5, <1>8 DEF Number
  <2>2. send'[c] = send[c] \/ send'[c] = Append(send[c], 0)
    BY <1>1, <2>1 DEF LoopSend, TypeOK
  <2>3. Stream(c)' = Stream(c)
    <3>1. CASE send'[c] = send[c]
      BY <1>2, <3>1 DEF Stream
    <3>2. CASE send'[c] = Append(send[c], 0)
      BY <1>6, <3>2
    <3> QED
      BY <2>2, <3>1, <3>2
  <2>4. Pending(c)' = Pending(c)
    BY <1>2, <1>8 DEF Pending
  <2>5. Unread(c)' = Unread(c)
    BY <2>3, <2>4 DEF Unread, Stream
  <2> QED
    BY <1>2, <1>4, <2>5 DEF Abs!vars
<1> QED
  BY <1>7, <1>8

LEMMA LoopImplements ==
  ASSUME StreamInv, NEW g \in Loops, Loop(g), status = "up"
  PROVE  [Abs!Next]_Abs!vars
<1> USE DEF procVars, chanVars, hubVars, loopVars, busVars, envVars
<1>1. TypeOK /\ MapInv
  BY DEF StreamInv, MapInv
<1>2. ASSUME NEW c \in Conns, LoopSend(g, c) PROVE UNCHANGED Abs!vars
  BY <1>2, SendUnseen
<1>3. CASE status' # "up"
  <2>1. UNCHANGED <<fanned, held, send>>
    BY <1>3 DEF Loop, LoopSend, LoopFull, LoopSendPanics, LoopClose, LoopDelete, LoopEnd
  <2> QED
    BY <1>3, <2>1, Crashes DEF Abs!Next
<1>4. ASSUME NEW c \in Conns, LoopFull(g, c) PROVE UNCHANGED Abs!vars
  BY <1>4, Unseen DEF LoopFull, Members, Registered
<1>5. ASSUME LoopClose(g), status' = "up" PROVE Abs!Leave(at[g]) /\ at[g] \in Conns
  <2>1. /\ UNCHANGED <<fanned, held, send, msgNo, todo, clients>> /\ at[g] \notin closed
        /\ closed' = closed \cup {at[g]} /\ loop[g] = "full"
    BY <1>5 DEF LoopClose
  <2>2. at[g] \in Conns
    BY <1>1, <2>1 DEF TypeOK
  <2>3. at[g] \in Members
    BY <1>1, <2>1, <2>2, MembersIs DEF StreamInv, LoopsKnow, Known
  <2>4. Members' = Members \ {at[g]}
    BY <1>5, <2>1 DEF Members, Registered
  <2> QED
    BY <2>1, <2>2, <2>3, <2>4, Leaves
<1>6. ASSUME LoopDelete(g), status' = "up" PROVE UNCHANGED Abs!vars
  <2> DEFINE d == at[g]
  <2>1. d \in closed /\ d \in Conns /\ UserOf[d] \in Users
    BY <1>1, <1>6, HubAssumption DEF LoopDelete, StreamInv, LoopsKnow, TypeOK, HubAssumption
  <2>2. /\ UNCHANGED <<fanned, held, send, msgNo, closed>>
        /\ \A c \in Conns \ {d} : c \in todo'["sub"] <=> c \in todo["sub"]
    BY <1>1, <1>6 DEF LoopDelete, TypeOK, Loops
  <2>3. \A c : c # d => (c \in Registered' <=> c \in Registered)
    <3>1. clients' = [clients EXCEPT ![UserOf[d]] = @ \ {d}] /\ clients \in [Users -> SUBSET Conns]
      BY <1>1, <1>6 DEF LoopDelete, Without, TypeOK
    <3>2. \A u \in Users : clients'[u] = IF u = UserOf[d] THEN clients[u] \ {d} ELSE clients[u]
      BY <2>1, <3>1
    <3>3. /\ \A c : c \in Registered <=> \E u \in Users : c \in clients[u]
          /\ \A c : c \in Registered' <=> \E u \in Users : c \in clients'[u]
      BY DEF Registered
    <3> HIDE DEF d
    <3> QED
      BY <3>2, <3>3
  <2>4. Members' = Members
    BY <1>6, <2>1, <2>2, <2>3 DEF Members
  <2>5. \A c \in Conns : Pending(c)' = Pending(c)
    <3>1. d \notin Members
      BY <2>1 DEF Members
    <3> QED
      BY <2>2, <2>4, <3>1 DEF Pending
  <2>6. \A c \in Conns : Unread(c)' = Unread(c)
    BY <2>2, <2>5 DEF Unread
  <2> QED
    BY <2>2, <2>4, <2>6 DEF Abs!vars
<1>7. CASE LoopEnd(g)
  <2>1. UNCHANGED <<fanned, held, send, todo, status, clients, closed>> /\ todo[g] = {}
        /\ msgNo' = IF g = "sub" THEN 0 ELSE msgNo
    BY <1>7 DEF LoopEnd
  <2>2. Members' = Members
    BY <2>1 DEF Members, Registered
  <2>3. \A c \in Conns : Pending(c)' = Pending(c)
    BY <2>1, <2>2 DEF Pending
  <2>4. \A c \in Conns : Unread(c)' = Unread(c)
    BY <2>1, <2>3 DEF Unread
  <2> QED
    BY <2>1, <2>2, <2>4 DEF Abs!vars
<1>8. CASE \E c \in Conns : LoopSendPanics(g, c)
  BY <1>3, <1>8 DEF LoopSendPanics
<1> QED
  BY <1>2, <1>3, <1>4, <1>5, <1>6, <1>7, <1>8 DEF Loop, Abs!Next

\* The subscriber takes a broadcast from Redis: from then on all members have been sent it.
LEMMA ReceiveBroadcasts ==
  ASSUME StreamInv, SubReceive
  PROVE  Abs!Broadcast \/ UNCHANGED Abs!vars
<1>1. TypeOK /\ MapInv
  BY DEF StreamInv, MapInv
<1>2. msgNo = 0 /\ UNCHANGED <<held, send, Members>>
  BY DEF SubReceive, StreamInv, SubIdle, procVars, chanVars, hubVars, envVars, Members, Registered
<1>3. \A c \in Conns : Pending(c) = <<>> /\ Unread(c) = Stream(c)
  BY <1>1, <1>2, UnreadIs DEF Pending
<1>4. CASE UNCHANGED <<fanned, msgNo>>
  <2>1. \A c \in Conns : Pending(c)' = Pending(c)
    BY <1>2, <1>4 DEF Pending
  <2>2. \A c \in Conns : Unread(c)' = Unread(c)
    BY <1>2, <2>1 DEF Unread
  <2> QED
    BY <1>2, <1>4, <2>2 DEF Abs!vars
<1>5. CASE fanned' = fanned + 1 /\ msgNo' = fanned + 1 /\ todo' = [todo EXCEPT !["sub"] = Registered]
  <2>1. fanned \in Nat /\ todo'["sub"] = Registered
    BY <1>1, <1>5 DEF TypeOK, Loops
  <2>2. \A c \in Conns : Pending(c)' = IF c \in Members THEN <<fanned + 1>> ELSE <<>>
    <3>1. Members \subseteq Registered /\ msgNo' > 0 /\ Members' = Members
      BY <1>2, <1>5, <2>1 DEF Members
    <3> QED
      BY <1>5, <2>1, <3>1 DEF Pending
  <2>3. \A c \in Conns : Unread(c)' = IF c \in Members THEN Append(Unread(c), fanned + 1) ELSE Unread(c)
    <3> SUFFICES ASSUME NEW c \in Conns
                 PROVE  Unread(c)' = IF c \in Members THEN Append(Unread(c), fanned + 1) ELSE Unread(c)
      OBVIOUS
    <3>1. Unread(c)' = Stream(c) \o Pending(c)'
      BY <1>2 DEF Unread, Stream
    <3>2. Stream(c) \in Seq(Nat)
      BY <1>1, StreamTyped
    <3>3. \A s \in Seq(Nat), m \in Nat : s \o <<>> = s /\ s \o <<m>> = Append(s, m)
      OBVIOUS
    <3>4. CASE c \in Members
      <4>1. fanned + 1 \in Nat
        BY <2>1
      <4>2. Stream(c) \o <<fanned + 1>> = Append(Stream(c), fanned + 1)
        BY <3>2, <3>3, <4>1
      <4> QED
        BY <1>3, <2>2, <3>1, <3>4, <4>2
    <3>5. CASE c \notin Members
      BY <1>3, <2>2, <3>1, <3>2, <3>3, <3>5
    <3> QED
      BY <3>4, <3>5
  <2> QED
    BY <1>2, <1>5, <2>3 DEF Abs!Broadcast
<1> QED
  BY <1>4, <1>5 DEF SubReceive

LEMMA RestImplements ==
  ASSUME StreamInv,
         \/ status = "up" /\ (SubReceive \/ TickReceive \/ LoseMessage \/ Kill)
         \/ Restart \/ UNCHANGED vars
  PROVE  [Abs!Next]_Abs!vars
<1> USE DEF procVars, chanVars, hubVars, loopVars, busVars, envVars
<1>1. TypeOK
  BY DEF StreamInv, MapInv
<1>2. CASE SubReceive
  BY <1>2, ReceiveBroadcasts DEF Abs!Next
<1>3. CASE TickReceive \/ LoseMessage \/ UNCHANGED vars
  <2>1. UNCHANGED <<fanned, held, send, msgNo, status, clients, closed>> /\ todo'["sub"] = todo["sub"]
    BY <1>1, <1>3 DEF TickReceive, LoseMessage, vars, TypeOK, Loops
  <2> QED
    BY <2>1, Unseen DEF Members, Registered
<1>4. CASE Kill
  BY <1>4, Crashes DEF Kill, Abs!Next
<1>5. CASE Restart
  <2>1. UNCHANGED <<fanned, held, send>> /\ Members = {}
    BY <1>5 DEF Restart, Members
  <2>2. Members' = {}
    BY <1>5 DEF Restart, Members, Registered
  <2>3. \A c \in Conns : Unread(c)' = Unread(c)
    BY <2>1, <2>2 DEF Unread, Pending
  <2> QED
    BY <2>1, <2>2, <2>3 DEF Abs!vars
<1> QED
  BY <1>2, <1>3, <1>4, <1>5

\* The goroutines, locks and channels of the hub are an atomic broadcast: whatever fails,
\* crashes or panics, and though broadcastLocal visits the clients one by one while pumps run
\* and connections come and go, every client that is served has been sent all broadcasts
\* since it was registered, in their order.
THEOREM HubIsFanout == Spec => RefinesFanout
<1>1. Init => Abs!Init
  <2> SUFFICES ASSUME Init PROVE Abs!Init
    OBVIOUS
  <2>1. Members = {} /\ fanned = 0
    BY DEF Init, Members, Registered
  <2>2. \A c \in Conns : held[c] \o send[c] = <<>> /\ Pending(c) = <<>>
    <3>1. <<>> \o <<>> = <<>>
      OBVIOUS
    <3> QED
      BY <3>1 DEF Init, Pending
  <2>3. \A c \in Conns : Unread(c) = <<>>
    <3>1. <<>> \o <<>> = <<>>
      OBVIOUS
    <3> QED
      BY <2>2, <3>1, BroadcastsEmpty DEF Unread
  <2> QED
    BY <2>1, <2>3 DEF Abs!Init
<1>2. StreamInv /\ [Next]_vars => [Abs!Next]_Abs!vars
  BY StepCases, ConnImplements, HubImplements, LoopImplements, RestImplements
<1> QED
  BY <1>1, <1>2, StreamCorrect, PTL DEF Spec, RefinesFanout, Abs!Spec

FanP == INSTANCE FanoutProofs WITH Sessions <- Conns, count <- fanned, members <- Members,
                                   queue <- [c \in Conns |-> Unread(c)]

\* What is on its way to a client, in its channel or still to be handed to it, is a run of
\* broadcasts without a hole, and for one that is served it ends with the newest.
THEOREM HubIsGapless == Spec => []Abs!Gapless
<1>1. Abs!Init => FanP!Init
  BY DEF Abs!Init, FanP!Init
<1>2. [Abs!Next]_Abs!vars => [FanP!Next]_FanP!vars
  BY DEF Abs!Next, FanP!Next, Abs!vars, FanP!vars, Abs!Broadcast, FanP!Broadcast,
         Abs!Join, FanP!Join, Abs!Deliver, FanP!Deliver, Abs!Leave, FanP!Leave,
         Abs!Crash, FanP!Crash
<1>3. FanP!Gapless => Abs!Gapless
  BY DEF Abs!Gapless, FanP!Gapless
<1> QED
  BY <1>1, <1>2, <1>3, HubIsFanout, FanP!ServedIsGapless, PTL
  DEF RefinesFanout, Abs!Spec, FanP!Spec
=============================================================================
