------------------------------- MODULE Calls -------------------------------
(***************************************************************************)
(* Calls between pages (web/index.html): startCall, answerCall, endCall    *)
(* and the signals they send each other through the hub, which passes them *)
(* on in the order of their sender or skips them (internal/chat/hub.go).   *)
(* The two functions wait for the browser several times, and meanwhile     *)
(* signals arrive and buttons are pressed.  What they have got from it, a  *)
(* camera stream and a peer connection, always come and go together: a     *)
(* line.  Screen sharing, muting and ICE candidates are left out.          *)
(***************************************************************************)
EXTENDS Naturals, Sequences, FiniteSets

CONSTANTS
  Users,     \* users, each on one page
  Slots,     \* functions that may be under way at once on a page
  None,      \* no user
  MaxCalls,  \* bound: presses of a call button
  Calm       \* whether a call starts only when the one before is over on all pages

ASSUME CallsAssumption == None \notin Users /\ MaxCalls \in Nat /\ Calm \in BOOLEAN

VARIABLES
  active,    \* active[u]: activeTargetUser
  overlay,   \* overlay[u]: the overlay of a call covers the page
  ringing,   \* ringing[u]: and has a button to accept
  incoming,  \* incoming[u]: the sender of incomingOffer, or None
  line,      \* line[u]: localStream and peerConnection, 0 for null
  live,      \* live[u]: lines whose camera is on and whose connection is open
  offered,   \* offered[u]: lines with a local offer that has no answer
  talk,      \* talk[u]: whom the line is connected with, or None
  job,       \* job[u][k]: a function under way
  net,       \* net[<<u, v>>]: signals on their way from u to v
  calls,     \* number of calls started
  made,      \* number of lines made
  lost,      \* history: a signal was skipped
  hasty      \* history: hasty[u]: u hung up while startCall waited for the camera

lineVars == <<line, live, offered, talk, made>>
screenVars == <<overlay, ringing, incoming>>
vars == <<active, screenVars, lineVars, job, net, calls, lost, hasty>>

Signals == {"call_offer", "call_answer", "call_end"}
Job == [at: {"none", "media", "offer", "local"}, starts: BOOLEAN, line: Nat]
NoJob == [at |-> "none", starts |-> FALSE, line |-> 0]

TypeOK ==
  /\ active \in [Users -> Users \cup {None}] /\ incoming \in [Users -> Users \cup {None}]
  /\ talk \in [Users -> Users \cup {None}]
  /\ overlay \in [Users -> BOOLEAN] /\ ringing \in [Users -> BOOLEAN]
  /\ line \in [Users -> Nat]
  /\ live \in [Users -> SUBSET (1 .. made)] /\ offered \in [Users -> SUBSET (1 .. made)]
  /\ job \in [Users -> [Slots -> Job]]
  /\ net \in [Users \X Users -> Seq(Signals)]
  /\ calls \in 0 .. MaxCalls /\ made \in Nat /\ lost \in BOOLEAN
  /\ hasty \in [Users -> BOOLEAN]
  /\ \A u \in Users : line[u] \in live[u] \cup {0}

Init ==
  /\ active = [u \in Users |-> None] /\ incoming = [u \in Users |-> None]
  /\ talk = [u \in Users |-> None]
  /\ overlay = [u \in Users |-> FALSE] /\ ringing = [u \in Users |-> FALSE]
  /\ line = [u \in Users |-> 0]
  /\ live = [u \in Users |-> {}] /\ offered = [u \in Users |-> {}]
  /\ job = [u \in Users |-> [k \in Slots |-> NoJob]]
  /\ net = [uv \in Users \X Users |-> <<>>]
  /\ calls = 0 /\ made = 0 /\ lost = FALSE
  /\ hasty = [u \in Users |-> FALSE]
-----------------------------------------------------------------------------
Silent == \A u, v \in Users : net[<<u, v>>] = <<>>
AtRest(u) == job[u] = [k \in Slots |-> NoJob]
Starting(u) == \E k \in Slots : job[u][k].at # "none" /\ job[u][k].starts
Waiting(u) == \E k \in Slots : job[u][k].at = "media" /\ job[u][k].starts

\* Nobody is in a call, or about to be.
Over == Silent /\ \A u \in Users : AtRest(u) /\ ~overlay[u]

Send(u, v, s) == net' = [net EXCEPT ![<<u, v>>] = Append(@, s)]

Goto(u, k, at) == job' = [job EXCEPT ![u][k].at = at]
Done(u, k) == job' = [job EXCEPT ![u][k] = NoJob]

\* Mutant: only the open conversation tells whom.
ActiveOnly(u) == active[u]

\* Whom endCall tells.
Target(u) == IF active[u] # None THEN active[u] ELSE incoming[u]

\* Mutant: localStream and peerConnection are not set to null.
CloseOnly(u, n) ==
  /\ live' = [live EXCEPT ![u] = @ \ {n}]
  /\ offered' = [offered EXCEPT ![u] = @ \ {n}]
  /\ talk' = [talk EXCEPT ![u] = None]
  /\ UNCHANGED line

\* endCall stops the tracks and closes the connection of line n,
Close(u, n) ==
  /\ live' = [live EXCEPT ![u] = @ \ {n}]
  /\ line' = [line EXCEPT ![u] = 0]
  /\ offered' = [offered EXCEPT ![u] = @ \ {n}]
  /\ talk' = [talk EXCEPT ![u] = None]

\* Mutant: the offer is kept.
HideOnly(u) == overlay' = [overlay EXCEPT ![u] = FALSE] /\ UNCHANGED <<incoming, ringing>>

\* and hides the overlay, where the button to accept stays as it is.
Hide(u) ==
  /\ incoming' = [incoming EXCEPT ![u] = None]
  /\ overlay' = [overlay EXCEPT ![u] = FALSE]
  /\ UNCHANGED ringing

\* endCall(true), on a page that has line n.
EndCall(u, n) ==
  /\ Close(u, n) /\ Hide(u)
  /\ IF Target(u) # None THEN Send(u, Target(u), "call_end") ELSE UNCHANGED net
-----------------------------------------------------------------------------
(* What the user does.  The overlay covers everything but its buttons.     *)

\* openConversation, of a group if v is None.
Choose(u, v) ==
  /\ ~overlay[u] /\ v # u
  /\ active' = [active EXCEPT ![u] = v]
  /\ UNCHANGED <<screenVars, lineVars, job, net, calls, lost, hasty>>

\* startCall, to its first await.
Start(u, k) ==
  /\ ~overlay[u] /\ active[u] # None
  /\ Calm => Over
  /\ calls < MaxCalls /\ calls' = calls + 1
  /\ job[u][k] = NoJob
  /\ job' = [job EXCEPT ![u][k] = [at |-> "media", starts |-> TRUE, line |-> 0]]
  /\ overlay' = [overlay EXCEPT ![u] = TRUE] /\ ringing' = [ringing EXCEPT ![u] = FALSE]
  /\ UNCHANGED <<active, incoming, lineVars, net, lost, hasty>>

\* answerCall, to its first await.
Accept(u, k) ==
  /\ overlay[u] /\ ringing[u] /\ incoming[u] # None
  /\ job[u][k] = NoJob
  /\ job' = [job EXCEPT ![u][k] = [at |-> "media", starts |-> FALSE, line |-> 0]]
  /\ ringing' = [ringing EXCEPT ![u] = FALSE]
  /\ UNCHANGED <<active, overlay, incoming, lineVars, net, calls, lost, hasty>>

HangUp(u) ==
  /\ overlay[u]
  /\ EndCall(u, line[u])
  /\ hasty' = [hasty EXCEPT ![u] = @ \/ Waiting(u)]
  /\ UNCHANGED <<active, made, job, calls, lost>>
-----------------------------------------------------------------------------
(* The functions go on.  A line is named by the number of lines made.      *)

\* Something throws, and either function catches it.
Caught(u, k, n) == EndCall(u, n) /\ Done(u, k) /\ UNCHANGED <<active, made, calls, lost, hasty>>

\* getUserMedia is refused.
Refuse(u, k) == job[u][k].at = "media" /\ Caught(u, k, line[u])

\* The camera is on, and there is a connection.
Grant(u, k) ==
  /\ job[u][k].at = "media"
  /\ job[u][k].starts \/ incoming[u] # None
  /\ made' = made + 1
  /\ line' = [line EXCEPT ![u] = made'] /\ live' = [live EXCEPT ![u] = @ \cup {made'}]
  /\ talk' = [talk EXCEPT ![u] = None]
  /\ job' = [job EXCEPT ![u][k].at = "offer", ![u][k].line = made']
  /\ UNCHANGED <<active, screenVars, offered, net, calls, lost, hasty>>

\* They are, but answerCall finds that incomingOffer is null, and endCall lets go of them
\* again, and not of a line there may have been before.
GrantLate(u, k) ==
  /\ job[u][k].at = "media"
  /\ ~job[u][k].starts /\ incoming[u] = None
  /\ Caught(u, k, 0)

Open(u, k) == job[u][k].line \in live[u]

\* What a closed connection was asked for never comes,
Stuck(u, k) ==
  /\ job[u][k].at \in {"offer", "local"} /\ ~Open(u, k)
  /\ Done(u, k)
  /\ UNCHANGED <<active, screenVars, lineVars, net, calls, lost, hasty>>

\* or the function finds that peerConnection is null or another one.
Throw(u, k) ==
  /\ \/ job[u][k].at = "offer" /\ line[u] # job[u][k].line
     \/ job[u][k].at = "local" /\ ~Open(u, k)
  /\ Caught(u, k, line[u])

\* createOffer, or setRemoteDescription and createAnswer, is done; setLocalDescription
\* starts.  Another connection may answer as well.
Describe(u, k) ==
  /\ job[u][k].at = "offer" /\ Open(u, k)
  /\ line[u] # 0 /\ (job[u][k].starts => line[u] = job[u][k].line)
  /\ offered' = IF job[u][k].starts THEN [offered EXCEPT ![u] = @ \cup {line[u]}] ELSE offered
  /\ Goto(u, k, "local")
  /\ UNCHANGED <<active, screenVars, line, live, talk, made, net, calls, lost, hasty>>

\* setLocalDescription is done: startCall sends its offer to the user who is active now,
Offer(u, k) ==
  /\ job[u][k].at = "local" /\ job[u][k].starts /\ Open(u, k)
  /\ IF active[u] = None THEN Caught(u, k, line[u])
     ELSE Send(u, active[u], "call_offer") /\ Done(u, k)
          /\ UNCHANGED <<active, screenVars, lineVars, calls, lost, hasty>>

\* and answerCall its answer to the sender of the offer there is now.
Answer(u, k) ==
  /\ job[u][k].at = "local" /\ ~job[u][k].starts /\ Open(u, k)
  /\ IF incoming[u] = None THEN Caught(u, k, line[u])
     ELSE /\ Send(u, incoming[u], "call_answer") /\ Done(u, k)
          /\ talk' = IF line[u] = job[u][k].line THEN [talk EXCEPT ![u] = incoming[u]] ELSE talk
          /\ UNCHANGED <<active, screenVars, line, live, offered, made, calls, lost, hasty>>
-----------------------------------------------------------------------------
(* A signal of v arrives at u.                                             *)

\* handleIncomingCall.
Ring(u, v) ==
  /\ incoming' = [incoming EXCEPT ![u] = v]
  /\ overlay' = [overlay EXCEPT ![u] = TRUE] /\ ringing' = [ringing EXCEPT ![u] = TRUE]
  /\ UNCHANGED lineVars

\* An answer is for whichever line there is, if it waits for one.
Answered(u, v) ==
  /\ IF line[u] \in offered[u]
     THEN talk' = [talk EXCEPT ![u] = v] /\ offered' = [offered EXCEPT ![u] = @ \ {line[u]}]
     ELSE UNCHANGED <<talk, offered>>
  /\ UNCHANGED <<screenVars, line, live, made>>

\* endCall(false), whoever sent it.
Ended(u, v) == Close(u, line[u]) /\ Hide(u) /\ UNCHANGED made

Receive(u, v) ==
  /\ net[<<v, u>>] # <<>>
  /\ net' = [net EXCEPT ![<<v, u>>] = Tail(@)]
  /\ CASE Head(net[<<v, u>>]) = "call_offer" -> Ring(u, v)
       [] Head(net[<<v, u>>]) = "call_answer" -> Answered(u, v)
       [] OTHER -> Ended(u, v)
  /\ UNCHANGED <<active, job, calls, lost, hasty>>

\* The send channel is full, or the socket closed.
Skip(u, v) ==
  /\ net[<<v, u>>] # <<>>
  /\ net' = [net EXCEPT ![<<v, u>>] = Tail(@)]
  /\ lost' = TRUE
  /\ UNCHANGED <<active, screenVars, lineVars, job, calls, hasty>>

User(u) ==
  \/ \E v \in Users \cup {None} : Choose(u, v)
  \/ \E k \in Slots : Start(u, k) \/ Accept(u, k)
  \/ HangUp(u)

GoOn(u, k) ==
  \/ Refuse(u, k) \/ Grant(u, k) \/ GrantLate(u, k)
  \/ Stuck(u, k) \/ Throw(u, k) \/ Describe(u, k)
  \/ Offer(u, k) \/ Answer(u, k)

Next == \E u \in Users :
  \/ User(u)
  \/ \E k \in Slots : GoOn(u, k)
  \/ \E v \in Users : Receive(u, v) \/ Skip(u, v)

Spec == Init /\ [][Next]_vars

\* Signals are delivered.  Nobody has to press a button, nor the browser to go on.
FairSpec == Spec /\ \A u, v \in Users : WF_vars(Receive(u, v))
-----------------------------------------------------------------------------
(* Properties, of users whose calls follow each other (Calm).  The page does *)
(* not see to that: where calls cross, none of the three holds.            *)

\* Whose camera is on sees the call, and has a button to end it, unless they ever hung up
\* while startCall waited for the camera, which is then turned on all the same.
CameraIsShown == \A u \in Users : live[u] # {} => overlay[u] \/ hasty[u]

\* When nothing is under way, two pages that were told everything are in a call with each
\* other or in none.
PagesAgree == Silent /\ ~lost /\ (\A u \in Users : AtRest(u)) =>
  \A u, v \in Users : talk[u] = v <=> talk[v] = u

\* When one of two pages has left a call, and has no line behind a hidden overlay, the
\* other leaves it, too.
HangUpIsHeard == \A u, v \in Users :
  overlay[u] /\ ~overlay[v] /\ line[v] = 0 ~> Starting(u) \/ lost \/ overlay[u] = overlay[v]
=============================================================================
