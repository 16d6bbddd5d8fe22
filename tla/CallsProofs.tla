---------------------------- MODULE CallsProofs ----------------------------
(***************************************************************************)
(* Calls between any number of pages keep their types, and while calls     *)
(* follow each other no camera is on behind a hidden overlay, and two      *)
(* pages agree on whether they are in a call with each other.              *)
(***************************************************************************)
EXTENDS Calls, SequenceTheorems, TLAPS

USE CallsAssumption DEF CallsAssumption

-----------------------------------------------------------------------------
(* Types.                                                                  *)

LEMMA InitTypeOK == Init => TypeOK
<1> SUFFICES ASSUME Init PROVE TypeOK
  OBVIOUS
<1>1. NoJob \in Job
  BY DEF NoJob, Job
<1>2. job \in [Users -> [Slots -> Job]]
  BY <1>1 DEF Init
<1>3. net \in [Users \X Users -> Seq(Signals)]
  BY DEF Init
<1>4. /\ live \in [Users -> SUBSET (1 .. made)] /\ offered \in [Users -> SUBSET (1 .. made)]
      /\ line \in [Users -> Nat] /\ \A u \in Users : line[u] \in live[u] \cup {0}
  BY DEF Init
<1>5. /\ active \in [Users -> Users \cup {None}] /\ incoming \in [Users -> Users \cup {None}]
      /\ talk \in [Users -> Users \cup {None}]
      /\ overlay \in [Users -> BOOLEAN] /\ ringing \in [Users -> BOOLEAN]
  BY DEF Init
<1>6. calls \in 0 .. MaxCalls /\ made \in Nat
  BY DEF Init
<1>7. lost \in BOOLEAN /\ hasty \in [Users -> BOOLEAN]
  BY DEF Init
<1> QED
  BY <1>2, <1>3, <1>4, <1>5, <1>6, <1>7 DEF TypeOK

LEMMA SendTyped ==
  ASSUME TypeOK, NEW u \in Users, NEW v \in Users, NEW s \in Signals, Send(u, v, s)
  PROVE  /\ net' \in [Users \X Users -> Seq(Signals)]
         /\ net'[<<u, v>>] = Append(net[<<u, v>>], s)
         /\ \A w, x \in Users : <<w, x>> # <<u, v>> => net'[<<w, x>>] = net[<<w, x>>]
<1>1. <<u, v>> \in Users \X Users /\ net[<<u, v>>] \in Seq(Signals)
  BY DEF TypeOK
<1>2. Append(net[<<u, v>>], s) \in Seq(Signals)
  BY <1>1
<1> QED
  BY <1>1, <1>2 DEF Send, TypeOK

\* A signal of v has arrived at u, or was skipped.
Taken(u, v) == net[<<v, u>>] # <<>> /\ net' = [net EXCEPT ![<<v, u>>] = Tail(@)]

LEMMA TakeTyped ==
  ASSUME TypeOK, NEW u \in Users, NEW v \in Users, Taken(u, v)
  PROVE  /\ net' \in [Users \X Users -> Seq(Signals)]
         /\ Head(net[<<v, u>>]) \in Signals
         /\ net'[<<v, u>>] = Tail(net[<<v, u>>])
         /\ \A w, x \in Users : <<w, x>> # <<v, u>> => net'[<<w, x>>] = net[<<w, x>>]
<1>1. <<v, u>> \in Users \X Users /\ net[<<v, u>>] \in Seq(Signals) /\ net[<<v, u>>] # <<>>
  BY DEF TypeOK, Taken
<1>2. Tail(net[<<v, u>>]) \in Seq(Signals) /\ Head(net[<<v, u>>]) \in Signals
  BY <1>1
<1> QED
  BY <1>1, <1>2 DEF TypeOK, Taken

\* A function is over.
LEMMA DoneTyped ==
  ASSUME TypeOK, NEW u \in Users, NEW k \in Slots, Done(u, k)
  PROVE  /\ job' \in [Users -> [Slots -> Job]]
         /\ job'[u][k] = NoJob
         /\ \A l \in Slots \ {k} : job'[u][l] = job[u][l]
         /\ \A v \in Users \ {u} : job'[v] = job[v]
<1>1. NoJob \in Job
  BY DEF NoJob, Job
<1> QED
  BY <1>1 DEF Done, TypeOK

\* The page of u has let go of its line and hidden the overlay.
Left(u) ==
  /\ line' = [line EXCEPT ![u] = 0] /\ \E n : live' = [live EXCEPT ![u] = @ \ {n}]
  /\ overlay' = [overlay EXCEPT ![u] = FALSE] /\ incoming' = [incoming EXCEPT ![u] = None]
  /\ talk' = [talk EXCEPT ![u] = None]
  /\ offered' \in [Users -> SUBSET (1 .. made)]
  /\ UNCHANGED <<active, ringing, made, calls>>

LEMMA EndCallLeaves ==
  ASSUME TypeOK, NEW u \in Users, NEW n, EndCall(u, n), UNCHANGED <<active, made, calls>>
  PROVE  /\ Left(u)
         /\ live' = [live EXCEPT ![u] = @ \ {n}]
         /\ \/ net' = net
            \/ Target(u) \in Users /\ Send(u, Target(u), "call_end")
<1>1. Target(u) # None => Target(u) \in Users
  BY DEF Target, TypeOK
<1>2. offered' \in [Users -> SUBSET (1 .. made)]
  BY DEF EndCall, Close, TypeOK
<1> QED
  BY <1>1, <1>2 DEF EndCall, Close, Hide, Left

LEMMA EndCallNet ==
  ASSUME TypeOK, NEW u \in Users, NEW n, EndCall(u, n), UNCHANGED <<active, made, calls>>
  PROVE  net' \in [Users \X Users -> Seq(Signals)]
<1>1. CASE net' = net
  BY <1>1 DEF TypeOK
<1>2. CASE Target(u) \in Users /\ Send(u, Target(u), "call_end")
  BY <1>2, SendTyped DEF Signals
<1> QED
  BY <1>1, <1>2, EndCallLeaves

LEMMA LeftTyped ==
  ASSUME TypeOK, NEW u \in Users, Left(u), lost' \in BOOLEAN, hasty' \in [Users -> BOOLEAN],
         net' \in [Users \X Users -> Seq(Signals)], job' \in [Users -> [Slots -> Job]]
  PROVE  TypeOK'
<1>1. PICK n : live' = [live EXCEPT ![u] = @ \ {n}]
  BY DEF Left
<1>2. live' \in [Users -> SUBSET (1 .. made)] /\ \A v \in Users : line'[v] \in live'[v] \cup {0}
  BY <1>1 DEF Left, TypeOK
<1>3. line' \in [Users -> Nat]
  BY DEF Left, TypeOK
<1> QED
  BY <1>2, <1>3 DEF Left, TypeOK

LEMMA CaughtTyped ==
  ASSUME TypeOK, NEW u \in Users, NEW k \in Slots, NEW n, Caught(u, k, n)
  PROVE  TypeOK'
<1>1. EndCall(u, n) /\ Done(u, k) /\ UNCHANGED <<active, made, calls>> /\ UNCHANGED <<lost, hasty>>
  BY DEF Caught
<1>2. Left(u) /\ net' \in [Users \X Users -> Seq(Signals)]
  BY <1>1, EndCallLeaves, EndCallNet
<1>3. job' \in [Users -> [Slots -> Job]]
  BY <1>1, DoneTyped
<1> QED
  BY <1>1, <1>2, <1>3, LeftTyped DEF TypeOK

\* A function has come to another place, and may have made a line.
LEMMA GotoTyped ==
  ASSUME TypeOK, NEW u \in Users, NEW k \in Slots, NEW j \in Job,
         job' = [job EXCEPT ![u][k] = j]
  PROVE  /\ job' \in [Users -> [Slots -> Job]]
         /\ job'[u][k] = j
         /\ \A l \in Slots \ {k} : job'[u][l] = job[u][l]
         /\ \A v \in Users \ {u} : job'[v] = job[v]
BY DEF TypeOK

\* The job that a button starts.
Begun(starts) == [at |-> "media", starts |-> starts, line |-> 0]

LEMMA BegunTyped == \A starts \in BOOLEAN : Begun(starts) \in Job
BY DEF Begun, Job

\* What a page remembers of having hung up too early.
HastyKept(u) ==
  /\ hasty' \in [Users -> BOOLEAN]
  /\ \A v \in Users \ {u} : hasty'[v] = hasty[v]
  /\ hasty[u] => hasty'[u]

LEMMA SameHasty == ASSUME TypeOK, NEW u \in Users, hasty' = hasty PROVE HastyKept(u)
BY DEF HastyKept, TypeOK

LEMMA HangUpHasty ==
  ASSUME TypeOK, NEW u \in Users, HangUp(u)
  PROVE  HastyKept(u) /\ (Waiting(u) => hasty'[u])
<1>1. PICK b \in BOOLEAN : (hasty[u] \/ Waiting(u)) = b
  OBVIOUS
<1>2. hasty' = [hasty EXCEPT ![u] = b]
  BY <1>1 DEF HangUp
<1>3. (hasty[u] => b) /\ (Waiting(u) => b)
  BY <1>1
<1> QED
  BY <1>2, <1>3 DEF HastyKept, TypeOK

LEMMA ButtonTypeOK ==
  ASSUME TypeOK, NEW u \in Users, User(u)
  PROVE  TypeOK'
<1> USE DEF screenVars, lineVars
<1>1. ASSUME NEW v \in Users \cup {None}, Choose(u, v)
      PROVE  TypeOK'
  BY <1>1 DEF Choose, TypeOK
<1>2. ASSUME NEW k \in Slots, Start(u, k)
      PROVE  TypeOK'
  <2>1. job' \in [Users -> [Slots -> Job]]
    BY <1>2, GotoTyped, BegunTyped DEF Start, Begun
  <2>2. calls' \in 0 .. MaxCalls
    BY <1>2 DEF Start, TypeOK
  <2> QED
    BY <1>2, <2>1, <2>2 DEF Start, TypeOK
<1>3. ASSUME NEW k \in Slots, Accept(u, k)
      PROVE  TypeOK'
  <2>1. job' \in [Users -> [Slots -> Job]]
    BY <1>3, GotoTyped, BegunTyped DEF Accept, Begun
  <2> QED
    BY <1>3, <2>1 DEF Accept, TypeOK
<1>4. CASE HangUp(u)
  <2>1. EndCall(u, line[u]) /\ UNCHANGED <<active, made, job, calls, lost>>
    BY <1>4 DEF HangUp
  <2>2. Left(u) /\ net' \in [Users \X Users -> Seq(Signals)]
    BY <2>1, EndCallLeaves, EndCallNet
  <2> QED
    BY <1>4, <2>1, <2>2, LeftTyped, HangUpHasty DEF HastyKept, TypeOK
<1> QED
  BY <1>1, <1>2, <1>3, <1>4 DEF User

LEMMA GoOnTypeOK ==
  ASSUME TypeOK, NEW u \in Users, NEW k \in Slots, GoOn(u, k)
  PROVE  TypeOK'
<1> USE DEF screenVars, lineVars
<1>0. job[u][k] \in Job
  BY DEF TypeOK
<1>1. CASE \E n : Caught(u, k, n)
  BY <1>1, CaughtTyped
<1>2. CASE Grant(u, k)
  <2>1. made' = made + 1 /\ made' \in Nat /\ made \in Nat
    BY <1>2 DEF Grant, TypeOK
  <2>2. [job[u][k] EXCEPT !.at = "offer", !.line = made'] \in Job
    BY <1>0, <2>1 DEF Job
  <2>3. job' = [job EXCEPT ![u][k] = [job[u][k] EXCEPT !.at = "offer", !.line = made']]
    BY <1>2 DEF Grant, TypeOK
  <2>4. job' \in [Users -> [Slots -> Job]]
    BY <2>2, <2>3, GotoTyped
  <2>5. \A v \in Users : live[v] \subseteq 1 .. made' /\ offered[v] \subseteq 1 .. made'
    BY <2>1 DEF TypeOK
  <2>6. live' \in [Users -> SUBSET (1 .. made')] /\ offered' \in [Users -> SUBSET (1 .. made')]
    BY <1>2, <2>1, <2>5 DEF Grant, TypeOK
  <2>7. line' \in [Users -> Nat] /\ \A v \in Users : line'[v] \in live'[v] \cup {0}
    BY <1>2, <2>1 DEF Grant, TypeOK
  <2> QED
    BY <1>2, <2>1, <2>4, <2>6, <2>7 DEF Grant, TypeOK
<1>3. CASE Stuck(u, k)
  BY <1>3, DoneTyped DEF Stuck, TypeOK
<1>4. CASE Describe(u, k)
  <2>1. [job[u][k] EXCEPT !.at = "local"] \in Job
    BY <1>0 DEF Job
  <2>2. job' \in [Users -> [Slots -> Job]]
    BY <1>4, <2>1, GotoTyped DEF Describe, Goto, TypeOK
  <2>3. line[u] \in 1 .. made
    BY <1>4 DEF Describe, TypeOK
  <2>4. offered' \in [Users -> SUBSET (1 .. made)]
    BY <1>4, <2>3 DEF Describe, TypeOK
  <2> QED
    BY <1>4, <2>2, <2>4 DEF Describe, TypeOK
<1>5. CASE Offer(u, k) /\ active[u] # None
  <2>1. active[u] \in Users /\ "call_offer" \in Signals
    BY <1>5 DEF TypeOK, Signals
  <2>2. net' \in [Users \X Users -> Seq(Signals)]
    BY <1>5, <2>1, SendTyped DEF Offer
  <2>3. job' \in [Users -> [Slots -> Job]]
    BY <1>5, DoneTyped DEF Offer
  <2> QED
    BY <1>5, <2>2, <2>3 DEF Offer, TypeOK
<1>6. CASE Answer(u, k) /\ incoming[u] # None
  <2>1. incoming[u] \in Users /\ "call_answer" \in Signals
    BY <1>6 DEF TypeOK, Signals
  <2>2. net' \in [Users \X Users -> Seq(Signals)]
    BY <1>6, <2>1, SendTyped DEF Answer
  <2>3. job' \in [Users -> [Slots -> Job]]
    BY <1>6, DoneTyped DEF Answer
  <2>4. talk' \in [Users -> Users \cup {None}]
    BY <1>6, <2>1 DEF Answer, TypeOK
  <2> QED
    BY <1>6, <2>2, <2>3, <2>4 DEF Answer, TypeOK
<1>7. Refuse(u, k) \/ GrantLate(u, k) \/ Throw(u, k) => \E n : Caught(u, k, n)
  BY DEF Refuse, GrantLate, Throw
<1>8. Offer(u, k) /\ active[u] = None => \E n : Caught(u, k, n)
  BY DEF Offer
<1>9. Answer(u, k) /\ incoming[u] = None => \E n : Caught(u, k, n)
  BY DEF Answer
<1> QED
  BY <1>1, <1>2, <1>3, <1>4, <1>5, <1>6, <1>7, <1>8, <1>9 DEF GoOn

LEMMA SignalTypeOK ==
  ASSUME TypeOK, NEW u \in Users, NEW v \in Users, Receive(u, v) \/ Skip(u, v)
  PROVE  TypeOK'
<1> USE DEF screenVars, lineVars
<1>1. Taken(u, v)
  BY DEF Receive, Skip, Taken
<1>2. net' \in [Users \X Users -> Seq(Signals)]
  BY <1>1, TakeTyped
<1>3. CASE Skip(u, v)
  BY <1>2, <1>3 DEF Skip, TypeOK
<1>4. CASE Receive(u, v) /\ Ring(u, v)
  BY <1>2, <1>4 DEF Receive, Ring, TypeOK
<1>5. CASE Receive(u, v) /\ Answered(u, v)
  <2>1. \/ UNCHANGED <<talk, offered>>
        \/ talk' = [talk EXCEPT ![u] = v] /\ offered' = [offered EXCEPT ![u] = @ \ {line[u]}]
    BY <1>5 DEF Answered
  <2>2. talk' \in [Users -> Users \cup {None}]
    BY <2>1 DEF TypeOK
  <2>3. offered' \in [Users -> SUBSET (1 .. made)]
    <3>1. offered[u] \ {line[u]} \in SUBSET (1 .. made)
      BY DEF TypeOK
    <3> QED
      BY <2>1, <3>1 DEF TypeOK
  <2> QED
    BY <1>2, <1>5, <2>2, <2>3 DEF Receive, Answered, TypeOK
<1>6. CASE Receive(u, v) /\ Ended(u, v)
  <2>1. offered' \in [Users -> SUBSET (1 .. made)]
    BY <1>6 DEF Ended, Close, TypeOK
  <2>2. Left(u)
    BY <1>6, <2>1 DEF Receive, Ended, Close, Hide, Left
  <2> QED
    BY <1>2, <1>6, <2>2, LeftTyped DEF Receive, TypeOK
<1> QED
  BY <1>3, <1>4, <1>5, <1>6 DEF Receive

LEMMA NextTypeOK == TypeOK /\ [Next]_vars => TypeOK'
<1> SUFFICES ASSUME TypeOK, [Next]_vars
             PROVE  TypeOK'
  OBVIOUS
<1>1. CASE UNCHANGED vars
  BY <1>1 DEF vars, screenVars, lineVars, TypeOK
<1> QED
  BY <1>1, ButtonTypeOK, GoOnTypeOK, SignalTypeOK DEF Next

\* Pages, lines, functions and signals keep their types, whoever calls whom and when.
THEOREM CallsTypeCorrect == Spec => []TypeOK
BY InitTypeOK, NextTypeOK, PTL DEF Spec
-----------------------------------------------------------------------------
(* The camera, while calls follow each other.                              *)

\* On a page one function at a time is under way.  Unless its user ever hung up while
\* startCall waited for the camera, there is no line before the camera is granted, only the
\* line has a camera on, it is never hidden, and whoever can accept a call is in none.
PageInv(u) ==
  /\ active[u] # u
  /\ hasty[u] \/ live[u] \subseteq {line[u]}
  /\ incoming[u] # None => overlay[u]
  /\ line[u] # 0 => overlay[u] \/ hasty[u]
  /\ \A k \in Slots : job[u][k] # NoJob => \A l \in Slots \ {k} : job[u][l] = NoJob
  /\ \A k \in Slots : job[u][k].at = "media" => line[u] = 0 \/ hasty[u]
  /\ overlay[u] /\ ringing[u] => AtRest(u) /\ (line[u] = 0 \/ hasty[u])

OfferAt(v, u, i) == i \in 1 .. Len(net[<<v, u>>]) /\ net[<<v, u>>][i] = "call_offer"

\* The user of a page where startCall is under way sees it, or has hung up.
Holds(u) == (Silent /\ overlay[u]) \/ hasty[u] \/ (line[u] = 0 /\ ~Waiting(u))

\* Only u has said something, and not to itself.
Talks(u) == \A v, w \in Users : net[<<v, w>>] # <<>> => v = u /\ w # u

\* While startCall is under way nobody else sees or says anything.
StartsAlone == \A u \in Users : Starting(u) =>
  /\ Holds(u) /\ Talks(u) /\ ~ringing[u] /\ incoming[u] = None
  /\ \A v \in Users, i \in Nat : ~OfferAt(u, v, i)
  /\ \A v \in Users \ {u} : AtRest(v) /\ ~overlay[v]

\* There is one offer on its way, its receiver is in no call, and it is the first thing that
\* its sender says, unless they had hung up before.
OfferComes == \A u, v \in Users, i \in Nat : OfferAt(v, u, i) =>
  /\ i = 1 \/ hasty[v]
  /\ AtRest(u) /\ ~overlay[u]
  /\ \A w, x \in Users, j \in Nat : OfferAt(w, x, j) => w = v /\ x = u /\ j = i

CallInv == TypeOK /\ (\A u \in Users : PageInv(u)) /\ StartsAlone /\ OfferComes

LEMMA InitCall == Init => CallInv
<1> SUFFICES ASSUME Init PROVE CallInv
  OBVIOUS
<1>1. \A u \in Users : AtRest(u) /\ ~Starting(u)
  BY DEF Init, AtRest, Starting, NoJob
<1>2. \A u \in Users : active[u] # u /\ ~overlay[u] /\ line[u] = 0 /\ live[u] = {} /\ incoming[u] = None
  BY DEF Init
<1>3. \A u \in Users, k \in Slots : job[u][k] = NoJob /\ NoJob.at # "media"
  BY DEF Init, NoJob
<1>4. \A u, v \in Users, i \in Nat : ~OfferAt(v, u, i)
  BY DEF Init, OfferAt
<1> QED
  BY <1>1, <1>2, <1>3, <1>4, InitTypeOK DEF CallInv, PageInv, StartsAlone, OfferComes

\* The page of v stays as it is.
PageSame(v) ==
  /\ active'[v] = active[v] /\ overlay'[v] = overlay[v] /\ ringing'[v] = ringing[v]
  /\ incoming'[v] = incoming[v] /\ line'[v] = line[v] /\ live'[v] = live[v] /\ job'[v] = job[v]

OnlyPage(u) == \A v \in Users \ {u} : PageSame(v) /\ hasty'[v] = hasty[v]

LEMMA SameKeeps ==
  ASSUME NEW v \in Users, PageInv(v), PageSame(v), hasty'[v] = hasty[v]
  PROVE  PageInv(v)' /\ (Starting(v)' <=> Starting(v)) /\ (AtRest(v)' <=> AtRest(v))
BY DEF PageInv, PageSame, Starting, AtRest

LEMMA Resting ==
  ASSUME TypeOK, NEW u \in Users
  PROVE  /\ AtRest(u) <=> \A k \in Slots : job[u][k] = NoJob
         /\ AtRest(u) => ~Starting(u)
<1>1. job[u] \in [Slots -> Job]
  BY DEF TypeOK
<1>2. AtRest(u) => \A k \in Slots : job[u][k] = NoJob
  BY DEF AtRest
<1>3. (\A k \in Slots : job[u][k] = NoJob) => AtRest(u)
  <2> SUFFICES ASSUME \A k \in Slots : job[u][k] = NoJob
               PROVE  job[u] = [k \in Slots |-> NoJob]
    BY DEF AtRest
  <2>1. job[u] = [k \in Slots |-> job[u][k]]
    BY <1>1
  <2> QED
    BY <2>1
<1>4. AtRest(u) => ~Starting(u)
  BY <1>2 DEF Starting, NoJob
<1> QED
  BY <1>2, <1>3, <1>4

Busy(u) == overlay[u] \/ ~AtRest(u)

NoNewOffer == \A u, v \in Users, i \in Nat : OfferAt(v, u, i)' => OfferAt(v, u, i)

\* A step of a page that has something to do.
LEMMA BusyStep ==
  ASSUME CallInv, NEW u \in Users, Busy(u), OnlyPage(u), PageInv(u)', TypeOK', NoNewOffer,
         hasty[u] => hasty'[u],
         Starting(u)' => Starting(u) /\ (Holds(u) /\ Talks(u) /\ ~ringing[u] /\ incoming[u] = None)'
  PROVE  CallInv'
<1> USE DEF CallInv
<1>1. \A v \in Users \ {u} : /\ PageInv(v)' /\ overlay'[v] = overlay[v]
                             /\ Starting(v)' <=> Starting(v)
                             /\ AtRest(v)' <=> AtRest(v)
  BY SameKeeps DEF OnlyPage, PageSame
<1>2. \A v \in Users \ {u} : ~Starting(v)
  BY DEF Busy, StartsAlone
<1>3. StartsAlone'
  <2> SUFFICES ASSUME Starting(u)'
               PROVE  /\ (Holds(u) /\ Talks(u) /\ ~ringing[u] /\ incoming[u] = None)'
                      /\ \A v \in Users, i \in Nat : ~OfferAt(u, v, i)'
                      /\ \A v \in Users \ {u} : AtRest(v)' /\ ~overlay'[v]
    BY <1>1, <1>2 DEF StartsAlone
  <2>1. \A v \in Users, i \in Nat : ~OfferAt(u, v, i)
    BY DEF StartsAlone
  <2>2. \A v \in Users \ {u} : AtRest(v) /\ ~overlay[v]
    BY DEF StartsAlone
  <2> QED
    BY <1>1, <2>1, <2>2 DEF NoNewOffer
<1>4. OfferComes'
  <2> SUFFICES ASSUME NEW x \in Users, NEW v \in Users, NEW i \in Nat, OfferAt(v, x, i)'
               PROVE  /\ i = 1 \/ hasty'[v]
                      /\ AtRest(x)' /\ ~overlay'[x]
                      /\ \A w, y \in Users, j \in Nat : OfferAt(w, y, j)' => w = v /\ y = x /\ j = i
    BY DEF OfferComes
  <2>1. OfferAt(v, x, i)
    BY DEF NoNewOffer
  <2>2. /\ i = 1 \/ hasty[v]
        /\ AtRest(x) /\ ~overlay[x]
        /\ \A w, y \in Users, j \in Nat : OfferAt(w, y, j) => w = v /\ y = x /\ j = i
    BY <2>1 DEF OfferComes
  <2>3. x # u
    BY <2>2 DEF Busy
  <2>4. hasty[v] => hasty'[v]
    BY DEF OnlyPage, PageSame
  <2> QED
    BY <1>1, <2>2, <2>3, <2>4 DEF NoNewOffer
<1> QED
  BY <1>1, <1>3, <1>4

LEMMA SendsNoOffer ==
  ASSUME TypeOK, NEW u \in Users, NEW v \in Users, NEW s \in Signals, s # "call_offer",
         Send(u, v, s)
  PROVE  NoNewOffer
<1> SUFFICES ASSUME NEW w \in Users, NEW x \in Users, NEW i \in Nat, OfferAt(w, x, i)'
             PROVE  OfferAt(w, x, i)
  BY DEF NoNewOffer
<1>0. /\ net'[<<u, v>>] = Append(net[<<u, v>>], s)
      /\ \A y, z \in Users : <<y, z>> # <<u, v>> => net'[<<y, z>>] = net[<<y, z>>]
  BY SendTyped
<1>1. net[<<u, v>>] \in Seq(Signals)
  BY DEF TypeOK
<1>2. CASE <<w, x>> # <<u, v>>
  <2>1. net'[<<w, x>>] = net[<<w, x>>]
    BY <1>0, <1>2
  <2> QED
    BY <2>1 DEF OfferAt
<1>3. CASE w = u /\ x = v
  <2> DEFINE q == net[<<u, v>>]
  <2>1. i \in 1 .. Len(Append(q, s)) /\ Append(q, s)[i] = "call_offer"
    BY <1>0, <1>3 DEF OfferAt
  <2>2. i \in 1 .. Len(q) /\ q[i] = "call_offer"
    BY <1>1, <2>1, AppendProperties
  <2> QED
    BY <1>3, <2>2 DEF OfferAt
<1> QED
  BY <1>2, <1>3

LEMMA LeftPage ==
  ASSUME CallInv, NEW u \in Users, Left(u), job' = job \/ \E k \in Slots : Done(u, k),
         HastyKept(u),
         \/ live' = [live EXCEPT ![u] = @ \ {line[u]}]
         \/ line[u] = 0 \/ hasty[u]
  PROVE  OnlyPage(u) /\ PageInv(u)' /\ ~overlay'[u]
<1> USE DEF CallInv
<1>1. \A v \in Users \ {u} : job'[v] = job[v]
  BY DoneTyped
<1>2. /\ \A v \in Users \ {u} : live'[v] = live[v]
      /\ live'[u] \subseteq live[u]
  BY DEF Left, TypeOK
<1>3. OnlyPage(u)
  BY <1>1, <1>2 DEF Left, OnlyPage, PageSame, HastyKept, TypeOK
<1>4. hasty'[u] \/ live'[u] = {}
  <2>1. CASE live' = [live EXCEPT ![u] = @ \ {line[u]}]
    BY <2>1 DEF PageInv, HastyKept, TypeOK
  <2>2. CASE line[u] = 0
    BY <1>2, <2>2 DEF PageInv, HastyKept, TypeOK
  <2> QED
    BY <2>1, <2>2 DEF HastyKept
<1>5. line'[u] = 0 /\ overlay'[u] = FALSE /\ incoming'[u] = None /\ active'[u] # u
  BY DEF Left, TypeOK, PageInv
<1>6. \A k \in Slots : job'[u][k] # NoJob => \A l \in Slots \ {k} : job'[u][l] = NoJob
  BY DoneTyped DEF PageInv
<1> QED
  BY <1>3, <1>4, <1>5, <1>6 DEF PageInv

\* The only function under way is over.
LEMMA DoneRests ==
  ASSUME CallInv, NEW u \in Users, NEW k \in Slots, job[u][k] # NoJob, Done(u, k)
  PROVE  /\ \A l \in Slots : job'[u][l] = NoJob
         /\ ~Starting(u)' /\ Busy(u)
<1>1. \A l \in Slots : job'[u][l] = NoJob
  BY DoneTyped DEF CallInv, PageInv
<1>2. ~AtRest(u)
  BY Resting DEF CallInv
<1> QED
  BY <1>1, <1>2 DEF Starting, NoJob, Busy

\* endCall, at the end of a function or by a button.
LEMMA EndCallStep ==
  ASSUME CallInv, NEW u \in Users, NEW n, EndCall(u, n), UNCHANGED <<active, made, calls, lost>>,
         Busy(u), job' = job \/ \E k \in Slots : Done(u, k), HastyKept(u),
         n = line[u] \/ line[u] = 0 \/ hasty[u],
         Starting(u)' => Starting(u) /\ (hasty[u] \/ ~Waiting(u))'
  PROVE  CallInv'
<1> USE DEF CallInv
<1>1. Left(u) /\ live' = [live EXCEPT ![u] = @ \ {n}]
      /\ (net' = net \/ (Target(u) \in Users /\ Send(u, Target(u), "call_end")))
  BY EndCallLeaves
<1>2. OnlyPage(u) /\ PageInv(u)'
  BY <1>1, LeftPage
<1>3. TypeOK'
  BY <1>1, EndCallNet, DoneTyped, LeftTyped DEF HastyKept, TypeOK
<1>4. NoNewOffer
  BY <1>1, SendsNoOffer DEF NoNewOffer, OfferAt, Signals
<1>5. line'[u] = 0 /\ ringing'[u] = ringing[u] /\ incoming'[u] = None
  BY <1>1 DEF Left, TypeOK
<1>6. ASSUME Starting(u)' PROVE Talks(u)'
  <2>1. Talks(u) /\ Target(u) # u
    BY <1>6 DEF StartsAlone, Target, PageInv
  <2>2. CASE net' = net
    BY <2>1, <2>2 DEF Talks
  <2>3. CASE Target(u) \in Users /\ Send(u, Target(u), "call_end")
    <3>1. "call_end" \in Signals
      BY DEF Signals
    <3>2. \A v, w \in Users : <<v, w>> # <<u, Target(u)>> => net'[<<v, w>>] = net[<<v, w>>]
      BY <2>3, <3>1, SendTyped
    <3> QED
      BY <2>1, <2>3, <3>2 DEF Talks
  <2> QED
    BY <1>1, <2>2, <2>3
<1>7. ASSUME Starting(u)' PROVE ~ringing'[u] /\ Holds(u)'
  BY <1>5, <1>7 DEF Holds, StartsAlone
<1> QED
  BY <1>2, <1>3, <1>4, <1>5, <1>6, <1>7, BusyStep DEF HastyKept

LEMMA CaughtStep ==
  ASSUME CallInv, NEW u \in Users, NEW k \in Slots, NEW n, Caught(u, k, n), job[u][k] # NoJob,
         n = line[u] \/ line[u] = 0 \/ hasty[u]
  PROVE  CallInv'
<1>1. Busy(u) /\ ~Starting(u)'
  BY DoneRests DEF Caught
<1>2. HastyKept(u)
  BY SameHasty DEF Caught, CallInv
<1> QED
  BY <1>1, <1>2, EndCallStep DEF Caught

LEMMA ChooseStep ==
  ASSUME CallInv, NEW u \in Users, NEW v \in Users \cup {None}, Choose(u, v)
  PROVE  CallInv'
<1> USE DEF CallInv
<1>1. active'[u] = v /\ v # u /\ \A w \in Users \ {u} : active'[w] = active[w]
  BY DEF Choose, TypeOK
<1>2. UNCHANGED <<overlay, ringing, incoming, line, live, job, net, hasty>>
  BY DEF Choose, screenVars, lineVars
<1>3. \A w \in Users : PageInv(w)'
  BY <1>1, <1>2 DEF PageInv, AtRest
<1>4. StartsAlone'
  BY <1>2 DEF StartsAlone, Starting, Waiting, Holds, Talks, OfferAt, Silent, AtRest
<1>5. OfferComes'
  BY <1>2 DEF OfferComes, OfferAt, AtRest
<1> QED
  BY <1>3, <1>4, <1>5, ButtonTypeOK DEF User

LEMMA StartStep ==
  ASSUME CallInv, Calm, NEW u \in Users, NEW k \in Slots, Start(u, k)
  PROVE  CallInv'
<1> USE DEF CallInv
<1>1. TypeOK'
  BY ButtonTypeOK DEF User
<1>2. Silent /\ \A v \in Users : AtRest(v) /\ ~overlay[v]
  BY DEF Start, Over
<1>3. UNCHANGED <<active, incoming, line, live, net, hasty>>
  BY DEF Start, lineVars
<1>4. overlay'[u] /\ ~ringing'[u] /\ \A v \in Users \ {u} : overlay'[v] = overlay[v] /\ ringing'[v] = ringing[v]
  BY DEF Start, TypeOK
<1>5. /\ \A l \in Slots \ {k} : job'[u][l] = job[u][l]
      /\ \A v \in Users \ {u} : job'[v] = job[v]
  BY BegunTyped, GotoTyped DEF Start, Begun
<1>6. \A l \in Slots \ {k} : job'[u][l] = NoJob
  BY <1>2, <1>5, Resting
<1>7. \A v \in Users : (line[v] = 0 \/ hasty[v]) /\ incoming[v] = None
  BY <1>2 DEF PageInv
<1>8. OnlyPage(u)
  BY <1>3, <1>4, <1>5 DEF OnlyPage, PageSame
<1>9. PageInv(u)'
  BY <1>3, <1>4, <1>6, <1>7 DEF PageInv
<1>10. \A v \in Users \ {u} : PageInv(v)' /\ ~Starting(v)' /\ AtRest(v)' /\ ~overlay'[v]
  BY <1>2, <1>4, <1>8, SameKeeps, Resting DEF OnlyPage
<1>11. StartsAlone'
  <2>1. \A v, w \in Users : net'[<<v, w>>] = <<>> /\ \A i \in Nat : ~OfferAt(v, w, i)'
    <3>1. \A v, w \in Users : net'[<<v, w>>] = <<>>
      BY <1>2, <1>3 DEF Silent
    <3>2. \A i \in Nat : ~(i \in 1 .. Len(<<>>))
      BY EmptySeq
    <3> QED
      BY <3>1, <3>2 DEF OfferAt
  <2>2. (Holds(u) /\ Talks(u) /\ ~ringing[u] /\ incoming[u] = None)'
    BY <1>3, <1>4, <1>7, <2>1 DEF Holds, Talks, Silent
  <2> QED
    BY <1>10, <2>1, <2>2 DEF StartsAlone
<1>12. OfferComes'
  BY <1>2, <1>3 DEF OfferComes, OfferAt, Silent
<1> QED
  BY <1>1, <1>9, <1>10, <1>11, <1>12

LEMMA AcceptStep ==
  ASSUME CallInv, NEW u \in Users, NEW k \in Slots, Accept(u, k)
  PROVE  CallInv'
<1> USE DEF CallInv
<1>1. TypeOK'
  BY ButtonTypeOK DEF User
<1>2. overlay[u] /\ ringing[u] /\ AtRest(u) /\ (line[u] = 0 \/ hasty[u])
  BY DEF Accept, PageInv
<1>3. UNCHANGED <<active, overlay, incoming, line, live, net, hasty>>
  BY DEF Accept, lineVars
<1>4. ~ringing'[u] /\ \A v \in Users \ {u} : ringing'[v] = ringing[v]
  BY DEF Accept, TypeOK
<1>5. /\ job'[u][k] = Begun(FALSE)
      /\ \A l \in Slots \ {k} : job'[u][l] = job[u][l]
      /\ \A v \in Users \ {u} : job'[v] = job[v]
  BY BegunTyped, GotoTyped DEF Accept, Begun
<1>6. \A l \in Slots \ {k} : job'[u][l] = NoJob
  BY <1>2, <1>5, Resting
<1>7. OnlyPage(u)
  BY <1>3, <1>4, <1>5 DEF OnlyPage, PageSame
<1>8. PageInv(u)'
  BY <1>2, <1>3, <1>4, <1>6 DEF PageInv
<1>9. ~Starting(u)'
  BY <1>5, <1>6 DEF Starting, Begun, NoJob
<1>10. NoNewOffer
  BY <1>3 DEF NoNewOffer, OfferAt
<1> QED
  BY <1>1, <1>2, <1>3, <1>7, <1>8, <1>9, <1>10, BusyStep DEF Busy

LEMMA HangUpStep ==
  ASSUME CallInv, NEW u \in Users, HangUp(u)
  PROVE  CallInv'
<1>1. EndCall(u, line[u]) /\ UNCHANGED <<active, made, job, calls, lost>> /\ overlay[u]
  BY DEF HangUp
<1>2. HastyKept(u) /\ (Waiting(u) => hasty'[u])
  BY HangUpHasty DEF CallInv
<1>3. (Starting(u)' <=> Starting(u)) /\ (Waiting(u)' <=> Waiting(u)) /\ Busy(u)
  BY <1>1 DEF Starting, Waiting, Busy
<1> QED
  BY <1>1, <1>2, <1>3, EndCallStep

LEMMA GrantStep ==
  ASSUME CallInv, NEW u \in Users, NEW k \in Slots, Grant(u, k)
  PROVE  CallInv'
<1> USE DEF CallInv
<1>1. TypeOK'
  BY GoOnTypeOK DEF GoOn
<1>2. job[u][k].at = "media" /\ job[u][k] # NoJob /\ (line[u] = 0 \/ hasty[u]) /\ job[u][k] \in Job
  BY DEF Grant, NoJob, PageInv, TypeOK
<1>3. ~AtRest(u)
  BY <1>2, Resting
<1>4. overlay[u] \/ hasty[u]
  <2>1. CASE job[u][k].starts
    <3>1. Starting(u) /\ Waiting(u)
      BY <1>2, <2>1 DEF Starting, Waiting
    <3> QED
      BY <3>1 DEF StartsAlone, Holds
  <2>2. CASE incoming[u] # None
    BY <2>2 DEF PageInv
  <2> QED
    BY <2>1, <2>2 DEF Grant
<1>5. UNCHANGED <<active, overlay, ringing, incoming, net, hasty>>
  BY DEF Grant, screenVars
<1>6. made' \in Nat /\ made' # 0
  BY DEF Grant, TypeOK
<1> DEFINE j == [job[u][k] EXCEPT !.at = "offer", !.line = made']
<1>7. j \in Job /\ job' = [job EXCEPT ![u][k] = j]
  <2>1. j \in Job
    BY <1>2, <1>6 DEF Job
  <2>2. job' = [job EXCEPT ![u][k] = j]
    BY DEF Grant, TypeOK
  <2> QED
    BY <2>1, <2>2
<1>8. /\ job'[u][k] = j
      /\ \A l \in Slots \ {k} : job'[u][l] = job[u][l]
      /\ \A v \in Users \ {u} : job'[v] = job[v]
  BY <1>7, GotoTyped
<1>9. \A l \in Slots \ {k} : job'[u][l] = NoJob
  BY <1>2, <1>8 DEF PageInv
<1>10. /\ line'[u] = made' /\ (hasty[u] \/ live'[u] \subseteq {0, made'})
       /\ \A v \in Users \ {u} : line'[v] = line[v] /\ live'[v] = live[v]
  BY <1>2 DEF Grant, TypeOK, PageInv
<1>11. hasty[u] \/ live'[u] \subseteq {line'[u]}
  BY <1>1, <1>10 DEF TypeOK
<1>12. OnlyPage(u)
  BY <1>5, <1>8, <1>10 DEF OnlyPage, PageSame
<1>13. PageInv(u)'
  <2>1. j.at = "offer" /\ NoJob.at = "none"
    BY <1>2 DEF Job, NoJob
  <2>2. \A l \in Slots : job'[u][l].at # "media"
    BY <1>8, <1>9, <2>1
  <2>3. ~(overlay[u] /\ ringing[u])
    BY <1>3 DEF PageInv
  <2> QED
    BY <1>4, <1>5, <1>9, <1>11, <2>2, <2>3 DEF PageInv
<1>14. Starting(u)' => Starting(u) /\ (Holds(u) /\ Talks(u) /\ ~ringing[u] /\ incoming[u] = None)'
  <2>1. j.starts = job[u][k].starts
    BY <1>2 DEF Job
  <2>2. Starting(u)' => Starting(u) /\ Waiting(u)
    <3> HIDE DEF j
    <3>1. Starting(u)' => j.starts
      BY <1>8, <1>9 DEF Starting, NoJob
    <3>2. job[u][k].starts => Starting(u) /\ Waiting(u)
      BY <1>2 DEF Starting, Waiting
    <3> QED
      BY <2>1, <3>1, <3>2
  <2> QED
    BY <1>5, <2>2 DEF StartsAlone, Holds, Talks, Silent
<1>15. NoNewOffer
  BY <1>5 DEF NoNewOffer, OfferAt
<1> QED
  BY <1>1, <1>3, <1>5, <1>12, <1>13, <1>14, <1>15, BusyStep DEF Busy

LEMMA StuckStep ==
  ASSUME CallInv, NEW u \in Users, NEW k \in Slots, Stuck(u, k)
  PROVE  CallInv'
<1> USE DEF CallInv
<1>1. TypeOK' /\ UNCHANGED <<active, overlay, ringing, incoming, line, live, net, hasty>>
  BY GoOnTypeOK DEF GoOn, Stuck, screenVars, lineVars
<1>2. job[u][k] # NoJob /\ Done(u, k)
  BY DEF Stuck, NoJob
<1>3. (\A l \in Slots : job'[u][l] = NoJob) /\ ~Starting(u)' /\ Busy(u)
  BY <1>2, DoneRests
<1>4. OnlyPage(u)
  BY <1>1, <1>2, DoneTyped DEF OnlyPage, PageSame
<1>5. PageInv(u)'
  <2>1. ~(overlay[u] /\ ringing[u])
    BY <1>2, Resting DEF PageInv
  <2> QED
    BY <1>1, <1>3, <2>1 DEF PageInv, NoJob
<1>6. NoNewOffer
  BY <1>1 DEF NoNewOffer, OfferAt
<1> QED
  BY <1>1, <1>3, <1>4, <1>5, <1>6, BusyStep

LEMMA DescribeStep ==
  ASSUME CallInv, NEW u \in Users, NEW k \in Slots, Describe(u, k)
  PROVE  CallInv'
<1> USE DEF CallInv
<1>1. TypeOK' /\ UNCHANGED <<active, overlay, ringing, incoming, line, live, net, hasty>>
  BY GoOnTypeOK DEF GoOn, Describe, screenVars
<1>2. job[u][k].at = "offer" /\ job[u][k] # NoJob /\ job[u][k] \in Job
  BY DEF Describe, NoJob, TypeOK
<1> DEFINE j == [job[u][k] EXCEPT !.at = "local"]
<1>3. j \in Job /\ job' = [job EXCEPT ![u][k] = j] /\ j.at = "local" /\ j.starts = job[u][k].starts
  BY <1>2 DEF Job, Describe, Goto, TypeOK
<1>4. /\ job'[u][k] = j
      /\ \A l \in Slots \ {k} : job'[u][l] = job[u][l]
      /\ \A v \in Users \ {u} : job'[v] = job[v]
  BY <1>3, GotoTyped
<1>5. \A l \in Slots \ {k} : job'[u][l] = NoJob
  BY <1>2, <1>4 DEF PageInv
<1>6. ~AtRest(u)
  BY <1>2, Resting
<1>7. OnlyPage(u)
  BY <1>1, <1>4 DEF OnlyPage, PageSame
<1>8. PageInv(u)'
  <2>1. NoJob.at = "none"
    BY DEF NoJob
  <2>2. \A l \in Slots : job'[u][l].at # "media"
    BY <1>3, <1>4, <1>5, <2>1
  <2> QED
    BY <1>1, <1>5, <1>6, <2>2 DEF PageInv
<1>9. Starting(u)' => Starting(u) /\ (Holds(u) /\ Talks(u) /\ ~ringing[u] /\ incoming[u] = None)'
  <2>1. (Starting(u)' => Starting(u)) /\ ~Waiting(u)'
    BY <1>2, <1>3, <1>4, <1>5 DEF Starting, Waiting, NoJob
  <2> QED
    BY <1>1, <2>1 DEF StartsAlone, Holds, Talks, Silent
<1>10. NoNewOffer
  BY <1>1 DEF NoNewOffer, OfferAt
<1> QED
  BY <1>1, <1>6, <1>7, <1>8, <1>9, <1>10, BusyStep DEF Busy

\* startCall's offer: its receiver is at rest, and no other offer is on its way.
LEMMA OfferStep ==
  ASSUME CallInv, NEW u \in Users, NEW k \in Slots, Offer(u, k), active[u] # None
  PROVE  CallInv'
<1> USE DEF CallInv
<1> DEFINE v == active[u]
<1>1. TypeOK' /\ UNCHANGED <<active, overlay, ringing, incoming, line, live, hasty>>
  BY GoOnTypeOK DEF GoOn, Offer, screenVars, lineVars
<1>2. job[u][k] # NoJob /\ Done(u, k) /\ Starting(u) /\ Send(u, v, "call_offer")
  BY DEF Offer, NoJob, Starting
<1>3. v \in Users /\ v # u
  BY DEF TypeOK, PageInv
<1>4. (\A l \in Slots : job'[u][l] = NoJob) /\ ~Starting(u)'
  BY <1>2, DoneRests
<1>5. OnlyPage(u)
  BY <1>1, <1>2, DoneTyped DEF OnlyPage, PageSame
<1>6. PageInv(u)'
  <2>1. ~(overlay[u] /\ ringing[u])
    BY <1>2, Resting DEF PageInv
  <2>2. NoJob.at = "none"
    BY DEF NoJob
  <2> QED
    BY <1>1, <1>4, <2>1, <2>2 DEF PageInv
<1>7. \A w \in Users \ {u} : /\ AtRest(w) /\ ~overlay[w]
                             /\ PageInv(w)' /\ AtRest(w)' /\ ~Starting(w)' /\ ~overlay'[w]
  BY <1>1, <1>2, <1>5, SameKeeps, Resting DEF OnlyPage, PageSame, StartsAlone
<1>8. StartsAlone'
  BY <1>4, <1>7 DEF StartsAlone
<1>9. Silent \/ hasty[u]
  <2>1. line[u] # 0 \/ hasty[u]
    BY DEF Offer, Open, PageInv, TypeOK
  <2> QED
    BY <1>2, <2>1 DEF StartsAlone, Holds
<1>10. PICK q \in Seq(Signals) : q = net[<<u, v>>]
  BY <1>3 DEF TypeOK
<1>11. /\ net'[<<u, v>>] = Append(q, "call_offer")
       /\ \A w, x \in Users : <<w, x>> # <<u, v>> => net'[<<w, x>>] = net[<<w, x>>]
  BY <1>2, <1>3, <1>10, SendTyped DEF Signals
<1>12. ASSUME NEW w \in Users, NEW x \in Users, NEW i \in Nat, OfferAt(w, x, i)'
       PROVE  w = u /\ x = v /\ i = Len(q) + 1
  <2>1. ~OfferAt(w, x, i)
    <3>1. w # u => net[<<w, x>>] = <<>>
      BY <1>2 DEF StartsAlone, Talks
    <3>2. w = u => ~OfferAt(w, x, i)
      BY <1>2 DEF StartsAlone
    <3> QED
      BY <3>1, <3>2 DEF OfferAt
  <2>2. <<w, x>> = <<u, v>>
    BY <1>11, <1>12, <2>1 DEF OfferAt
  <2>3. i \in 1 .. Len(Append(q, "call_offer")) /\ Append(q, "call_offer")[i] = "call_offer"
    BY <1>11, <1>12, <2>2 DEF OfferAt
  <2>4. ~(i \in 1 .. Len(q) /\ q[i] = "call_offer")
    BY <1>10, <2>1, <2>2 DEF OfferAt
  <2> QED
    BY <2>2, <2>3, <2>4, AppendProperties DEF Signals
<1>13. Len(q) = 0 \/ hasty'[u]
  BY <1>1, <1>3, <1>9, <1>10 DEF Silent
<1>14. OfferComes'
  BY <1>3, <1>7, <1>12, <1>13 DEF OfferComes
<1> QED
  BY <1>1, <1>6, <1>7, <1>8, <1>14

LEMMA AnswerStep ==
  ASSUME CallInv, NEW u \in Users, NEW k \in Slots, Answer(u, k), incoming[u] # None
  PROVE  CallInv'
<1> USE DEF CallInv
<1>1. TypeOK' /\ UNCHANGED <<active, overlay, ringing, incoming, line, live, hasty>>
  BY GoOnTypeOK DEF GoOn, Answer, screenVars
<1>2. job[u][k] # NoJob /\ Done(u, k) /\ Send(u, incoming[u], "call_answer")
  BY DEF Answer, NoJob
<1>3. (\A l \in Slots : job'[u][l] = NoJob) /\ ~Starting(u)' /\ Busy(u)
  BY <1>2, DoneRests
<1>4. OnlyPage(u)
  BY <1>1, <1>2, DoneTyped DEF OnlyPage, PageSame
<1>5. PageInv(u)'
  <2>1. ~(overlay[u] /\ ringing[u])
    BY <1>2, Resting DEF PageInv
  <2>2. NoJob.at = "none"
    BY DEF NoJob
  <2> QED
    BY <1>1, <1>3, <2>1, <2>2 DEF PageInv
<1>6. NoNewOffer
  BY <1>2, SendsNoOffer DEF Signals, TypeOK
<1> QED
  BY <1>1, <1>3, <1>4, <1>5, <1>6, BusyStep

LEMMA GoOnStep ==
  ASSUME CallInv, NEW u \in Users, NEW k \in Slots, GoOn(u, k)
  PROVE  CallInv'
<1>1. job[u][k].at # "none" => job[u][k] # NoJob
  BY DEF NoJob
<1>2. ASSUME Refuse(u, k) \/ Throw(u, k) PROVE CallInv'
  BY <1>1, <1>2, CaughtStep DEF Refuse, Throw
<1>3. ASSUME GrantLate(u, k) PROVE CallInv'
  BY <1>1, <1>3, CaughtStep DEF GrantLate, CallInv, PageInv
<1>4. ASSUME Offer(u, k) PROVE CallInv'
  BY <1>1, <1>4, CaughtStep, OfferStep DEF Offer
<1>5. ASSUME Answer(u, k) PROVE CallInv'
  BY <1>1, <1>5, CaughtStep, AnswerStep DEF Answer
<1> QED
  BY <1>2, <1>3, <1>4, <1>5, GrantStep, StuckStep, DescribeStep DEF GoOn

\* The first signal is gone, and the others move up.
LEMMA TakenOffers ==
  ASSUME CallInv, NEW u \in Users, NEW v \in Users, Taken(u, v)
  PROVE  /\ \A w, x \in Users, i \in Nat : OfferAt(w, x, i)' =>
              IF w = v /\ x = u THEN OfferAt(w, x, i + 1) ELSE OfferAt(w, x, i)
         /\ Head(net[<<v, u>>]) = "call_offer" => OfferAt(v, u, 1)
<1>1. PICK q \in Seq(Signals) : q = net[<<v, u>>] /\ q # <<>>
  BY DEF CallInv, TypeOK, Taken
<1>2. /\ net'[<<v, u>>] = Tail(q)
      /\ \A w, x \in Users : <<w, x>> # <<v, u>> => net'[<<w, x>>] = net[<<w, x>>]
  BY <1>1, TakeTyped DEF CallInv
<1>3. ASSUME NEW w \in Users, NEW x \in Users, NEW i \in Nat, OfferAt(w, x, i)'
      PROVE  IF w = v /\ x = u THEN OfferAt(w, x, i + 1) ELSE OfferAt(w, x, i)
  <2>1. CASE <<w, x>> # <<v, u>>
    BY <1>2, <1>3, <2>1 DEF OfferAt
  <2>2. CASE w = v /\ x = u
    <3>1. i \in 1 .. Len(Tail(q)) /\ Tail(q)[i] = "call_offer"
      BY <1>2, <1>3, <2>2 DEF OfferAt
    <3>2. i + 1 \in 1 .. Len(q) /\ q[i + 1] = "call_offer"
      BY <1>1, <3>1, HeadTailProperties
    <3> QED
      BY <1>1, <2>2, <3>2 DEF OfferAt
  <2> QED
    BY <2>1, <2>2
<1>4. 1 \in 1 .. Len(q) /\ Head(q) = q[1]
  BY <1>1
<1> QED
  BY <1>1, <1>3, <1>4 DEF OfferAt

LEMMA SignalStep ==
  ASSUME CallInv, NEW u \in Users, NEW v \in Users, Receive(u, v) \/ Skip(u, v)
  PROVE  CallInv'
<1> USE DEF CallInv
<1>1. TypeOK' /\ Taken(u, v) /\ UNCHANGED <<active, job, hasty>>
  BY SignalTypeOK DEF Receive, Skip, Taken
<1>t. \A w, x \in Users, i \in Nat : OfferAt(w, x, i)' =>
        IF w = v /\ x = u THEN OfferAt(w, x, i + 1) ELSE OfferAt(w, x, i)
  BY <1>1, TakenOffers
<1>2. /\ \A w, x \in Users, i \in Nat : OfferAt(w, x, i)' =>
           \E j \in Nat : OfferAt(w, x, j) /\ (j = i \/ (w = v /\ x = u /\ j = i + 1))
      /\ \A i \in Nat : OfferAt(v, u, i)' => OfferAt(v, u, i + 1)
  <2> HIDE DEF OfferAt
  <2>1. \A i \in Nat : i + 1 \in Nat
    OBVIOUS
  <2> QED
    BY <1>t, <2>1
<1>3. \A w \in Users : /\ Starting(w)' <=> Starting(w)
                       /\ Waiting(w)' <=> Waiting(w)
                       /\ AtRest(w)' <=> AtRest(w)
  BY <1>1 DEF Starting, Waiting, AtRest
<1>4. OnlyPage(u) /\ PageInv(u)' /\ (overlay'[u] => overlay[u] \/ OfferAt(v, u, 1))
  <2>1. CASE Skip(u, v)
    BY <2>1 DEF Skip, screenVars, lineVars, OnlyPage, PageSame, PageInv, AtRest
  <2>2. CASE Receive(u, v) /\ Head(net[<<v, u>>]) = "call_offer"
    <3>1. Ring(u, v) /\ OfferAt(v, u, 1)
      BY <1>1, <2>2, TakenOffers DEF Receive
    <3>2. AtRest(u) /\ ~overlay[u] /\ (line[u] = 0 \/ hasty[u])
      BY <3>1 DEF OfferComes, PageInv
    <3>3. overlay'[u] /\ UNCHANGED <<line, live>>
          /\ \A w \in Users \ {u} : overlay'[w] = overlay[w] /\ ringing'[w] = ringing[w] /\ incoming'[w] = incoming[w]
      BY <3>1 DEF Ring, TypeOK, lineVars
    <3> QED
      BY <1>1, <3>1, <3>2, <3>3 DEF OnlyPage, PageSame, PageInv, AtRest
  <2>3. CASE Receive(u, v) /\ Answered(u, v)
    BY <1>1, <2>3 DEF Answered, screenVars, OnlyPage, PageSame, PageInv, AtRest
  <2>4. CASE Receive(u, v) /\ Ended(u, v)
    <3>1. offered' \in [Users -> SUBSET (1 .. made)]
      BY <2>4 DEF Ended, Close, TypeOK
    <3>2. Left(u) /\ live' = [live EXCEPT ![u] = @ \ {line[u]}]
      BY <2>4, <3>1 DEF Receive, Ended, Close, Hide, Left
    <3>3. HastyKept(u)
      BY <1>1, SameHasty
    <3> QED
      BY <1>1, <3>2, <3>3, LeftPage
  <2> QED
    BY <2>1, <2>2, <2>3, <2>4 DEF Receive
<1>5. \A w \in Users : PageInv(w)'
  BY <1>4, SameKeeps DEF OnlyPage
<1>6. StartsAlone'
  <2> SUFFICES ASSUME NEW w \in Users, Starting(w)
               PROVE  /\ (Holds(w) /\ Talks(w) /\ ~ringing[w] /\ incoming[w] = None)'
                      /\ \A x \in Users, i \in Nat : ~OfferAt(w, x, i)'
                      /\ \A x \in Users \ {w} : AtRest(x)' /\ ~overlay'[x]
    BY <1>3 DEF StartsAlone
  <2>1. /\ Holds(w) /\ Talks(w) /\ ~ringing[w] /\ incoming[w] = None
        /\ \A x \in Users, i \in Nat : ~OfferAt(w, x, i)
        /\ \A x \in Users \ {w} : AtRest(x) /\ ~overlay[x]
    BY DEF StartsAlone
  <2>2. v = w /\ u # w /\ ~Silent
    BY <1>1, <2>1 DEF Taken, Talks, Silent
  <2>3. ~overlay'[u]
    BY <1>4, <2>1, <2>2
  <2>4. Talks(w)'
    <3>1. \A x, y \in Users : <<x, y>> # <<v, u>> => net'[<<x, y>>] = net[<<x, y>>]
      BY <1>1, TakeTyped
    <3> QED
      BY <2>1, <2>2, <3>1 DEF Talks
  <2>5. /\ (Holds(w) /\ ~ringing[w] /\ incoming[w] = None)'
        /\ \A x \in Users \ {w, u} : overlay'[x] = overlay[x]
    BY <1>1, <1>3, <1>4, <2>1, <2>2 DEF OnlyPage, PageSame, Holds
  <2>6. \A x \in Users, i \in Nat : ~OfferAt(w, x, i)'
    BY <1>2, <2>1
  <2> QED
    BY <1>3, <2>1, <2>3, <2>4, <2>5, <2>6
<1>7. OfferComes'
  <2> SUFFICES ASSUME NEW x \in Users, NEW w \in Users, NEW i \in Nat, OfferAt(w, x, i)'
               PROVE  /\ i = 1 \/ hasty'[w]
                      /\ AtRest(x)' /\ ~overlay'[x]
                      /\ \A y, z \in Users, j \in Nat : OfferAt(y, z, j)' => y = w /\ z = x /\ j = i
    BY DEF OfferComes
  <2>0. i \in Nat \ {0}
    BY DEF OfferAt
  <2>1. PICK k \in Nat : OfferAt(w, x, k) /\ (k = i \/ (w = v /\ x = u /\ k = i + 1))
    BY <1>2
  <2>2. /\ k = 1 \/ hasty[w]
        /\ AtRest(x) /\ ~overlay[x]
        /\ \A y, z \in Users, j \in Nat : OfferAt(y, z, j) => y = w /\ z = x /\ j = k
    BY <2>1 DEF OfferComes
  <2>3. w = v /\ x = u => k = i + 1
    BY <1>2, <2>2
  <2>4. ~OfferAt(v, u, 1)
    BY <2>0, <2>1, <2>2, <2>3
  <2>5. ~overlay'[x]
    BY <1>4, <2>2, <2>4 DEF OnlyPage, PageSame
  <2>6. i = 1 \/ hasty'[w]
    BY <1>1, <2>0, <2>1, <2>2
  <2>7. ASSUME NEW y \in Users, NEW z \in Users, NEW j \in Nat, OfferAt(y, z, j)'
        PROVE  y = w /\ z = x /\ j = i
    <3>1. PICK l \in Nat : OfferAt(y, z, l) /\ (l = j \/ (y = v /\ z = u /\ l = j + 1))
      BY <1>2, <2>7
    <3>2. y = w /\ z = x /\ l = k
      BY <2>2, <3>1
    <3>3. y = v /\ z = u => l = j + 1
      BY <1>2, <2>2, <2>7, <3>2
    <3> QED
      BY <2>1, <2>3, <3>1, <3>2, <3>3
  <2> QED
    BY <1>3, <2>2, <2>5, <2>6, <2>7
<1> QED
  BY <1>1, <1>5, <1>6, <1>7

LEMMA NextCall == ASSUME Calm PROVE CallInv /\ [Next]_vars => CallInv'
<1> SUFFICES ASSUME CallInv, [Next]_vars
             PROVE  CallInv'
  OBVIOUS
<1>1. CASE UNCHANGED vars
  BY <1>1, NextTypeOK DEF vars, screenVars, lineVars, CallInv, PageInv, StartsAlone, OfferComes,
       OfferAt, AtRest, Starting, Waiting, Holds, Talks, Silent
<1>2. ASSUME NEW u \in Users, User(u)
      PROVE  CallInv'
  BY <1>2, ChooseStep, StartStep, AcceptStep, HangUpStep DEF User
<1>3. ASSUME NEW u \in Users, NEW k \in Slots, GoOn(u, k)
      PROVE  CallInv'
  BY <1>3, GoOnStep
<1>4. ASSUME NEW u \in Users, NEW v \in Users, Receive(u, v) \/ Skip(u, v)
      PROVE  CallInv'
  BY <1>4, SignalStep
<1> QED
  BY <1>1, <1>2, <1>3, <1>4 DEF Next

\* As long as calls follow each other, no camera is on behind a hidden overlay but that of
\* users who ever hung up while startCall waited for it, however many users there are,
\* whatever the browser takes its time for, and whichever signals are skipped.
THEOREM CamerasAreShown ==
  ASSUME Calm
  PROVE  Spec => []CameraIsShown
<1>1. CallInv => CameraIsShown
  BY DEF CallInv, PageInv, CameraIsShown, TypeOK
<1> QED
  BY <1>1, InitCall, NextCall, PTL DEF Spec
-----------------------------------------------------------------------------
(* Two users who agree, while calls follow each other.  A third could be told *)
(* of the end of a call that is not theirs.                                   *)

TwoUsers == \E a, b : a # b /\ Users = {a, b}

\* Signal s is on its way from u to v.
Way(u, v, s) == \E i \in 1 .. Len(net[<<u, v>>]) : net[<<u, v>>][i] = s

\* The line of u has an offer that has no answer.
Waits(u) == line[u] \in offered[u]

\* A page talks to others only; it knows whom to tell as long as it shows a call; who talks
\* has a line; and the offer that startCall is about to send is that of its line.
SelfInv(u) ==
  /\ incoming[u] # u /\ net[<<u, u>>] = <<>>
  /\ overlay[u] => active[u] # None \/ incoming[u] # None
  /\ talk[u] # None => line[u] # 0
  /\ \A k \in Slots : job[u][k].at = "local" /\ job[u][k].starts =>
       line[u] = 0 \/ job[u][k].line \in offered[u]

\* Whoever said that the call is over is in none.  While an offer is on its way to v, v
\* says nothing and u waits, or has hung up.  The caller whom u could answer waits, or has
\* hung up, or has been answered.  Whom u talks to talks to u, or has hung up, or waits for
\* the answer that is on its way; and whoever waits for that is talked to.
PairInv(u, v) ==
  /\ Way(u, v, "call_end") => ~overlay[u]
  /\ Way(u, v, "call_offer") => net[<<v, u>>] = <<>> /\ (Waits(u) \/ Way(u, v, "call_end"))
  /\ incoming[u] = v => Waits(v) \/ Way(v, u, "call_end") \/ talk[v] = u
  /\ talk[u] = v =>
       talk[v] = u \/ Way(v, u, "call_end") \/ (Way(u, v, "call_answer") /\ Waits(v))
  /\ Way(u, v, "call_answer") /\ Waits(v) => talk[u] = v \/ Way(u, v, "call_end")

\* Nobody has hung up while startCall waited for the camera.
Patient == \A u \in Users : ~hasty[u]

CalmInv == CallInv /\ Patient

USE DEF CalmInv, Patient

AgreeInv ==
  /\ CalmInv
  /\ \A u \in Users : SelfInv(u)
  /\ ~lost => \A u, v \in Users : u # v => PairInv(u, v)

LEMMA Other ==
  ASSUME TwoUsers, NEW u \in Users
  PROVE  \E v \in Users : v # u /\ Users = {u, v}
BY DEF TwoUsers

LEMMA SendWay ==
  ASSUME TypeOK, NEW u \in Users, NEW v \in Users, NEW s \in Signals, Send(u, v, s)
  PROVE  \A w, x \in Users : \A t : Way(w, x, t)' <=> Way(w, x, t) \/ (w = u /\ x = v /\ t = s)
<1> SUFFICES ASSUME NEW w \in Users, NEW x \in Users, NEW t
             PROVE  Way(w, x, t)' <=> Way(w, x, t) \/ (w = u /\ x = v /\ t = s)
  OBVIOUS
<1>1. net[<<u, v>>] \in Seq(Signals)
  BY DEF TypeOK
<1>2. PICK q \in Seq(Signals) : q = net[<<u, v>>]
  BY <1>1
<1>3. /\ Len(Append(q, s)) = Len(q) + 1 /\ Len(q) \in Nat
      /\ \A i \in 1 .. Len(q) : Append(q, s)[i] = q[i]
      /\ Append(q, s)[Len(q) + 1] = s
  BY AppendProperties
<1>4. /\ net'[<<u, v>>] = Append(q, s)
      /\ <<w, x>> # <<u, v>> => net'[<<w, x>>] = net[<<w, x>>]
  BY <1>2, SendTyped
<1>5. CASE <<w, x>> # <<u, v>>
  BY <1>4, <1>5 DEF Way
<1>6. CASE w = u /\ x = v
  <2>1. Way(w, x, t)' <=> \E i \in 1 .. Len(q) + 1 : Append(q, s)[i] = t
    BY <1>3, <1>4, <1>6 DEF Way
  <2>2. \A i \in 1 .. Len(q) + 1 : i \in 1 .. Len(q) \/ i = Len(q) + 1
    BY <1>3
  <2>3. Len(q) + 1 \in 1 .. Len(q) + 1 /\ \A i \in 1 .. Len(q) : i \in 1 .. Len(q) + 1
    BY <1>3
  <2>4. (\E i \in 1 .. Len(q) + 1 : Append(q, s)[i] = t) <=> (\E i \in 1 .. Len(q) : q[i] = t) \/ t = s
    BY <1>3, <2>2, <2>3
  <2>5. Way(w, x, t) <=> \E i \in 1 .. Len(q) : q[i] = t
    BY <1>2, <1>6 DEF Way
  <2> QED
    BY <1>6, <2>1, <2>4, <2>5
<1> QED
  BY <1>5, <1>6

LEMMA TakeWay ==
  ASSUME TypeOK, NEW u \in Users, NEW v \in Users, Taken(u, v)
  PROVE  /\ \A w, x \in Users : \A t :
              /\ Way(w, x, t)' => Way(w, x, t)
              /\ Way(w, x, t) => Way(w, x, t)' \/ (w = v /\ x = u /\ t = Head(net[<<v, u>>]))
         /\ Way(v, u, Head(net[<<v, u>>]))
<1>1. net[<<v, u>>] \in Seq(Signals) /\ net[<<v, u>>] # <<>>
  BY DEF TypeOK, Taken
<1>2. PICK q \in Seq(Signals) : q = net[<<v, u>>] /\ q # <<>>
  BY <1>1
<1>3. /\ Len(q) \in Nat /\ Len(q) >= 1 /\ Head(q) = q[1] /\ Len(Tail(q)) = Len(q) - 1
      /\ \A i \in 1 .. Len(q) - 1 : Tail(q)[i] = q[i + 1]
  BY <1>2, HeadTailProperties
<1>4. Way(v, u, Head(net[<<v, u>>]))
  BY <1>2, <1>3 DEF Way
<1>5. /\ net'[<<v, u>>] = Tail(q)
      /\ \A w, x \in Users : <<w, x>> # <<v, u>> => net'[<<w, x>>] = net[<<w, x>>]
  BY <1>2, TakeTyped
<1>6. ASSUME NEW w \in Users, NEW x \in Users, NEW t
      PROVE  /\ Way(w, x, t)' => Way(w, x, t)
             /\ Way(w, x, t) => Way(w, x, t)' \/ (w = v /\ x = u /\ t = Head(q))
  <2>1. CASE <<w, x>> # <<v, u>>
    BY <1>5, <2>1 DEF Way
  <2>2. CASE w = v /\ x = u
    <3>1. Way(w, x, t)' <=> \E i \in 1 .. Len(q) - 1 : Tail(q)[i] = t
      BY <1>3, <1>5, <2>2 DEF Way
    <3>2. Way(w, x, t) <=> \E i \in 1 .. Len(q) : q[i] = t
      BY <1>2, <2>2 DEF Way
    <3>3. ASSUME NEW i \in 1 .. Len(q) - 1, Tail(q)[i] = t PROVE \E j \in 1 .. Len(q) : q[j] = t
      <4>1. i + 1 \in 1 .. Len(q)
        BY <1>3
      <4> QED
        BY <1>3, <3>3, <4>1
    <3>4. ASSUME NEW i \in 1 .. Len(q), q[i] = t, i # 1
          PROVE  \E j \in 1 .. Len(q) - 1 : Tail(q)[j] = t
      <4>1. i - 1 \in 1 .. Len(q) - 1 /\ (i - 1) + 1 = i
        BY <1>3, <3>4
      <4> QED
        BY <1>3, <3>4, <4>1
    <3> QED
      BY <1>3, <2>2, <3>1, <3>2, <3>3, <3>4
  <2> QED
    BY <2>1, <2>2
<1> QED
  BY <1>2, <1>4, <1>6

\* Where nothing is on its way no signal is.
LEMMA NoWay ==
  ASSUME NEW u, NEW v, net[<<u, v>>] = <<>>, NEW s
  PROVE  ~Way(u, v, s)
BY EmptySeq DEF Way

\* A page in no call has no line, talks to nobody and waits for nothing.
LEMMA NotInCall ==
  ASSUME CalmInv, NEW u \in Users, SelfInv(u)
  PROVE  /\ ~overlay[u] => line[u] = 0 /\ incoming[u] = None
         /\ line[u] = 0 => talk[u] = None /\ ~Waits(u)
<1>1. ~overlay[u] => line[u] = 0 /\ incoming[u] = None
  BY DEF CallInv, PageInv
<1>2. line[u] = 0 => talk[u] = None
  BY DEF SelfInv
<1>3. 0 \notin offered[u]
  BY DEF CallInv, TypeOK
<1> QED
  BY <1>1, <1>2, <1>3 DEF Waits

\* An offer on its way finds its receiver in no call.
LEMMA OfferWay ==
  ASSUME CallInv, NEW u \in Users, NEW v \in Users, Way(v, u, "call_offer")
  PROVE  AtRest(u) /\ ~overlay[u]
<1>1. PICK i \in 1 .. Len(net[<<v, u>>]) : net[<<v, u>>][i] = "call_offer"
  BY DEF Way
<1>2. i \in Nat /\ OfferAt(v, u, i)
  BY <1>1 DEF OfferAt
<1> QED
  BY <1>2 DEF CallInv, OfferComes

\* The page of w stays as it is, its line included.
LineSame(w) == PageSame(w) /\ talk'[w] = talk[w] /\ offered'[w] = offered[w]

LEMMA SelfSame ==
  ASSUME NEW w \in Users, SelfInv(w), LineSame(w), net'[<<w, w>>] = net[<<w, w>>]
  PROVE  SelfInv(w)'
BY DEF SelfInv, LineSame, PageSame

\* What two pages have to do with each other is decided by what they show and say.
LEMMA PairSame ==
  ASSUME NEW u, NEW v, PairInv(u, v), net' = net,
         overlay'[u] = overlay[u] \/ ~overlay'[u], incoming'[u] = incoming[u],
         talk'[u] = talk[u], talk'[v] = talk[v], Waits(u)' = Waits(u), Waits(v)' = Waits(v)
  PROVE  PairInv(u, v)'
BY DEF PairInv, Way

LEMMA InitAgree == Init => AgreeInv
<1> SUFFICES ASSUME Init PROVE AgreeInv
  OBVIOUS
<1>1. CalmInv
  BY InitCall DEF Init
<1>2. \A u, v \in Users : net[<<u, v>>] = <<>>
  BY DEF Init
<1>3. \A u, v \in Users : \A s : ~Way(u, v, s)
  BY <1>2, NoWay
<1>4. ASSUME NEW u \in Users
      PROVE  /\ incoming[u] = None /\ talk[u] = None /\ ~overlay[u] /\ line[u] = 0
             /\ \A k \in Slots : job[u][k].at = "none"
  BY DEF Init, NoJob
<1>5. \A u \in Users : SelfInv(u)
  BY <1>2, <1>4 DEF SelfInv
<1>6. \A u, v \in Users : PairInv(u, v)
  BY <1>3, <1>4 DEF PairInv
<1> QED
  BY <1>1, <1>5, <1>6 DEF AgreeInv


\* It is enough to look at two pages.
LEMMA TwoAgree ==
  ASSUME CalmInv', NEW u \in Users, NEW v \in Users, Users = {u, v}, SelfInv(u)', SelfInv(v)',
         ~lost' => PairInv(u, v)' /\ PairInv(v, u)'
  PROVE  AgreeInv'
BY DEF AgreeInv

\* A page that ends its call tells the other, unless there is nothing to tell.
LEMMA LeaveAgrees ==
  ASSUME AgreeInv, CalmInv', NEW u \in Users, NEW v \in Users, v # u, Users = {u, v},
         NEW n, EndCall(u, n), UNCHANGED <<active, made, calls, lost>>, n = line[u] \/ line[u] = 0,
         Busy(u), job' = job \/ \E k \in Slots : Done(u, k), HastyKept(u)
  PROVE  AgreeInv'
<1>1. CalmInv /\ SelfInv(u) /\ SelfInv(v) /\ TypeOK /\ PageInv(u) /\ PageInv(v)
  BY DEF AgreeInv, CallInv
<1>2. Left(u) /\ live' = [live EXCEPT ![u] = @ \ {n}]
  BY <1>1, EndCallLeaves
<1>3. OnlyPage(u)
  BY <1>1, <1>2, LeftPage
<1>4. LineSame(v)
  BY <1>1, <1>3 DEF OnlyPage, LineSame, EndCall, Close, TypeOK
<1>5. line'[u] = 0 /\ ~overlay'[u] /\ incoming'[u] = None /\ talk'[u] = None /\ active'[u] = active[u]
  BY <1>1, <1>2 DEF Left, TypeOK
<1>6. ~Waits(u)' /\ (Waits(v)' <=> Waits(v))
  BY <1>4, <1>5 DEF Waits, CallInv, TypeOK, LineSame, PageSame
<1>7. \/ Target(u) = None /\ net' = net
      \/ Target(u) = v /\ Send(u, v, "call_end")
  <2>1. Target(u) # u
    BY <1>1 DEF Target, PageInv, SelfInv
  <2>2. Target(u) \in Users \cup {None}
    BY <1>1 DEF Target, TypeOK
  <2> QED
    BY <2>1, <2>2 DEF EndCall
<1>8. Target(u) = None => ~Waits(u) /\ talk[u] = None
  BY <1>1, NotInCall DEF Target, SelfInv
<1>9. /\ \A t : Way(v, u, t)' <=> Way(v, u, t)
      /\ \A t : Way(u, v, t)' <=> Way(u, v, t) \/ (Target(u) # None /\ t = "call_end")
      /\ net'[<<v, u>>] = net[<<v, u>>] /\ net'[<<u, u>>] = net[<<u, u>>] /\ net'[<<v, v>>] = net[<<v, v>>]
  <2>1. CASE net' = net /\ Target(u) = None
    BY <2>1 DEF Way
  <2>2. CASE Send(u, v, "call_end") /\ Target(u) = v
    <3>1. "call_end" \in Signals
      BY DEF Signals
    <3>2. \A w, x \in Users : <<w, x>> # <<u, v>> => net'[<<w, x>>] = net[<<w, x>>]
      BY <1>1, <2>2, <3>1, SendTyped
    <3>3. \A w, x \in Users : \A t : Way(w, x, t)' <=> Way(w, x, t) \/ (w = u /\ x = v /\ t = "call_end")
      BY <1>1, <2>2, <3>1, SendWay
    <3> QED
      BY <2>2, <3>2, <3>3
  <2> QED
    BY <1>7, <2>1, <2>2
<1>10. SelfInv(u)'
  BY <1>1, <1>5, <1>9 DEF SelfInv
<1>11. SelfInv(v)'
  BY <1>1, <1>4, <1>9, SelfSame
<1>12. ASSUME ~lost' PROVE PairInv(u, v)' /\ PairInv(v, u)'
  <2>1. PairInv(u, v) /\ PairInv(v, u)
    BY <1>12 DEF AgreeInv
  <2>2. ~Way(v, u, "call_offer")
    BY <1>1, OfferWay DEF Busy
  <2>3. overlay'[v] = overlay[v] /\ incoming'[v] = incoming[v] /\ talk'[v] = talk[v]
    BY <1>4 DEF LineSame, PageSame
  <2>4. PairInv(u, v)'
    BY <1>5, <1>6, <1>8, <1>9, <2>1 DEF PairInv
  <2>5. PairInv(v, u)'
    BY <1>5, <1>6, <1>8, <1>9, <2>1, <2>2, <2>3 DEF PairInv
  <2> QED
    BY <2>4, <2>5
<1> QED
  BY <1>10, <1>11, <1>12, TwoAgree


LEMMA CaughtAgrees ==
  ASSUME AgreeInv, CalmInv', NEW u \in Users, NEW v \in Users, v # u, Users = {u, v},
         NEW k \in Slots, job[u][k] # NoJob, NEW n, Caught(u, k, n), n = line[u] \/ line[u] = 0
  PROVE  AgreeInv'
<1>1. Busy(u) /\ HastyKept(u)
  BY DoneRests, SameHasty DEF AgreeInv, CallInv, Caught
<1> QED
  BY <1>1, LeaveAgrees DEF Caught

LEMMA HangUpAgrees ==
  ASSUME AgreeInv, CalmInv', NEW u \in Users, NEW v \in Users, v # u, Users = {u, v}, HangUp(u)
  PROVE  AgreeInv'
<1>1. HastyKept(u)
  BY HangUpHasty DEF AgreeInv, CallInv
<1> QED
  BY <1>1, LeaveAgrees DEF HangUp, Busy

\* A step that nobody is told of, and that changes nothing the other page depends on.
LEMMA QuietAgrees ==
  ASSUME AgreeInv, CalmInv', NEW u \in Users, NEW v \in Users, v # u, Users = {u, v},
         LineSame(v), net' = net, lost' = lost, SelfInv(u)', overlay'[u] = overlay[u],
         incoming'[u] = incoming[u], talk'[u] = talk[u], Waits(u)' = Waits(u)
  PROVE  AgreeInv'
<1>1. SelfInv(v)'
  BY SelfSame DEF AgreeInv
<1>2. Waits(v)' = Waits(v)
  BY DEF Waits, LineSame, PageSame
<1>3. ASSUME ~lost' PROVE PairInv(u, v)' /\ PairInv(v, u)'
  <2>1. PairInv(u, v) /\ PairInv(v, u)
    BY <1>3 DEF AgreeInv
  <2>2. overlay'[v] = overlay[v] /\ incoming'[v] = incoming[v] /\ talk'[v] = talk[v]
    BY DEF LineSame, PageSame
  <2> QED
    BY <1>2, <2>1, <2>2, PairSame
<1> QED
  BY <1>1, <1>3, TwoAgree

LEMMA ChooseAgrees ==
  ASSUME AgreeInv, CalmInv', NEW u \in Users, NEW v \in Users, v # u, Users = {u, v},
         NEW w \in Users \cup {None}, Choose(u, w)
  PROVE  AgreeInv'
<1>1. SelfInv(u) /\ TypeOK
  BY DEF AgreeInv, CallInv
<1>2. UNCHANGED <<screenVars, lineVars, job, net, lost>> /\ active'[v] = active[v] /\ ~overlay[u]
  BY <1>1 DEF Choose, TypeOK
<1>3. LineSame(v) /\ SelfInv(u)' /\ Waits(u)' = Waits(u)
  BY <1>1, <1>2 DEF LineSame, PageSame, SelfInv, Waits, screenVars, lineVars
<1> QED
  BY <1>2, <1>3, QuietAgrees DEF screenVars, lineVars

LEMMA AcceptAgrees ==
  ASSUME AgreeInv, CalmInv', NEW u \in Users, NEW v \in Users, v # u, Users = {u, v},
         NEW k \in Slots, Accept(u, k)
  PROVE  AgreeInv'
<1>1. SelfInv(u) /\ TypeOK
  BY DEF AgreeInv, CallInv
<1>2. UNCHANGED <<active, overlay, incoming, lineVars, net, lost>> /\ ringing'[v] = ringing[v]
  BY <1>1 DEF Accept, TypeOK
<1>3. /\ job'[u][k] = Begun(FALSE)
      /\ \A l \in Slots \ {k} : job'[u][l] = job[u][l]
      /\ \A w \in Users \ {u} : job'[w] = job[w]
  <2>1. Begun(FALSE) \in Job /\ job' = [job EXCEPT ![u][k] = Begun(FALSE)]
    BY BegunTyped DEF Accept, Begun
  <2> QED
    BY ONLY <1>1, <2>1, GotoTyped
<1>4. SelfInv(u)'
  BY <1>1, <1>2, <1>3 DEF SelfInv, Begun, lineVars
<1>5. LineSame(v) /\ Waits(u)' = Waits(u)
  BY <1>2, <1>3 DEF LineSame, PageSame, Waits, lineVars
<1> QED
  BY <1>2, <1>4, <1>5, QuietAgrees DEF lineVars

LEMMA StuckAgrees ==
  ASSUME AgreeInv, CalmInv', NEW u \in Users, NEW v \in Users, v # u, Users = {u, v},
         NEW k \in Slots, Stuck(u, k)
  PROVE  AgreeInv'
<1>1. SelfInv(u) /\ TypeOK
  BY DEF AgreeInv, CallInv
<1>2. UNCHANGED <<active, screenVars, lineVars, net, lost>>
  BY DEF Stuck
<1>3. /\ job'[u][k] = NoJob /\ job'[v] = job[v]
      /\ \A l \in Slots \ {k} : job'[u][l] = job[u][l]
  BY <1>1, DoneTyped DEF Stuck
<1>4. SelfInv(u)'
  BY <1>1, <1>2, <1>3 DEF SelfInv, NoJob, screenVars, lineVars
<1>5. LineSame(v) /\ Waits(u)' = Waits(u)
  BY <1>2, <1>3 DEF LineSame, PageSame, Waits, screenVars, lineVars
<1> QED
  BY <1>2, <1>4, <1>5, QuietAgrees DEF screenVars, lineVars

\* The line that a page gets replaces none.
LEMMA GrantAgrees ==
  ASSUME AgreeInv, CalmInv', NEW u \in Users, NEW v \in Users, v # u, Users = {u, v},
         NEW k \in Slots, Grant(u, k)
  PROVE  AgreeInv'
<1>1. SelfInv(u) /\ TypeOK /\ CalmInv /\ PageInv(u)
  BY DEF AgreeInv, CallInv
<1>2. UNCHANGED <<active, screenVars, offered, net, lost>> /\ made' = made + 1 /\ line'[u] = made + 1
      /\ line'[v] = line[v] /\ live'[v] = live[v] /\ talk'[u] = None /\ talk'[v] = talk[v]
  BY <1>1 DEF Grant, TypeOK
<1>3. line[u] = 0 /\ talk[u] = None /\ ~Waits(u)
  BY <1>1, NotInCall DEF Grant, PageInv
<1>4. Waits(u)' = Waits(u)
  BY <1>1, <1>2, <1>3 DEF Waits, TypeOK
<1>5. /\ job'[v] = job[v] /\ job'[u][k].at = "offer"
      /\ \A l \in Slots \ {k} : job'[u][l] = NoJob
  <2> DEFINE j == [job[u][k] EXCEPT !.at = "offer", !.line = made']
  <2>1. job[u][k] \in Job /\ made' \in Nat
    BY <1>1 DEF TypeOK, Grant
  <2>2. j \in Job /\ j.at = "offer"
    BY <2>1 DEF Job
  <2>3. job' = [job EXCEPT ![u][k] = j]
    BY <1>1, <2>1 DEF Grant, TypeOK
  <2> HIDE DEF j
  <2>4. /\ job'[u][k] = j
        /\ \A l \in Slots \ {k} : job'[u][l] = job[u][l]
        /\ \A w \in Users \ {u} : job'[w] = job[w]
    <3>1. TypeOK /\ j \in Job /\ job' = [job EXCEPT ![u][k] = j]
      BY <1>1, <2>2, <2>3
    <3> QED
      BY ONLY <3>1, GotoTyped
  <2>5. job[u][k] # NoJob
    BY DEF Grant, NoJob
  <2> QED
    BY <1>1, <2>2, <2>4, <2>5 DEF PageInv
<1>6. SelfInv(u)'
  BY <1>1, <1>2, <1>5 DEF SelfInv, NoJob, screenVars
<1>7. LineSame(v)
  BY <1>2, <1>5 DEF LineSame, PageSame, screenVars
<1> QED
  BY <1>2, <1>3, <1>4, <1>6, <1>7, QuietAgrees DEF screenVars


\* While startCall is under way nothing is on its way.
LEMMA SilentWay ==
  ASSUME Silent, NEW u \in Users, NEW v \in Users
  PROVE  net[<<u, v>>] = <<>> /\ \A s : ~Way(u, v, s)
BY NoWay DEF Silent

LEMMA StartAgrees ==
  ASSUME AgreeInv, CalmInv', Calm, NEW u \in Users, NEW v \in Users, v # u, Users = {u, v},
         NEW k \in Slots, Start(u, k)
  PROVE  AgreeInv'
<1>1. SelfInv(u) /\ SelfInv(v) /\ TypeOK /\ Silent
  BY DEF AgreeInv, CallInv, Start, Over
<1>2. UNCHANGED <<active, incoming, lineVars, net, lost>> /\ active[u] # None
      /\ overlay'[v] = overlay[v] /\ ringing'[v] = ringing[v]
  BY <1>1 DEF Start, TypeOK
<1>3. /\ job'[u][k] = Begun(TRUE)
      /\ \A l \in Slots \ {k} : job'[u][l] = job[u][l]
      /\ \A w \in Users \ {u} : job'[w] = job[w]
  <2>1. Begun(TRUE) \in Job /\ job' = [job EXCEPT ![u][k] = Begun(TRUE)]
    BY BegunTyped DEF Start, Begun
  <2> QED
    BY ONLY <1>1, <2>1, GotoTyped
<1>4. SelfInv(u)'
  BY <1>1, <1>2, <1>3 DEF SelfInv, Begun, lineVars
<1>5. LineSame(v) /\ Waits(u)' = Waits(u) /\ Waits(v)' = Waits(v)
  BY <1>2, <1>3 DEF LineSame, PageSame, Waits, lineVars
<1>6. SelfInv(v)'
  BY <1>1, <1>2, <1>5, SelfSame
<1>7. \A s : ~Way(u, v, s) /\ ~Way(v, u, s) /\ ~Way(u, v, s)' /\ ~Way(v, u, s)'
  BY <1>1, <1>2, SilentWay DEF Way
<1>8. ASSUME ~lost' PROVE PairInv(u, v)' /\ PairInv(v, u)'
  BY <1>2, <1>5, <1>7, <1>8 DEF AgreeInv, PairInv, lineVars
<1> QED
  BY <1>4, <1>6, <1>8, TwoAgree

\* setLocalDescription: startCall's line waits for an answer, before anybody knows of it.
LEMMA DescribeAgrees ==
  ASSUME AgreeInv, CalmInv', NEW u \in Users, NEW v \in Users, v # u, Users = {u, v},
         NEW k \in Slots, Describe(u, k)
  PROVE  AgreeInv'
<1>1. SelfInv(u) /\ SelfInv(v) /\ TypeOK /\ PageInv(u) /\ CalmInv
  BY DEF AgreeInv, CallInv
<1>2. UNCHANGED <<active, screenVars, line, live, talk, made, net, calls, lost>>
      /\ offered'[v] = offered[v]
  BY <1>1 DEF Describe, TypeOK
<1>3. job[u][k].at = "offer" /\ job[u][k] # NoJob /\ job[u][k] \in Job
  BY <1>1 DEF Describe, NoJob, TypeOK
<1> DEFINE j == [job[u][k] EXCEPT !.at = "local"]
<1>4. /\ j \in Job /\ job' = [job EXCEPT ![u][k] = j]
      /\ j.starts = job[u][k].starts /\ j.line = job[u][k].line
  BY <1>1, <1>3 DEF Job, Describe, Goto, TypeOK
<1> HIDE DEF j
<1>5. /\ job'[u][k] = j
      /\ \A l \in Slots \ {k} : job'[u][l] = job[u][l]
      /\ \A w \in Users \ {u} : job'[w] = job[w]
  <2>1. TypeOK /\ j \in Job /\ job' = [job EXCEPT ![u][k] = j]
    BY <1>1, <1>4
  <2> QED
    BY ONLY <2>1, GotoTyped
<1>6. \A l \in Slots \ {k} : job'[u][l].at = "none"
  BY <1>1, <1>3, <1>5 DEF PageInv, NoJob
<1>7. LineSame(v) /\ Waits(v)' = Waits(v)
  BY <1>2, <1>5 DEF LineSame, PageSame, Waits, screenVars
<1>8. CASE ~job[u][k].starts
  <2>1. offered' = offered
    BY <1>8 DEF Describe
  <2>2. SelfInv(u)' /\ Waits(u)' = Waits(u)
    BY <1>1, <1>2, <1>4, <1>5, <1>6, <1>8, <2>1 DEF SelfInv, Waits, screenVars
  <2> QED
    BY <1>2, <1>7, <2>2, QuietAgrees DEF screenVars
<1>9. CASE job[u][k].starts
  <2>1. line[u] = j.line /\ line'[u] = line[u] /\ line[u] \in offered'[u]
    BY <1>1, <1>2, <1>4, <1>9 DEF Describe, TypeOK
  <2>2. SelfInv(u)' /\ Waits(u)'
    BY <1>1, <1>2, <1>5, <1>6, <2>1 DEF SelfInv, Waits, screenVars
  <2>3. SelfInv(v)'
    BY <1>1, <1>2, <1>7, SelfSame
  <2>4. Silent
    BY <1>1, <1>3, <1>9 DEF CallInv, StartsAlone, Holds, Starting, Describe
  <2>5. \A s : ~Way(u, v, s) /\ ~Way(v, u, s) /\ ~Way(u, v, s)' /\ ~Way(v, u, s)'
    BY <1>2, <2>4, SilentWay DEF Way
  <2>6. ASSUME ~lost' PROVE PairInv(u, v)' /\ PairInv(v, u)'
    BY <1>2, <1>7, <2>2, <2>5, <2>6 DEF AgreeInv, PairInv, screenVars
  <2> QED
    BY <2>2, <2>3, <2>6, TwoAgree
<1> QED
  BY <1>8, <1>9

\* startCall's offer is sent by a page that waits for its answer.
LEMMA OfferAgrees ==
  ASSUME AgreeInv, CalmInv', NEW u \in Users, NEW v \in Users, v # u, Users = {u, v},
         NEW k \in Slots, Offer(u, k), active[u] # None
  PROVE  AgreeInv'
<1>1. SelfInv(u) /\ SelfInv(v) /\ TypeOK /\ PageInv(u) /\ CalmInv
  BY DEF AgreeInv, CallInv
<1>2. UNCHANGED <<active, screenVars, lineVars, calls, lost>> /\ Done(u, k)
  BY DEF Offer
<1>3. job[u][k] # NoJob /\ Starting(u)
  BY DEF Offer, NoJob, Starting
<1>4. active[u] = v /\ Send(u, v, "call_offer")
  BY <1>1 DEF Offer, TypeOK, PageInv
<1>5. (\A l \in Slots : job'[u][l] = NoJob) /\ \A w \in Users \ {u} : job'[w] = job[w]
  BY <1>1, <1>2, <1>3, DoneRests, DoneTyped
<1>6. Waits(u)
  <2>1. job[u][k].line = line[u] /\ line[u] # 0
    BY <1>1 DEF Offer, Open, PageInv, TypeOK
  <2> QED
    BY <1>1, <2>1 DEF SelfInv, Offer, Waits
<1>7. LineSame(v) /\ Waits(v)' = Waits(v) /\ Waits(u)' = Waits(u)
  BY <1>2, <1>5 DEF LineSame, PageSame, Waits, screenVars, lineVars
<1>8. Silent
  <2>1. line[u] # 0
    BY <1>1 DEF Offer, Open, PageInv, TypeOK
  <2> QED
    BY <1>1, <1>3, <2>1 DEF CallInv, StartsAlone, Holds
<1>9. "call_offer" \in Signals
  BY DEF Signals
<1>10. \A w, x \in Users : <<w, x>> # <<u, v>> => net'[<<w, x>>] = <<>>
  BY <1>1, <1>4, <1>8, <1>9, SendTyped DEF Silent
<1>11. /\ \A s : ~Way(u, v, s) /\ ~Way(v, u, s) /\ ~Way(v, u, s)'
       /\ \A s : Way(u, v, s)' => s = "call_offer"
  <2>1. \A w, x \in Users : \A s : Way(w, x, s)' <=> Way(w, x, s) \/ (w = u /\ x = v /\ s = "call_offer")
    BY <1>1, <1>4, <1>9, SendWay
  <2>2. \A s : ~Way(u, v, s) /\ ~Way(v, u, s)
    BY <1>8, SilentWay
  <2> QED
    BY <2>1, <2>2
<1>12. SelfInv(u)'
  BY <1>1, <1>2, <1>5, <1>10 DEF SelfInv, NoJob, screenVars, lineVars
<1>13. SelfInv(v)'
  BY <1>1, <1>7, <1>8, <1>10, SelfSame DEF Silent
<1>14. ASSUME ~lost' PROVE PairInv(u, v)' /\ PairInv(v, u)'
  <2>1. PairInv(u, v) /\ PairInv(v, u)
    BY <1>2, <1>14 DEF AgreeInv
  <2>2. UNCHANGED <<incoming, overlay, talk>> /\ net'[<<v, u>>] = <<>>
    BY <1>2, <1>10 DEF screenVars, lineVars
  <2>3. PairInv(u, v)'
    BY <1>6, <1>7, <1>11, <2>1, <2>2 DEF PairInv
  <2>4. PairInv(v, u)'
    BY <1>6, <1>7, <1>11, <2>1, <2>2 DEF PairInv
  <2> QED
    BY <2>3, <2>4
<1> QED
  BY <1>12, <1>13, <1>14, TwoAgree

\* answerCall's answer goes to a page that waits for it, or has hung up.
LEMMA AnswerAgrees ==
  ASSUME AgreeInv, CalmInv', NEW u \in Users, NEW v \in Users, v # u, Users = {u, v},
         NEW k \in Slots, Answer(u, k), incoming[u] # None
  PROVE  AgreeInv'
<1>1. SelfInv(u) /\ SelfInv(v) /\ TypeOK /\ PageInv(u) /\ CalmInv
  BY DEF AgreeInv, CallInv
<1>2. UNCHANGED <<active, screenVars, line, live, offered, made, calls, lost>> /\ Done(u, k)
  BY DEF Answer
<1>3. job[u][k] # NoJob
  BY DEF Answer, NoJob
<1>4. incoming[u] = v /\ Send(u, v, "call_answer")
  BY <1>1 DEF Answer, TypeOK, SelfInv
<1>5. (\A l \in Slots : job'[u][l] = NoJob) /\ \A w \in Users \ {u} : job'[w] = job[w]
  BY <1>1, <1>2, <1>3, DoneRests, DoneTyped
<1>6. line[u] # 0 /\ talk'[u] = v /\ talk'[v] = talk[v]
  <2>1. job[u][k].line = line[u] /\ line[u] # 0
    BY <1>1 DEF Answer, Open, PageInv, TypeOK
  <2> QED
    BY <1>1, <1>4, <2>1 DEF Answer, TypeOK
<1>7. LineSame(v) /\ Waits(v)' = Waits(v) /\ Waits(u)' = Waits(u)
  BY <1>2, <1>5, <1>6 DEF LineSame, PageSame, Waits, screenVars
<1>8. "call_answer" \in Signals
  BY DEF Signals
<1>9. \A w, x \in Users : <<w, x>> # <<u, v>> => net'[<<w, x>>] = net[<<w, x>>]
  BY <1>1, <1>4, <1>8, SendTyped
<1>10. \A w, x \in Users : \A s : Way(w, x, s)' <=> Way(w, x, s) \/ (w = u /\ x = v /\ s = "call_answer")
  BY <1>1, <1>4, <1>8, SendWay
<1>11. ~Way(v, u, "call_offer")
  BY <1>1, <1>2, <1>3, DoneRests, OfferWay DEF Busy
<1>12. SelfInv(u)'
  BY <1>1, <1>2, <1>5, <1>6, <1>9 DEF SelfInv, NoJob, screenVars
<1>13. SelfInv(v)'
  BY <1>1, <1>7, <1>9, SelfSame
<1>14. ASSUME ~lost' PROVE PairInv(u, v)' /\ PairInv(v, u)'
  <2>1. PairInv(u, v) /\ PairInv(v, u)
    BY <1>2, <1>14 DEF AgreeInv
  <2>2. UNCHANGED <<incoming, overlay>> /\ net'[<<v, u>>] = net[<<v, u>>]
    BY <1>2, <1>9 DEF screenVars
  <2>3. \A s : Way(v, u, s)' <=> Way(v, u, s)
    BY <1>10
  <2>4. \A s : Way(u, v, s)' <=> Way(u, v, s) \/ s = "call_answer"
    BY <1>10
  <2>5. PairInv(u, v)'
    BY <1>4, <1>6, <1>7, <2>1, <2>2, <2>3, <2>4 DEF PairInv
  <2>6. PairInv(v, u)'
    BY <1>4, <1>6, <1>7, <1>11, <2>1, <2>2, <2>3, <2>4 DEF PairInv
  <2> QED
    BY <2>5, <2>6
<1> QED
  BY <1>12, <1>13, <1>14, TwoAgree


\* What is on its way when u has been sent, or denied, what was first on its way from v.
LEMMA TakenNet ==
  ASSUME AgreeInv, NEW u \in Users, NEW v \in Users, v # u, Users = {u, v}, Taken(u, v)
  PROVE  /\ ~Silent /\ ~Starting(u)
         /\ \A w, x \in Users : <<w, x>> # <<v, u>> => net'[<<w, x>>] = net[<<w, x>>]
         /\ \A t : Way(u, v, t)' <=> Way(u, v, t)
         /\ \A t : Way(v, u, t)' => Way(v, u, t)
         /\ \A t : Way(v, u, t) => Way(v, u, t)' \/ t = Head(net[<<v, u>>])
         /\ Way(v, u, Head(net[<<v, u>>]))
         /\ ~Way(v, u, "call_offer")'
         /\ ~lost => ~Way(u, v, "call_offer")
<1>1. CalmInv /\ TypeOK
  BY DEF AgreeInv, CallInv
<1>2. ~Silent /\ ~Starting(u)
  BY <1>1 DEF Silent, Taken, CallInv, StartsAlone, Talks
<1>3. \A w, x \in Users : <<w, x>> # <<v, u>> => net'[<<w, x>>] = net[<<w, x>>]
  BY <1>1, TakeTyped
<1>4. /\ \A w, x \in Users : \A t :
           /\ Way(w, x, t)' => Way(w, x, t)
           /\ Way(w, x, t) => Way(w, x, t)' \/ (w = v /\ x = u /\ t = Head(net[<<v, u>>]))
      /\ Way(v, u, Head(net[<<v, u>>]))
  BY <1>1, TakeWay
<1>5. ~Way(v, u, "call_offer")'
  <2>1. \A i \in Nat : ~(i \in 1 .. Len(net'[<<v, u>>]) /\ net'[<<v, u>>][i] = "call_offer")
    <3> SUFFICES ASSUME NEW i \in Nat, OfferAt(v, u, i)'
                 PROVE  FALSE
      BY DEF OfferAt
    <3>1. OfferAt(v, u, i + 1)
      BY <1>1, TakenOffers
    <3>2. i + 1 = 1
      <4>1. i + 1 \in Nat
        OBVIOUS
      <4> QED
        BY <1>1, <3>1, <4>1 DEF CallInv, OfferComes
    <3> QED
      BY <3>2 DEF OfferAt
  <2>2. \A i \in 1 .. Len(net'[<<v, u>>]) : i \in Nat
    OBVIOUS
  <2> QED
    BY <2>1, <2>2 DEF Way
<1>6. ~lost => ~Way(u, v, "call_offer")
  BY DEF AgreeInv, PairInv, Taken
<1> QED
  BY <1>2, <1>3, <1>4, <1>5, <1>6

LEMMA OfferHeard ==
  ASSUME AgreeInv, CalmInv', NEW u \in Users, NEW v \in Users, v # u, Users = {u, v},
         Receive(u, v), Head(net[<<v, u>>]) = "call_offer"
  PROVE  AgreeInv'
<1>1. SelfInv(u) /\ SelfInv(v) /\ TypeOK /\ CalmInv
  BY DEF AgreeInv, CallInv
<1>2. Taken(u, v) /\ Ring(u, v) /\ UNCHANGED <<active, job, calls, lost>>
  BY DEF Receive, Taken
<1>3. UNCHANGED <<line, live, offered, talk>> /\ incoming'[u] = v /\ overlay'[u]
      /\ overlay'[v] = overlay[v] /\ ringing'[v] = ringing[v] /\ incoming'[v] = incoming[v]
  BY <1>1, <1>2 DEF Ring, TypeOK, lineVars
<1>4. /\ \A w, x \in Users : <<w, x>> # <<v, u>> => net'[<<w, x>>] = net[<<w, x>>]
      /\ \A t : Way(u, v, t)' <=> Way(u, v, t)
      /\ \A t : Way(v, u, t)' => Way(v, u, t)
      /\ \A t : Way(v, u, t) => Way(v, u, t)' \/ t = "call_offer"
      /\ Way(v, u, "call_offer") /\ ~Way(v, u, "call_offer")'
  BY <1>2, TakenNet
<1>5. ~overlay[u]
  BY <1>1, <1>4, OfferWay
<1>6. talk[u] = None /\ ~Waits(u)
  BY <1>1, <1>5, NotInCall
<1>7. LineSame(v) /\ Waits(v)' = Waits(v) /\ Waits(u)' = Waits(u)
  BY <1>2, <1>3 DEF LineSame, PageSame, Waits
<1>8. SelfInv(u)'
  BY <1>1, <1>2, <1>3, <1>4 DEF SelfInv
<1>9. SelfInv(v)'
  BY <1>1, <1>4, <1>7, SelfSame
<1>10. ASSUME ~lost' PROVE PairInv(u, v)' /\ PairInv(v, u)'
  <2>1. PairInv(u, v) /\ PairInv(v, u)
    BY <1>2, <1>10 DEF AgreeInv
  <2>2. \A t : ~Way(u, v, t) /\ ~Way(u, v, t)'
    <3>1. net[<<u, v>>] = <<>>
      BY <1>4, <2>1 DEF PairInv
    <3> QED
      BY <1>4, <3>1, NoWay
  <2>3. PairInv(u, v)'
    BY <1>3, <1>4, <1>6, <1>7, <2>1, <2>2 DEF PairInv
  <2>4. PairInv(v, u)'
    BY <1>3, <1>4, <1>6, <1>7, <2>1, <2>2 DEF PairInv
  <2> QED
    BY <2>3, <2>4
<1> QED
  BY <1>8, <1>9, <1>10, TwoAgree

LEMMA AnswerHeard ==
  ASSUME AgreeInv, CalmInv', NEW u \in Users, NEW v \in Users, v # u, Users = {u, v},
         Receive(u, v), Head(net[<<v, u>>]) = "call_answer"
  PROVE  AgreeInv'
<1>1. SelfInv(u) /\ SelfInv(v) /\ TypeOK /\ CalmInv
  BY DEF AgreeInv, CallInv
<1>2. Taken(u, v) /\ Answered(u, v) /\ UNCHANGED <<active, job, calls, lost>>
  BY DEF Receive, Taken
<1>3. UNCHANGED <<screenVars, line, live>> /\ talk'[v] = talk[v] /\ offered'[v] = offered[v]
  BY <1>1, <1>2 DEF Answered, TypeOK
<1>4. /\ ~Starting(u)
      /\ \A w, x \in Users : <<w, x>> # <<v, u>> => net'[<<w, x>>] = net[<<w, x>>]
      /\ \A t : Way(u, v, t)' <=> Way(u, v, t)
      /\ \A t : Way(v, u, t)' => Way(v, u, t)
      /\ \A t : Way(v, u, t) => Way(v, u, t)' \/ t = "call_answer"
      /\ Way(v, u, "call_answer")
      /\ ~lost => ~Way(u, v, "call_offer")
  BY <1>2, TakenNet
<1>5. LineSame(v) /\ Waits(v)' = Waits(v)
  BY <1>2, <1>3 DEF LineSame, PageSame, Waits, screenVars
<1>6. \/ Waits(u) /\ talk'[u] = v /\ ~Waits(u)'
      \/ ~Waits(u) /\ talk'[u] = talk[u] /\ ~Waits(u)'
  BY <1>1, <1>2 DEF Answered, Waits, TypeOK
<1>7. SelfInv(u)'
  <2>1. talk'[u] # None => line[u] # 0
    BY <1>1, <1>6, NotInCall DEF SelfInv
  <2>2. \A k \in Slots : ~(job[u][k].at = "local" /\ job[u][k].starts)
    BY <1>4 DEF Starting
  <2> QED
    BY <1>1, <1>2, <1>3, <1>4, <2>1, <2>2 DEF SelfInv, screenVars
<1>8. SelfInv(v)'
  BY <1>1, <1>4, <1>5, SelfSame
<1>9. ASSUME ~lost' PROVE PairInv(u, v)' /\ PairInv(v, u)'
  <2>1. PairInv(u, v) /\ PairInv(v, u) /\ ~Way(u, v, "call_offer")
    BY <1>2, <1>4, <1>9 DEF AgreeInv
  <2>2. UNCHANGED <<overlay, incoming>> /\ net'[<<u, v>>] = net[<<u, v>>]
    BY <1>3, <1>4 DEF screenVars
  <2>3. Waits(u) => ~Way(v, u, "call_offer")
    BY <1>1, NotInCall, OfferWay
  <2>4. PairInv(u, v)'
    BY <1>3, <1>4, <1>5, <1>6, <2>1, <2>2, <2>3 DEF PairInv
  <2>5. PairInv(v, u)'
    BY <1>3, <1>4, <1>5, <1>6, <2>1, <2>2, <2>3 DEF PairInv
  <2> QED
    BY <2>4, <2>5
<1> QED
  BY <1>7, <1>8, <1>9, TwoAgree

LEMMA EndHeard ==
  ASSUME AgreeInv, CalmInv', NEW u \in Users, NEW v \in Users, v # u, Users = {u, v},
         Receive(u, v), Head(net[<<v, u>>]) \notin {"call_offer", "call_answer"}
  PROVE  AgreeInv'
<1>1. SelfInv(u) /\ SelfInv(v) /\ TypeOK /\ CalmInv
  BY DEF AgreeInv, CallInv
<1>2. Taken(u, v) /\ Ended(u, v) /\ UNCHANGED <<active, job, calls, lost>>
  BY DEF Receive, Taken
<1>3. Head(net[<<v, u>>]) = "call_end"
  BY <1>1, <1>2, TakeTyped DEF Signals
<1>4. /\ line'[u] = 0 /\ ~overlay'[u] /\ incoming'[u] = None /\ talk'[u] = None /\ ringing' = ringing
      /\ line'[v] = line[v] /\ live'[v] = live[v] /\ overlay'[v] = overlay[v]
      /\ incoming'[v] = incoming[v] /\ talk'[v] = talk[v] /\ offered'[v] = offered[v]
  BY <1>1, <1>2 DEF Ended, Close, Hide, TypeOK
<1>5. /\ \A w, x \in Users : <<w, x>> # <<v, u>> => net'[<<w, x>>] = net[<<w, x>>]
      /\ \A t : Way(u, v, t)' <=> Way(u, v, t)
      /\ Way(v, u, "call_end") /\ ~Way(v, u, "call_offer")'
      /\ ~lost => ~Way(u, v, "call_offer")
  BY <1>2, <1>3, TakenNet
<1>6. LineSame(v) /\ Waits(v)' = Waits(v)
  BY <1>2, <1>4 DEF LineSame, PageSame, Waits
<1>7. ~Waits(u)'
  BY <1>4 DEF Waits, CallInv, TypeOK
<1>8. SelfInv(u)'
  BY <1>1, <1>2, <1>4, <1>5 DEF SelfInv
<1>9. SelfInv(v)'
  BY <1>1, <1>5, <1>6, SelfSame
<1>10. ASSUME ~lost' PROVE PairInv(u, v)' /\ PairInv(v, u)'
  <2>1. PairInv(u, v) /\ PairInv(v, u) /\ ~Way(u, v, "call_offer")
    BY <1>2, <1>5, <1>10 DEF AgreeInv
  <2>2. ~overlay[v]
    BY <1>5, <2>1 DEF PairInv
  <2>3. incoming[v] = None /\ talk[v] = None /\ ~Waits(v)
    BY <1>1, <2>2, NotInCall
  <2>4. PairInv(u, v)'
    BY <1>4, <1>5, <1>6, <1>7, <2>1, <2>2, <2>3 DEF PairInv
  <2>5. PairInv(v, u)'
    BY <1>4, <1>5, <1>6, <1>7, <2>1, <2>2, <2>3 DEF PairInv
  <2> QED
    BY <2>4, <2>5
<1> QED
  BY <1>8, <1>9, <1>10, TwoAgree

LEMMA SkipAgrees ==
  ASSUME AgreeInv, CalmInv', NEW u \in Users, NEW v \in Users, v # u, Users = {u, v}, Skip(u, v)
  PROVE  AgreeInv'
<1>1. SelfInv(u) /\ SelfInv(v) /\ Taken(u, v)
      /\ UNCHANGED <<active, screenVars, lineVars, job>> /\ lost'
  BY DEF AgreeInv, Skip, Taken
<1>2. net'[<<u, u>>] = net[<<u, u>>] /\ net'[<<v, v>>] = net[<<v, v>>]
  BY <1>1, TakenNet
<1>3. LineSame(u) /\ LineSame(v)
  BY <1>1 DEF LineSame, PageSame, screenVars, lineVars
<1>4. SelfInv(u)' /\ SelfInv(v)'
  BY <1>1, <1>2, <1>3, SelfSame
<1> QED
  BY <1>1, <1>4, TwoAgree

LEMMA SignalAgrees ==
  ASSUME AgreeInv, CalmInv', NEW u \in Users, NEW v \in Users, v # u, Users = {u, v},
         NEW w \in Users, Receive(u, w) \/ Skip(u, w)
  PROVE  AgreeInv'
<1>1. w = v
  BY DEF AgreeInv, SelfInv, Receive, Skip
<1> QED
  BY <1>1, OfferHeard, AnswerHeard, EndHeard, SkipAgrees

LEMMA GoOnAgrees ==
  ASSUME AgreeInv, CalmInv', NEW u \in Users, NEW v \in Users, v # u, Users = {u, v},
         NEW k \in Slots, GoOn(u, k)
  PROVE  AgreeInv'
<1>1. CASE Refuse(u, k)
  BY <1>1, CaughtAgrees DEF Refuse, NoJob
<1>2. CASE Grant(u, k)
  BY <1>2, GrantAgrees
<1>3. CASE GrantLate(u, k)
  <2>1. line[u] = 0
    BY <1>3 DEF GrantLate, AgreeInv, CallInv, PageInv
  <2> QED
    BY <1>3, <2>1, CaughtAgrees DEF GrantLate, NoJob
<1>4. CASE Stuck(u, k)
  BY <1>4, StuckAgrees
<1>5. CASE Throw(u, k)
  BY <1>5, CaughtAgrees DEF Throw, NoJob
<1>6. CASE Describe(u, k)
  BY <1>6, DescribeAgrees
<1>7. CASE Offer(u, k)
  <2>1. CASE active[u] = None
    BY <1>7, <2>1, CaughtAgrees DEF Offer, NoJob
  <2> QED
    BY <1>7, <2>1, OfferAgrees
<1>8. CASE Answer(u, k)
  <2>1. CASE incoming[u] = None
    BY <1>8, <2>1, CaughtAgrees DEF Answer, NoJob
  <2> QED
    BY <1>8, <2>1, AnswerAgrees
<1> QED
  BY <1>1, <1>2, <1>3, <1>4, <1>5, <1>6, <1>7, <1>8 DEF GoOn

LEMMA NextAgree == ASSUME Calm, TwoUsers PROVE AgreeInv /\ [Next]_vars /\ Patient' => AgreeInv'
<1> SUFFICES ASSUME AgreeInv, [Next]_vars, Patient'
             PROVE  AgreeInv'
  OBVIOUS
<1>1. CalmInv'
  BY NextCall DEF AgreeInv
<1>2. CASE UNCHANGED vars
  <2>1. UNCHANGED <<active, overlay, ringing, incoming, line, live, offered, talk, job, net, lost>>
    BY <1>2 DEF vars, screenVars, lineVars
  <2>2. \A u \in Users : SelfInv(u)'
    BY <2>1 DEF AgreeInv, SelfInv
  <2>3. ASSUME ~lost', NEW u \in Users, NEW v \in Users, u # v PROVE PairInv(u, v)'
    <3>1. PairInv(u, v)
      BY <2>1, <2>3 DEF AgreeInv
    <3>2. Waits(u)' = Waits(u) /\ Waits(v)' = Waits(v)
      BY <2>1 DEF Waits
    <3> QED
      BY <2>1, <3>1, <3>2, PairSame
  <2> QED
    BY <1>1, <2>2, <2>3 DEF AgreeInv
<1>3. ASSUME NEW u \in Users, User(u) PROVE AgreeInv'
  <2>1. PICK v \in Users : v # u /\ Users = {u, v}
    BY Other
  <2> QED
    BY <1>1, <1>3, <2>1, ChooseAgrees, StartAgrees, AcceptAgrees, HangUpAgrees DEF User
<1>4. ASSUME NEW u \in Users, NEW k \in Slots, GoOn(u, k) PROVE AgreeInv'
  <2>1. PICK v \in Users : v # u /\ Users = {u, v}
    BY Other
  <2> QED
    BY <1>1, <1>4, <2>1, GoOnAgrees
<1>5. ASSUME NEW u \in Users, NEW w \in Users, Receive(u, w) \/ Skip(u, w) PROVE AgreeInv'
  <2>1. PICK v \in Users : v # u /\ Users = {u, v}
    BY Other
  <2> QED
    BY <1>1, <1>5, <2>1, SignalAgrees
<1> QED
  BY <1>2, <1>3, <1>4, <1>5 DEF Next

\* Who has hung up too early stays known.
LEMMA NextHasty == TypeOK /\ [Next]_vars /\ Patient' => Patient
<1> SUFFICES ASSUME TypeOK, [Next]_vars, NEW u \in Users, hasty[u]
             PROVE  hasty'[u]
  OBVIOUS
<1>1. ASSUME NEW v \in Users, HangUp(v) PROVE hasty'[u]
  BY <1>1, HangUpHasty DEF HastyKept
<1>2. ASSUME hasty' = hasty PROVE hasty'[u]
  BY <1>2
<1>3. ASSUME NEW v \in Users, User(v), ~HangUp(v) PROVE hasty' = hasty
  BY <1>3 DEF User, Choose, Start, Accept
<1>4. ASSUME NEW v \in Users, NEW k \in Slots, GoOn(v, k) PROVE hasty' = hasty
  BY <1>4 DEF GoOn, Refuse, Grant, GrantLate, Stuck, Throw, Describe, Offer, Answer, Caught
<1>5. ASSUME NEW v \in Users, NEW w \in Users, Receive(v, w) \/ Skip(v, w) PROVE hasty' = hasty
  BY <1>5 DEF Receive, Skip
<1> QED
  BY <1>1, <1>2, <1>3, <1>4, <1>5 DEF Next, vars

\* Two users who call each other, one call after the other, and have not hung up while
\* startCall waited for the camera: whatever the two functions, the buttons and the signals
\* do in between, when nothing is under way and no signal was skipped, whom startCall's or
\* answerCall's connection of one page is with has one with it.
THEOREM CallersAgree ==
  ASSUME Calm, TwoUsers
  PROVE  Spec => [](Patient => PagesAgree)
<1> DEFINE Inv == CallInv /\ (Patient => AgreeInv)
<1>1. Inv => (Patient => PagesAgree)
  <2> SUFFICES ASSUME AgreeInv, Silent, ~lost, NEW u \in Users, NEW v \in Users, talk[u] = v
               PROVE  talk[v] = u
    BY DEF PagesAgree
  <2>1. \A s : ~Way(u, v, s) /\ ~Way(v, u, s)
    BY SilentWay
  <2> QED
    BY <2>1 DEF AgreeInv, PairInv
<1>2. Init => Inv
  BY InitCall, InitAgree
<1>3. Inv /\ [Next]_vars => Inv'
  <2> SUFFICES ASSUME CallInv, Patient => AgreeInv, [Next]_vars
               PROVE  CallInv' /\ (Patient' => AgreeInv')
    OBVIOUS
  <2>1. CallInv'
    BY NextCall
  <2>2. Patient' => AgreeInv'
    BY NextHasty, NextAgree DEF CallInv
  <2> QED
    BY <2>1, <2>2
<1> QED
  BY <1>1, <1>2, <1>3, PTL DEF Spec
=============================================================================
