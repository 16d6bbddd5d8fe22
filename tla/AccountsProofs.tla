--------------------------- MODULE AccountsProofs ---------------------------
(***************************************************************************)
(* What module Accounts promises for any number of names, addresses and    *)
(* requests, however the requests overlap; where it says so, only while no *)
(* request overlaps a registration.                                        *)
(***************************************************************************)
EXTENDS Accounts, SequenceTheorems, TLAPS

\* A request that is served has its fields, and a number of its own.
InHand == \A r \in Reqs : req[r] # NoReq =>
  /\ req[r].email \in Emails
  /\ req[r].name \in Names \cup Emails
  /\ req[r].number \in 1 .. started
  /\ \A s \in Reqs \ {r} : req[s].number # req[r].number

\* The number of no request that is served: if a code has it, it is stored already.
Made(k) == k \in 1 .. started /\ \A r \in Reqs : req[r].number # k

\* Codes are stored by requests that are over.
CodesMade ==
  /\ \A c \in codes : Made(c.number)
  /\ \A k \in Numbers : answered[k] # 0 => Made(k)
  /\ \A r \in Reqs : req[r].step \in {"consume", "apply"} =>
       Made(req[r].code) /\ req[r].kind \in {"verify", "reset"}

\* Code k is not, or no longer, stored.
NotThere(k) == \A c \in codes : c.number # k

\* A code is gone before a request that was accepted with it is answered.
UsedIsGone ==
  /\ \A k \in Numbers : answered[k] # 0 /\ k \notin failed => NotThere(k)
  /\ \A k \in Numbers, r \in Reqs :
       req[r].step = "apply" /\ req[r].code = k /\ k \notin failed => NotThere(k)

\* The last code mailed for e and p is there, or used, or expired, or was not stored; or
\* its successor is about to be, or a request is about to be answered that used it.
LatestKept == \A e \in Emails, p \in Purposes, k \in Numbers : latest[<<e, p>>] = k =>
  \/ k = 0 \/ answered[k] # 0 \/ k \in expired \/ k \in failed
  \/ \E c \in codes : c.email = e /\ c.purpose = p /\ c.number = k
  \/ \E r \in Reqs : req[r].step = "insert" /\ req[r].email = e /\ Purpose(r) = p
  \/ \E r \in Reqs : req[r].step = "apply" /\ req[r].code = k

CodesInv == TypeOK /\ InHand /\ CodesMade /\ UsedIsGone /\ UsedTogether /\ LatestKept

-----------------------------------------------------------------------------
(* What a step does to the requests.                                       *)

Steps == {"none", "look", "write", "clear", "insert", "check", "consume", "apply"}

LEMMA NoReqTyped == NoReq \in Request
BY AccountsAssumption DEF NoReq, Request, Kinds, Numbers

\* The place of r in req is set to q, and the others are left.
Sets(r, q) == /\ req' \in [Reqs -> Request]
              /\ req'[r] = q
              /\ \A s \in Reqs \ {r} : req'[s] = req[s]

LEMMA GotoSets ==
  ASSUME TypeOK, NEW r \in Reqs, NEW step \in Steps, Goto(r, step)
  PROVE  Sets(r, [req[r] EXCEPT !.step = step])
<1>1. req[r] \in Request
  BY DEF TypeOK
<1>2. [req[r] EXCEPT !.step = step] \in Request
  BY <1>1 DEF Request, Steps
<1> QED
  BY <1>2 DEF Sets, Goto, TypeOK

LEMMA GotoWithSets ==
  ASSUME TypeOK, NEW r \in Reqs, NEW step \in Steps, NEW i \in Nat, GotoWith(r, step, i)
  PROVE  Sets(r, [req[r] EXCEPT !.step = step, !.row = i])
<1>1. req[r] \in Request
  BY DEF TypeOK
<1>2. [req[r] EXCEPT !.step = step, !.row = i] \in Request
  BY <1>1 DEF Request, Steps
<1> QED
  BY <1>2 DEF Sets, GotoWith, TypeOK

LEMMA FinishSets ==
  ASSUME TypeOK, NEW r \in Reqs, Finish(r)
  PROVE  Sets(r, NoReq)
BY NoReqTyped DEF Sets, Finish, TypeOK

\* r goes on in a step of its kind, keeping its fields, or is over.
GoesOn(r) == \E q \in Request :
  /\ Sets(r, q)
  /\ \/ q = NoReq
     \/ /\ q.kind = req[r].kind /\ q.number = req[r].number /\ q.name = req[r].name
        /\ q.email = req[r].email /\ q.code = req[r].code /\ q.step # "none"

LEMMA GotoGoesOn ==
  ASSUME TypeOK, NEW r \in Reqs, NEW step \in Steps \ {"none"},
         Goto(r, step) \/ \E i \in Nat : GotoWith(r, step, i)
  PROVE  /\ GoesOn(r)
         /\ req'[r].step = step
<1>1. req[r] \in Request
  BY DEF TypeOK
<1>2. CASE Goto(r, step)
  <2>1. Sets(r, [req[r] EXCEPT !.step = step])
    BY <1>2, GotoSets
  <2>2. [req[r] EXCEPT !.step = step] \in Request
    BY <1>1 DEF Request, Steps
  <2> QED
    BY <1>1, <2>1, <2>2 DEF GoesOn, Sets, Request
<1>3. ASSUME NEW i \in Nat, GotoWith(r, step, i)
      PROVE  GoesOn(r) /\ req'[r].step = step
  <2>1. Sets(r, [req[r] EXCEPT !.step = step, !.row = i])
    BY <1>3, GotoWithSets
  <2>2. [req[r] EXCEPT !.step = step, !.row = i] \in Request
    BY <1>1 DEF Request, Steps
  <2> QED
    BY <1>1, <2>1, <2>2 DEF GoesOn, Sets, Request
<1> QED
  BY <1>2, <1>3

LEMMA FinishGoesOn ==
  ASSUME TypeOK, NEW r \in Reqs, Finish(r)
  PROVE  GoesOn(r) /\ req'[r] = NoReq
BY FinishSets, NoReqTyped DEF GoesOn, Sets

LEMMA ServeGoesOn ==
  ASSUME TypeOK, NEW r \in Reqs, Serve(r)
  PROVE  GoesOn(r) /\ started' = started
<1>1. ASSUME NEW i \in Rows PROVE i \in Nat
  BY DEF Rows, TypeOK
<1>2. CASE RegisterLook(r)
  BY <1>1, <1>2, GotoGoesOn, FinishGoesOn DEF Steps, RegisterLook, Found
<1>3. CASE RegisterWrite(r)
  BY <1>3, GotoGoesOn, FinishGoesOn DEF Steps, RegisterWrite
<1>4. CASE Look(r)
  BY <1>4, GotoGoesOn, FinishGoesOn DEF Steps, Look
<1>5. CASE Clear(r)
  BY <1>5, GotoGoesOn DEF Steps, Clear
<1>6. CASE Insert(r)
  BY <1>6, FinishGoesOn DEF Insert
<1>7. CASE Check(r)
  BY <1>7, GotoGoesOn, FinishGoesOn DEF Steps, Check, codeVars
<1>8. CASE Consume(r)
  BY <1>8, GotoGoesOn DEF Steps, Consume
<1>9. CASE Apply(r)
  BY <1>9, FinishGoesOn DEF Apply
<1>10. CASE GoogleLook(r)
  <2>1. Finish(r) \/ GotoWith(r, "write", 0) \/ \E i \in Rows : GotoWith(r, "write", i)
    BY <1>10 DEF GoogleLook
  <2> QED
    BY <1>1, <1>10, <2>1, GotoGoesOn, FinishGoesOn DEF Steps, GoogleLook
<1>11. CASE GoogleWrite(r)
  BY <1>11, FinishGoesOn DEF GoogleWrite
<1> QED
  BY <1>2, <1>3, <1>4, <1>5, <1>6, <1>7, <1>8, <1>9, <1>10, <1>11 DEF Serve

\* What arrives has the fields of a request, and the next number.
LEMMA ArriveSets ==
  ASSUME TypeOK, NEW r \in Reqs, Arrive(r)
  PROVE  \E q \in Request :
           /\ Sets(r, q) /\ req[r] = NoReq
           /\ q.step \in {"look", "check"} /\ q.kind # "none"
           /\ q.number = started + 1 /\ started' = started + 1 /\ started < MaxReqs
           /\ q.email \in Emails /\ q.name \in Names \cup Emails
           /\ UNCHANGED <<users, codes, answered, failed, expired, latest, proved>>
<1> DEFINE Some == \E kind \in Kinds \ {"none"}, step \in {"look", "check"}, n \in Names \cup Emails,
                     e \in Emails, k \in Numbers : Begin(r, kind, step, n, e, k)
<1>a. 0 \in Numbers /\ 1 .. started \subseteq Numbers
  BY AccountsAssumption DEF Numbers, TypeOK
<1>b. ASSUME NEW e \in Emails, NEW n \in Names, Begin(r, "register", "look", n, e, 0)
      PROVE  Some
  BY <1>a, <1>b DEF Kinds
<1>c. ASSUME NEW e \in Emails, NEW kind \in {"resend", "forgot", "google"}, Begin(r, kind, "look", e, e, 0)
      PROVE  Some
  BY <1>a, <1>c DEF Kinds
<1>d. ASSUME NEW e \in Emails, NEW kind \in {"verify", "reset"}, NEW k \in 1 .. started, Begin(r, kind, "check", e, e, k)
      PROVE  Some
  BY <1>a, <1>d DEF Kinds
<1>e. Some
  <2> HIDE DEF Some
  <2> QED
    BY <1>b, <1>c, <1>d DEF Arrive
<1>1. PICK kind \in Kinds \ {"none"}, step \in {"look", "check"}, n \in Names \cup Emails, e \in Emails,
           k \in Numbers : Begin(r, kind, step, n, e, k)
  BY <1>e
<1> DEFINE q == [kind |-> kind, step |-> step, number |-> started + 1,
                 name |-> n, email |-> e, code |-> k, row |-> 0]
<1>2. started + 1 \in Numbers
  BY <1>1, AccountsAssumption DEF Begin, TypeOK, Numbers
<1>3. q \in Request
  BY <1>2 DEF Request
<1>4. Sets(r, q)
  BY <1>1, <1>3 DEF Begin, Sets, TypeOK
<1> QED
  BY <1>1, <1>3, <1>4 DEF Begin, codeVars
-----------------------------------------------------------------------------
(* Types.                                                                  *)

LEMMA InitCodes == Init => CodesInv
<1>1. Init => TypeOK
  BY NoReqTyped, AccountsAssumption DEF Init, TypeOK, Numbers
<1>2. Init => InHand /\ CodesMade /\ UsedIsGone /\ UsedTogether
  BY DEF Init, InHand, CodesMade, UsedIsGone, NotThere, UsedTogether, NoReq
<1>3. Init => LatestKept
  BY DEF Init, LatestKept
<1> QED
  BY <1>1, <1>2, <1>3 DEF CodesInv

\* A row that is written has its columns.
LEMMA ServeTypesUsers ==
  ASSUME TypeOK, InHand, NEW r \in Reqs, Serve(r)
  PROVE  users' \in Seq(User)
<1> DEFINE q == req[r]
<1>1. q \in Request /\ q.number \in Numbers
  BY DEF TypeOK, Request
<1>2. CASE RegisterWrite(r)
  <2>1. q # NoReq
    BY <1>2 DEF RegisterWrite, At, NoReq
  <2>2. q.name \in Names \cup Emails /\ q.email \in Emails
    BY <2>1 DEF InHand
  <2> DEFINE fresh == [name |-> q.name, email |-> q.email, pass |-> q.number, verified |-> FALSE,
                       google |-> None]
             renewed == [users EXCEPT ![q.row].name = q.name, ![q.row].email = q.email,
                                      ![q.row].pass = q.number]
  <2>3. fresh \in User
    BY <1>1, <2>2 DEF User
  <2>4. renewed \in Seq(User)
    <3>1. CASE q.row \in 1 .. Len(users)
      <4>1. users[q.row] \in User
        BY <3>1 DEF TypeOK
      <4>2. [users[q.row] EXCEPT !.name = q.name, !.email = q.email, !.pass = q.number] \in User
        BY <1>1, <2>2, <4>1 DEF User
      <4>3. renewed = [users EXCEPT ![q.row] = [users[q.row] EXCEPT !.name = q.name, !.email = q.email, !.pass = q.number]]
        BY <3>1 DEF TypeOK
      <4>4. [users EXCEPT ![q.row] = [users[q.row] EXCEPT !.name = q.name, !.email = q.email, !.pass = q.number]] \in Seq(User)
        BY <3>1, <4>2, ExceptSeq DEF TypeOK
      <4> QED
        BY <4>3, <4>4, Zenon
    <3>2. CASE q.row \notin 1 .. Len(users)
      <4>1. renewed = users
        BY <3>2 DEF TypeOK
      <4> QED
        BY <4>1 DEF TypeOK
    <3> QED
      BY <3>1, <3>2
  <2>5. users' = users \/ users' = Append(users, fresh) \/ users' = renewed
    BY <1>2 DEF RegisterWrite
  <2> HIDE DEF fresh, renewed
  <2>6. Append(users, fresh) \in Seq(User)
    BY <2>3 DEF TypeOK
  <2> QED
    BY <2>4, <2>5, <2>6, Zenon DEF TypeOK
<1>3. CASE Apply(r)
  <2>a. PICK ok \in Works :
          users' = [i \in Rows |->
                      IF ~ok \/ users[i].email # q.email THEN users[i]
                      ELSE IF q.kind = "verify" THEN [users[i] EXCEPT !.verified = TRUE]
                      ELSE [users[i] EXCEPT !.pass = q.number]]
    BY <1>3 DEF Apply
  <2> DEFINE new(i) == IF ~ok \/ users[i].email # q.email THEN users[i]
                       ELSE IF q.kind = "verify" THEN [users[i] EXCEPT !.verified = TRUE]
                       ELSE [users[i] EXCEPT !.pass = q.number]
  <2>1. ASSUME NEW i \in 1 .. Len(users) PROVE new(i) \in User
    <3>1. users[i] \in User
      BY <2>1 DEF TypeOK
    <3> QED
      BY <1>1, <3>1 DEF User
  <2>2. users' = [i \in 1 .. Len(users) |-> new(i)]
    BY <2>a DEF Rows
  <2> HIDE DEF new
  <2> QED
    BY <2>1, <2>2 DEF TypeOK
<1>4. CASE GoogleWrite(r)
  <2>1. q # NoReq
    BY <1>4 DEF GoogleWrite, At, NoReq
  <2>2. q.email \in Emails
    BY <2>1 DEF InHand
  <2> DEFINE e == q.email
             i == q.row
             fresh == [name |-> e, email |-> e, pass |-> 0, verified |-> TRUE, google |-> e]
             linked == [users EXCEPT ![i].google = e, ![i].verified = TRUE]
  <2>3. fresh \in User
    BY <2>2, AccountsAssumption DEF User, Numbers
  <2>4. linked \in Seq(User)
    <3>1. CASE i \in 1 .. Len(users)
      <4>1. users[i] \in User
        BY <3>1 DEF TypeOK
      <4>2. [users[i] EXCEPT !.google = e, !.verified = TRUE] \in User
        BY <2>2, <4>1 DEF User
      <4>3. linked = [users EXCEPT ![i] = [users[i] EXCEPT !.google = e, !.verified = TRUE]]
        BY <3>1 DEF TypeOK
      <4>4. [users EXCEPT ![i] = [users[i] EXCEPT !.google = e, !.verified = TRUE]] \in Seq(User)
        BY <3>1, <4>2, ExceptSeq DEF TypeOK
      <4> QED
        BY <4>3, <4>4, Zenon
    <3>2. CASE i \notin 1 .. Len(users)
      <4>1. linked = users
        BY <3>2 DEF TypeOK
      <4> QED
        BY <4>1 DEF TypeOK
    <3> QED
      BY <3>1, <3>2
  <2>5. users' = users \/ users' = Append(users, fresh) \/ users' = linked
    BY <1>4 DEF GoogleWrite
  <2> HIDE DEF fresh, linked
  <2>6. Append(users, fresh) \in Seq(User)
    BY <2>3 DEF TypeOK
  <2> QED
    BY <2>4, <2>5, <2>6, Zenon DEF TypeOK
<1>5. CASE ~(RegisterWrite(r) \/ Apply(r) \/ GoogleWrite(r))
  <2>1. users' = users
    BY <1>5 DEF Serve, RegisterLook, Look, Clear, Insert, Check, Consume, GoogleLook
  <2> QED
    BY <2>1 DEF TypeOK
<1> QED
  BY <1>2, <1>3, <1>4, <1>5

LEMMA NextTypeOK == CodesInv /\ [Next]_vars => TypeOK'
<1> SUFFICES ASSUME CodesInv, [Next]_vars
             PROVE  TypeOK'
  OBVIOUS
<1> USE DEF CodesInv
<1>1. ASSUME NEW r \in Reqs, Arrive(r)
      PROVE  TypeOK'
  <2>1. /\ req' \in [Reqs -> Request] /\ started' = started + 1 /\ started < MaxReqs
        /\ UNCHANGED <<users, codes, answered, failed, expired, latest, proved>>
    BY <1>1, ArriveSets DEF Sets
  <2>2. started' \in Numbers
    BY <2>1, AccountsAssumption DEF TypeOK, Numbers
  <2> QED
    BY <2>1, <2>2 DEF TypeOK
<1>2. ASSUME NEW r \in Reqs, Serve(r)
      PROVE  TypeOK'
  <2>1. req' \in [Reqs -> Request] /\ started' = started
    BY <1>2, ServeGoesOn DEF GoesOn, Sets
  <2>2. users' \in Seq(User)
    BY <1>2, ServeTypesUsers
  <2>3. /\ codes' \subseteq Code /\ answered' \in [Numbers -> Numbers]
        /\ failed' \subseteq Numbers /\ expired' \subseteq Numbers
        /\ latest' \in [Emails \X Purposes -> Numbers] /\ proved' \subseteq Emails
    <3>1. req[r] \in Request
      BY DEF TypeOK
    <3>2. Purpose(r) \in Purposes
      BY DEF Purpose, Purposes
    <3>3. req[r].step # "none" => req[r].email \in Emails
      BY DEF InHand, NoReq
    <3>4. CASE Clear(r)
      BY <3>4 DEF Clear, Cleared, TypeOK
    <3>5. CASE Insert(r)
      <4>1. req[r].email \in Emails
        BY <3>3, <3>5 DEF Insert
      <4>2. req[r].number \in Numbers
        BY <3>1 DEF Request
      <4>3. [number |-> req[r].number, email |-> req[r].email, purpose |-> Purpose(r)] \in Code
        BY <3>2, <4>1, <4>2 DEF Code
      <4>4. latest' \in [Emails \X Purposes -> Numbers]
        BY <3>2, <3>5, <4>1, <4>2 DEF Insert, TypeOK
      <4> QED
        BY <3>5, <4>3, <4>4 DEF Insert, TypeOK
    <3>6. CASE Check(r)
      BY <3>6 DEF Check, codeVars, TypeOK, Code
    <3>7. CASE Consume(r)
      BY <3>1, <3>7 DEF Consume, Consumed, TypeOK, Request
    <3>8. CASE GoogleLook(r)
      BY <3>3, <3>8 DEF GoogleLook, At, codeVars, TypeOK
    <3>9. CASE RegisterLook(r) \/ RegisterWrite(r) \/ Look(r) \/ GoogleWrite(r)
      BY <3>9 DEF RegisterLook, RegisterWrite, Look, GoogleWrite, codeVars, TypeOK
    <3>10. CASE Apply(r)
      BY <3>1, <3>10 DEF Apply, TypeOK, Request
    <3> QED
      BY <1>2, <3>4, <3>5, <3>6, <3>7, <3>8, <3>9, <3>10 DEF Serve
  <2> QED
    BY <2>1, <2>2, <2>3 DEF TypeOK
<1>3. ASSUME NEW c \in codes, Expire(c)
      PROVE  TypeOK'
  BY <1>3 DEF Expire, TypeOK, Code
<1>4. CASE Quiet \/ UNCHANGED vars
  BY <1>4 DEF Quiet, vars, TypeOK
<1> QED
  BY <1>1, <1>2, <1>3, <1>4 DEF Next
-----------------------------------------------------------------------------
(* Codes.                                                                  *)

\* Only a request that is under way is served.
LEMMA ServeIsBusy ==
  ASSUME NEW r \in Reqs, Serve(r)
  PROVE  req[r] # NoReq
<1>1. CASE RegisterLook(r)
  BY <1>1 DEF RegisterLook, At, NoReq
<1>2. CASE RegisterWrite(r)
  BY <1>2 DEF RegisterWrite, At, NoReq
<1>3. CASE Look(r)
  BY <1>3 DEF Look, At, NoReq
<1>4. CASE Clear(r)
  BY <1>4 DEF Clear, NoReq
<1>5. CASE Insert(r)
  BY <1>5 DEF Insert, NoReq
<1>6. CASE Check(r)
  BY <1>6 DEF Check, At, NoReq
<1>7. CASE Consume(r)
  BY <1>7 DEF Consume, NoReq
<1>8. CASE Apply(r)
  BY <1>8 DEF Apply, NoReq
<1>9. CASE GoogleLook(r)
  BY <1>9 DEF GoogleLook, At, NoReq
<1>10. CASE GoogleWrite(r)
  BY <1>10 DEF GoogleWrite, At, NoReq
<1> QED
  BY <1>1, <1>2, <1>3, <1>4, <1>5, <1>6, <1>7, <1>8, <1>9, <1>10 DEF Serve

\* A request keeps its number, or gives it up, and no other gets it.
LEMMA ServeKeepsHand ==
  ASSUME TypeOK, InHand, NEW r \in Reqs, Serve(r)
  PROVE  InHand' /\ \A k : Made(k) => Made(k)'
<1>1. started' = started
  BY ServeGoesOn
<1>2. PICK q \in Request :
        /\ Sets(r, q)
        /\ \/ q = NoReq
           \/ /\ q.kind = req[r].kind /\ q.number = req[r].number /\ q.name = req[r].name
              /\ q.email = req[r].email /\ q.code = req[r].code /\ q.step # "none"
  BY ServeGoesOn DEF GoesOn
<1>3. req[r] # NoReq
  BY ServeIsBusy
<1>4. req'[r] = q /\ \A s \in Reqs \ {r} : req'[s] = req[s]
  BY <1>2 DEF Sets
<1>5. \A s \in Reqs : req'[s].number = req[s].number \/ req'[s].number = 0
  BY <1>2, <1>4 DEF NoReq
<1>6. \A s \in Reqs : req'[s] # NoReq =>
        req[s] # NoReq /\ req'[s].number = req[s].number /\ req'[s].email = req[s].email /\ req'[s].name = req[s].name
  BY <1>2, <1>3, <1>4
<1>7. InHand'
  BY <1>1, <1>5, <1>6 DEF InHand
<1>8. \A k : Made(k) => Made(k)'
  BY <1>1, <1>5 DEF Made
<1> QED
  BY <1>7, <1>8

LEMMA ArriveKeepsHand ==
  ASSUME TypeOK, InHand, NEW r \in Reqs, Arrive(r)
  PROVE  InHand' /\ \A k : Made(k) => Made(k)'
<1>1. PICK q \in Request :
           /\ Sets(r, q) /\ req[r] = NoReq
           /\ q.step \in {"look", "check"}
           /\ q.number = started + 1 /\ started' = started + 1
           /\ q.email \in Emails /\ q.name \in Names \cup Emails
  BY ArriveSets
<1>2. started \in Nat
  BY DEF TypeOK, Numbers
<1>3. req'[r] = q /\ \A s \in Reqs \ {r} : req'[s] = req[s]
  BY <1>1 DEF Sets
<1>4. \A s \in Reqs : req[s].number \in 0 .. started
  BY <1>2 DEF InHand, NoReq
<1>5. InHand'
  <2> SUFFICES ASSUME NEW s \in Reqs, req'[s] # NoReq
               PROVE  /\ req'[s].email \in Emails
                      /\ req'[s].name \in Names \cup Emails
                      /\ req'[s].number \in 1 .. started'
                      /\ \A s2 \in Reqs \ {s} : req'[s2].number # req'[s].number
    BY DEF InHand
  <2>1. CASE s = r
    BY <1>1, <1>2, <1>3, <1>4, <2>1
  <2>2. CASE s # r
    BY <1>1, <1>2, <1>3, <1>4, <2>2 DEF InHand
  <2> QED
    BY <2>1, <2>2
<1>6. \A k : Made(k) => Made(k)'
  BY <1>1, <1>2, <1>3 DEF Made
<1> QED
  BY <1>5, <1>6

\* The part of CodesMade about requests that have accepted a code.
Accepted(r) == req[r].step \in {"consume", "apply"} =>
                 Made(req[r].code) /\ req[r].kind \in {"verify", "reset"}

\* A request comes to its DELETE by finding the code, and then to what it asks for.
LEMMA AcceptedBy ==
  ASSUME CodesInv, NEW r \in Reqs, Serve(r), req'[r].step \in {"consume", "apply"}
  PROVE  \/ /\ Check(r) /\ req'[r].step = "consume"
            /\ \E c \in codes : c.number = req[r].code
         \/ Consume(r) /\ req'[r].step = "apply"
<1> USE DEF CodesInv
<1>1. ~Finish(r)
  BY FinishGoesOn DEF NoReq
<1>2. ASSUME NEW step \in Steps \ {"none"}, Goto(r, step) \/ \E i \in Nat : GotoWith(r, step, i)
      PROVE  step \in {"consume", "apply"} /\ req'[r].step = step
  BY <1>2, GotoGoesOn
<1>3. \A i \in Rows \cup {0} : i \in Nat
  BY DEF Rows, TypeOK
<1>4. ~RegisterLook(r) /\ ~GoogleLook(r)
  <2> SUFFICES ASSUME RegisterLook(r) \/ GoogleLook(r) PROVE FALSE
    OBVIOUS
  <2>1. \E i \in Rows \cup {0} : GotoWith(r, "write", i)
    BY <1>1 DEF RegisterLook, Found, GoogleLook
  <2> QED
    BY <1>2, <1>3, <2>1 DEF Steps
<1>5. ~RegisterWrite(r) /\ ~Look(r) /\ ~Clear(r) /\ ~Insert(r) /\ ~Apply(r) /\ ~GoogleWrite(r)
  BY <1>1, <1>2 DEF RegisterWrite, Look, Clear, Insert, Apply, GoogleWrite, Steps
<1>6. CASE Check(r)
  <2>1. PICK c \in codes : Matches(c, r) /\ Goto(r, "consume")
    BY <1>1, <1>6 DEF Check
  <2>2. c.number = req[r].code /\ req'[r].step = "consume"
    BY <1>2, <2>1 DEF Matches, Steps
  <2> QED
    BY <1>6, <2>2
<1>7. CASE Consume(r)
  BY <1>2, <1>7 DEF Consume, Steps
<1> QED
  BY <1>4, <1>5, <1>6, <1>7 DEF Serve

LEMMA ServeKeepsAccepted ==
  ASSUME CodesInv, NEW r \in Reqs, Serve(r)
  PROVE  \A s \in Reqs : Accepted(s)'
<1> USE DEF CodesInv
<1>1. \A k : Made(k) => Made(k)'
  BY ServeKeepsHand
<1>2. PICK q \in Request :
        /\ Sets(r, q)
        /\ q = NoReq \/ (q.kind = req[r].kind /\ q.code = req[r].code)
  BY ServeGoesOn DEF GoesOn
<1>3. req'[r] = q /\ \A s \in Reqs \ {r} : req'[s] = req[s]
  BY <1>2 DEF Sets
<1>4. ASSUME NEW s \in Reqs \ {r} PROVE Accepted(s)'
  BY <1>1, <1>3 DEF Accepted, CodesMade
<1>5. Accepted(r)'
  <2>1. CASE req'[r].step \notin {"consume", "apply"}
    BY <2>1 DEF Accepted
  <2>2. CASE req'[r].step \in {"consume", "apply"}
    <3>1. q # NoReq
      BY <1>3, <2>2 DEF NoReq
    <3>2. Made(req[r].code) /\ req[r].kind \in {"verify", "reset"}
      <4>1. CASE Check(r) /\ \E c \in codes : c.number = req[r].code
        BY <4>1 DEF CodesMade, Check, At
      <4>2. CASE Consume(r)
        BY <4>2 DEF Consume, CodesMade
      <4> QED
        BY <2>2, <4>1, <4>2, AcceptedBy
    <3>3. req'[r].code = req[r].code /\ req'[r].kind = req[r].kind
      BY <1>2, <1>3, <3>1
    <3>4. req'[r].code \in 1 .. started' /\ \A s \in Reqs : req'[s].number # req'[r].code
      BY <3>2, <3>3, <1>1 DEF Made
    <3> QED
      BY <3>2, <3>3, <3>4 DEF Accepted, Made
  <2> QED
    BY <2>1, <2>2
<1> QED
  BY <1>4, <1>5

\* What a step does to the codes, and to what is remembered of them.
LEMMA ServeCodes ==
  ASSUME CodesInv, NEW r \in Reqs, Serve(r)
  PROVE  /\ failed \subseteq failed' /\ expired' = expired
         /\ \A c \in codes' : c \in codes \/ (Insert(r) /\ c.number = req[r].number)
         /\ \A k \in Numbers : \/ answered'[k] = answered[k]
                               \/ Apply(r) /\ k = req[r].code /\ answered'[k] = started
         /\ \A k \in Numbers : answered[k] # 0 => answered'[k] = answered[k]
<1> USE DEF CodesInv
<1>1. answered \in [Numbers -> Numbers]
  BY DEF TypeOK
<1>2. CASE Insert(r)
  BY <1>2 DEF Insert
<1>3. CASE Clear(r) \/ Consume(r)
  BY <1>3 DEF Clear, Cleared, Consume, Consumed
<1>4. CASE Apply(r)
  <2>1. answered' = [answered EXCEPT ![req[r].code] = IF answered[req[r].code] = 0 THEN started
                                                      ELSE answered[req[r].code]]
    BY <1>4 DEF Apply
  <2>2. UNCHANGED <<codes, failed, expired>>
    BY <1>4 DEF Apply
  <2> QED
    BY <1>1, <1>4, <2>1, <2>2
<1>5. CASE ~(Insert(r) \/ Clear(r) \/ Consume(r) \/ Apply(r))
  BY <1>5 DEF Serve, RegisterLook, RegisterWrite, Look, Check, GoogleLook, GoogleWrite, codeVars
<1> QED
  BY <1>2, <1>3, <1>4, <1>5

LEMMA ServeKeepsCodes ==
  ASSUME CodesInv, NEW r \in Reqs, Serve(r)
  PROVE  (CodesMade /\ UsedIsGone /\ UsedTogether)'
<1> USE DEF CodesInv
<1>1. \A k : Made(k) => Made(k)'
  BY ServeKeepsHand
<1>2. \A s \in Reqs : Accepted(s)'
  BY ServeKeepsAccepted
<1>3. PICK q \in Request :
        /\ Sets(r, q)
        /\ q = NoReq \/ (q.number = req[r].number /\ q.code = req[r].code)
  BY ServeGoesOn DEF GoesOn
<1>4. req'[r] = q /\ \A s \in Reqs \ {r} : req'[s] = req[s]
  BY <1>3 DEF Sets
<1>5. \A k : Made(k) /\ NotThere(k) => NotThere(k)'
  BY ServeCodes DEF Made, NotThere
<1>6. \A c \in codes' : Made(c.number)'
  <2>1. ASSUME Insert(r), NEW k, k = req[r].number
        PROVE  Made(k)'
    <3>1. req[r] # NoReq
      BY <2>1 DEF Insert, NoReq
    <3>2. req'[r] = NoReq /\ started' = started
      BY <2>1, FinishSets DEF Insert, Sets
    <3> QED
      BY <2>1, <3>1, <3>2, <1>4 DEF Made, InHand, NoReq
  <2> QED
    BY <1>1, <2>1, ServeCodes DEF CodesMade
<1>7. \A k \in Numbers : answered'[k] # 0 => Made(k) /\ Made(k)'
  <2>1. Apply(r) => Made(req[r].code)
    BY DEF Apply, CodesMade
  <2> QED
    BY <1>1, <2>1, ServeCodes DEF CodesMade
<1>8. CodesMade'
  BY <1>2, <1>6, <1>7 DEF CodesMade, Accepted
<1>9. ASSUME NEW k \in Numbers, NEW s \in Reqs, req'[s].step = "apply", req'[s].code = k,
             k \notin failed'
      PROVE  NotThere(k)'
  <2>1. k \notin failed
    BY <1>9, ServeCodes
  <2>2. CASE s # r
    <3>1. req'[s] = req[s]
      BY <1>4, <2>2
    <3>2. Made(k) /\ NotThere(k)
      BY <1>9, <2>1, <3>1 DEF UsedIsGone, CodesMade
    <3> QED
      BY <1>5, <3>2
  <2>3. CASE s = r
    <3>1. Consume(r) /\ req[r].code = k
      BY <1>3, <1>4, <1>9, <2>3, AcceptedBy DEF NoReq
    <3>2. codes' = Consumed(k)
      BY <1>9, <2>1, <3>1 DEF Consume
    <3> QED
      BY <3>2 DEF Consumed, NotThere
  <2> QED
    BY <2>2, <2>3
<1>10. ASSUME NEW k \in Numbers, answered'[k] # 0, k \notin failed'
       PROVE  NotThere(k)'
  <2>1. k \notin failed
    BY <1>10, ServeCodes
  <2>2. Made(k)
    BY <1>7, <1>10
  <2>3. NotThere(k)
    <3>1. CASE answered[k] # 0
      BY <2>1, <3>1 DEF UsedIsGone
    <3>2. CASE answered[k] = 0
      <4>1. Apply(r) /\ k = req[r].code
        BY <1>10, <3>2, ServeCodes
      <4> QED
        BY <2>1, <4>1 DEF Apply, UsedIsGone
    <3> QED
      BY <3>1, <3>2
  <2> QED
    BY <1>5, <2>2, <2>3
<1>11. UsedIsGone'
  BY <1>9, <1>10 DEF UsedIsGone
<1>12. ASSUME NEW s \in Reqs, req'[s].step \in {"consume", "apply"},
              answered'[req'[s].code] # 0, req'[s].code \notin failed'
       PROVE  req'[s].number <= answered'[req'[s].code]
  <2>1. PICK k : k = req'[s].code
    OBVIOUS
  <2>2. k \in Numbers
    <3>1. req'[s] \in Request
      BY <1>3 DEF Sets
    <3> QED
      BY <2>1, <3>1 DEF Request
  <2>3. k \notin failed
    BY <1>12, <2>1, ServeCodes
  <2>4. req[s] # NoReq /\ req'[s].number = req[s].number /\ req[s].code = k
    <3>1. CASE s = r
      BY <1>3, <1>4, <1>12, <2>1, <3>1, ServeIsBusy DEF NoReq
    <3>2. CASE s # r
      BY <1>4, <1>12, <2>1, <3>2 DEF NoReq
    <3> QED
      BY <3>1, <3>2
  <2>5. req[s].number \in 1 .. started /\ started \in Nat
    BY <2>4 DEF InHand, TypeOK, Numbers
  <2>6. CASE answered[k] = 0
    <3>1. answered'[k] = started
      BY <1>12, <2>1, <2>2, <2>6, ServeCodes
    <3> QED
      BY <2>1, <2>4, <2>5, <3>1
  <2>7. CASE answered[k] # 0
    <3>1. answered'[k] = answered[k]
      BY <2>2, <2>7, ServeCodes
    <3>2. req[s].step \in {"consume", "apply"}
      <4>1. CASE s # r
        BY <1>4, <1>12, <4>1
      <4>2. CASE s = r
        <5>1. NotThere(k)
          BY <2>2, <2>3, <2>7 DEF UsedIsGone
        <5>2. Consume(r)
          BY <1>12, <2>4, <4>2, <5>1, AcceptedBy DEF NotThere
        <5> QED
          BY <4>2, <5>2 DEF Consume
      <4> QED
        BY <4>1, <4>2
    <3>3. req[s].number <= answered[k]
      BY <2>3, <2>4, <2>7, <3>2 DEF UsedTogether
    <3> QED
      BY <2>1, <2>4, <3>1, <3>3
  <2> QED
    BY <2>6, <2>7
<1>13. UsedTogether'
  BY <1>12 DEF UsedTogether
<1> QED
  BY <1>8, <1>11, <1>13

LEMMA ServeKeepsLatest ==
  ASSUME CodesInv, NEW r \in Reqs, Serve(r)
  PROVE  LatestKept'
<1> USE DEF CodesInv
<1> DEFINE About(s, e, p) == req[s].step = "insert" /\ req[s].email = e /\ Purpose(s) = p
           Uses(s, k) == req[s].step = "apply" /\ req[s].code = k
<1>1. PICK q \in Request :
        /\ Sets(r, q)
        /\ q = NoReq \/ (q.kind = req[r].kind /\ q.email = req[r].email /\ q.code = req[r].code)
  BY ServeGoesOn DEF GoesOn
<1>2. req'[r] = q /\ \A s \in Reqs \ {r} : req'[s] = req[s]
  BY <1>1 DEF Sets
<1>3. ASSUME NEW e, NEW p, NEW s \in Reqs \ {r}, About(s, e, p)
      PROVE  About(s, e, p)'
  BY <1>2, <1>3 DEF Purpose
<1>b. ASSUME NEW k, NEW s \in Reqs \ {r}, Uses(s, k)
      PROVE  Uses(s, k)'
  BY <1>2, <1>b
<1> DEFINE Kept(e, p, k) ==
      \/ k = 0 \/ answered[k] # 0 \/ k \in expired \/ k \in failed
      \/ \E c \in codes : c.email = e /\ c.purpose = p /\ c.number = k
      \/ \E s \in Reqs : About(s, e, p)
      \/ \E s \in Reqs : Uses(s, k)
<1> SUFFICES ASSUME NEW e \in Emails, NEW p \in Purposes, NEW l \in Numbers, latest'[<<e, p>>] = l
             PROVE  Kept(e, p, l)'
  BY DEF LatestKept
<1>d. PICK k \in Numbers : latest[<<e, p>>] = k
  BY DEF TypeOK
<1>a. Kept(e, p, k)
  BY <1>d DEF LatestKept
<1>c. /\ failed \subseteq failed' /\ expired' = expired
      /\ answered[k] # 0 => answered'[k] # 0
  BY <1>a, ServeCodes
<1>4. CASE Insert(r)
  <2> DEFINE new == [number |-> req[r].number, email |-> req[r].email, purpose |-> Purpose(r)]
  <2>1. codes' = codes \cup {new} \/ (codes' = codes /\ failed' = failed \cup {req[r].number})
    BY <1>4 DEF Insert
  <2>2. latest'[<<e, p>>] =
          IF <<e, p>> = <<req[r].email, Purpose(r)>> THEN req[r].number ELSE latest[<<e, p>>]
    BY <1>4 DEF Insert, TypeOK
  <2>3. new.number = req[r].number /\ new.email = req[r].email /\ new.purpose = Purpose(r)
    OBVIOUS
  <2> HIDE DEF new
  <2>4. CASE e = req[r].email /\ p = Purpose(r)
    BY <2>1, <2>2, <2>3, <2>4
  <2>5. CASE ~(e = req[r].email /\ p = Purpose(r))
    <3>1. l = k
      BY <1>d, <2>2, <2>5
    <3>2. ~About(r, e, p) /\ ~Uses(r, k)
      BY <1>4, <2>5 DEF Insert
    <3>3. /\ (\E s \in Reqs : About(s, e, p)) => \E s \in Reqs : About(s, e, p)'
          /\ (\E s \in Reqs : Uses(s, k)) => \E s \in Reqs : Uses(s, k)'
      BY <1>3, <1>b, <3>2
    <3>4. codes \subseteq codes'
      BY <2>1
    <3> HIDE DEF About, Uses
    <3> QED
      BY <1>a, <1>c, <3>1, <3>3, <3>4
  <2> QED
    BY <2>4, <2>5
<1>5. CASE ~Insert(r)
  <2>1. req[r].step # "insert"
    BY <1>5 DEF Serve, RegisterLook, RegisterWrite, Look, Clear, Check, Consume, Apply, GoogleLook, GoogleWrite, At
  <2>2. (\E s \in Reqs : About(s, e, p)) => \E s \in Reqs : About(s, e, p)'
    BY <1>3, <2>1
  <2>3. l = k
    BY <1>d, <1>5 DEF Serve, RegisterLook, RegisterWrite, Look, Clear, Check, Consume, Apply, GoogleLook, GoogleWrite, codeVars
  <2>4. CASE Clear(r)
    <3>1. codes' = codes \/ codes' = Cleared(req[r].email, Purpose(r))
      BY <2>4 DEF Clear
    <3>2. q # NoReq /\ q.step = "insert"
      BY <2>4, <1>2, GotoGoesOn DEF Clear, Steps, NoReq
    <3>3. e = req[r].email /\ p = Purpose(r) => About(r, e, p)'
      BY <1>1, <1>2, <3>2 DEF Purpose
    <3>4. (\E s \in Reqs : Uses(s, k)) => \E s \in Reqs : Uses(s, k)'
      BY <1>b, <2>4 DEF Clear
    <3> HIDE DEF About, Uses
    <3>5. CASE e = req[r].email /\ p = Purpose(r)
      BY <3>3, <3>5
    <3>6. CASE ~(e = req[r].email /\ p = Purpose(r))
      BY <1>a, <1>c, <2>2, <2>3, <3>1, <3>4, <3>6 DEF Cleared
    <3> QED
      BY <3>5, <3>6
  <2>5. CASE Consume(r)
    <3>1. codes' = codes \/ codes' = Consumed(req[r].code)
      BY <2>5 DEF Consume
    <3>2. q # NoReq /\ q.step = "apply"
      BY <2>5, <1>2, GotoGoesOn DEF Consume, Steps, NoReq
    <3>3. k = req[r].code => Uses(r, k)'
      BY <1>1, <1>2, <3>2
    <3>4. (\E s \in Reqs : Uses(s, k)) => \E s \in Reqs : Uses(s, k)'
      BY <1>b, <2>5 DEF Consume
    <3>5. k # req[r].code /\ codes' = Consumed(req[r].code) =>
            \A c \in codes : c.number = k => c \in codes'
      BY DEF Consumed
    <3> HIDE DEF About, Uses
    <3>6. CASE k = req[r].code
      BY <2>3, <3>3, <3>6
    <3>7. CASE k # req[r].code
      BY <1>a, <1>c, <2>2, <2>3, <3>1, <3>4, <3>5, <3>7
    <3> QED
      BY <3>6, <3>7
  <2>6. CASE Apply(r)
    <3>1. codes' = codes
      BY <2>6 DEF Apply
    <3>2. Uses(r, k) => answered'[k] # 0
      <4> SUFFICES ASSUME Uses(r, k) PROVE answered'[k] # 0
        OBVIOUS
      <4>1. answered'[k] = IF answered[k] = 0 THEN started ELSE answered[k]
        BY <1>a, <2>6 DEF Apply, TypeOK
      <4>2. started \in Nat \ {0}
        BY <2>6, ServeIsBusy DEF InHand, TypeOK, Numbers
      <4> QED
        BY <4>1, <4>2
    <3>3. (\E s \in Reqs : Uses(s, k)) => Uses(r, k) \/ \E s \in Reqs : Uses(s, k)'
      BY <1>b
    <3> HIDE DEF About, Uses
    <3> QED
      BY <1>a, <1>c, <2>2, <2>3, <3>1, <3>2, <3>3
  <2>7. CASE ~(Clear(r) \/ Consume(r) \/ Apply(r))
    <3>1. codes' = codes
      BY <1>5, <2>7 DEF Serve, RegisterLook, RegisterWrite, Look, Check, GoogleLook, GoogleWrite, codeVars
    <3>2. ~Uses(r, k)
      BY <1>5, <2>7 DEF Serve, RegisterLook, RegisterWrite, Look, Check, GoogleLook, GoogleWrite, At
    <3>3. (\E s \in Reqs : Uses(s, k)) => \E s \in Reqs : Uses(s, k)'
      BY <1>b, <3>2
    <3> HIDE DEF About, Uses
    <3> QED
      BY <1>a, <1>c, <2>2, <2>3, <3>1, <3>3
  <2> QED
    BY <2>4, <2>5, <2>6, <2>7
<1> QED
  BY <1>4, <1>5

LEMMA ElseKeepsLatest ==
  ASSUME LatestKept, UNCHANGED <<codes, answered, failed, latest>>, expired \subseteq expired',
         \A s \in Reqs : req'[s] = req[s] \/ req[s] = NoReq
  PROVE  LatestKept'
<1> DEFINE About(s, e, p) == req[s].step = "insert" /\ req[s].email = e /\ Purpose(s) = p
           Uses(s, k) == req[s].step = "apply" /\ req[s].code = k
<1>1. ASSUME NEW s \in Reqs, NEW e, NEW p, About(s, e, p)
      PROVE  About(s, e, p)'
  BY <1>1 DEF Purpose, NoReq
<1>2. ASSUME NEW s \in Reqs, NEW k, Uses(s, k)
      PROVE  Uses(s, k)'
  BY <1>2 DEF NoReq
<1> SUFFICES ASSUME NEW e \in Emails, NEW p \in Purposes, NEW k \in Numbers, latest[<<e, p>>] = k
             PROVE  \/ k = 0 \/ answered[k] # 0 \/ k \in expired' \/ k \in failed
                    \/ \E c \in codes : c.email = e /\ c.purpose = p /\ c.number = k
                    \/ \E s \in Reqs : About(s, e, p)'
                    \/ \E s \in Reqs : Uses(s, k)'
  BY DEF LatestKept
<1>3. \/ k = 0 \/ answered[k] # 0 \/ k \in expired \/ k \in failed
      \/ \E c \in codes : c.email = e /\ c.purpose = p /\ c.number = k
      \/ \E s \in Reqs : About(s, e, p)
      \/ \E s \in Reqs : Uses(s, k)
  BY DEF LatestKept
<1> HIDE DEF About, Uses
<1> QED
  BY <1>1, <1>2, <1>3

LEMMA NextCodes == CodesInv /\ [Next]_vars => CodesInv'
<1> SUFFICES ASSUME CodesInv, [Next]_vars
             PROVE  CodesInv'
  OBVIOUS
<1>1. TypeOK'
  BY NextTypeOK
<1>2. ASSUME NEW r \in Reqs, Arrive(r)
      PROVE  (InHand /\ CodesMade /\ UsedIsGone /\ UsedTogether /\ LatestKept)'
  <2>1. InHand' /\ \A k : Made(k) => Made(k)'
    BY <1>2, ArriveKeepsHand DEF CodesInv
  <2>2. PICK q \in Request :
           /\ Sets(r, q) /\ req[r] = NoReq /\ q.step \in {"look", "check"}
           /\ UNCHANGED <<users, codes, answered, failed, expired, latest, proved>>
    BY <1>2, ArriveSets DEF CodesInv
  <2>3. req'[r] = q /\ \A s \in Reqs \ {r} : req'[s] = req[s]
    BY <2>2 DEF Sets
  <2>4. \A s \in Reqs : req'[s].step \notin {"look", "check"} => req'[s] = req[s]
    BY <2>2, <2>3
  <2>5. \A c \in codes' : Made(c.number)'
    BY <2>1, <2>2 DEF CodesInv, CodesMade
  <2>6. \A k \in Numbers : answered'[k] # 0 => Made(k)'
    BY <2>1, <2>2 DEF CodesInv, CodesMade
  <2>7. ASSUME NEW s \in Reqs, req'[s].step \in {"consume", "apply"}
        PROVE  /\ req'[s].code \in 1 .. started' /\ \A s2 \in Reqs : req'[s2].number # req'[s].code
               /\ req'[s].kind \in {"verify", "reset"}
    <3>1. req'[s] = req[s]
      BY <2>4, <2>7
    <3>2. Made(req[s].code) /\ req[s].kind \in {"verify", "reset"}
      BY <2>7, <3>1 DEF CodesInv, CodesMade
    <3> QED
      BY <2>1, <3>1, <3>2 DEF Made
  <2>8. LatestKept'
    BY <2>2, <2>3, ElseKeepsLatest DEF CodesInv
  <2>9. CodesMade'
    BY <2>5, <2>6, <2>7 DEF CodesMade, Made
  <2>10. UsedIsGone'
    BY <2>2, <2>4 DEF CodesInv, UsedIsGone, NotThere
  <2>11. UsedTogether'
    BY <2>2, <2>4 DEF CodesInv, UsedTogether
  <2> QED
    BY <2>1, <2>8, <2>9, <2>10, <2>11
<1>3. ASSUME NEW r \in Reqs, Serve(r)
      PROVE  (InHand /\ CodesMade /\ UsedIsGone /\ UsedTogether /\ LatestKept)'
  BY <1>3, ServeKeepsHand, ServeKeepsCodes, ServeKeepsLatest DEF CodesInv
<1>4. ASSUME NEW c \in codes, Expire(c)
      PROVE  (InHand /\ CodesMade /\ UsedIsGone /\ UsedTogether /\ LatestKept)'
  <2>1. UNCHANGED <<users, codes, req, started, answered, failed, latest, proved>> /\ expired \subseteq expired'
    BY <1>4 DEF Expire
  <2>2. (InHand /\ CodesMade /\ UsedIsGone /\ UsedTogether)'
    BY <2>1 DEF CodesInv, InHand, CodesMade, Made, UsedIsGone, NotThere, UsedTogether
  <2>3. LatestKept'
    BY <2>1, ElseKeepsLatest DEF CodesInv
  <2> QED
    BY <2>2, <2>3
<1>5. CASE Quiet \/ UNCHANGED vars
  <2>1. UNCHANGED <<users, codes, req, started, answered, failed, expired, latest, proved>>
    BY <1>5 DEF Quiet, vars
  <2>2. (InHand /\ CodesMade /\ UsedIsGone /\ UsedTogether)'
    BY <2>1 DEF CodesInv, InHand, CodesMade, Made, UsedIsGone, NotThere, UsedTogether
  <2>3. LatestKept'
    BY <2>1, ElseKeepsLatest DEF CodesInv
  <2> QED
    BY <1>1, <2>2, <2>3 DEF CodesInv
<1> QED
  BY <1>1, <1>2, <1>3, <1>4, <1>5 DEF CodesInv, Next

\* Accounts, codes and requests keep their types, however requests overlap.
THEOREM AccountsTypeCorrect == Spec => []TypeOK
BY InitCodes, NextCodes, PTL DEF Spec, CodesInv

\* Requests that were accepted with the same code overlapped, unless the DELETE of the
\* code failed: whoever comes when one of them has been answered is refused.
THEOREM CodesUsedTogether == Spec => []UsedTogether
BY InitCodes, NextCodes, PTL DEF Spec, CodesInv

LEMMA KeptWorks == CodesInv => LatestWorks
<1>1. Idle => \A r \in Reqs : req[r].step \notin {"insert", "apply"}
  BY DEF Idle, NoReq
<1> QED
  <2> SUFFICES ASSUME CodesInv, Idle, NEW e \in Emails, NEW p \in Purposes
               PROVE  LET k == latest[<<e, p>>]
                      IN \/ k = 0 \/ answered[k] # 0 \/ k \in expired \/ k \in failed
                         \/ \E c \in codes : c.email = e /\ c.purpose = p /\ c.number = k
    BY DEF LatestWorks
  <2>1. PICK k \in Numbers : latest[<<e, p>>] = k
    BY DEF CodesInv, TypeOK
  <2> QED
    BY <1>1, <2>1 DEF CodesInv, LatestKept

\* The last code that was mailed works if it was stored, whatever requests overlapped
\* then, and whatever statements failed.
THEOREM LastCodeWorks == Spec => []LatestWorks
BY InitCodes, NextCodes, KeptWorks, PTL DEF Spec
-----------------------------------------------------------------------------
(* Confirmation, while no request overlaps a registration.                 *)

Alone == \A r, s \in Reqs : r # s /\ req[r].kind = "register" => req[s] = NoReq

\* What a request has read of the rows still holds.
HandHolds(r) ==
  /\ req[r].step \in {"consume", "apply"} => req[r].email \in proved
  /\ At(r, {"google"}, "write") =>
       /\ req[r].email \in proved
       /\ (req[r].row # 0 => req[r].row \in Rows /\ users[req[r].row].email = req[r].email)
  /\ At(r, {"register"}, "write") =>
       (req[r].row # 0 => req[r].row \in Rows /\ ~users[req[r].row].verified)

ConfirmInv == CodesInv /\ Alone /\ VerifiedIsProved /\ \A r \in Reqs : HandHolds(r)

\* What a request may do to the rows: no row of a confirmed account gets another name or address.
RowsKept(r) ==
  /\ \A i \in Rows : i \in Rows' /\ (req[r].kind # "register" => users'[i].email = users[i].email)
  /\ \A i \in Rows : users[i].verified =>
       /\ users'[i].verified
       /\ users'[i].name = users[i].name /\ users'[i].email = users[i].email
       /\ users'[i].pass = users[i].pass \/ Resetting(users[i].email)
  /\ \A i \in Rows' : users'[i].verified => users'[i].email \in proved

LEMMA ServeRows ==
  ASSUME ConfirmInv, NEW r \in Reqs, Serve(r)
  PROVE  RowsKept(r)
<1> DEFINE q == req[r]
<1> USE DEF ConfirmInv, CodesInv
<1>1. users \in Seq(User) /\ \A i \in Rows : users[i] \in User
  BY DEF TypeOK, Rows
<1>2. \A i \in Rows : users[i].verified => users[i].email \in proved
  BY DEF VerifiedIsProved
<1>3. CASE RegisterWrite(r)
  <2> DEFINE fresh == [name |-> q.name, email |-> q.email, pass |-> q.number, verified |-> FALSE,
                       google |-> None]
             renewed == [users EXCEPT ![q.row].name = q.name, ![q.row].email = q.email,
                                      ![q.row].pass = q.number]
  <2>1. q.kind = "register" /\ (q.row # 0 => q.row \in Rows /\ ~users[q.row].verified)
    BY <1>3 DEF RegisterWrite, HandHolds, At
  <2>2. \/ users' = users
        \/ q.row = 0 /\ users' = Append(users, fresh)
        \/ q.row # 0 /\ users' = renewed
    BY <1>3 DEF RegisterWrite
  <2>3. CASE users' = users
    BY <1>2, <2>1, <2>3 DEF RowsKept, Rows
  <2>4. CASE users' = Append(users, fresh)
    <3>1. \A i \in Rows : i \in Rows' /\ users'[i] = users[i]
      BY <1>1, <2>4 DEF Rows
    <3>2. \A i \in Rows' : i \in Rows \/ users'[i] = fresh
      BY <1>1, <2>4 DEF Rows
    <3> QED
      BY <1>2, <2>1, <3>1, <3>2 DEF RowsKept
  <2>5. CASE q.row # 0 /\ users' = renewed
    <3>1. q.row \in Rows /\ ~users[q.row].verified
      BY <2>1, <2>5
    <3>2. Rows' = Rows
      BY <1>1, <2>5 DEF Rows
    <3>3. \A i \in Rows \ {q.row} : users'[i] = users[i]
      BY <1>1, <2>5 DEF Rows
    <3>4. ~users'[q.row].verified
      BY <1>1, <2>5, <3>1 DEF Rows, User
    <3> QED
      BY <1>2, <2>1, <3>1, <3>2, <3>3, <3>4 DEF RowsKept
  <2> QED
    BY <2>2, <2>3, <2>4, <2>5
<1>4. CASE Apply(r)
  <2>1. q.step = "apply" /\ q.email \in proved /\ q.kind \in {"verify", "reset"}
    BY <1>4 DEF Apply, HandHolds, CodesMade
  <2>2. Rows' = Rows
    BY <1>1, <1>4 DEF Apply, Rows
  <2>3. ASSUME NEW i \in Rows
        PROVE  \/ users'[i] = users[i]
               \/ /\ users[i].email = q.email
                  /\ users'[i] = IF q.kind = "verify" THEN [users[i] EXCEPT !.verified = TRUE]
                                 ELSE [users[i] EXCEPT !.pass = q.number]
    BY <1>4, <2>3 DEF Apply
  <2>4. ASSUME NEW i \in Rows
        PROVE  /\ users'[i].email = users[i].email /\ users'[i].name = users[i].name
               /\ users[i].verified => users'[i].verified
               /\ users'[i].verified => users[i].verified \/ users[i].email = q.email
               /\ users'[i].pass = users[i].pass \/ (q.kind = "reset" /\ users[i].email = q.email)
    BY <1>1, <2>1, <2>3 DEF User
  <2>5. \A e : q.kind = "reset" /\ e = q.email => Resetting(e)
    BY <2>1 DEF Resetting, At
  <2> QED
    BY <1>2, <2>1, <2>2, <2>4, <2>5 DEF RowsKept
<1>5. CASE GoogleWrite(r)
  <2> DEFINE e == q.email
             fresh == [name |-> e, email |-> e, pass |-> 0, verified |-> TRUE, google |-> e]
             linked == [users EXCEPT ![q.row].google = e, ![q.row].verified = TRUE]
  <2>1. e \in proved /\ (q.row # 0 => q.row \in Rows /\ users[q.row].email = e)
    BY <1>5 DEF GoogleWrite, HandHolds
  <2>2. \/ users' = users
        \/ users' = Append(users, fresh)
        \/ q.row # 0 /\ users' = linked
    BY <1>5 DEF GoogleWrite
  <2>3. CASE users' = users
    BY <1>2, <2>1, <2>3 DEF RowsKept, Rows
  <2>4. CASE users' = Append(users, fresh)
    <3>1. \A i \in Rows : i \in Rows' /\ users'[i] = users[i]
      BY <1>1, <2>4 DEF Rows
    <3>2. \A i \in Rows' : i \in Rows \/ users'[i] = fresh
      BY <1>1, <2>4 DEF Rows
    <3> QED
      BY <1>2, <2>1, <3>1, <3>2 DEF RowsKept
  <2>5. CASE q.row # 0 /\ users' = linked
    <3>1. q.row \in Rows /\ users[q.row].email = e
      BY <2>1, <2>5
    <3>2. Rows' = Rows
      BY <1>1, <2>5 DEF Rows
    <3>3. \A i \in Rows \ {q.row} : users'[i] = users[i]
      BY <1>1, <2>5 DEF Rows
    <3>4. /\ users'[q.row].email = e /\ users'[q.row].name = users[q.row].name
          /\ users'[q.row].pass = users[q.row].pass /\ users'[q.row].verified
      BY <1>1, <2>5, <3>1 DEF Rows, User
    <3> QED
      BY <1>2, <2>1, <3>1, <3>2, <3>3, <3>4 DEF RowsKept
  <2> QED
    BY <2>2, <2>3, <2>4, <2>5
<1>6. CASE ~(RegisterWrite(r) \/ Apply(r) \/ GoogleWrite(r))
  <2>1. users' = users
    BY <1>6 DEF Serve, RegisterLook, Look, Clear, Insert, Check, Consume, GoogleLook
  <2> QED
    BY <1>2, <2>1 DEF RowsKept, Rows
<1> QED
  BY <1>3, <1>4, <1>5, <1>6

LEMMA ArriveAlone ==
  ASSUME TypeOK, RegisterAlone, Alone, NEW r \in Reqs, Arrive(r)
  PROVE  Alone'
<1>1. PICK q \in Request : Sets(r, q) /\ req[r] = NoReq /\ q.kind # "none"
  BY ArriveSets
<1>2. req'[r] = q /\ \A s \in Reqs \ {r} : req'[s] = req[s]
  BY <1>1 DEF Sets
<1>3. PICK kind \in Kinds, step \in {"look", "check"}, n \in Names \cup Emails, e \in Emails, k \in Nat :
        Begin(r, kind, step, n, e, k)
  BY DEF Arrive, Kinds
<1>4. q.kind = kind
  BY <1>2, <1>3 DEF Begin, TypeOK
<1>5. IF kind = "register" THEN Idle ELSE \A s \in Reqs : req[s].kind # "register"
  BY <1>3 DEF Begin
<1>6. CASE kind = "register"
  <2>1. \A s \in Reqs \ {r} : req'[s] = NoReq
    BY <1>2, <1>5, <1>6 DEF Idle
  <2> QED
    BY <2>1 DEF Alone, NoReq
<1>7. CASE kind # "register"
  <2>1. \A s \in Reqs : req'[s].kind # "register"
    BY <1>2, <1>4, <1>5, <1>7
  <2> QED
    BY <2>1 DEF Alone
<1> QED
  BY <1>6, <1>7

\* What another request has read stays as it is, unless that is a registration.
LEMMA ServeKeepsOthers ==
  ASSUME ConfirmInv, NEW r \in Reqs, Serve(r), NEW s \in Reqs \ {r}, req'[s] = req[s]
  PROVE  HandHolds(s)'
<1> USE DEF ConfirmInv, CodesInv
<1>1. req[r] # NoReq
  BY ServeIsBusy
<1>2. req[s].kind # "register"
  BY <1>1 DEF Alone
<1>3. req[s] # NoReq => req[r].kind # "register"
  BY DEF Alone
<1>4. proved \subseteq proved'
  BY DEF Serve, RegisterLook, RegisterWrite, Look, Clear, Insert, Check, Consume, Apply,
         GoogleLook, GoogleWrite
<1>5. CASE req[s] = NoReq
  BY <1>5 DEF HandHolds, At, NoReq
<1>6. CASE req[s] # NoReq
  <2>1. \A i \in Rows : i \in Rows' /\ users'[i].email = users[i].email
    BY <1>3, <1>6, ServeRows DEF RowsKept
  <2> QED
    BY <1>2, <1>4, <2>1 DEF HandHolds, At
<1> QED
  BY <1>5, <1>6

LEMMA ServeKeepsOwn ==
  ASSUME ConfirmInv, NEW r \in Reqs, Serve(r)
  PROVE  HandHolds(r)'
<1> USE DEF ConfirmInv, CodesInv
<1>1. PICK q \in Request :
        /\ Sets(r, q)
        /\ q = NoReq \/ (q.kind = req[r].kind /\ q.email = req[r].email)
  BY ServeGoesOn DEF GoesOn
<1>2. req'[r] = q
  BY <1>1 DEF Sets
<1>3. CASE q.step \notin {"consume", "apply", "write"}
  BY <1>2, <1>3 DEF HandHolds, At
<1>4. CASE q.step \in {"consume", "apply", "write"}
  <2>1. q # NoReq /\ ~Finish(r)
    BY <1>2, <1>4, FinishSets DEF NoReq, Sets
  <2>a. req[r] \in Request
    BY DEF TypeOK
  <2>2. ASSUME NEW step \in Steps, Goto(r, step)
        PROVE  q.step = step
    <3>1. Sets(r, [req[r] EXCEPT !.step = step])
      BY <2>2, GotoSets
    <3> QED
      BY <1>2, <2>a, <3>1 DEF Sets, Request
  <2>3. ASSUME NEW step \in Steps, NEW i \in Nat, GotoWith(r, step, i)
        PROVE  q.step = step /\ q.row = i
    <3>1. Sets(r, [req[r] EXCEPT !.step = step, !.row = i])
      BY <2>3, GotoWithSets
    <3> QED
      BY <1>2, <2>a, <3>1 DEF Sets, Request
  <2>4. \A i \in Rows : i \in Nat
    BY DEF Rows, TypeOK
  <2>5. CASE RegisterLook(r)
    <3>1. PICK i \in Rows \cup {0} : GotoWith(r, "write", i) /\ (i # 0 => ~users[i].verified)
      BY <2>1, <2>5 DEF RegisterLook, Found, Conflict
    <3>2. q.step = "write" /\ q.row = i /\ users' = users
      BY <2>3, <2>4, <2>5, <3>1 DEF Steps, RegisterLook
    <3>3. q.kind = "register"
      BY <1>1, <2>1, <2>5 DEF RegisterLook, At
    <3> QED
      BY <1>2, <3>1, <3>2, <3>3 DEF HandHolds, At, Rows
  <2>6. CASE GoogleLook(r)
    <3>1. PICK i \in Rows \cup {0} : GotoWith(r, "write", i) /\ (i # 0 => users[i].email = req[r].email)
      BY <2>1, <2>6 DEF GoogleLook
    <3>2. q.step = "write" /\ q.row = i /\ users' = users /\ req[r].email \in proved'
      BY <2>3, <2>4, <2>6, <3>1 DEF Steps, GoogleLook
    <3>3. q.kind = "google" /\ q.email = req[r].email
      BY <1>1, <2>1, <2>6 DEF GoogleLook, At
    <3> QED
      BY <1>2, <3>1, <3>2, <3>3 DEF HandHolds, At, Rows
  <2>7. CASE Check(r)
    <3>1. Goto(r, "consume") /\ req[r].email \in proved'
      BY <2>1, <2>7 DEF Check, Matches
    <3> QED
      BY <1>1, <1>2, <2>1, <2>2, <3>1 DEF HandHolds, At, Steps
  <2>8. CASE Consume(r)
    <3>1. Goto(r, "apply") /\ req[r].email \in proved'
      BY <2>8 DEF Consume, HandHolds
    <3> QED
      BY <1>1, <1>2, <2>1, <2>2, <3>1 DEF HandHolds, At, Steps
  <2>9. CASE RegisterWrite(r) \/ Look(r)
    <3>1. Goto(r, "clear")
      BY <2>1, <2>9 DEF RegisterWrite, Look
    <3> QED
      BY <1>4, <2>2, <3>1 DEF Steps
  <2>10. CASE Clear(r)
    <3>1. Goto(r, "insert")
      BY <2>10 DEF Clear
    <3> QED
      BY <1>4, <2>2, <3>1 DEF Steps
  <2> QED
    BY <2>1, <2>5, <2>6, <2>7, <2>8, <2>9, <2>10 DEF Serve, Insert, Apply, GoogleWrite
<1> QED
  BY <1>3, <1>4

LEMMA NextConfirm == RegisterAlone /\ ConfirmInv /\ [Next]_vars => ConfirmInv'
<1> SUFFICES ASSUME RegisterAlone, ConfirmInv, [Next]_vars
             PROVE  ConfirmInv'
  OBVIOUS
<1>1. CodesInv'
  BY NextCodes DEF ConfirmInv
<1>2. ASSUME NEW r \in Reqs, Arrive(r)
      PROVE  ConfirmInv'
  <2>1. Alone'
    BY <1>2, ArriveAlone DEF ConfirmInv, CodesInv
  <2>2. PICK q \in Request :
           /\ Sets(r, q) /\ q.step \in {"look", "check"}
           /\ UNCHANGED <<users, codes, answered, failed, expired, latest, proved>>
    BY <1>2, ArriveSets DEF ConfirmInv, CodesInv
  <2>3. req'[r] = q /\ \A s \in Reqs \ {r} : req'[s] = req[s]
    BY <2>2 DEF Sets
  <2>4. \A s \in Reqs : HandHolds(s)'
    <3>1. HandHolds(r)'
      BY <2>2, <2>3 DEF HandHolds, At
    <3>2. \A s \in Reqs \ {r} : HandHolds(s)'
      BY <2>2, <2>3 DEF HandHolds, At, Rows, ConfirmInv
    <3> QED
      BY <3>1, <3>2
  <2>5. VerifiedIsProved'
    BY <2>2 DEF VerifiedIsProved, Rows, ConfirmInv
  <2> QED
    BY <1>1, <2>1, <2>4, <2>5 DEF ConfirmInv
<1>3. ASSUME NEW r \in Reqs, Serve(r)
      PROVE  ConfirmInv'
  <2>1. PICK q \in Request :
          /\ Sets(r, q)
          /\ q = NoReq \/ (q.kind = req[r].kind /\ q.email = req[r].email)
    BY <1>3, ServeGoesOn DEF GoesOn, ConfirmInv, CodesInv
  <2>2. req'[r] = q /\ \A s \in Reqs \ {r} : req'[s] = req[s]
    BY <2>1 DEF Sets
  <2>3. req[r] # NoReq
    BY <1>3, ServeIsBusy
  <2>4. Alone'
    <3>1. \A s \in Reqs : (req'[s].kind = "register" => req[s].kind = "register") /\ (req[s] = NoReq => req'[s] = NoReq)
      BY <2>1, <2>2, <2>3 DEF NoReq
    <3> QED
      BY <3>1 DEF Alone, ConfirmInv
  <2>5. \A s \in Reqs : HandHolds(s)'
    BY <1>3, <2>2, ServeKeepsOwn, ServeKeepsOthers
  <2>6. VerifiedIsProved'
    <3>1. proved \subseteq proved'
      BY <1>3 DEF Serve, RegisterLook, RegisterWrite, Look, Clear, Insert, Check, Consume, Apply,
             GoogleLook, GoogleWrite
    <3>2. RowsKept(r)
      BY <1>3, ServeRows
    <3> QED
      BY <3>1, <3>2 DEF RowsKept, VerifiedIsProved
  <2> QED
    BY <1>1, <2>4, <2>5, <2>6 DEF ConfirmInv
<1>4. CASE (\E c \in codes : Expire(c)) \/ Quiet \/ UNCHANGED vars
  <2>1. UNCHANGED <<users, req, proved>>
    BY <1>4 DEF Expire, Quiet, vars
  <2> QED
    BY <1>1, <2>1 DEF ConfirmInv, Alone, VerifiedIsProved, HandHolds, At, Rows
<1> QED
  BY <1>2, <1>3, <1>4 DEF Next

LEMMA InitConfirm == Init => ConfirmInv
<1>1. Init => Alone /\ VerifiedIsProved /\ \A r \in Reqs : HandHolds(r)
  BY DEF Init, Alone, VerifiedIsProved, HandHolds, At, NoReq, Rows
<1> QED
  BY <1>1, InitCodes DEF ConfirmInv

\* As long as no request overlaps a registration, whoever confirmed an account reads the
\* mail of its address.
THEOREM ConfirmedAreProved ==
  ASSUME RegisterAlone
  PROVE  Spec => []VerifiedIsProved
BY RegisterAlone, InitConfirm, NextConfirm, PTL DEF Spec, ConfirmInv

LEMMA StepKeepsConfirmed == ConfirmInv /\ [Next]_vars =>
  [\A i \in Rows : users[i].verified =>
       /\ users'[i].verified
       /\ users'[i].name = users[i].name /\ users'[i].email = users[i].email
       /\ users'[i].pass = users[i].pass \/ Resetting(users[i].email)]_vars
<1> SUFFICES ASSUME ConfirmInv, Next, NEW i \in Rows, users[i].verified
             PROVE  /\ users'[i].verified
                    /\ users'[i].name = users[i].name /\ users'[i].email = users[i].email
                    /\ users'[i].pass = users[i].pass \/ Resetting(users[i].email)
  OBVIOUS
<1>1. ASSUME NEW r \in Reqs, Serve(r)
      PROVE  /\ users'[i].verified
             /\ users'[i].name = users[i].name /\ users'[i].email = users[i].email
             /\ users'[i].pass = users[i].pass \/ Resetting(users[i].email)
  BY <1>1, ServeRows DEF RowsKept
<1>2. ASSUME NEW r \in Reqs, Arrive(r)
      PROVE  users' = users
  BY <1>2, ArriveSets DEF ConfirmInv, CodesInv
<1>3. CASE (\E c \in codes : Expire(c)) \/ Quiet
  BY <1>3 DEF Expire, Quiet, vars
<1> QED
  BY <1>1, <1>2, <1>3 DEF Next

\* Under the same condition nothing but a reset, proved by a mailed code, changes a
\* confirmed account.
THEOREM ConfirmedAreKept ==
  ASSUME RegisterAlone
  PROVE  Spec => ConfirmedIsKept
<1>1. Spec => []ConfirmInv
  BY RegisterAlone, InitConfirm, NextConfirm, PTL DEF Spec
<1> QED
  BY <1>1, StepKeepsConfirmed, PTL DEF Spec, ConfirmedIsKept
=============================================================================
