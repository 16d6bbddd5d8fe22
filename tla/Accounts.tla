------------------------------ MODULE Accounts ------------------------------
(***************************************************************************)
(* Accounts and the codes mailed for them: registration, verification,     *)
(* resending, password reset and Google sign-in (internal/api/handlers.go, *)
(* internal/database/db.go).  A request is a goroutine of the HTTP server  *)
(* that makes one database statement after the other, without a            *)
(* transaction; one statement is one action, and it may fail.  Time is     *)
(* only in codes that expire.                                              *)
(***************************************************************************)
EXTENDS Naturals, Sequences, FiniteSets

CONSTANTS
  Names,         \* user names that people choose, none an email address
  Emails,        \* email addresses; Google has an account for each
  None,          \* no name, no address
  Reqs,          \* request goroutines that may run side by side
  MaxReqs,       \* bound: requests
  RegisterAlone, \* whether no request overlaps a registration
  MayFail        \* whether statements fail

ASSUME AccountsAssumption ==
  /\ Names \cap Emails = {}
  /\ None \notin Emails \cup Names
  /\ MaxReqs \in Nat
  /\ {RegisterAlone, MayFail} \subseteq BOOLEAN

VARIABLES
  users,    \* table users
  codes,    \* table email_verifications
  req,      \* req[r]: the request that r serves
  started,  \* number of requests
  answered, \* answered[k]: how many requests had arrived when the first one that was
            \* accepted with code k was answered, 0 before
  failed,   \* codes whose INSERT, or whose DELETE on acceptance, failed
  expired,  \* codes whose 15 minutes are over
  latest,   \* latest[e, p]: the last code mailed for e and purpose p, 0 if none
  proved    \* addresses whose owner entered a mailed code or came through Google

vars == <<users, codes, req, started, answered, failed, expired, latest, proved>>
codeVars == <<codes, answered, failed, expired, latest>>

\* A password, and a code, is known by the number of the request that made it.
Numbers == 0 .. MaxReqs

Purposes == {"register", "reset_password"}
Kinds == {"none", "register", "resend", "forgot", "verify", "reset", "google"}

User == [name: Names \cup Emails, email: Emails, pass: Numbers, verified: BOOLEAN,
         google: Emails \cup {None}]

Code == [number: Numbers, email: Emails, purpose: Purposes]

\* The row is what the handler has read: the index of the user it found, or 0.
Request == [kind: Kinds, step: {"none", "look", "write", "clear", "insert", "check", "consume", "apply"},
            number: Numbers, name: Names \cup Emails \cup {None}, email: Emails \cup {None},
            code: Numbers, row: Nat]

NoReq == [kind |-> "none", step |-> "none", number |-> 0, name |-> None,
          email |-> None, code |-> 0, row |-> 0]

TypeOK ==
  /\ users \in Seq(User)
  /\ codes \subseteq Code
  /\ req \in [Reqs -> Request]
  /\ started \in Numbers
  /\ answered \in [Numbers -> Numbers]
  /\ failed \subseteq Numbers /\ expired \subseteq Numbers
  /\ latest \in [Emails \X Purposes -> Numbers]
  /\ proved \subseteq Emails

Init ==
  /\ users = <<>> /\ codes = {}
  /\ req = [r \in Reqs |-> NoReq]
  /\ started = 0
  /\ answered = [k \in Numbers |-> 0] /\ failed = {} /\ expired = {}
  /\ latest = [ep \in Emails \X Purposes |-> 0]
  /\ proved = {}
-----------------------------------------------------------------------------
(* Requests.                                                               *)

Rows == 1 .. Len(users)

\* A statement works or, if MayFail, does not.
Works == {TRUE, ~MayFail}

At(r, kinds, step) == req[r].kind \in kinds /\ req[r].step = step

Goto(r, step) == req' = [req EXCEPT ![r].step = step]

GotoWith(r, step, i) == req' = [req EXCEPT ![r].step = step, ![r].row = i]

\* Mutant: the step of a finished request is not reset, only its kind.
FinishKeeps(r) == req' = [req EXCEPT ![r].kind = None]

Finish(r) == req' = [req EXCEPT ![r] = NoReq]

Idle == \A r \in Reqs : req[r] = NoReq

\* What the code is for.
Purpose(r) == IF req[r].kind \in {"forgot", "reset"} THEN "reset_password" ELSE "register"

\* A request arrives with the fields the page sends.
Begin(r, kind, step, n, e, k) ==
  /\ req[r] = NoReq /\ started < MaxReqs
  /\ RegisterAlone => IF kind = "register" THEN Idle ELSE \A s \in Reqs : req[s].kind # "register"
  /\ started' = started + 1
  /\ req' = [req EXCEPT ![r] = [kind |-> kind, step |-> step, number |-> started + 1,
                                name |-> n, email |-> e, code |-> k, row |-> 0]]
  /\ UNCHANGED <<users, codeVars, proved>>

Arrive(r) == \E e \in Emails :
  \/ \E n \in Names : Begin(r, "register", "look", n, e, 0)
  \/ \E kind \in {"resend", "forgot", "google"} : Begin(r, kind, "look", e, e, 0)
  \/ \E kind \in {"verify", "reset"}, k \in 1 .. started : Begin(r, kind, "check", e, e, k)
-----------------------------------------------------------------------------
(* Register.                                                               *)

Found(r) == {i \in Rows : users[i].email = req[r].email \/ users[i].name = req[r].name}

\* Mutant: a confirmed account is registered anew.
ConflictNever(i) == FALSE

Conflict(i) == users[i].verified

\* The SELECT of CreateOrUpdateUnverifiedUser; of two rows it takes either.  If it
\* fails, that is taken for no row.
RegisterLook(r) ==
  /\ At(r, {"register"}, "look")
  /\ \/ Found(r) = {} /\ GotoWith(r, "write", 0)
     \/ \E i \in Found(r) : ~Conflict(i) /\ GotoWith(r, "write", i)
     \/ \E i \in Found(r) : Conflict(i) /\ Finish(r)
     \/ MayFail /\ GotoWith(r, "write", 0)
  /\ UNCHANGED <<users, codeVars, started, proved>>

\* The UNIQUE constraints on name and email let row i have these.
Unique(i, n, e) == \A j \in Rows \ {i} : users[j].name # n /\ users[j].email # e

\* Its UPDATE or INSERT, or the 409 when that fails.
RegisterWrite(r) ==
  LET q == req[r]
      fresh == [name |-> q.name, email |-> q.email, pass |-> q.number, verified |-> FALSE,
                google |-> None]
      renewed == [users EXCEPT ![q.row].name = q.name, ![q.row].email = q.email,
                               ![q.row].pass = q.number]
  IN /\ At(r, {"register"}, "write")
     /\ \E ok \in Works :
          IF ok /\ Unique(q.row, q.name, q.email)
          THEN users' = (IF q.row = 0 THEN Append(users, fresh) ELSE renewed) /\ Goto(r, "clear")
          ELSE Finish(r) /\ UNCHANGED users
     /\ UNCHANGED <<codeVars, started, proved>>
-----------------------------------------------------------------------------
(* Codes.                                                                  *)

\* GetUserByUsernameOrEmail, of a resend or a forgotten password.
Look(r) ==
  /\ At(r, {"resend", "forgot"}, "look")
  /\ \E ok \in Works :
       IF ok /\ \E i \in Rows : users[i].email = req[r].email THEN Goto(r, "clear") ELSE Finish(r)
  /\ UNCHANGED <<users, codeVars, started, proved>>

\* Mutant: the codes for all purposes are deleted.
ClearedAll(e, p) == {c \in codes : c.email # e}

Cleared(e, p) == {c \in codes : ~(c.email = e /\ c.purpose = p)}

\* CreateVerificationCode deletes the older codes, or fails to,
Clear(r) == \E ok \in Works :
  /\ req[r].step = "clear"
  /\ codes' = IF ok THEN Cleared(req[r].email, Purpose(r)) ELSE codes
  /\ Goto(r, "insert")
  /\ UNCHANGED <<users, started, answered, failed, expired, latest, proved>>

\* and inserts the new one, which is mailed even if that failed.
Insert(r) ==
  LET q == req[r]
      new == [number |-> q.number, email |-> q.email, purpose |-> Purpose(r)]
  IN /\ q.step = "insert"
     /\ \/ codes' = codes \cup {new} /\ UNCHANGED failed
        \/ MayFail /\ failed' = failed \cup {q.number} /\ UNCHANGED codes
     /\ latest' = [latest EXCEPT ![<<q.email, Purpose(r)>>] = q.number]
     /\ Finish(r)
     /\ UNCHANGED <<users, started, answered, expired, proved>>

\* 15 minutes are over.
Expire(c) ==
  /\ c.number \notin expired
  /\ expired' = expired \cup {c.number}
  /\ UNCHANGED <<users, codes, req, started, answered, failed, latest, proved>>

\* Mutant: the code is not asked to be one for this address.
MatchesAny(c, r) ==
  c.number = req[r].code /\ c.purpose = Purpose(r) /\ c.number \notin expired

\* The SELECT of VerifyCode.  If it fails the code is refused.
Matches(c, r) ==
  /\ c.number = req[r].code /\ c.email = req[r].email /\ c.purpose = Purpose(r)
  /\ c.number \notin expired

Check(r) ==
  /\ At(r, {"verify", "reset"}, "check")
  /\ \/ \E c \in codes : Matches(c, r) /\ Goto(r, "consume") /\ proved' = proved \cup {c.email}
     \/ /\ MayFail \/ ~(\E c \in codes : Matches(c, r))
        /\ Finish(r) /\ UNCHANGED proved
  /\ UNCHANGED <<users, codeVars, started>>

\* Mutant: an accepted code is kept.
KeptCodes(k) == codes

Consumed(k) == {c \in codes : c.number # k}

\* Its DELETE.  If it fails the code stays, and is accepted all the same.
Consume(r) ==
  /\ req[r].step = "consume"
  /\ \/ codes' = Consumed(req[r].code) /\ UNCHANGED failed
     \/ MayFail /\ failed' = failed \cup {req[r].code} /\ UNCHANGED codes
  /\ Goto(r, "apply")
  /\ UNCHANGED <<users, started, answered, expired, latest, proved>>

\* SetUserVerified or ResetPasswordByEmail: if nobody has the address any more, or
\* if it fails, the code is lost.
Apply(r) == \E ok \in Works :
  /\ req[r].step = "apply"
  /\ users' = [i \in Rows |->
                 IF ~ok \/ users[i].email # req[r].email THEN users[i]
                 ELSE IF req[r].kind = "verify" THEN [users[i] EXCEPT !.verified = TRUE]
                 ELSE [users[i] EXCEPT !.pass = req[r].number]]
  /\ answered' = [answered EXCEPT ![req[r].code] = IF @ = 0 THEN started ELSE @]
  /\ Finish(r)
  /\ UNCHANGED <<codes, failed, expired, latest, started, proved>>
-----------------------------------------------------------------------------
(* Google.                                                                 *)

\* Google vouches for the address.  GetOrCreateGoogleUser looks for its account,
\* then for the address.  If either fails, that is taken for no row.
GoogleLook(r) ==
  LET e == req[r].email
      linked == {i \in Rows : users[i].google = e}
      known == {i \in Rows : users[i].email = e}
  IN /\ At(r, {"google"}, "look")
     /\ proved' = proved \cup {e}
     /\ \/ linked # {} /\ Finish(r)
        \/ (linked \cup known = {} \/ MayFail) /\ GotoWith(r, "write", 0)
        \/ (linked = {} \/ MayFail) /\ \E i \in known : GotoWith(r, "write", i)
     /\ UNCHANGED <<users, codeVars, started>>

\* It links the row, or inserts one, named by a name that is free; the account of
\* Google is UNIQUE too.
GoogleWrite(r) ==
  LET e == req[r].email
      i == req[r].row
      fresh == [name |-> e, email |-> e, pass |-> 0, verified |-> TRUE, google |-> e]
      free == \A j \in Rows \ {i} : users[j].google # e
  IN /\ At(r, {"google"}, "write")
     /\ \/ users' = users /\ (MayFail \/ ~free \/ (i = 0 /\ ~Unique(0, e, e)))
        \/ i # 0 /\ free /\ users' = [users EXCEPT ![i].google = e, ![i].verified = TRUE]
        \/ i = 0 /\ free /\ Unique(0, e, e) /\ users' = Append(users, fresh)
     /\ Finish(r)
     /\ UNCHANGED <<codeVars, started, proved>>

Serve(r) == \/ RegisterLook(r) \/ RegisterWrite(r)
            \/ Look(r) \/ Clear(r) \/ Insert(r)
            \/ Check(r) \/ Consume(r) \/ Apply(r)
            \/ GoogleLook(r) \/ GoogleWrite(r)

\* Nobody needs to come.
Quiet == Idle /\ UNCHANGED vars

Next == \/ \E r \in Reqs : Arrive(r) \/ Serve(r)
        \/ \E c \in codes : Expire(c)
        \/ Quiet

Spec == Init /\ [][Next]_vars
-----------------------------------------------------------------------------
(* Properties.                                                             *)

\* The address of a confirmed account was proved by whoever reads its mail,
\* whatever was registered, renamed, resent and reset in between.
VerifiedIsProved == \A i \in Rows : users[i].verified => users[i].email \in proved

\* A request that is about to reset the password of the account with address e.
Resetting(e) == \E r \in Reqs : At(r, {"reset"}, "apply") /\ req[r].email = e

\* A confirmed account stays confirmed, and keeps its name and address; its
\* password changes only by a reset.  (The comment above Register's database
\* call: update if not confirmed, conflict if confirmed.)
ConfirmedIsKept ==
  [][\A i \in Rows : users[i].verified =>
       /\ users'[i].verified
       /\ users'[i].name = users[i].name /\ users'[i].email = users[i].email
       /\ users'[i].pass = users[i].pass \/ Resetting(users[i].email)]_vars

\* When no request is under way, the last code mailed for an address and a purpose
\* is accepted, unless it was used, has expired, or could not be stored.
LatestWorks ==
  Idle => \A e \in Emails, p \in Purposes :
    LET k == latest[<<e, p>>]
    IN \/ k = 0 \/ answered[k] # 0 \/ k \in expired \/ k \in failed
       \/ \E c \in codes : c.email = e /\ c.purpose = p /\ c.number = k

\* Requests that are accepted with the same code overlap: one that arrives after
\* another was answered is refused, unless the DELETE of the code failed.
UsedTogether ==
  \A r \in Reqs :
    LET k == req[r].code
    IN req[r].step \in {"consume", "apply"} /\ answered[k] # 0 =>
         req[r].number <= answered[k] \/ k \in failed
=============================================================================
