------------------------------- MODULE Ballot -------------------------------
(***************************************************************************)
(* What polls promise to those who vote: a vote is one step.  In a poll    *)
(* with one answer it takes the place of the user's last one, in a poll    *)
(* with several it gives an answer or takes it back.  The promise is given *)
(* for as long as ok holds; module Polls says when that is.                *)
(***************************************************************************)
EXTENDS Naturals, Sequences

CONSTANTS
  Users,    \* those who vote
  Options   \* what a poll lets them choose from

VARIABLES
  polls,    \* polls[p]: whether poll p takes several answers of one user
  answers,  \* <<p, u, o>>: in poll p user u has answered o
  taken,    \* how many votes have taken effect
  ok        \* nothing has happened that the promise excludes

vars == <<polls, answers, taken, ok>>

Init == polls = <<>> /\ answers = {} /\ taken = 0 /\ ok = TRUE

\* The answers of u in poll p.
Of(p, u) == {a \in answers : a[1] = p /\ a[2] = u}

Create == /\ \E several \in BOOLEAN : polls' = Append(polls, several)
          /\ UNCHANGED <<answers, taken, ok>>

Vote(p, u, o) ==
  /\ answers' = IF ~polls[p] THEN (answers \ Of(p, u)) \cup {<<p, u, o>>}
                ELSE IF <<p, u, o>> \in answers THEN answers \ {<<p, u, o>>}
                ELSE answers \cup {<<p, u, o>>}
  /\ taken' = taken + 1
  /\ UNCHANGED <<polls, ok>>

\* From here on nothing is promised.
Break == ok' = FALSE

Next == \/ Create
        \/ \E p \in 1 .. Len(polls), u \in Users, o \in Options : Vote(p, u, o)
        \/ Break

Spec == Init /\ [][Next]_vars

\* A poll with one answer has at most one of each user, for as long as ok holds.
OneAnswer == ok => \A p \in 1 .. Len(polls), u \in Users : ~polls[p] =>
               \A a, b \in Of(p, u) : a = b
=============================================================================
