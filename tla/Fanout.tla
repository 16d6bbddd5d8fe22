------------------------------- MODULE Fanout -------------------------------
(***************************************************************************)
(* What the real-time engine promises: an atomic broadcast to sessions.    *)
(* Every session that is a member receives every broadcast, in the one     *)
(* order the server made them, from the moment it joined.  A session that  *)
(* cannot keep up is ended; it is never served a stream with a hole in it. *)
(* Module Hub is the goroutines, locks and channels that implement this.   *)
(***************************************************************************)
EXTENDS Naturals, Sequences

CONSTANT Sessions       \* the websocket sessions that may ever join

VARIABLES count,        \* number of broadcasts made so far
          members,      \* the sessions that are being served
          queue         \* queue[s]: broadcasts s was sent and has not yet read

vars == <<count, members, queue>>

TypeOK == /\ count \in Nat
          /\ members \subseteq Sessions
          /\ queue \in [Sessions -> Seq(Nat)]

Init == /\ count = 0
        /\ members = {}
        /\ queue = [s \in Sessions |-> <<>>]

\* One more broadcast reaches all members at once.
Broadcast == /\ count' = count + 1
             /\ queue' = [s \in Sessions |->
                            IF s \in members THEN Append(queue[s], count + 1)
                                             ELSE queue[s]]
             /\ UNCHANGED members

Join(s) == /\ s \notin members
           /\ queue[s] = <<>>
           /\ members' = members \cup {s}
           /\ UNCHANGED <<count, queue>>

\* One frame takes some of the oldest unread broadcasts to the session.
Deliver(s) == /\ \E n \in 1 .. Len(queue[s]) :
                    queue' = [queue EXCEPT ![s] = SubSeq(@, n + 1, Len(@))]
              /\ UNCHANGED <<count, members>>

\* A session ends.  It may lose what it had not read, newest first.
Leave(s) == /\ s \in members
            /\ members' = members \ {s}
            /\ \E n \in 0 .. Len(queue[s]) :
                  queue' = [queue EXCEPT ![s] = SubSeq(@, 1, n)]
            /\ UNCHANGED count

\* The server dies and every session with it, the newest broadcast perhaps unsent.
Crash == /\ members' = {}
         /\ \E lost \in SUBSET members :
               queue' = [s \in Sessions |->
                           IF s \in lost THEN SubSeq(queue[s], 1, Len(queue[s]) - 1)
                                         ELSE queue[s]]
         /\ UNCHANGED count

Next == \/ Broadcast
        \/ \E s \in Sessions : Join(s) \/ Deliver(s) \/ Leave(s)
        \/ Crash

Spec == Init /\ [][Next]_vars

\* A member with unread broadcasts is eventually sent some, or ended.
Serve(s) == /\ s \in members
            /\ queue[s] # <<>>
            /\ Deliver(s) \/ Leave(s)

FairSpec == Spec /\ \A s \in Sessions : WF_vars(Serve(s))
-----------------------------------------------------------------------------
\* What a member has not read is a gapless run of broadcasts that ends with
\* the newest one: nothing addressed to it was skipped or reordered.
Gapless == \A s \in Sessions :
             /\ \A i \in 1 .. Len(queue[s]) - 1 : queue[s][i + 1] = queue[s][i] + 1
             /\ s \in members /\ queue[s] # <<>> => queue[s][Len(queue[s])] = count
=============================================================================
