---------------------------- MODULE FanoutProofs ----------------------------
(***************************************************************************)
(* An atomic broadcast serves every member a gapless stream.               *)
(***************************************************************************)
EXTENDS Fanout, TLAPS

\* Consecutive numbers from the oldest unread broadcast on.
Run(q) == \A i \in 1 .. Len(q) - 1 : q[i + 1] = q[i] + 1

\* A run stays one when its oldest or its newest elements go,
LEMMA RunPart ==
  ASSUME NEW q \in Seq(Nat), Run(q), NEW a \in 1 .. Len(q) + 1, NEW b \in 0 .. Len(q)
  PROVE  /\ SubSeq(q, a, b) \in Seq(Nat)
         /\ Run(SubSeq(q, a, b))
         /\ SubSeq(q, a, b) # <<>> => SubSeq(q, a, b)[Len(SubSeq(q, a, b))] = q[b]
<1>1. SubSeq(q, a, b) \in Seq(Nat)
  OBVIOUS
<1>2. Len(SubSeq(q, a, b)) = IF a <= b THEN b - a + 1 ELSE 0
  OBVIOUS
<1>3. ASSUME NEW i \in 1 .. Len(SubSeq(q, a, b)) PROVE SubSeq(q, a, b)[i] = q[a + i - 1]
  BY <1>2
<1>4. ASSUME NEW i \in 1 .. Len(SubSeq(q, a, b)) - 1
      PROVE  SubSeq(q, a, b)[i + 1] = SubSeq(q, a, b)[i] + 1
  <2>1. a + i - 1 \in 1 .. Len(q) - 1 /\ i \in 1 .. Len(SubSeq(q, a, b)) /\ i + 1 \in 1 .. Len(SubSeq(q, a, b))
    BY <1>2
  <2>2. q[a + i] = q[a + i - 1] + 1
    BY <2>1 DEF Run
  <2> QED
    BY <1>3, <2>1, <2>2
<1>5. ASSUME SubSeq(q, a, b) # <<>> PROVE SubSeq(q, a, b)[Len(SubSeq(q, a, b))] = q[b]
  <2>1. a <= b
    BY <1>1, <1>2, <1>5
  <2>2. Len(SubSeq(q, a, b)) \in 1 .. Len(SubSeq(q, a, b)) /\ a + Len(SubSeq(q, a, b)) - 1 = b
    BY <1>2, <2>1
  <2> QED
    BY <1>3, <2>2
<1> QED
  BY <1>1, <1>4, <1>5 DEF Run

\* and when the next number is added to it.
LEMMA RunAppend ==
  ASSUME NEW q \in Seq(Nat), Run(q), NEW n \in Nat, q # <<>> => q[Len(q)] = n
  PROVE  /\ Append(q, n + 1) \in Seq(Nat)
         /\ Run(Append(q, n + 1))
         /\ Append(q, n + 1)[Len(Append(q, n + 1))] = n + 1
<1>1. Append(q, n + 1) \in Seq(Nat) /\ Len(Append(q, n + 1)) = Len(q) + 1
  OBVIOUS
<1>2. \A i \in 1 .. Len(q) : Append(q, n + 1)[i] = q[i]
  OBVIOUS
<1>3. Append(q, n + 1)[Len(q) + 1] = n + 1
  OBVIOUS
<1>4. ASSUME NEW i \in 1 .. Len(q) PROVE Append(q, n + 1)[i + 1] = Append(q, n + 1)[i] + 1
  <2>1. CASE i = Len(q)
    BY <1>2, <1>3, <2>1
  <2>2. CASE i < Len(q)
    BY <1>2, <2>2 DEF Run
  <2> QED
    BY <2>1, <2>2
<1> QED
  BY <1>1, <1>3, <1>4 DEF Run

\* The part of a session in Gapless.
GaplessAt(s) == Run(queue[s]) /\ (s \in members /\ queue[s] # <<>> => queue[s][Len(queue[s])] = count)

FanoutInv == TypeOK /\ \A s \in Sessions : GaplessAt(s)

LEMMA FanoutStep == FanoutInv /\ [Next]_vars => FanoutInv'
<1> SUFFICES ASSUME FanoutInv, [Next]_vars PROVE FanoutInv'
  OBVIOUS
<1> USE DEF FanoutInv, TypeOK
<1>1. CASE Broadcast
  <2>1. ASSUME NEW s \in Sessions PROVE queue'[s] \in Seq(Nat) /\ GaplessAt(s)'
    <3>1. CASE s \in members
      <4>1. queue'[s] = Append(queue[s], count + 1) /\ count' = count + 1
        BY <1>1, <3>1 DEF Broadcast
      <4>2. queue[s] \in Seq(Nat) /\ Run(queue[s]) /\ (queue[s] # <<>> => queue[s][Len(queue[s])] = count)
        BY <3>1 DEF GaplessAt
      <4>3. /\ queue'[s] \in Seq(Nat) /\ Run(queue'[s])
            /\ queue'[s][Len(queue'[s])] = count'
        BY <4>1, <4>2, RunAppend
      <4> QED
        BY <4>3 DEF GaplessAt
    <3>2. CASE s \notin members
      BY <1>1, <3>2 DEF Broadcast, GaplessAt
    <3> QED
      BY <3>1, <3>2
  <2> QED
    BY <1>1, <2>1 DEF Broadcast
<1>2. ASSUME NEW s \in Sessions, Join(s) PROVE FanoutInv'
  BY <1>2 DEF Join, GaplessAt
<1>3. ASSUME NEW s \in Sessions, Deliver(s) PROVE FanoutInv'
  <2>1. PICK n \in 1 .. Len(queue[s]) :
          queue' = [queue EXCEPT ![s] = SubSeq(queue[s], n + 1, Len(queue[s]))]
    BY <1>3 DEF Deliver
  <2>2. count' = count /\ members' = members
    BY <1>3 DEF Deliver
  <2> DEFINE q == SubSeq(queue[s], n + 1, Len(queue[s]))
  <2>3. queue[s] \in Seq(Nat) /\ Run(queue[s])
        /\ n + 1 \in 1 .. Len(queue[s]) + 1 /\ Len(queue[s]) \in 0 .. Len(queue[s])
    BY DEF GaplessAt
  <2>4. /\ q \in Seq(Nat) /\ Run(q)
        /\ q # <<>> => q[Len(q)] = queue[s][Len(queue[s])] /\ queue[s] # <<>>
    <3>1. q \in Seq(Nat) /\ Run(q) /\ (q # <<>> => q[Len(q)] = queue[s][Len(queue[s])])
      BY <2>3, RunPart
    <3>2. queue[s] # <<>>
      BY <2>3
    <3> QED
      BY <3>1, <3>2
  <2>5. queue' = [queue EXCEPT ![s] = q]
    BY <2>1
  <2> HIDE DEF q
  <2> QED
    BY <2>2, <2>4, <2>5 DEF GaplessAt
<1>4. ASSUME NEW s \in Sessions, Leave(s) PROVE FanoutInv'
  <2>1. PICK n \in 0 .. Len(queue[s]) : queue' = [queue EXCEPT ![s] = SubSeq(queue[s], 1, n)]
    BY <1>4 DEF Leave
  <2>2. count' = count /\ members' = members \ {s}
    BY <1>4 DEF Leave
  <2>3. SubSeq(queue[s], 1, n) \in Seq(Nat) /\ Run(SubSeq(queue[s], 1, n))
    <3>1. queue[s] \in Seq(Nat) /\ Run(queue[s]) /\ 1 \in 1 .. Len(queue[s]) + 1
      BY DEF GaplessAt
    <3> QED
      BY <3>1, RunPart
  <2> QED
    BY <2>1, <2>2, <2>3 DEF GaplessAt
<1>5. CASE Crash
  <2>1. PICK lost \in SUBSET members :
          queue' = [s \in Sessions |-> IF s \in lost THEN SubSeq(queue[s], 1, Len(queue[s]) - 1)
                                                     ELSE queue[s]]
    BY <1>5 DEF Crash
  <2>2. count' = count /\ members' = {}
    BY <1>5 DEF Crash
  <2>3. ASSUME NEW s \in Sessions PROVE queue'[s] \in Seq(Nat) /\ Run(queue'[s])
    <3>1. CASE queue[s] = <<>>
      <4>1. SubSeq(queue[s], 1, Len(queue[s]) - 1) = <<>>
        BY <3>1
      <4> QED
        BY <2>1, <3>1, <4>1 DEF Run
    <3>2. CASE queue[s] # <<>>
      <4>1. /\ queue[s] \in Seq(Nat) /\ Run(queue[s])
            /\ 1 \in 1 .. Len(queue[s]) + 1 /\ Len(queue[s]) - 1 \in 0 .. Len(queue[s])
        BY <3>2 DEF GaplessAt
      <4>2. SubSeq(queue[s], 1, Len(queue[s]) - 1) \in Seq(Nat)
            /\ Run(SubSeq(queue[s], 1, Len(queue[s]) - 1))
        BY <4>1, RunPart
      <4> QED
        BY <2>1, <4>1, <4>2
    <3> QED
      BY <3>1, <3>2
  <2>4. queue' = [s \in Sessions |-> queue'[s]]
    BY <2>1
  <2>5. queue' \in [Sessions -> Seq(Nat)]
    BY <2>3, <2>4
  <2> QED
    BY <2>2, <2>3, <2>5 DEF GaplessAt
<1>6. CASE UNCHANGED vars
  BY <1>6 DEF vars, GaplessAt
<1> QED
  BY <1>1, <1>2, <1>3, <1>4, <1>5, <1>6 DEF Next

\* What a member has not read is a run of broadcasts without a hole that ends with the
\* newest: with RefinesFanout, what broadcastLocal has put into a client's channel is.
THEOREM ServedIsGapless == Spec => []Gapless
<1>1. Init => FanoutInv
  BY DEF Init, FanoutInv, TypeOK, GaplessAt, Run
<1>2. FanoutInv => Gapless
  BY DEF FanoutInv, GaplessAt, Run, Gapless
<1> QED
  BY <1>1, <1>2, FanoutStep, PTL DEF Spec
=============================================================================
