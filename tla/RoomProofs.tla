------------------------------ MODULE RoomProofs ------------------------------
(***************************************************************************)
(* Theorems about module Room.                                             *)
(***************************************************************************)
EXTENDS Room, FiniteSetTheorems, SequenceTheorems, WellFoundedInduction, TLAPS

-----------------------------------------------------------------------------
(* Numbers in their order.                                                 *)

\* Every set of natural numbers that is not empty has a least element.
LEMMA LeastNumber ==
  ASSUME NEW T, T \subseteq Nat, T # {}
  PROVE  \E x \in T : \A y \in T : x <= y
<1>1. PICK x \in T : \A y \in T : ~(<<y, x>> \in OpToRel(<, Nat))
  BY NatLessThanWellFounded, WFMin
<1>2. \A y \in T : ~(y < x)
  BY <1>1 DEF OpToRel
<1> QED BY <1>2

\* Min is that element.
LEMMA MinIsLeast ==
  ASSUME NEW T, T \subseteq Nat, T # {}
  PROVE  Min(T) \in T /\ \A y \in T : Min(T) <= y
BY LeastNumber DEF Min

\* s lists the numbers of S in their order.
Lists(s, S) == /\ s \in [1 .. Cardinality(S) -> S]
               /\ \A i, j \in 1 .. Cardinality(S) : i < j => s[i] < s[j]

LEMMA SizeOfPart ==
  ASSUME NEW n \in Nat, NEW S \in SUBSET (1 .. n)
  PROVE  IsFiniteSet(S) /\ Cardinality(S) \in Nat
<1>1. IsFiniteSet(1 .. n)
  BY FS_Interval
<1> QED BY <1>1, FS_Subset, FS_CardinalityType

\* There is such a list of every set of numbers up to n: by induction on n, the
\* list of S being that of S without n, followed by n.
LEMMA ListExists ==
  ASSUME NEW n \in Nat, NEW S \in SUBSET (1 .. n)
  PROVE  \E s : Lists(s, S)
<1> DEFINE Good(k) == \A A \in SUBSET (1 .. k) : \E s : Lists(s, A)
           Bad == {k \in Nat : ~Good(k)}
<1>1. Good(0)
  <2> SUFFICES ASSUME NEW A \in SUBSET (1 .. 0) PROVE \E s : Lists(s, A)
    OBVIOUS
  <2>1. A = {}
    OBVIOUS
  <2>2. A = {} /\ Cardinality(A) = 0
    BY <2>1, FS_EmptySet
  <2>3. [i \in 1 .. 0 |-> i] \in [1 .. Cardinality(A) -> A]
    BY <2>2
  <2> QED BY <2>2, <2>3 DEF Lists
<1>2. ASSUME NEW k \in Nat, Good(k) PROVE Good(k + 1)
  <2> SUFFICES ASSUME NEW A \in SUBSET (1 .. k + 1) PROVE \E s : Lists(s, A)
    OBVIOUS
  <2>1. CASE k + 1 \notin A
    <3>1. A \in SUBSET (1 .. k)
      BY <2>1
    <3> QED BY <1>2, <3>1
  <2>2. CASE k + 1 \in A
    <3> DEFINE B == A \ {k + 1}
               c == Cardinality(B)
    <3>1. B \in SUBSET (1 .. k)
      OBVIOUS
    <3>2. PICK s : Lists(s, B)
      BY <1>2, <3>1
    <3>3. c \in Nat /\ Cardinality(A) = c + 1
      <4>1. IsFiniteSet(A) /\ Cardinality(A) \in Nat
        BY SizeOfPart, k + 1 \in Nat
      <4>2. Cardinality(B) = Cardinality(A) - 1
        BY <4>1, <2>2, FS_RemoveElement
      <4>3. Cardinality(B) \in Nat
        BY <3>1, SizeOfPart
      <4> QED BY <4>1, <4>2, <4>3
    <3> DEFINE t == [i \in 1 .. c + 1 |-> IF i = c + 1 THEN k + 1 ELSE s[i]]
    <3> HIDE DEF c
    <3>4. s \in [1 .. c -> B] /\ \A i, j \in 1 .. c : i < j => s[i] < s[j]
      BY <3>2 DEF Lists, c
    <3>5. t \in [1 .. c + 1 -> A]
      BY <3>3, <3>4, <2>2
    <3>6. ASSUME NEW i \in 1 .. c + 1, NEW j \in 1 .. c + 1, i < j PROVE t[i] < t[j]
      <4>1. i \in 1 .. c /\ t[i] = s[i]
        BY <3>3, <3>6
      <4>2. i \in 1 .. c /\ s[i] \in 1 .. k /\ t[i] = s[i]
        BY <4>1, <3>4, <3>1
      <4>3. CASE j = c + 1
        BY <4>2, <4>3, <3>3
      <4>4. CASE j # c + 1
        BY <4>2, <4>4, <3>3, <3>4, <3>6
      <4> QED BY <4>3, <4>4
    <3> HIDE DEF t
    <3>7. Lists(t, A)
      BY <3>3, <3>5, <3>6 DEF Lists
    <3> QED BY <3>7
  <2> QED BY <2>1, <2>2
<1> HIDE DEF Good
<1>3. Bad = {}
  <2> SUFFICES ASSUME Bad # {} PROVE FALSE
    OBVIOUS
  <2>1. PICK k \in Bad : \A l \in Bad : k <= l
    BY LeastNumber
  <2>2. k \in Nat /\ k # 0 /\ ~Good(k)
    BY <2>1, <1>1
  <2>3. k - 1 \in Nat /\ k - 1 \notin Bad /\ (k - 1) + 1 = k
    BY <2>1, <2>2
  <2> QED BY <2>2, <2>3, <1>2
<1>4. Good(n)
  BY <1>3
<1> QED BY <1>4 DEF Good

\* What Ascending chooses.
LEMMA AscendingLists ==
  ASSUME NEW n \in Nat, NEW S \in SUBSET (1 .. n)
  PROVE  /\ Cardinality(S) \in Nat
         /\ Ascending(S) \in [1 .. Cardinality(S) -> S]
         /\ \A i, j \in 1 .. Cardinality(S) : i < j => Ascending(S)[i] < Ascending(S)[j]
         /\ \A x \in S : \E i \in 1 .. Cardinality(S) : Ascending(S)[i] = x
<1> DEFINE c == Cardinality(S)
           f == Ascending(S)
<1>1. IsFiniteSet(S) /\ c \in Nat
  BY SizeOfPart
<1>2. \E s \in [1 .. c -> S] : \A i, j \in 1 .. c : i < j => s[i] < s[j]
  BY ListExists DEF Lists
<1>3. f \in [1 .. c -> S] /\ \A i, j \in 1 .. c : i < j => f[i] < f[j]
  BY <1>2 DEF Ascending
<1> HIDE DEF c, f
<1>4. \A i, j \in 1 .. c : f[i] = f[j] => i = j
  <2> SUFFICES ASSUME NEW i \in 1 .. c, NEW j \in 1 .. c, f[i] = f[j], i # j PROVE FALSE
    OBVIOUS
  <2>1. f[i] \in Nat /\ f[j] \in Nat
    <3>1. f[i] \in S /\ f[j] \in S
      BY <1>3
    <3>2. \A x \in S : x \in Nat
      OBVIOUS
    <3> QED BY <3>1, <3>2
  <2>2. i < j \/ j < i
    BY <1>1
  <2> QED BY <1>3, <2>1, <2>2
<1>5. f \in Injection(1 .. c, S)
  BY <1>3, <1>4 DEF Injection, IsInjective
<1>6. Cardinality(1 .. c) = c
  BY <1>1, FS_Interval
<1>7. f \in Surjection(1 .. c, S)
  BY <1>1, <1>5, <1>6, FS_Injection DEF c
<1>8. \A x \in S : \E i \in 1 .. c : f[i] = x
  BY <1>7 DEF Surjection
<1> QED BY <1>1, <1>3, <1>8 DEF c, f

\* f climbs through k natural numbers.
Climbs(f, k) == /\ f \in [1 .. k -> Nat]
                /\ \A i, j \in 1 .. k : i < j => f[i] < f[j]

LEMMA ClimbSize ==
  ASSUME NEW k \in Nat, NEW f, NEW S, Climbs(f, k), S = {f[i] : i \in 1 .. k}
  PROVE  Cardinality(S) = k
<1>1. \A i, j \in 1 .. k : f[i] = f[j] => i = j
  <2> SUFFICES ASSUME NEW i \in 1 .. k, NEW j \in 1 .. k, f[i] = f[j], i # j PROVE FALSE
    OBVIOUS
  <2>1. f[i] \in Nat /\ f[j] \in Nat
    BY DEF Climbs
  <2> QED BY <2>1, i < j \/ j < i DEF Climbs
<1>2. f \in [1 .. k -> S]
  BY DEF Climbs
<1>3. f \in Bijection(1 .. k, S)
  BY <1>1, <1>2 DEF Bijection, Injection, Surjection, IsInjective
<1> QED BY <1>3, FS_CountingElements DEF ExistsBijection

\* Two climbs through the same numbers are one.
LEMMA ClimbsEqual ==
  ASSUME NEW k \in Nat, NEW l \in Nat, NEW f, NEW g, Climbs(f, k), Climbs(g, l),
         {f[i] : i \in 1 .. k} = {g[i] : i \in 1 .. l}
  PROVE  k = l /\ f = g
<1>1. k = l
  BY ClimbSize
<1>2. f \in [1 .. k -> Nat] /\ g \in [1 .. k -> Nat]
  BY <1>1 DEF Climbs
<1>3. \A i, j \in 1 .. k : i < j => f[i] < f[j] /\ g[i] < g[j]
  BY <1>1 DEF Climbs
<1>4. \A i \in 1 .. k : f[i] = g[i]
  <2> DEFINE Bad == {i \in 1 .. k : f[i] # g[i]}
  <2> SUFFICES ASSUME Bad # {} PROVE FALSE
    OBVIOUS
  <2>1. Bad \subseteq Nat
    OBVIOUS
  <2>2. PICK i \in Bad : \A j \in Bad : i <= j
    BY <2>1, LeastNumber
  <2>3. i \in 1 .. k /\ f[i] # g[i] /\ \A j \in 1 .. k : j < i => f[j] = g[j]
    BY <2>2
  <2>4. CASE f[i] < g[i]
    <3>1. PICK j \in 1 .. k : g[j] = f[i]
      BY <2>3, <1>1
    <3>2. g[i] \in Nat /\ g[j] \in Nat /\ f[i] \in Nat /\ f[j] \in Nat
      BY <1>2, <2>3
    <3>3. j # i /\ ~(i < j)
      BY <3>1, <3>2, <2>3, <2>4, <1>3
    <3>4. j < i
      BY <3>3, <2>3
    <3> QED BY <3>1, <3>2, <3>4, <2>3, <1>3
  <2>5. CASE g[i] < f[i]
    <3>1. PICK j \in 1 .. k : f[j] = g[i]
      BY <2>3, <1>1
    <3>2. g[i] \in Nat /\ g[j] \in Nat /\ f[i] \in Nat /\ f[j] \in Nat
      BY <1>2, <2>3
    <3>3. j # i /\ ~(i < j)
      BY <3>1, <3>2, <2>3, <2>5, <1>3
    <3>4. j < i
      BY <3>3, <2>3
    <3> QED BY <3>1, <3>2, <3>4, <2>3, <1>3
  <2>6. f[i] \in Nat /\ g[i] \in Nat
    BY <1>2, <2>3
  <2> QED BY <2>3, <2>4, <2>5, <2>6
<1> QED BY <1>1, <1>2, <1>4

-----------------------------------------------------------------------------
(* Types.                                                                  *)

\* Every row was written by one of the operations counted.
RowsCounted == Len(rows) <= ops

\* The event of a new message names it.
NewIsNamed ==
  /\ \A h \in Hubs : work[h] # NoEvent /\ work[h].kind = "new" => work[h].id \in Ids
  /\ \A k \in 1 .. Len(bus) : bus[k].kind = "new" => bus[k].id \in Ids

TypeInv == TypeOK /\ RowsCounted /\ NewIsNamed

\* How often each emoji was given is at most the number of users.
LEMMA CountsType ==
  ASSUME NEW react PROVE CountsOf(react) \in Counts
<1>1. ASSUME NEW e \in Emojis
      PROVE  Cardinality({u \in Users : react[u] = e}) \in 0 .. Cardinality(Users)
  <2>1. {u \in Users : react[u] = e} \in SUBSET Users /\ IsFiniteSet(Users)
    BY RoomAssumption
  <2>2. /\ IsFiniteSet({u \in Users : react[u] = e})
        /\ Cardinality({u \in Users : react[u] = e}) <= Cardinality(Users)
    BY <2>1, FS_Subset
  <2>3. /\ Cardinality({u \in Users : react[u] = e}) \in Nat
        /\ Cardinality(Users) \in Nat
    BY <2>1, <2>2, FS_CardinalityType
  <2> QED BY <2>2, <2>3
<1> QED BY <1>1 DEF CountsOf, Counts

LEMMA NoCountsType == NoCounts \in Counts
<1>1. Cardinality(Users) \in Nat
  BY RoomAssumption, FS_CardinalityType
<1> QED BY <1>1 DEF NoCounts, Counts

\* A message that nobody reacted to has no counts.
LEMMA NoReactions == CountsOf([u \in Users |-> NoEmoji]) = NoCounts
<1>1. ASSUME NEW e \in Emojis
      PROVE  Cardinality({u \in Users : [v \in Users |-> NoEmoji][u] = e}) = 0
  <2>1. {u \in Users : [v \in Users |-> NoEmoji][u] = e} = {}
    BY RoomAssumption
  <2> QED BY <2>1, FS_EmptySet
<1> QED BY <1>1 DEF CountsOf, NoCounts

LEMMA BubbleType ==
  ASSUME TypeInv, NEW m \in 1 .. Len(rows) PROVE BubbleOf(m) \in Bubble
<1>1. rows[m] \in Row /\ m \in Ids
  BY RoomAssumption DEF TypeInv, TypeOK, RowsCounted, Ids
<1>2. CountsOf(rows[m].react) \in Counts
  BY CountsType
<1> QED BY <1>1, <1>2 DEF BubbleOf, Bubble, Row

\* The history is the bubbles of the rows that are left, each once, in the order
\* of their numbers.
LEMMA HistoryIs ==
  ASSUME TypeInv
  PROVE  /\ History \in Seq(Bubble)
         /\ \A i \in 1 .. Len(History) :
              /\ History[i].id \in 1 .. Len(rows) /\ InHistory(History[i].id)
              /\ History[i] = BubbleOf(History[i].id)
         /\ \A i, j \in 1 .. Len(History) : i < j => History[i].id < History[j].id
         /\ \A m \in 1 .. Len(rows) : InHistory(m) => \E i \in 1 .. Len(History) : History[i].id = m
<1> DEFINE ids == {m \in 1 .. Len(rows) : InHistory(m)}
           c == Cardinality(ids)
           f == Ascending(ids)
<1>1. Len(rows) \in Nat /\ ids \in SUBSET (1 .. Len(rows))
  BY DEF TypeInv, TypeOK
<1>2. /\ c \in Nat /\ f \in [1 .. c -> ids]
      /\ \A i, j \in 1 .. c : i < j => f[i] < f[j]
      /\ \A x \in ids : \E i \in 1 .. c : f[i] = x
  BY <1>1, AscendingLists
<1>3. History = [i \in 1 .. c |-> BubbleOf(f[i])]
  BY DEF History
<1> HIDE DEF c, f
<1>4. \A i \in 1 .. c : f[i] \in 1 .. Len(rows) /\ InHistory(f[i])
  BY <1>2
<1>5. \A i \in 1 .. c : BubbleOf(f[i]) \in Bubble
  BY <1>4, BubbleType
<1>6. History \in Seq(Bubble) /\ Len(History) = c
  BY <1>2, <1>3, <1>5
<1>7. \A i \in 1 .. c : History[i] = BubbleOf(f[i]) /\ History[i].id = f[i]
  BY <1>3 DEF BubbleOf
<1>8. \A i \in 1 .. Len(History) : /\ History[i].id \in 1 .. Len(rows) /\ InHistory(History[i].id)
                                   /\ History[i] = BubbleOf(History[i].id)
  BY <1>4, <1>6, <1>7
<1>9. \A i, j \in 1 .. Len(History) : i < j => History[i].id < History[j].id
  BY <1>2, <1>6, <1>7
<1>10. \A m \in 1 .. Len(rows) : InHistory(m) => \E i \in 1 .. Len(History) : History[i].id = m
  BY <1>2, <1>6, <1>7
<1> QED BY <1>6, <1>8, <1>9, <1>10

\* getElementById: the first bubble of m, or none.
LEMMA AtIs ==
  ASSUME feed \in Seq(Bubble), NEW m
  PROVE  \/ At(m) = 0 /\ \A i \in 1 .. Len(feed) : feed[i].id # m
         \/ At(m) \in 1 .. Len(feed) /\ feed[At(m)].id = m
<1> DEFINE I == {i \in 1 .. Len(feed) : feed[i].id = m}
<1>1. At(m) = IF I # {} THEN Min(I) ELSE 0
  BY DEF At, SelectInSeq
<1>2. CASE I = {}
  BY <1>1, <1>2
<1>3. CASE I # {}
  <2>1. I \subseteq Nat
    OBVIOUS
  <2>2. Min(I) \in I
    BY <1>3, <2>1, MinIsLeast
  <2>3. At(m) \in I
    BY <1>1, <1>3, <2>2
  <2> QED BY <2>3
<1> QED BY <1>2, <1>3

\* The event a hub prepares has the type of one.
LEMMA EvType ==
  ASSUME NEW kind \in Kinds, NEW m \in Ids \cup {0}, NEW u \in Users,
         NEW text \in Contents, NEW counts \in Counts
  PROVE  Ev(kind, m, u, text, counts) \in Event
BY DEF Ev, Event

LEMMA HandleType ==
  ASSUME TypeInv, NEW h \in Hubs, NEW ev \in Event, NEW done \in BOOLEAN,
         ev.kind = "new" => ev.id \in Ids,
         Handle(h, ev, done), rows' \in Seq(Row), Len(rows') <= Len(rows) + 1
  PROVE  TypeInv'
<1>1. ops' = ops + 1 /\ ops' \in 0 .. MaxOps /\ Len(rows') <= ops'
  BY RoomAssumption DEF Handle, TypeInv, TypeOK, RowsCounted
<1>2. work' = [work EXCEPT ![h] = ev] /\ work' \in [Hubs -> Event \cup {NoEvent}]
  BY DEF Handle, TypeInv, TypeOK
<1>3. clean' \in BOOLEAN
  BY DEF Handle, Found, TypeInv, TypeOK
<1>4. TypeOK'
  BY <1>1, <1>2, <1>3 DEF Handle, pageVars, TypeInv, TypeOK
<1>5. NewIsNamed'
  BY <1>2 DEF Handle, TypeInv, TypeOK, NewIsNamed
<1> QED BY <1>1, <1>4, <1>5 DEF TypeInv, RowsCounted

\* What is written to one row leaves a sequence of rows.
LEMMA RowWritten ==
  ASSUME TypeInv, NEW m \in 1 .. Len(rows), NEW r \in Row
  PROVE  /\ [rows EXCEPT ![m] = r] \in Seq(Row)
         /\ Len([rows EXCEPT ![m] = r]) = Len(rows)
         /\ \A n \in 1 .. Len(rows) : [rows EXCEPT ![m] = r][n] = IF n = m THEN r ELSE rows[n]
BY ExceptSeq DEF TypeInv, TypeOK

LEMMA RowsType ==
  ASSUME TypeInv
  PROVE  /\ Len(rows) \in 0 .. MaxOps /\ Len(rows) \in Nat
         /\ \A m \in 1 .. Len(rows) : rows[m] \in Row /\ m \in Ids
BY RoomAssumption DEF TypeInv, TypeOK, RowsCounted, Ids

LEMMA PostType ==
  ASSUME TypeInv, NEW h \in Hubs, NEW u \in Users, Post(h, u) PROVE TypeInv'
<1> DEFINE r == [by |-> u, text |-> ops + 1, deleted |-> FALSE, read |-> FALSE,
                 react |-> [v \in Users |-> NoEmoji], gone |-> FALSE, hidden |-> FALSE]
           ev == Ev("new", Len(rows) + 1, u, ops + 1, NoCounts)
<1>1. ops + 1 \in Contents /\ Len(rows) + 1 \in Ids
  BY RoomAssumption DEF Post, Handle, TypeInv, TypeOK, RowsCounted, Contents, Ids
<1>2. r \in Row
  BY <1>1 DEF Row
<1>3. ev \in Event /\ ev.id \in Ids
  BY <1>1, NoCountsType, EvType DEF Kinds, Ev
<1>4. rows' = Append(rows, r)
  BY DEF Post
<1> HIDE DEF r
<1>5. rows' \in Seq(Row) /\ Len(rows') = Len(rows) + 1
  BY <1>2, <1>4, AppendProperties DEF TypeInv, TypeOK
<1>6. Len(rows') <= Len(rows) + 1
  BY <1>5, RowsType
<1>7. Handle(h, ev, TRUE)
  BY DEF Post
<1> QED BY <1>3, <1>5, <1>6, <1>7, HandleType

LEMMA EditType ==
  ASSUME TypeInv, NEW h \in Hubs, NEW m \in 1 .. Len(rows), NEW u \in Users,
         Edit(h, m, u)
  PROVE  TypeInv'
<1>1. PICK ok \in Works :
        /\ rows' = IF ok /\ Own(m, u) /\ ~rows[m].gone /\ ~rows[m].deleted
                   THEN [rows EXCEPT ![m].text = ops + 1] ELSE rows
        /\ Handle(h, Ev("edit", m, u, ops + 1, NoCounts), ok /\ Own(m, u))
  BY DEF Edit
<1>2. ops + 1 \in Contents /\ m \in Ids /\ rows[m] \in Row
  BY <1>1, RowsType, RoomAssumption DEF Handle, TypeInv, TypeOK, Contents
<1>3. Ev("edit", m, u, ops + 1, NoCounts) \in Event
  BY <1>2, NoCountsType, EvType DEF Kinds
<1>4. rows' \in Seq(Row) /\ Len(rows') = Len(rows)
  <2>1. [rows[m] EXCEPT !.text = ops + 1] \in Row
    BY <1>2 DEF Row
  <2> QED BY <1>1, <2>1, RowWritten DEF TypeInv, TypeOK
<1>5. (ok /\ Own(m, u)) \in BOOLEAN
  BY RoomAssumption DEF Works, Own
<1>6. Len(rows') <= Len(rows) + 1
  BY <1>4, RowsType
<1>7. Ev("edit", m, u, ops + 1, NoCounts).kind # "new"
  BY DEF Ev
<1> QED BY <1>1, <1>3, <1>4, <1>5, <1>6, <1>7, HandleType

LEMMA DeleteType ==
  ASSUME TypeInv, NEW h \in Hubs, NEW m \in 1 .. Len(rows), NEW u \in Users,
         DeleteForAll(h, m, u)
  PROVE  TypeInv'
<1>1. PICK ok \in Works :
        /\ rows' = IF ok /\ Own(m, u) /\ ~rows[m].gone
                   THEN [rows EXCEPT ![m].deleted = TRUE, ![m].text = Erased] ELSE rows
        /\ Handle(h, Ev("delete", m, u, Erased, NoCounts), ok /\ Own(m, u))
  BY DEF DeleteForAll
<1>2. Erased \in Contents /\ m \in Ids /\ rows[m] \in Row
  BY <1>1, RowsType, RoomAssumption DEF Contents, Erased
<1>3. Ev("delete", m, u, Erased, NoCounts) \in Event
  BY <1>2, NoCountsType, EvType DEF Kinds
<1>4. rows' \in Seq(Row) /\ Len(rows') = Len(rows)
  <2>1. [rows[m] EXCEPT !.deleted = TRUE, !.text = Erased] \in Row
    BY <1>2 DEF Row
  <2>2. PICK r \in Row : r = [rows[m] EXCEPT !.deleted = TRUE, !.text = Erased]
    BY <2>1
  <2>3. [rows EXCEPT ![m].deleted = TRUE, ![m].text = Erased] = [rows EXCEPT ![m] = r]
    BY <2>2 DEF TypeInv, TypeOK
  <2>4. rows' = rows \/ rows' = [rows EXCEPT ![m] = r]
    BY <1>1, <2>3
  <2> QED BY <2>4, RowWritten DEF TypeInv, TypeOK
<1>5. (ok /\ Own(m, u)) \in BOOLEAN
  BY RoomAssumption DEF Works, Own
<1>6. Len(rows') <= Len(rows) + 1
  BY <1>4, RowsType
<1>7. Ev("delete", m, u, Erased, NoCounts).kind # "new"
  BY DEF Ev
<1> QED BY <1>1, <1>3, <1>4, <1>5, <1>6, <1>7, HandleType

LEMMA ReactType ==
  ASSUME TypeInv, NEW h \in Hubs, NEW m \in 1 .. Len(rows), NEW u \in Users, NEW e \in Emojis,
         React(h, m, u, e)
  PROVE  TypeInv'
<1>1. PICK written \in Works, read \in Works :
        /\ rows' = IF written /\ ~rows[m].gone
                   THEN [rows EXCEPT ![m].react[u] = Toggled(@, e)] ELSE rows
        /\ Handle(h, Ev("react", m, u, Erased,
                        IF read THEN CountsOf(Counted(m)) ELSE NoCounts), read)
  BY DEF React
<1>2. PICK counts : counts = IF read THEN CountsOf(Counted(m)) ELSE NoCounts
  OBVIOUS
<1>3. counts \in Counts
  BY <1>2, CountsType, NoCountsType
<1>4. Erased \in Contents /\ m \in Ids /\ rows[m] \in Row
  BY RowsType, RoomAssumption DEF Contents, Erased
<1>5. Ev("react", m, u, Erased, counts) \in Event
  BY <1>3, <1>4, EvType DEF Kinds
<1>6. rows' \in Seq(Row) /\ Len(rows') = Len(rows)
  <2>1. [rows[m] EXCEPT !.react[u] = Toggled(@, e)] \in Row
    BY <1>4 DEF Row, Toggled
  <2>2. [rows EXCEPT ![m].react[u] = Toggled(@, e)]
          = [rows EXCEPT ![m] = [rows[m] EXCEPT !.react[u] = Toggled(@, e)]]
    BY DEF TypeInv, TypeOK
  <2> QED BY <1>1, <2>1, <2>2, RowWritten DEF TypeInv, TypeOK
<1>7. read \in BOOLEAN
  BY RoomAssumption DEF Works
<1>8. Len(rows') <= Len(rows) + 1
  BY <1>6, RowsType
<1>9. Ev("react", m, u, Erased, counts).kind # "new"
  BY DEF Ev
<1>10. Handle(h, Ev("react", m, u, Erased, counts), read)
  BY <1>1, <1>2
<1> QED BY <1>5, <1>6, <1>7, <1>8, <1>9, <1>10, HandleType

\* Marking changes the ticks of rows and nothing else.
LEMMA MarkedIs ==
  ASSUME TypeInv, NEW u \in Users
  PROVE  /\ Marked(u) \in Seq(Row) /\ Len(Marked(u)) = Len(rows)
         /\ \A n \in 1 .. Len(rows) :
              Marked(u)[n] = IF rows[n].by # u THEN [rows[n] EXCEPT !.read = TRUE] ELSE rows[n]
<1>1. \A n \in 1 .. Len(rows) :
        (IF rows[n].by # u THEN [rows[n] EXCEPT !.read = TRUE] ELSE rows[n]) \in Row
  BY RowsType DEF Row
<1> QED BY <1>1, RowsType DEF Marked

LEMMA ReadType ==
  ASSUME TypeInv, NEW h \in Hubs, NEW u \in Users, Read(h, u) PROVE TypeInv'
<1>1. PICK ok \in Works : /\ rows' = IF ok THEN Marked(u) ELSE rows
                          /\ Handle(h, Ev("read", 0, u, Erased, NoCounts), TRUE)
  BY DEF Read
<1>2. Ev("read", 0, u, Erased, NoCounts) \in Event
  BY NoCountsType, EvType, RoomAssumption DEF Kinds, Contents, Erased
<1>3. rows' \in Seq(Row) /\ Len(rows') = Len(rows)
  BY <1>1, MarkedIs DEF TypeInv, TypeOK
<1>4. Len(rows') <= Len(rows) + 1
  BY <1>3, RowsType
<1>5. Ev("read", 0, u, Erased, NoCounts).kind # "new"
  BY DEF Ev
<1> QED BY <1>1, <1>2, <1>3, <1>4, <1>5, HandleType

LEMMA HideType ==
  ASSUME TypeInv, NEW h \in Hubs, NEW m \in 1 .. Len(rows), HideForMe(h, m) PROVE TypeInv'
<1>1. [rows[m] EXCEPT !.hidden = TRUE] \in Row
  BY RowsType DEF Row
<1>2. rows' \in Seq(Row) /\ Len(rows') = Len(rows)
  BY <1>1, RowWritten DEF HideForMe
<1>3. ops' = ops + 1 /\ ops' \in 0 .. MaxOps /\ Len(rows') <= ops'
  BY <1>2, RoomAssumption DEF HideForMe, TypeInv, TypeOK, RowsCounted
<1> QED BY <1>2, <1>3 DEF HideForMe, pageVars, TypeInv, TypeOK, RowsCounted, NewIsNamed

LEMMA ClearHistoryType ==
  ASSUME TypeInv, ClearHistory PROVE TypeInv'
<1>1. \A n \in 1 .. Len(rows) : [rows[n] EXCEPT !.hidden = TRUE] \in Row
  BY RowsType DEF Row
<1>2. rows' \in Seq(Row) /\ Len(rows') = Len(rows)
  BY <1>1, RowsType DEF ClearHistory
<1>3. ops' = ops + 1 /\ ops' \in 0 .. MaxOps /\ Len(rows') <= ops'
  BY <1>2, RoomAssumption DEF ClearHistory, TypeInv, TypeOK, RowsCounted
<1> QED BY <1>2, <1>3 DEF ClearHistory, pageVars, TypeInv, TypeOK, RowsCounted, NewIsNamed

LEMMA ExpireType ==
  ASSUME TypeInv, NEW m \in 1 .. Len(rows), Expire(m) PROVE TypeInv'
<1>1. [rows[m] EXCEPT !.gone = TRUE, !.react = [u \in Users |-> NoEmoji]] \in Row
  BY RowsType DEF Row
<1>2. PICK r \in Row : r = [rows[m] EXCEPT !.gone = TRUE, !.react = [u \in Users |-> NoEmoji]]
  BY <1>1
<1>3. [rows EXCEPT ![m].gone = TRUE, ![m].react = [u \in Users |-> NoEmoji]] = [rows EXCEPT ![m] = r]
  BY <1>2 DEF TypeInv, TypeOK
<1>4. rows' \in Seq(Row) /\ Len(rows') = Len(rows)
  <2>1. rows' = [rows EXCEPT ![m] = r]
    BY <1>3 DEF Expire
  <2> QED BY <2>1, RowWritten
<1> QED BY <1>4 DEF Expire, pageVars, TypeInv, TypeOK, RowsCounted, NewIsNamed

LEMMA PublishType ==
  ASSUME TypeInv, NEW h \in Hubs, Publish(h) PROVE TypeInv'
<1>1. work[h] \in Event /\ (work[h].kind = "new" => work[h].id \in Ids)
  BY DEF Publish, TypeInv, TypeOK, NewIsNamed
<1>2. /\ work' \in [Hubs -> Event \cup {NoEvent}]
      /\ \A g \in Hubs : work'[g] # NoEvent => work'[g] = work[g]
  BY DEF Publish, TypeInv, TypeOK
<1>3. CASE bus' = Append(bus, work[h]) /\ UNCHANGED clean
  <2>1. /\ bus' \in Seq(Event)
        /\ \A k \in 1 .. Len(bus') : bus'[k].kind = "new" => bus'[k].id \in Ids
    BY <1>1, <1>3, AppendProperties DEF TypeInv, TypeOK, NewIsNamed
  <2> QED BY <1>2, <1>3, <2>1 DEF Publish, pageVars, TypeInv, TypeOK, RowsCounted, NewIsNamed
<1>4. CASE clean' = FALSE /\ UNCHANGED bus
  BY <1>2, <1>4 DEF Publish, pageVars, TypeInv, TypeOK, RowsCounted, NewIsNamed
<1> QED BY <1>3, <1>4 DEF Publish

\* Without the bubble at i.
LEMMA RemovedIs ==
  ASSUME NEW F \in Seq(Bubble), NEW i \in 1 .. Len(F)
  PROVE  /\ RemoveAt(F, i) \in Seq(Bubble) /\ Len(RemoveAt(F, i)) = Len(F) - 1
         /\ \A j \in 1 .. Len(F) - 1 : RemoveAt(F, i)[j] = IF j < i THEN F[j] ELSE F[j + 1]
<1> DEFINE left == SubSeq(F, 1, i - 1)
           right == SubSeq(F, i + 1, Len(F))
<1>1. Len(F) \in Nat /\ i \in Nat /\ 1 <= i /\ i <= Len(F) /\ \A j \in 1 .. Len(F) : F[j] \in Bubble
  OBVIOUS
<1>2. /\ left \in Seq(Bubble) /\ Len(left) = i - 1
      /\ \A j \in 1 .. i - 1 : left[j] = F[j]
  <2>1. i - 1 \in Int /\ \A j \in 1 .. i - 1 : F[j] \in Bubble
    BY <1>1
  <2>2. /\ left \in Seq(Bubble) /\ Len(left) = (IF 1 <= i - 1 THEN (i - 1) - 1 + 1 ELSE 0)
        /\ \A j \in 1 .. (i - 1) - 1 + 1 : left[j] = F[1 + j - 1]
    BY <2>1, SubSeqProperties
  <2> QED BY <1>1, <2>2
<1>3. /\ right \in Seq(Bubble) /\ Len(right) = Len(F) - i
      /\ \A j \in 1 .. Len(F) - i : right[j] = F[i + j]
  <2>1. i + 1 \in Int /\ Len(F) \in Int /\ \A j \in i + 1 .. Len(F) : F[j] \in Bubble
    BY <1>1
  <2>2. /\ right \in Seq(Bubble) /\ Len(right) = (IF i + 1 <= Len(F) THEN Len(F) - (i + 1) + 1 ELSE 0)
        /\ \A j \in 1 .. Len(F) - (i + 1) + 1 : right[j] = F[(i + 1) + j - 1]
    BY <2>1, SubSeqProperties
  <2> QED BY <1>1, <2>2
<1> HIDE DEF left, right
<1>4. /\ left \o right \in Seq(Bubble) /\ Len(left \o right) = Len(left) + Len(right)
      /\ \A j \in 1 .. Len(left) + Len(right) :
           (left \o right)[j] = IF j <= Len(left) THEN left[j] ELSE right[j - Len(left)]
  BY <1>2, <1>3, ConcatProperties
<1>5. RemoveAt(F, i) = left \o right
  BY DEF RemoveAt, left, right
<1>6. ASSUME NEW j \in 1 .. Len(F) - 1
      PROVE  (left \o right)[j] = IF j < i THEN F[j] ELSE F[j + 1]
  <2>1. CASE j < i
    BY <1>1, <1>2, <1>3, <1>4, <2>1
  <2>2. CASE ~(j < i)
    <3>1. j - Len(left) \in 1 .. Len(F) - i /\ ~(j <= Len(left)) /\ i + (j - Len(left)) = j + 1
      BY <1>1, <1>2, <2>2
    <3>2. (left \o right)[j] = right[j - Len(left)]
      BY <1>2, <1>3, <1>4, <3>1
    <3>3. right[j - Len(left)] = F[j + 1]
      BY <1>3, <3>1
    <3> QED BY <2>2, <3>2, <3>3
  <2> QED BY <2>1, <2>2
<1> QED BY <1>1, <1>2, <1>3, <1>4, <1>5, <1>6

\* A bubble with another text, other counts or blue ticks is the same otherwise.
LEMMA BubbleWith ==
  ASSUME NEW b \in Bubble, NEW text \in Contents, NEW counts \in Counts
  PROVE  /\ [b EXCEPT !.text = text] \in Bubble
         /\ [b EXCEPT !.counts = counts] \in Bubble
         /\ [b EXCEPT !.read = TRUE] \in Bubble
         /\ [b EXCEPT !.text = text].id = b.id
         /\ [b EXCEPT !.counts = counts].id = b.id
         /\ [b EXCEPT !.read = TRUE].id = b.id
<1>1. [b EXCEPT !.text = text] \in Bubble /\ [b EXCEPT !.text = text].id = b.id
  BY DEF Bubble
<1>2. [b EXCEPT !.counts = counts] \in Bubble /\ [b EXCEPT !.counts = counts].id = b.id
  BY DEF Bubble
<1>3. [b EXCEPT !.read = TRUE] \in Bubble /\ [b EXCEPT !.read = TRUE].id = b.id
  BY DEF Bubble
<1> QED BY <1>1, <1>2, <1>3

LEMMA EventParts ==
  ASSUME NEW ev \in Event
  PROVE  /\ ev.text \in Contents /\ ev.counts \in Counts /\ ev.id \in Ids \cup {0}
         /\ ev.by \in Users /\ ev.kind \in Kinds
BY DEF Event

\* The ticks of Me's bubbles turn blue, and nothing else changes.
LEMMA TickedIs ==
  ASSUME feed \in Seq(Bubble)
  PROVE  /\ Ticked \in Seq(Bubble) /\ Len(Ticked) = Len(feed)
         /\ \A i \in 1 .. Len(feed) :
              Ticked[i] = IF feed[i].by = Me /\ ~feed[i].deleted
                          THEN [feed[i] EXCEPT !.read = TRUE] ELSE feed[i]
<1>1. \A i \in 1 .. Len(feed) :
        (IF feed[i].by = Me /\ ~feed[i].deleted THEN [feed[i] EXCEPT !.read = TRUE] ELSE feed[i]) \in Bubble
  <2> SUFFICES ASSUME NEW i \in 1 .. Len(feed)
               PROVE  feed[i] \in Bubble /\ [feed[i] EXCEPT !.read = TRUE] \in Bubble
    OBVIOUS
  <2>1. feed[i] \in Bubble
    BY ElementOfSeq
  <2> QED BY <2>1 DEF Bubble
<1> QED BY <1>1 DEF Ticked

\* The bubble of a new message.
LEMMA ShowNewIs ==
  ASSUME feed \in Seq(Bubble), NEW ev \in Event, ev.id \in Ids
  PROVE  /\ ShowNew(ev) \in Seq(Bubble) /\ Len(ShowNew(ev)) = Len(feed) + 1
         /\ \A i \in 1 .. Len(feed) : ShowNew(ev)[i] = feed[i]
         /\ ShowNew(ev)[Len(feed) + 1] =
              [id |-> ev.id, by |-> ev.by, text |-> ev.text, deleted |-> FALSE,
               read |-> FALSE, counts |-> NoCounts]
<1>1. [id |-> ev.id, by |-> ev.by, text |-> ev.text, deleted |-> FALSE,
       read |-> FALSE, counts |-> NoCounts] \in Bubble
  BY NoCountsType DEF Event, Bubble
<1> QED BY <1>1, AppendProperties DEF ShowNew

\* A bubble changed where the event says.
LEMMA BubbleChanged ==
  ASSUME feed \in Seq(Bubble), NEW i \in 1 .. Len(feed), NEW b \in Bubble
  PROVE  /\ [feed EXCEPT ![i] = b] \in Seq(Bubble) /\ Len([feed EXCEPT ![i] = b]) = Len(feed)
         /\ \A j \in 1 .. Len(feed) : [feed EXCEPT ![i] = b][j] = IF j = i THEN b ELSE feed[j]
BY ExceptSeq

LEMMA ShownType ==
  ASSUME feed \in Seq(Bubble), NEW ev \in Event, ev.kind = "new" => ev.id \in Ids
  PROVE  Shown(ev) \in Seq(Bubble)
<1>1. CASE ev.kind = "new"
  BY <1>1, ShowNewIs DEF Shown
<1>2. CASE ev.kind = "read"
  BY <1>2, TickedIs DEF Shown
<1>3. CASE ev.kind \notin {"new", "read"} /\ At(ev.id) = 0
  BY <1>3 DEF Shown
<1>4. CASE ev.kind \notin {"new", "read"} /\ At(ev.id) # 0
  <2>1. PICK i \in 1 .. Len(feed) : i = At(ev.id)
    BY <1>4, AtIs
  <2>2. feed[i] \in Bubble
    BY ElementOfSeq
  <2>3. /\ [feed[i] EXCEPT !.text = ev.text] \in Bubble
        /\ [feed[i] EXCEPT !.counts = ev.counts] \in Bubble
        /\ [feed[i] EXCEPT !.text = ev.text].id = feed[i].id
        /\ [feed[i] EXCEPT !.counts = ev.counts].id = feed[i].id
    BY <2>2, BubbleWith, EventParts
  <2>4. /\ [feed EXCEPT ![i].text = ev.text] \in Seq(Bubble)
        /\ [feed EXCEPT ![i].counts = ev.counts] \in Seq(Bubble)
        /\ RemoveAt(feed, i) \in Seq(Bubble)
    BY <2>3, BubbleChanged, RemovedIs
  <2> QED BY <1>4, <2>1, <2>4 DEF Shown
<1> QED BY <1>1, <1>2, <1>3, <1>4

LEMMA FollowType ==
  ASSUME TypeInv, Follow PROVE TypeInv'
<1>1. bus # <<>> /\ bus \in Seq(Event)
  BY DEF Follow, TypeInv, TypeOK
<1>2. Len(bus) \in Nat /\ Len(bus) >= 1 /\ Head(bus) = bus[1]
  BY <1>1
<1>3. /\ Head(bus) \in Event /\ Tail(bus) \in Seq(Event)
      /\ \A k \in 1 .. Len(Tail(bus)) : k + 1 \in 1 .. Len(bus) /\ Tail(bus)[k] = bus[k + 1]
  BY <1>1, <1>2, HeadTailProperties
<1>4. Head(bus).kind = "new" => Head(bus).id \in Ids
  BY <1>2 DEF TypeInv, NewIsNamed
<1>5. feed' \in Seq(Bubble)
  BY <1>3, <1>4, ShownType DEF Follow, TypeInv, TypeOK
<1>6. TypeOK' /\ RowsCounted'
  BY <1>3, <1>5 DEF Follow, backVars, TypeInv, TypeOK, RowsCounted
<1>7. NewIsNamed'
  BY <1>3 DEF Follow, backVars, TypeInv, NewIsNamed
<1> QED BY <1>6, <1>7 DEF TypeInv

LEMMA ConnectionType ==
  ASSUME TypeInv, Drop \/ Reconnect PROVE TypeInv'
<1>1. CASE Drop
  <2>1. bus' \in Seq(Event) /\ Len(bus') = 0
    BY <1>1, EmptySeq DEF Drop
  <2>2. TypeOK' /\ RowsCounted'
    BY <1>1, <2>1 DEF Drop, backVars, pageVars, TypeInv, TypeOK, RowsCounted
  <2>3. NewIsNamed'
    BY <1>1, <2>1 DEF Drop, backVars, TypeInv, NewIsNamed
  <2> QED BY <2>2, <2>3 DEF TypeInv
<1>2. CASE Reconnect
  BY <1>2 DEF Reconnect, backVars, pageVars, TypeInv, TypeOK, RowsCounted, NewIsNamed
<1> QED BY <1>1, <1>2

LEMMA LoadType ==
  ASSUME TypeInv, NEW i \in Loads, Ask(i) \/ Answer(i) \/ Clear(i) \/ Render(i)
  PROVE  TypeInv'
<1>1. CASE Ask(i)
  <2>1. loads' \in 0 .. MaxLoads /\ clean' \in BOOLEAN
    BY <1>1, RoomAssumption DEF Ask, TypeInv, TypeOK
  <2> QED BY <1>1, <2>1 DEF Ask, backVars, TypeInv, TypeOK, RowsCounted, NewIsNamed
<1>2. CASE Answer(i)
  <2>1. snap' \in [Loads -> Seq(Bubble)] /\ clean' \in BOOLEAN
    BY <1>2, HistoryIs DEF Answer, TypeInv, TypeOK
  <2> QED BY <1>2, <2>1 DEF Answer, backVars, TypeInv, TypeOK, RowsCounted, NewIsNamed
<1>3. CASE Clear(i)
  BY <1>3, EmptySeq DEF Clear, Emptied, backVars, TypeInv, TypeOK, RowsCounted, NewIsNamed
<1>4. CASE Render(i)
  <2>1. feed' \in Seq(Bubble)
    BY <1>4, ConcatProperties DEF Render, TypeInv, TypeOK
  <2> QED BY <1>4, <2>1 DEF Render, backVars, TypeInv, TypeOK, RowsCounted, NewIsNamed
<1> QED BY <1>1, <1>2, <1>3, <1>4

LEMMA TypeInit == Init => TypeInv
<1> SUFFICES ASSUME Init PROVE TypeInv
  OBVIOUS
<1>1. <<>> \in Seq(Row) /\ <<>> \in Seq(Event) /\ <<>> \in Seq(Bubble) /\ Len(<<>>) = 0
  BY EmptySeq
<1>2. TypeOK
  BY <1>1, RoomAssumption DEF Init, TypeOK
<1>3. RowsCounted /\ NewIsNamed
  BY <1>1 DEF Init, RowsCounted, NewIsNamed
<1> QED BY <1>2, <1>3 DEF TypeInv

LEMMA TypeStep == TypeInv /\ [Next]_vars => TypeInv'
<1> SUFFICES ASSUME TypeInv, [Next]_vars PROVE TypeInv'
  OBVIOUS
<1>1. ASSUME NEW h \in Hubs, HubHandles(h) PROVE TypeInv'
  BY <1>1, PostType, ReadType, EditType, DeleteType, HideType, ReactType DEF HubHandles
<1>2. ASSUME NEW h \in Hubs, Publish(h) PROVE TypeInv'
  BY <1>2, PublishType
<1>3. ASSUME NEW m \in 1 .. Len(rows), Expire(m) PROVE TypeInv'
  BY <1>3, ExpireType
<1>4. CASE ClearHistory
  BY <1>4, ClearHistoryType
<1>5. CASE Follow \/ Drop \/ Reconnect
  BY <1>5, FollowType, ConnectionType
<1>6. CASE PageLoads
  BY <1>6, LoadType DEF PageLoads
<1>7. CASE UNCHANGED vars
  BY <1>7 DEF vars, backVars, pageVars, TypeInv, TypeOK, RowsCounted, NewIsNamed
<1>8. CASE Quiet
  BY <1>7, <1>8 DEF Quiet
<1> QED BY <1>1, <1>2, <1>3, <1>4, <1>5, <1>6, <1>7, <1>8 DEF Next

LEMMA TypeInvariant == Spec => []TypeInv
BY TypeInit, TypeStep, PTL DEF Spec

\* Every variable keeps its type: rows, events and bubbles carry numbers of
\* messages that were written, and the counts never exceed the number of users.
THEOREM RoomTypeCorrect == Spec => []TypeOK
<1>1. TypeInv => TypeOK
  BY DEF TypeInv
<1> QED BY <1>1, TypeInvariant, PTL

-----------------------------------------------------------------------------
(* What was withdrawn does not return.                                     *)

\* An event brings a bubble of no message but the one it announces.
LEMMA ShownIds ==
  ASSUME feed \in Seq(Bubble), NEW ev \in Event, ev.kind = "new" => ev.id \in Ids,
         NEW j \in 1 .. Len(Shown(ev))
  PROVE  \/ \E i \in 1 .. Len(feed) : feed[i].id = Shown(ev)[j].id
         \/ ev.kind = "new" /\ ev.id = Shown(ev)[j].id
<1>1. CASE ev.kind = "new"
  <2>1. Shown(ev) = ShowNew(ev) /\ ev.id \in Ids
    BY <1>1 DEF Shown
  <2>2. /\ Len(ShowNew(ev)) = Len(feed) + 1
        /\ \A i \in 1 .. Len(feed) : ShowNew(ev)[i] = feed[i]
        /\ ShowNew(ev)[Len(feed) + 1] =
              [id |-> ev.id, by |-> ev.by, text |-> ev.text, deleted |-> FALSE,
               read |-> FALSE, counts |-> NoCounts]
    BY <2>1, ShowNewIs, Zenon
  <2>3. Len(feed) \in Nat /\ Len(Shown(ev)) = Len(feed) + 1
    BY <2>1, <2>2
  <2>4. j \in 1 .. Len(feed) \/ j = Len(feed) + 1
    BY <2>3
  <2>5. CASE j \in 1 .. Len(feed)
    BY <2>1, <2>5, ShowNewIs
  <2>6. CASE j = Len(feed) + 1
    <3>1. Shown(ev)[j].id = ev.id
      BY <2>1, <2>6, <2>2
    <3> QED BY <1>1, <3>1
  <2> QED BY <2>4, <2>5, <2>6
<1>2. CASE ev.kind = "read"
  <2>1. Shown(ev) = Ticked
    BY <1>2 DEF Shown
  <2>2. j \in 1 .. Len(feed) /\ feed[j] \in Bubble
    BY <2>1, TickedIs
  <2>3. Ticked[j].id = feed[j].id
    BY <2>2, TickedIs DEF Bubble
  <2> QED BY <2>1, <2>2, <2>3
<1>3. CASE ev.kind \notin {"new", "read"} /\ At(ev.id) = 0
  BY <1>3 DEF Shown
<1>4. CASE ev.kind \notin {"new", "read"} /\ At(ev.id) # 0
  <2>1. PICK i \in 1 .. Len(feed) : i = At(ev.id)
    BY <1>4, AtIs
  <2>2. feed[i] \in Bubble
    BY ElementOfSeq
  <2>3. /\ [feed[i] EXCEPT !.text = ev.text] \in Bubble
        /\ [feed[i] EXCEPT !.counts = ev.counts] \in Bubble
        /\ [feed[i] EXCEPT !.text = ev.text].id = feed[i].id
        /\ [feed[i] EXCEPT !.counts = ev.counts].id = feed[i].id
    BY <2>2, BubbleWith, EventParts
  <2>4. CASE ev.kind = "edit"
    <3>1. Shown(ev) = [feed EXCEPT ![i] = [feed[i] EXCEPT !.text = ev.text]]
      BY <1>4, <2>1, <2>4 DEF Shown
    <3> QED BY <2>3, <3>1, BubbleChanged
  <2>5. CASE ev.kind = "react"
    <3>1. Shown(ev) = [feed EXCEPT ![i] = [feed[i] EXCEPT !.counts = ev.counts]]
      BY <1>4, <2>1, <2>5 DEF Shown
    <3> QED BY <2>3, <3>1, BubbleChanged
  <2>6. CASE ev.kind \notin {"edit", "react"}
    <3>1. Shown(ev) = RemoveAt(feed, i)
      BY <1>4, <2>1, <2>6 DEF Shown
    <3>2. j \in 1 .. Len(feed) - 1 /\ RemoveAt(feed, i)[j] = IF j < i THEN feed[j] ELSE feed[j + 1]
      BY <3>1, RemovedIs
    <3> QED BY <3>1, <3>2
  <2> QED BY <2>4, <2>5, <2>6
<1> QED BY <1>1, <1>2, <1>3, <1>4

LEMMA HandleAround ==
  ASSUME TypeInv, NEW h \in Hubs, NEW ev \in Event, NEW done, Handle(h, ev, done), NEW m,
         ev.kind = "new" => ev.id # m, Around(m)'
  PROVE  Around(m)
<1>1. /\ UNCHANGED <<feed, snap, bus>>
      /\ \A g \in Hubs : work'[g] = IF g = h THEN ev ELSE work[g]
  BY DEF Handle, pageVars, TypeInv, TypeOK
<1>2. (\E g \in Hubs : work'[g] # NoEvent /\ work'[g].kind = "new" /\ work'[g].id = m)
         => \E g \in Hubs : work[g] # NoEvent /\ work[g].kind = "new" /\ work[g].id = m
  BY <1>1
<1> QED BY <1>1, <1>2 DEF Around

\* What a hub handles brings nothing but a message that was not there.
LEMMA HubAround ==
  ASSUME TypeInv, NEW h \in Hubs, HubHandles(h), NEW m \in 1 .. Len(rows), Around(m)'
  PROVE  Around(m)
<1>1. ASSUME NEW u \in Users, Post(h, u) PROVE Around(m)
  <2>1. Ev("new", Len(rows) + 1, u, ops + 1, NoCounts) \in Event
    BY <1>1, EvType, NoCountsType, RoomAssumption
       DEF Post, Handle, TypeInv, TypeOK, RowsCounted, Contents, Ids, Kinds
  <2>2. Ev("new", Len(rows) + 1, u, ops + 1, NoCounts).id # m
    BY RowsType DEF Ev
  <2> QED BY <1>1, <2>1, <2>2, HandleAround DEF Post
<1>2. ASSUME NEW u \in Users, Read(h, u) PROVE Around(m)
  <2>1. Ev("read", 0, u, Erased, NoCounts) \in Event
    BY EvType, NoCountsType, RoomAssumption DEF Kinds, Contents, Erased
  <2>2. Ev("read", 0, u, Erased, NoCounts).kind # "new"
    BY DEF Ev
  <2> QED BY <1>2, <2>1, <2>2, HandleAround DEF Read
<1>3. ASSUME NEW n \in 1 .. Len(rows), NEW u \in Users, Edit(h, n, u) PROVE Around(m)
  <2>1. ops + 1 \in Contents /\ n \in Ids
    BY <1>3, RowsType, RoomAssumption DEF Edit, Handle, TypeInv, TypeOK, Contents
  <2>2. Ev("edit", n, u, ops + 1, NoCounts) \in Event
    BY <2>1, EvType, NoCountsType DEF Kinds
  <2>3. Ev("edit", n, u, ops + 1, NoCounts).kind # "new"
    BY DEF Ev
  <2> QED BY <1>3, <2>2, <2>3, HandleAround DEF Edit
<1>4. ASSUME NEW n \in 1 .. Len(rows), NEW u \in Users, DeleteForAll(h, n, u)
      PROVE  Around(m)
  <2>1. Ev("delete", n, u, Erased, NoCounts) \in Event
    BY EvType, NoCountsType, RowsType, RoomAssumption DEF Contents, Erased, Kinds
  <2>2. Ev("delete", n, u, Erased, NoCounts).kind # "new"
    BY DEF Ev
  <2> QED BY <1>4, <2>1, <2>2, HandleAround DEF DeleteForAll
<1>5. ASSUME NEW n \in 1 .. Len(rows), HideForMe(h, n) PROVE Around(m)
  BY <1>5 DEF HideForMe, pageVars, Around
<1>6. ASSUME NEW n \in 1 .. Len(rows), NEW u \in Users, NEW e \in Emojis, React(h, n, u, e)
      PROVE  Around(m)
  <2>1. PICK written \in Works, read \in Works :
          Handle(h, Ev("react", n, u, Erased,
                       IF read THEN CountsOf(Counted(n)) ELSE NoCounts), read)
    BY <1>6 DEF React
  <2>2. PICK counts : counts = IF read THEN CountsOf(Counted(n)) ELSE NoCounts
    OBVIOUS
  <2>3. counts \in Counts
    BY <2>2, CountsType, NoCountsType
  <2>4. Ev("react", n, u, Erased, counts) \in Event
    BY <2>3, EvType, RowsType, RoomAssumption DEF Contents, Erased, Kinds
  <2>5. Ev("react", n, u, Erased, counts).kind # "new"
    BY DEF Ev
  <2> QED BY <2>1, <2>2, <2>4, <2>5, HandleAround
<1> QED BY <1>1, <1>2, <1>3, <1>4, <1>5, <1>6 DEF HubHandles

LEMMA FollowAround ==
  ASSUME TypeInv, Follow, NEW m, Around(m)' PROVE Around(m)
<1>1. bus # <<>> /\ bus \in Seq(Event) /\ feed \in Seq(Bubble)
  BY DEF Follow, TypeInv, TypeOK
<1>2. Len(bus) \in Nat /\ 1 \in 1 .. Len(bus) /\ Head(bus) = bus[1]
  BY <1>1
<1>3. /\ Head(bus) \in Event
      /\ \A k \in 1 .. Len(Tail(bus)) : k + 1 \in 1 .. Len(bus) /\ Tail(bus)[k] = bus[k + 1]
  BY <1>1, <1>2, HeadTailProperties
<1>4. Head(bus).kind = "new" => Head(bus).id \in Ids
  BY <1>2 DEF TypeInv, NewIsNamed
<1>5. UNCHANGED <<work, snap>> /\ feed' = Shown(Head(bus)) /\ bus' = Tail(bus)
  BY DEF Follow, backVars
<1>6. ASSUME NEW j \in 1 .. Len(feed'), feed'[j].id = m PROVE Around(m)
  <2>1. \/ \E i \in 1 .. Len(feed) : feed[i].id = m
        \/ Head(bus).kind = "new" /\ Head(bus).id = m
    BY <1>1, <1>3, <1>4, <1>5, <1>6, ShownIds
  <2> QED BY <2>1, <1>2 DEF Around
<1>7. ASSUME NEW k \in 1 .. Len(bus'), bus'[k].kind = "new" /\ bus'[k].id = m PROVE Around(m)
  BY <1>3, <1>5, <1>7 DEF Around
<1> QED BY <1>5, <1>6, <1>7 DEF Around

LEMMA PublishAround ==
  ASSUME TypeInv, NEW h \in Hubs, Publish(h), NEW m, Around(m)' PROVE Around(m)
<1>1. /\ work[h] \in Event /\ bus \in Seq(Event) /\ UNCHANGED <<feed, snap>>
      /\ \A g \in Hubs : work'[g] = IF g = h THEN NoEvent ELSE work[g]
  BY DEF Publish, pageVars, TypeInv, TypeOK
<1>2. ASSUME NEW k \in 1 .. Len(bus'), bus'[k].kind = "new", bus'[k].id = m PROVE Around(m)
  <2>1. CASE bus' = Append(bus, work[h])
    <3>1. (k \in 1 .. Len(bus) /\ bus'[k] = bus[k]) \/ bus'[k] = work[h]
      BY <1>1, <2>1, AppendProperties
    <3> QED BY <1>2, <3>1 DEF Publish, Around
  <2>2. CASE bus' = bus
    BY <1>2, <2>2 DEF Around
  <2> QED BY <2>1, <2>2 DEF Publish
<1>3. ASSUME NEW g \in Hubs, work'[g] # NoEvent, work'[g].kind = "new", work'[g].id = m
      PROVE  Around(m)
  BY <1>1, <1>3 DEF Around
<1> QED BY <1>1, <1>2, <1>3 DEF Around

LEMMA LoadAround ==
  ASSUME TypeInv, NEW i \in Loads, Ask(i) \/ Answer(i) \/ Clear(i) \/ Render(i),
         NEW m \in 1 .. Len(rows), rows[m].gone \/ rows[m].hidden, Around(m)'
  PROVE  Around(m)
<1>1. UNCHANGED <<work, bus>>
  BY DEF Ask, Answer, Clear, Render, backVars
<1>2. ASSUME NEW l \in Loads, NEW j \in 1 .. Len(snap'[l]), snap'[l][j].id = m PROVE Around(m)
  <2>1. CASE snap'[l] = snap[l]
    BY <1>2, <2>1 DEF Around
  <2>2. CASE snap'[l] = <<>>
    BY <1>2, <2>2, EmptySeq
  <2>3. CASE snap'[l] = History
    <3>1. InHistory(m)
      BY <1>2, <2>3, HistoryIs
    <3> QED BY <3>1 DEF InHistory
  <2> QED BY <2>1, <2>2, <2>3 DEF Ask, Answer, Clear, Render, TypeInv, TypeOK
<1>3. ASSUME NEW j \in 1 .. Len(feed'), feed'[j].id = m PROVE Around(m)
  <2>1. CASE UNCHANGED feed
    BY <1>3, <2>1 DEF Around
  <2>2. CASE Clear(i)
    BY <1>3, <2>2, EmptySeq DEF Clear, Emptied
  <2>3. CASE Render(i)
    <3>1. feed \in Seq(Bubble) /\ snap[i] \in Seq(Bubble) /\ feed' = feed \o snap[i]
      BY <2>3 DEF Render, TypeInv, TypeOK
    <3>2. /\ Len(feed') = Len(feed) + Len(snap[i])
          /\ feed'[j] = IF j <= Len(feed) THEN feed[j] ELSE snap[i][j - Len(feed)]
      BY <3>1, <1>3, ConcatProperties
    <3>3. CASE j <= Len(feed)
      BY <3>1, <3>2, <3>3, <1>3 DEF Around
    <3>4. CASE ~(j <= Len(feed))
      <4>1. j - Len(feed) \in 1 .. Len(snap[i])
        BY <3>1, <3>2, <3>4
      <4> QED BY <4>1, <3>2, <3>4, <1>3 DEF Around
    <3> QED BY <3>3, <3>4
  <2> QED BY <2>1, <2>2, <2>3 DEF Ask, Answer
<1> QED BY <1>1, <1>2, <1>3 DEF Around

LEMMA StayAway ==
  TypeInv /\ [Next]_vars =>
    \A m \in 1 .. Len(rows) : (rows[m].gone \/ rows[m].hidden) /\ ~Around(m) => ~Around(m)'
<1> SUFFICES ASSUME TypeInv, [Next]_vars, NEW m \in 1 .. Len(rows),
                    rows[m].gone \/ rows[m].hidden, Around(m)'
             PROVE  Around(m)
  OBVIOUS
<1>1. ASSUME NEW h \in Hubs, HubHandles(h) \/ Publish(h) PROVE Around(m)
  BY <1>1, HubAround, PublishAround
<1>2. CASE UNCHANGED <<work, bus, snap, feed>>
  BY <1>2 DEF Around
<1>3. ASSUME NEW n \in 1 .. Len(rows), Expire(n) PROVE Around(m)
  BY <1>2, <1>3 DEF Expire, pageVars
<1>4. CASE ClearHistory
  BY <1>2, <1>4 DEF ClearHistory, pageVars
<1>5. CASE Follow
  BY <1>5, FollowAround
<1>6. CASE Drop
  BY <1>6, EmptySeq DEF Drop, backVars, pageVars, Around
<1>7. CASE Reconnect
  BY <1>2, <1>7 DEF Reconnect, backVars, pageVars
<1>8. CASE PageLoads
  BY <1>8, LoadAround DEF PageLoads
<1>9. CASE UNCHANGED vars
  BY <1>2, <1>9 DEF vars, backVars, pageVars
<1>10. CASE Quiet
  BY <1>9, <1>10 DEF Quiet
<1> QED BY <1>1, <1>3, <1>4, <1>5, <1>6, <1>7, <1>8, <1>9, <1>10 DEF Next

\* A message that has expired or that Me deleted for himself, once it is neither
\* on the page nor on its way there, is not brought back by any load, late answer
\* or event, however many server processes there are.
THEOREM WithdrawnNeverReturns == Spec => NeverReturns
BY StayAway, TypeInvariant, PTL DEF Spec, NeverReturns

-----------------------------------------------------------------------------
(* What a page has been told of the rows, and what is on its way to it: R are *)
(* the rows, F the bubbles of the page, P the events that it will handle, in  *)
(* their order.                                                               *)

\* A row that the page should show.
Stays(R, m) == ~R[m].gone /\ ~R[m].hidden /\ ~R[m].deleted

\* Event ev tells the text of m, or the counts of m.
TellsText(ev, m) == ev.id = m /\ ev.kind \in {"new", "edit"}
TellsCounts(ev, m) == ev.id = m /\ ev.kind \in {"new", "react"}

\* The bubbles are in the order of their numbers.
Ordered(F) == \A i, j \in 1 .. Len(F) : i < j => F[i].id < F[j].id

\* A bubble is of a row, and says deleted only if the row is.
KnownBubbles(R, F) ==
  \A i \in 1 .. Len(F) :
    /\ F[i].id \in 1 .. Len(R)
    /\ F[i].by = R[F[i].id].by
    /\ F[i].deleted => R[F[i].id].deleted

\* An event is of a row, and the event of a deletion follows one.
KnownEvents(R, P) ==
  \A k \in 1 .. Len(P) :
    /\ P[k].id <= Len(R)
    /\ P[k].kind # "read" => P[k].id >= 1
    /\ P[k].kind = "new" => P[k].by = R[P[k].id].by /\ P[k].counts = NoCounts
    /\ P[k].kind = "delete" => R[P[k].id].deleted \/ R[P[k].id].gone

\* The event of a new message comes behind all that is of earlier ones.
NewComesFirst(F, P) ==
  \A l \in 1 .. Len(P) :
    P[l].kind = "new" =>
      /\ \A k \in 1 .. Len(P) : k < l => P[k].id < P[l].id
      /\ \A i \in 1 .. Len(F) : F[i].id < P[l].id

\* A message that stays is on the page or announced.
Present(R, F, P) ==
  \A m \in 1 .. Len(R) :
    Stays(R, m) => \/ \E i \in 1 .. Len(F) : F[i].id = m
                   \/ \E k \in 1 .. Len(P) : P[k].kind = "new" /\ P[k].id = m

\* The last event that tells its text tells the one it has, or else the bubble.
TextsTold(R, F, P) ==
  \A m \in 1 .. Len(R) :
    Stays(R, m) =>
      \/ \E k \in 1 .. Len(P) : /\ TellsText(P[k], m) /\ P[k].text = R[m].text
                                /\ \A l \in 1 .. Len(P) : k < l => ~TellsText(P[l], m)
      \/ /\ \A l \in 1 .. Len(P) : ~TellsText(P[l], m)
         /\ \A i \in 1 .. Len(F) : F[i].id = m => F[i].text = R[m].text

\* And so for its counts.
CountsTold(R, F, P) ==
  \A m \in 1 .. Len(R) :
    Stays(R, m) =>
      \/ \E k \in 1 .. Len(P) : /\ TellsCounts(P[k], m) /\ P[k].counts = CountsOf(R[m].react)
                                /\ \A l \in 1 .. Len(P) : k < l => ~TellsCounts(P[l], m)
      \/ /\ \A l \in 1 .. Len(P) : ~TellsCounts(P[l], m)
         /\ \A i \in 1 .. Len(F) : F[i].id = m => F[i].counts = CountsOf(R[m].react)

\* A message deleted for everyone has its deletion on the way, or has left.
DeletionsTold(R, F, P) ==
  \A m \in 1 .. Len(R) :
    R[m].deleted =>
      \/ \E k \in 1 .. Len(P) : P[k].kind = "delete" /\ P[k].id = m
      \/ /\ \A i \in 1 .. Len(F) : F[i].id = m => F[i].deleted
         /\ \A k \in 1 .. Len(P) : P[k].kind = "new" => P[k].id # m

\* A message of Me that was read has blue ticks, or an event that makes them so
\* is on the way, behind the one that announces the message.
ReadsTold(R, F, P) ==
  \A m \in 1 .. Len(R) :
    R[m].read /\ R[m].by = Me =>
      /\ \A i \in 1 .. Len(F) :
           F[i].id = m /\ ~F[i].deleted /\ ~F[i].read => \E k \in 1 .. Len(P) : P[k].kind = "read"
      /\ \A k \in 1 .. Len(P) :
           P[k].kind = "new" /\ P[k].id = m => \E l \in 1 .. Len(P) : k < l /\ P[l].kind = "read"

Told(R, F, P) ==
  /\ Ordered(F) /\ KnownBubbles(R, F) /\ KnownEvents(R, P) /\ NewComesFirst(F, P)
  /\ Present(R, F, P) /\ TextsTold(R, F, P) /\ CountsTold(R, F, P)
  /\ DeletionsTold(R, F, P) /\ ReadsTold(R, F, P)

\* One hub did something to rows R that left R2 and prepared event ev.
Handled(R, R2, ev) ==
  /\ R2 \in Seq(Row) /\ Len(R2) = Len(R)
  /\ ev \in Event /\ ev.kind # "new" /\ ev.id <= Len(R)
  /\ ev.kind # "read" => ev.id >= 1
  /\ ev.kind = "delete" => R2[ev.id].deleted \/ R2[ev.id].gone
  /\ \A m \in 1 .. Len(R) :
       /\ R2[m].by = R[m].by
       /\ R[m].deleted => R2[m].deleted
       /\ R[m].gone => R2[m].gone
       /\ Stays(R2, m) => Stays(R, m)
       /\ R2[m].deleted => R[m].deleted \/ (ev.kind = "delete" /\ ev.id = m)
       /\ R2[m].read => R[m].read \/ ev.kind = "read"
       /\ Stays(R2, m) => IF TellsText(ev, m) THEN ev.text = R2[m].text
                          ELSE R2[m].text = R[m].text
       /\ Stays(R2, m) => IF TellsCounts(ev, m) THEN ev.counts = CountsOf(R2[m].react)
                          ELSE R2[m].react = R[m].react

LEMMA AppendedIs ==
  ASSUME NEW P \in Seq(Event), NEW ev \in Event
  PROVE  /\ Append(P, ev) \in Seq(Event) /\ Len(Append(P, ev)) = Len(P) + 1
         /\ Len(P) \in Nat
         /\ \A k \in 1 .. Len(P) : Append(P, ev)[k] = P[k]
         /\ Append(P, ev)[Len(P) + 1] = ev
BY AppendProperties

\* A page that is told of a change when it was told of all before is told of all.
LEMMA HandledTold ==
  ASSUME NEW R \in Seq(Row), NEW R2, NEW F \in Seq(Bubble), NEW P \in Seq(Event), NEW ev,
         Handled(R, R2, ev), Told(R, F, P)
  PROVE  Told(R2, F, Append(P, ev))
<1> DEFINE Q == Append(P, ev)
           n == Len(P)
<1>1. /\ Q \in Seq(Event) /\ Len(Q) = n + 1 /\ n \in Nat
      /\ \A k \in 1 .. n : Q[k] = P[k]
      /\ Q[n + 1] = ev
  BY AppendedIs DEF Handled
<1>2. \A k \in 1 .. n + 1 : k \in 1 .. n \/ k = n + 1
  BY <1>1
<1>3. Len(R2) = Len(R) /\ Len(R) \in Nat
  BY DEF Handled
<1> HIDE DEF Q, n
<1>4. Ordered(F)
  BY DEF Told
<1>5. KnownBubbles(R2, F)
  BY <1>3 DEF Told, KnownBubbles, Handled
<1>6. KnownEvents(R2, Q)
  <2> SUFFICES ASSUME NEW k \in 1 .. n + 1
               PROVE  /\ Q[k].id <= Len(R2)
                      /\ Q[k].kind # "read" => Q[k].id >= 1
                      /\ Q[k].kind = "new" => Q[k].by = R2[Q[k].id].by /\ Q[k].counts = NoCounts
                      /\ Q[k].kind = "delete" => R2[Q[k].id].deleted \/ R2[Q[k].id].gone
    BY <1>1 DEF KnownEvents
  <2>1. CASE k = n + 1
    BY <1>1, <1>3, <2>1 DEF Handled
  <2>2. CASE k \in 1 .. n
    <3>1. /\ P[k].id <= Len(R)
          /\ P[k].kind # "read" => P[k].id >= 1
          /\ P[k].kind = "new" => P[k].by = R[P[k].id].by /\ P[k].counts = NoCounts
          /\ P[k].kind = "delete" => R[P[k].id].deleted \/ R[P[k].id].gone
      BY <2>2 DEF Told, KnownEvents, n
    <3>2. P[k] \in Event /\ Q[k] = P[k]
      BY <1>1, <2>2 DEF n
    <3>3. P[k].kind # "read" => P[k].id \in 1 .. Len(R)
      BY <1>3, <3>1, <3>2, RoomAssumption DEF Event, Ids
    <3> QED BY <1>3, <3>1, <3>2, <3>3 DEF Handled
  <2> QED BY <1>2, <2>1, <2>2
<1>7. NewComesFirst(F, Q)
  <2>1. \A l \in 1 .. n : P[l].kind = "new" => /\ \A k \in 1 .. n : k < l => P[k].id < P[l].id
                                             /\ \A i \in 1 .. Len(F) : F[i].id < P[l].id
    BY DEF Told, NewComesFirst, n
  <2>2. ev.kind # "new" /\ \A l \in 1 .. n : ~(n + 1 < l)
    BY <1>1 DEF Handled
  <2>3. ASSUME NEW l \in 1 .. n + 1, Q[l].kind = "new"
        PROVE  /\ \A k \in 1 .. n + 1 : k < l => Q[k].id < Q[l].id
               /\ \A i \in 1 .. Len(F) : F[i].id < Q[l].id
    <3>1. l \in 1 .. n
      BY <1>1, <1>2, <2>2, <2>3
    <3>2. Q[l] = P[l] /\ P[l].kind = "new"
      BY <1>1, <2>3, <3>1
    <3>3. ASSUME NEW k \in 1 .. n + 1, k < l PROVE Q[k].id < Q[l].id
      BY <1>1, <1>2, <2>1, <2>2, <3>1, <3>2, <3>3
    <3> QED BY <2>1, <3>1, <3>2, <3>3
  <2> QED BY <1>1, <2>3 DEF NewComesFirst
<1>8. Present(R2, F, Q)
  <2> SUFFICES ASSUME NEW m \in 1 .. Len(R), Stays(R2, m)
               PROVE  \/ \E i \in 1 .. Len(F) : F[i].id = m
                      \/ \E k \in 1 .. n + 1 : Q[k].kind = "new" /\ Q[k].id = m
    BY <1>1, <1>3 DEF Present
  <2>1. Stays(R, m)
    BY DEF Handled
  <2>2. \/ \E i \in 1 .. Len(F) : F[i].id = m
        \/ \E k \in 1 .. n : P[k].kind = "new" /\ P[k].id = m
    BY <2>1 DEF Told, Present, n
  <2>3. \A k \in 1 .. n : k \in 1 .. n + 1 /\ Q[k] = P[k]
    BY <1>1
  <2> QED BY <2>2, <2>3
<1>9. TextsTold(R2, F, Q)
  <2> SUFFICES ASSUME NEW m \in 1 .. Len(R), Stays(R2, m)
               PROVE  \/ \E k \in 1 .. n + 1 : /\ TellsText(Q[k], m) /\ Q[k].text = R2[m].text
                                               /\ \A l \in 1 .. n + 1 : k < l => ~TellsText(Q[l], m)
                      \/ /\ \A l \in 1 .. n + 1 : ~TellsText(Q[l], m)
                         /\ \A i \in 1 .. Len(F) : F[i].id = m => F[i].text = R2[m].text
    BY <1>1, <1>3 DEF TextsTold
  <2>1. CASE TellsText(ev, m)
    <3>1. ev.text = R2[m].text
      BY <2>1 DEF Handled
    <3>2. n + 1 \in 1 .. n + 1 /\ \A l \in 1 .. n + 1 : ~(n + 1 < l)
      BY <1>1
    <3> QED BY <1>1, <2>1, <3>1, <3>2
  <2>2. CASE ~TellsText(ev, m)
    <3>1. Stays(R, m) /\ R2[m].text = R[m].text
      BY <2>2 DEF Handled
    <3>2. \/ \E k \in 1 .. n : /\ TellsText(P[k], m) /\ P[k].text = R[m].text
                               /\ \A l \in 1 .. n : k < l => ~TellsText(P[l], m)
          \/ /\ \A l \in 1 .. n : ~TellsText(P[l], m)
             /\ \A i \in 1 .. Len(F) : F[i].id = m => F[i].text = R[m].text
      BY <3>1 DEF Told, TextsTold, n
    <3>3. \A l \in 1 .. n + 1 : (l \in 1 .. n /\ Q[l] = P[l]) \/ (l = n + 1 /\ ~TellsText(Q[l], m))
      BY <1>1, <1>2, <2>2
    <3>4. CASE \E k \in 1 .. n : /\ TellsText(P[k], m) /\ P[k].text = R[m].text
                               /\ \A l \in 1 .. n : k < l => ~TellsText(P[l], m)
      <4>1. PICK k \in 1 .. n : /\ TellsText(P[k], m) /\ P[k].text = R[m].text
                               /\ \A l \in 1 .. n : k < l => ~TellsText(P[l], m)
        BY <3>4
      <4>2. k \in 1 .. n + 1 /\ Q[k] = P[k]
        BY <1>1
      <4>3. \A l \in 1 .. n + 1 : k < l => ~TellsText(Q[l], m)
        BY <3>3, <4>1
      <4> QED BY <3>1, <4>1, <4>2, <4>3
    <3>5. CASE /\ \A l \in 1 .. n : ~TellsText(P[l], m)
               /\ \A i \in 1 .. Len(F) : F[i].id = m => F[i].text = R[m].text
      BY <3>1, <3>3, <3>5
    <3> QED BY <3>2, <3>4, <3>5
  <2> QED BY <2>1, <2>2
<1>10. CountsTold(R2, F, Q)
  <2> SUFFICES ASSUME NEW m \in 1 .. Len(R), Stays(R2, m)
               PROVE  \/ \E k \in 1 .. n + 1 : /\ TellsCounts(Q[k], m) /\ Q[k].counts = CountsOf(R2[m].react)
                                               /\ \A l \in 1 .. n + 1 : k < l => ~TellsCounts(Q[l], m)
                      \/ /\ \A l \in 1 .. n + 1 : ~TellsCounts(Q[l], m)
                         /\ \A i \in 1 .. Len(F) : F[i].id = m => F[i].counts = CountsOf(R2[m].react)
    BY <1>1, <1>3 DEF CountsTold
  <2>1. CASE TellsCounts(ev, m)
    <3>1. ev.counts = CountsOf(R2[m].react)
      BY <2>1 DEF Handled
    <3>2. n + 1 \in 1 .. n + 1 /\ \A l \in 1 .. n + 1 : ~(n + 1 < l)
      BY <1>1
    <3> QED BY <1>1, <2>1, <3>1, <3>2
  <2>2. CASE ~TellsCounts(ev, m)
    <3>1. Stays(R, m) /\ R2[m].react = R[m].react
      BY <2>2 DEF Handled
    <3>2. \/ \E k \in 1 .. n : /\ TellsCounts(P[k], m) /\ P[k].counts = CountsOf(R[m].react)
                               /\ \A l \in 1 .. n : k < l => ~TellsCounts(P[l], m)
          \/ /\ \A l \in 1 .. n : ~TellsCounts(P[l], m)
             /\ \A i \in 1 .. Len(F) : F[i].id = m => F[i].counts = CountsOf(R[m].react)
      BY <3>1 DEF Told, CountsTold, n
    <3>3. \A l \in 1 .. n + 1 : (l \in 1 .. n /\ Q[l] = P[l]) \/ (l = n + 1 /\ ~TellsCounts(Q[l], m))
      BY <1>1, <1>2, <2>2
    <3>4. CASE \E k \in 1 .. n : /\ TellsCounts(P[k], m) /\ P[k].counts = CountsOf(R[m].react)
                               /\ \A l \in 1 .. n : k < l => ~TellsCounts(P[l], m)
      <4>1. PICK k \in 1 .. n : /\ TellsCounts(P[k], m) /\ P[k].counts = CountsOf(R[m].react)
                               /\ \A l \in 1 .. n : k < l => ~TellsCounts(P[l], m)
        BY <3>4
      <4>2. k \in 1 .. n + 1 /\ Q[k] = P[k]
        BY <1>1
      <4>3. \A l \in 1 .. n + 1 : k < l => ~TellsCounts(Q[l], m)
        BY <3>3, <4>1
      <4> QED BY <3>1, <4>1, <4>2, <4>3
    <3>5. CASE /\ \A l \in 1 .. n : ~TellsCounts(P[l], m)
               /\ \A i \in 1 .. Len(F) : F[i].id = m => F[i].counts = CountsOf(R[m].react)
      BY <3>1, <3>3, <3>5
    <3> QED BY <3>2, <3>4, <3>5
  <2> QED BY <2>1, <2>2
<1>11. DeletionsTold(R2, F, Q)
  <2> SUFFICES ASSUME NEW m \in 1 .. Len(R), R2[m].deleted
               PROVE  \/ \E k \in 1 .. n + 1 : Q[k].kind = "delete" /\ Q[k].id = m
                      \/ /\ \A i \in 1 .. Len(F) : F[i].id = m => F[i].deleted
                         /\ \A k \in 1 .. n + 1 : Q[k].kind = "new" => Q[k].id # m
    BY <1>1, <1>3 DEF DeletionsTold
  <2>1. CASE ev.kind = "delete" /\ ev.id = m
    <3>1. n + 1 \in 1 .. n + 1
      BY <1>1
    <3> QED BY <1>1, <2>1, <3>1
  <2>2. CASE ~(ev.kind = "delete" /\ ev.id = m)
    <3>1. R[m].deleted /\ ev.kind # "new"
      BY <2>2 DEF Handled
    <3>2. \/ \E k \in 1 .. n : P[k].kind = "delete" /\ P[k].id = m
          \/ /\ \A i \in 1 .. Len(F) : F[i].id = m => F[i].deleted
             /\ \A k \in 1 .. n : P[k].kind = "new" => P[k].id # m
      BY <3>1 DEF Told, DeletionsTold, n
    <3> QED BY <1>1, <1>2, <3>1, <3>2
  <2> QED BY <2>1, <2>2
<1>12. ReadsTold(R2, F, Q)
  <2> SUFFICES ASSUME NEW m \in 1 .. Len(R), R2[m].read, R2[m].by = Me
               PROVE  /\ \A i \in 1 .. Len(F) : F[i].id = m /\ ~F[i].deleted /\ ~F[i].read =>
                                               \E k \in 1 .. n + 1 : Q[k].kind = "read"
                      /\ \A k \in 1 .. n + 1 : Q[k].kind = "new" /\ Q[k].id = m =>
                                               \E l \in 1 .. n + 1 : k < l /\ Q[l].kind = "read"
    BY <1>1, <1>3 DEF ReadsTold
  <2>1. n + 1 \in 1 .. n + 1 /\ \A k \in 1 .. n : k < n + 1 /\ k \in 1 .. n + 1
    BY <1>1
  <2>2. CASE ev.kind = "read"
    BY <1>1, <1>2, <2>1, <2>2
  <2>3. CASE ev.kind # "read"
    <3>1. R[m].read /\ R[m].by = Me
      BY <2>3 DEF Handled
    <3>2. /\ \A i \in 1 .. Len(F) : F[i].id = m /\ ~F[i].deleted /\ ~F[i].read =>
                                   \E k \in 1 .. n : P[k].kind = "read"
          /\ \A k \in 1 .. n : P[k].kind = "new" /\ P[k].id = m =>
                               \E l \in 1 .. n : k < l /\ P[l].kind = "read"
      BY <3>1 DEF Told, ReadsTold, n
    <3>3. ev.kind # "new"
      BY DEF Handled
    <3> QED BY <1>1, <1>2, <2>1, <3>2, <3>3
  <2> QED BY <2>2, <2>3
<1>13. Told(R2, F, Q)
  BY <1>4, <1>5, <1>6, <1>7, <1>8, <1>9, <1>10, <1>11, <1>12 DEF Told
<1> QED BY <1>13 DEF Q

\* Rows R became R2 in that some were hidden or expired.
Withdrawn(R, R2) ==
  /\ R2 \in Seq(Row) /\ Len(R2) = Len(R)
  /\ \A m \in 1 .. Len(R) :
       /\ R2[m].by = R[m].by /\ R2[m].text = R[m].text
       /\ R2[m].deleted = R[m].deleted /\ R2[m].read = R[m].read
       /\ R[m].gone => R2[m].gone
       /\ Stays(R2, m) => Stays(R, m) /\ R2[m].react = R[m].react

\* A page need not be told of that.
LEMMA WithdrawnTold ==
  ASSUME NEW R \in Seq(Row), NEW R2, NEW F \in Seq(Bubble), NEW P \in Seq(Event),
         Withdrawn(R, R2), Told(R, F, P)
  PROVE  Told(R2, F, P)
<1>1. Len(R2) = Len(R) /\ Len(R) \in Nat
  BY DEF Withdrawn
<1>2. Ordered(F) /\ NewComesFirst(F, P)
  BY DEF Told
<1>3. KnownBubbles(R2, F)
  BY <1>1 DEF Told, KnownBubbles, Withdrawn
<1>4. KnownEvents(R2, P)
  <2> SUFFICES ASSUME NEW k \in 1 .. Len(P)
               PROVE  /\ P[k].id <= Len(R2)
                      /\ P[k].kind # "read" => P[k].id >= 1
                      /\ P[k].kind = "new" => P[k].by = R2[P[k].id].by /\ P[k].counts = NoCounts
                      /\ P[k].kind = "delete" => R2[P[k].id].deleted \/ R2[P[k].id].gone
    BY DEF KnownEvents
  <2>1. /\ P[k].id <= Len(R)
        /\ P[k].kind # "read" => P[k].id >= 1
        /\ P[k].kind = "new" => P[k].by = R[P[k].id].by /\ P[k].counts = NoCounts
        /\ P[k].kind = "delete" => R[P[k].id].deleted \/ R[P[k].id].gone
    BY DEF Told, KnownEvents
  <2>2. P[k] \in Event
    BY ElementOfSeq
  <2>3. P[k].kind # "read" => P[k].id \in 1 .. Len(R)
    BY <1>1, <2>1, <2>2, RoomAssumption DEF Event, Ids
  <2> QED BY <1>1, <2>1, <2>3 DEF Withdrawn
<1>5. Present(R2, F, P)
  BY <1>1 DEF Told, Present, Withdrawn
<1>6. TextsTold(R2, F, P)
  <2> SUFFICES ASSUME NEW m \in 1 .. Len(R), Stays(R2, m)
               PROVE  \/ \E k \in 1 .. Len(P) : /\ TellsText(P[k], m) /\ P[k].text = R2[m].text
                                                /\ \A l \in 1 .. Len(P) : k < l => ~TellsText(P[l], m)
                      \/ /\ \A l \in 1 .. Len(P) : ~TellsText(P[l], m)
                         /\ \A i \in 1 .. Len(F) : F[i].id = m => F[i].text = R2[m].text
    BY <1>1 DEF TextsTold
  <2>1. Stays(R, m) /\ R2[m].text = R[m].text
    BY DEF Withdrawn
  <2> QED BY <2>1 DEF Told, TextsTold
<1>7. CountsTold(R2, F, P)
  <2> SUFFICES ASSUME NEW m \in 1 .. Len(R), Stays(R2, m)
               PROVE  \/ \E k \in 1 .. Len(P) : /\ TellsCounts(P[k], m) /\ P[k].counts = CountsOf(R2[m].react)
                                                /\ \A l \in 1 .. Len(P) : k < l => ~TellsCounts(P[l], m)
                      \/ /\ \A l \in 1 .. Len(P) : ~TellsCounts(P[l], m)
                         /\ \A i \in 1 .. Len(F) : F[i].id = m => F[i].counts = CountsOf(R2[m].react)
    BY <1>1 DEF CountsTold
  <2>1. Stays(R, m) /\ R2[m].react = R[m].react
    BY DEF Withdrawn
  <2> QED BY <2>1 DEF Told, CountsTold
<1>8. DeletionsTold(R2, F, P)
  BY <1>1 DEF Told, DeletionsTold, Withdrawn
<1>9. ReadsTold(R2, F, P)
  BY <1>1 DEF Told, ReadsTold, Withdrawn
<1> QED BY <1>2, <1>3, <1>4, <1>5, <1>6, <1>7, <1>8, <1>9 DEF Told

\* A message that was not there is told by its event.
LEMMA PostedTold ==
  ASSUME NEW R \in Seq(Row), NEW r \in Row, NEW F \in Seq(Bubble), NEW P \in Seq(Event),
         NEW ev \in Event, ev.kind = "new", ev.id = Len(R) + 1, ev.by = r.by, ev.text = r.text,
         ev.counts = CountsOf(r.react), ev.counts = NoCounts, ~r.deleted, ~r.read, Told(R, F, P)
  PROVE  Told(Append(R, r), F, Append(P, ev))
<1> DEFINE R2 == Append(R, r)
           Q == Append(P, ev)
           n == Len(P)
           c == Len(R)
<1>1. /\ Q \in Seq(Event) /\ Len(Q) = n + 1 /\ n \in Nat
      /\ \A k \in 1 .. n : Q[k] = P[k] /\ P[k] \in Event
      /\ Q[n + 1] = ev
  BY AppendedIs, ElementOfSeq
<1>2. /\ Len(R2) = c + 1 /\ c \in Nat
      /\ \A m \in 1 .. c : R2[m] = R[m]
      /\ R2[c + 1] = r
  BY AppendProperties
<1>3. \A k \in 1 .. n + 1 : k \in 1 .. n \/ k = n + 1
  BY <1>1
<1>4. \A m \in 1 .. c + 1 : m \in 1 .. c \/ m = c + 1
  BY <1>2
<1>5. ev.id = c + 1 /\ n + 1 \in 1 .. n + 1 /\ \A l \in 1 .. n + 1 : ~(n + 1 < l)
  BY <1>1
<1> HIDE DEF R2, Q, n, c
<1>6. \A i \in 1 .. Len(F) : F[i].id \in 1 .. c
  BY DEF Told, KnownBubbles, c
<1>7. \A k \in 1 .. n : /\ P[k].id <= c /\ P[k].id \in Nat /\ P[k].id # c + 1
                        /\ P[k].kind # "read" => P[k].id \in 1 .. c
  BY <1>1, <1>2, RoomAssumption DEF Told, KnownEvents, n, c, Event, Ids
<1>8. Ordered(F)
  BY DEF Told
<1>9. KnownBubbles(R2, F)
  <2> SUFFICES ASSUME NEW i \in 1 .. Len(F)
               PROVE  /\ F[i].id \in 1 .. c + 1
                      /\ F[i].by = R2[F[i].id].by
                      /\ F[i].deleted => R2[F[i].id].deleted
    BY <1>2 DEF KnownBubbles
  <2>1. F[i].by = R[F[i].id].by /\ (F[i].deleted => R[F[i].id].deleted)
    BY DEF Told, KnownBubbles
  <2>2. F[i].id \in 1 .. c /\ F[i].id \in 1 .. c + 1 /\ R2[F[i].id] = R[F[i].id]
    BY <1>2, <1>6
  <2> QED BY <2>1, <2>2
<1>10. KnownEvents(R2, Q)
  <2> SUFFICES ASSUME NEW k \in 1 .. n + 1
               PROVE  /\ Q[k].id <= c + 1
                      /\ Q[k].kind # "read" => Q[k].id >= 1
                      /\ Q[k].kind = "new" => Q[k].by = R2[Q[k].id].by /\ Q[k].counts = NoCounts
                      /\ Q[k].kind = "delete" => R2[Q[k].id].deleted \/ R2[Q[k].id].gone
    BY <1>1, <1>2 DEF KnownEvents
  <2>1. CASE k = n + 1
    BY <1>1, <1>2, <1>5, <2>1
  <2>2. CASE k \in 1 .. n
    <3>1. /\ P[k].kind # "read" => P[k].id >= 1
          /\ P[k].kind = "new" => P[k].by = R[P[k].id].by /\ P[k].counts = NoCounts
          /\ P[k].kind = "delete" => R[P[k].id].deleted \/ R[P[k].id].gone
      BY <2>2 DEF Told, KnownEvents, n
    <3>2. Q[k] = P[k]
      BY <1>1, <2>2
    <3>3. P[k].id \in Nat /\ P[k].id <= c
      BY <1>7, <2>2
    <3>4. P[k].kind # "read" => R2[P[k].id] = R[P[k].id]
      <4> SUFFICES ASSUME P[k].kind # "read" PROVE R2[P[k].id] = R[P[k].id]
        OBVIOUS
      <4>1. P[k].id \in 1 .. c
        BY <1>6, <3>1, <3>3
      <4> QED BY <1>2, <4>1
    <3>5. P[k].kind = "new" => P[k].kind # "read"
      OBVIOUS
    <3>6. P[k].kind = "delete" => P[k].kind # "read"
      OBVIOUS
    <3>7. Q[k].id <= c + 1
      <4>1. c \in Nat
        BY <1>2
      <4> QED BY <3>2, <3>3, <4>1
    <3> QED BY <3>1, <3>2, <3>4, <3>5, <3>6, <3>7
  <2> QED BY <1>3, <2>1, <2>2
<1>11. NewComesFirst(F, Q)
  <2> SUFFICES ASSUME NEW l \in 1 .. n + 1, Q[l].kind = "new"
               PROVE  /\ \A k \in 1 .. n + 1 : k < l => Q[k].id < Q[l].id
                      /\ \A i \in 1 .. Len(F) : F[i].id < Q[l].id
    BY <1>1 DEF NewComesFirst
  <2>1. CASE l = n + 1
    <3>1. \A k \in 1 .. n + 1 : k < l => k \in 1 .. n /\ Q[k] = P[k]
      BY <1>1, <2>1
    <3>2. Q[l].id = c + 1 /\ c \in Nat
      BY <1>1, <1>2, <1>5, <2>1
    <3>3. ASSUME NEW k \in 1 .. n + 1, k < l PROVE Q[k].id < Q[l].id
      <4>1. k \in 1 .. n /\ Q[k] = P[k]
        BY <3>1, <3>3
      <4>2. P[k].id \in Nat /\ P[k].id <= c
        BY <1>7, <4>1
      <4> QED BY <3>2, <4>1, <4>2
    <3>4. ASSUME NEW i \in 1 .. Len(F) PROVE F[i].id < Q[l].id
      <4>1. F[i].id \in 1 .. c
        BY <1>6
      <4> QED BY <3>2, <4>1
    <3> QED BY <3>3, <3>4
  <2>2. CASE l \in 1 .. n
    <3>1. Q[l] = P[l] /\ \A k \in 1 .. n + 1 : k < l => k \in 1 .. n /\ Q[k] = P[k]
      BY <1>1, <2>2
    <3> QED BY <2>2, <3>1 DEF Told, NewComesFirst, n
  <2> QED BY <1>3, <2>1, <2>2
<1>12. Present(R2, F, Q)
  <2> SUFFICES ASSUME NEW m \in 1 .. c + 1, Stays(R2, m)
               PROVE  \/ \E i \in 1 .. Len(F) : F[i].id = m
                      \/ \E k \in 1 .. n + 1 : Q[k].kind = "new" /\ Q[k].id = m
    BY <1>1, <1>2 DEF Present
  <2>1. CASE m = c + 1
    BY <1>1, <1>5, <2>1
  <2>2. CASE m \in 1 .. c
    <3>1. Stays(R, m)
      BY <1>2, <2>2 DEF Stays
    <3>2. \/ \E i \in 1 .. Len(F) : F[i].id = m
          \/ \E k \in 1 .. n : P[k].kind = "new" /\ P[k].id = m
      BY <2>2, <3>1 DEF Told, Present, n, c
    <3>3. \A k \in 1 .. n : k \in 1 .. n + 1 /\ Q[k] = P[k]
      BY <1>1
    <3> QED BY <3>2, <3>3
  <2> QED BY <1>4, <2>1, <2>2
<1>13. TextsTold(R2, F, Q)
  <2> SUFFICES ASSUME NEW m \in 1 .. c + 1, Stays(R2, m)
               PROVE  \/ \E k \in 1 .. n + 1 : /\ TellsText(Q[k], m) /\ Q[k].text = R2[m].text
                                               /\ \A l \in 1 .. n + 1 : k < l => ~TellsText(Q[l], m)
                      \/ /\ \A l \in 1 .. n + 1 : ~TellsText(Q[l], m)
                         /\ \A i \in 1 .. Len(F) : F[i].id = m => F[i].text = R2[m].text
    BY <1>1, <1>2 DEF TextsTold
  <2>1. CASE m = c + 1
    <3>1. TellsText(Q[n + 1], m) /\ Q[n + 1].text = R2[m].text
      BY <1>1, <1>2, <1>5, <2>1 DEF TellsText
    <3> QED BY <1>5, <3>1
  <2>2. CASE m \in 1 .. c
    <3>1. Stays(R, m) /\ R2[m] = R[m]
      BY <1>2, <2>2 DEF Stays
    <3>2. \/ \E k \in 1 .. n : /\ TellsText(P[k], m) /\ P[k].text = R[m].text
                               /\ \A l \in 1 .. n : k < l => ~TellsText(P[l], m)
          \/ /\ \A l \in 1 .. n : ~TellsText(P[l], m)
             /\ \A i \in 1 .. Len(F) : F[i].id = m => F[i].text = R[m].text
      BY <2>2, <3>1 DEF Told, TextsTold, n, c
    <3>3. \A l \in 1 .. n + 1 : (l \in 1 .. n /\ Q[l] = P[l]) \/ (l = n + 1 /\ ~TellsText(Q[l], m))
      BY <1>1, <1>2, <1>3, <1>5, <2>2 DEF TellsText
    <3>4. CASE \E k \in 1 .. n : /\ TellsText(P[k], m) /\ P[k].text = R[m].text
                                 /\ \A l \in 1 .. n : k < l => ~TellsText(P[l], m)
      <4>1. PICK k \in 1 .. n : /\ TellsText(P[k], m) /\ P[k].text = R[m].text
                                /\ \A l \in 1 .. n : k < l => ~TellsText(P[l], m)
        BY <3>4
      <4>2. k \in 1 .. n + 1 /\ Q[k] = P[k]
        BY <1>1
      <4>3. \A l \in 1 .. n + 1 : k < l => ~TellsText(Q[l], m)
        BY <3>3, <4>1
      <4> QED BY <3>1, <4>1, <4>2, <4>3
    <3>5. CASE /\ \A l \in 1 .. n : ~TellsText(P[l], m)
               /\ \A i \in 1 .. Len(F) : F[i].id = m => F[i].text = R[m].text
      BY <3>1, <3>3, <3>5
    <3> QED BY <3>2, <3>4, <3>5
  <2> QED BY <1>4, <2>1, <2>2
<1>14. CountsTold(R2, F, Q)
  <2> SUFFICES ASSUME NEW m \in 1 .. c + 1, Stays(R2, m)
               PROVE  \/ \E k \in 1 .. n + 1 : /\ TellsCounts(Q[k], m) /\ Q[k].counts = CountsOf(R2[m].react)
                                               /\ \A l \in 1 .. n + 1 : k < l => ~TellsCounts(Q[l], m)
                      \/ /\ \A l \in 1 .. n + 1 : ~TellsCounts(Q[l], m)
                         /\ \A i \in 1 .. Len(F) : F[i].id = m => F[i].counts = CountsOf(R2[m].react)
    BY <1>1, <1>2 DEF CountsTold
  <2>1. CASE m = c + 1
    <3>1. TellsCounts(Q[n + 1], m) /\ Q[n + 1].counts = CountsOf(R2[m].react)
      BY <1>1, <1>2, <1>5, <2>1 DEF TellsCounts
    <3> QED BY <1>5, <3>1
  <2>2. CASE m \in 1 .. c
    <3>1. Stays(R, m) /\ R2[m] = R[m]
      BY <1>2, <2>2 DEF Stays
    <3>2. \/ \E k \in 1 .. n : /\ TellsCounts(P[k], m) /\ P[k].counts = CountsOf(R[m].react)
                               /\ \A l \in 1 .. n : k < l => ~TellsCounts(P[l], m)
          \/ /\ \A l \in 1 .. n : ~TellsCounts(P[l], m)
             /\ \A i \in 1 .. Len(F) : F[i].id = m => F[i].counts = CountsOf(R[m].react)
      BY <2>2, <3>1 DEF Told, CountsTold, n, c
    <3>3. \A l \in 1 .. n + 1 : (l \in 1 .. n /\ Q[l] = P[l]) \/ (l = n + 1 /\ ~TellsCounts(Q[l], m))
      BY <1>1, <1>2, <1>3, <1>5, <2>2 DEF TellsCounts
    <3>4. CASE \E k \in 1 .. n : /\ TellsCounts(P[k], m) /\ P[k].counts = CountsOf(R[m].react)
                                 /\ \A l \in 1 .. n : k < l => ~TellsCounts(P[l], m)
      <4>1. PICK k \in 1 .. n : /\ TellsCounts(P[k], m) /\ P[k].counts = CountsOf(R[m].react)
                                /\ \A l \in 1 .. n : k < l => ~TellsCounts(P[l], m)
        BY <3>4
      <4>2. k \in 1 .. n + 1 /\ Q[k] = P[k]
        BY <1>1
      <4>3. \A l \in 1 .. n + 1 : k < l => ~TellsCounts(Q[l], m)
        BY <3>3, <4>1
      <4> QED BY <3>1, <4>1, <4>2, <4>3
    <3>5. CASE /\ \A l \in 1 .. n : ~TellsCounts(P[l], m)
               /\ \A i \in 1 .. Len(F) : F[i].id = m => F[i].counts = CountsOf(R[m].react)
      BY <3>1, <3>3, <3>5
    <3> QED BY <3>2, <3>4, <3>5
  <2> QED BY <1>4, <2>1, <2>2
<1>15. DeletionsTold(R2, F, Q)
  <2> SUFFICES ASSUME NEW m \in 1 .. c + 1, R2[m].deleted
               PROVE  \/ \E k \in 1 .. n + 1 : Q[k].kind = "delete" /\ Q[k].id = m
                      \/ /\ \A i \in 1 .. Len(F) : F[i].id = m => F[i].deleted
                         /\ \A k \in 1 .. n + 1 : Q[k].kind = "new" => Q[k].id # m
    BY <1>1, <1>2 DEF DeletionsTold
  <2>1. m \in 1 .. c /\ R[m].deleted
    BY <1>2, <1>4
  <2>2. \/ \E k \in 1 .. n : P[k].kind = "delete" /\ P[k].id = m
        \/ /\ \A i \in 1 .. Len(F) : F[i].id = m => F[i].deleted
           /\ \A k \in 1 .. n : P[k].kind = "new" => P[k].id # m
    BY <2>1 DEF Told, DeletionsTold, n, c
  <2>3. ev.id # m /\ \A k \in 1 .. n : k \in 1 .. n + 1 /\ Q[k] = P[k]
    BY <1>1, <1>2, <1>5, <2>1
  <2> QED BY <1>1, <1>3, <2>2, <2>3
<1>16. ReadsTold(R2, F, Q)
  <2> SUFFICES ASSUME NEW m \in 1 .. c + 1, R2[m].read, R2[m].by = Me
               PROVE  /\ \A i \in 1 .. Len(F) : F[i].id = m /\ ~F[i].deleted /\ ~F[i].read =>
                                               \E k \in 1 .. n + 1 : Q[k].kind = "read"
                      /\ \A k \in 1 .. n + 1 : Q[k].kind = "new" /\ Q[k].id = m =>
                                               \E l \in 1 .. n + 1 : k < l /\ Q[l].kind = "read"
    BY <1>1, <1>2 DEF ReadsTold
  <2>1. m \in 1 .. c /\ R[m].read /\ R[m].by = Me
    BY <1>2, <1>4
  <2>2. /\ \A i \in 1 .. Len(F) : F[i].id = m /\ ~F[i].deleted /\ ~F[i].read =>
                                 \E k \in 1 .. n : P[k].kind = "read"
        /\ \A k \in 1 .. n : P[k].kind = "new" /\ P[k].id = m =>
                             \E l \in 1 .. n : k < l /\ P[l].kind = "read"
    BY <2>1 DEF Told, ReadsTold, n, c
  <2>3. ev.id # m /\ \A k \in 1 .. n : k \in 1 .. n + 1 /\ Q[k] = P[k]
    BY <1>1, <1>2, <1>5, <2>1
  <2>4. ASSUME NEW k \in 1 .. n + 1, Q[k].kind = "new", Q[k].id = m
        PROVE  \E l \in 1 .. n + 1 : k < l /\ Q[l].kind = "read"
    <3>1. k \in 1 .. n /\ Q[k] = P[k]
      BY <1>1, <1>3, <2>3, <2>4
    <3> QED BY <2>2, <2>3, <2>4, <3>1
  <2> QED BY <2>2, <2>3, <2>4
<1>17. Told(R2, F, Q)
  BY <1>8, <1>9, <1>10, <1>11, <1>12, <1>13, <1>14, <1>15, <1>16 DEF Told
<1> QED BY <1>17 DEF R2, Q

LEMMA TailIs ==
  ASSUME NEW P \in Seq(Event), P # <<>>
  PROVE  /\ Tail(P) \in Seq(Event) /\ Len(P) \in Nat /\ Len(P) >= 1 /\ Len(Tail(P)) = Len(P) - 1
         /\ Head(P) = P[1] /\ P[1] \in Event
         /\ \A k \in 1 .. Len(P) - 1 : k + 1 \in 1 .. Len(P) /\ Tail(P)[k] = P[k + 1]
         /\ \A k \in 1 .. Len(P) : k = 1 \/ (k - 1 \in 1 .. Len(P) - 1 /\ Tail(P)[k - 1] = P[k])
<1>1. Len(P) \in Nat /\ Len(P) >= 1
  OBVIOUS
<1>2. Head(P) = P[1] /\ P[1] \in Event
  BY <1>1
<1>3. /\ Tail(P) \in Seq(Event) /\ Len(Tail(P)) = Len(P) - 1
      /\ \A k \in 1 .. Len(P) - 1 : Tail(P)[k] = P[k + 1]
  BY HeadTailProperties
<1>4. \A k \in 1 .. Len(P) - 1 : k + 1 \in 1 .. Len(P)
  BY <1>1
<1>5. ASSUME NEW k \in 1 .. Len(P), k # 1
      PROVE  k - 1 \in 1 .. Len(P) - 1 /\ Tail(P)[k - 1] = P[k]
  <2>1. k - 1 \in 1 .. Len(P) - 1 /\ (k - 1) + 1 = k
    BY <1>1, <1>5
  <2> QED BY <1>3, <2>1
<1> QED BY <1>1, <1>2, <1>3, <1>4, <1>5

LEMMA TailKnown ==
  ASSUME NEW R, NEW P \in Seq(Event), P # <<>>, KnownEvents(R, P)
  PROVE  KnownEvents(R, Tail(P))
<1> DEFINE Q == Tail(P)
           n == Len(P)
<1>1. Len(Q) = n - 1 /\ \A k \in 1 .. n - 1 : k + 1 \in 1 .. n /\ Q[k] = P[k + 1]
  BY TailIs
<1> HIDE DEF Q, n
<1>2. ASSUME NEW k \in 1 .. n - 1
      PROVE  /\ Q[k].id <= Len(R)
             /\ Q[k].kind # "read" => Q[k].id >= 1
             /\ Q[k].kind = "new" => Q[k].by = R[Q[k].id].by /\ Q[k].counts = NoCounts
             /\ Q[k].kind = "delete" => R[Q[k].id].deleted \/ R[Q[k].id].gone
  <2>1. k + 1 \in 1 .. n /\ Q[k] = P[k + 1]
    BY <1>1
  <2> QED BY <2>1 DEF KnownEvents, n
<1> QED BY <1>1, <1>2 DEF KnownEvents, Q

\* A page with bubbles F handles ev, which neither announces nor deletes, and
\* shows F2.
Updated(F, F2, ev) ==
  /\ F2 \in Seq(Bubble) /\ Len(F2) = Len(F)
  /\ ev.kind \notin {"new", "delete"}
  /\ \A i \in 1 .. Len(F) :
       /\ F2[i].id = F[i].id /\ F2[i].by = F[i].by /\ F2[i].deleted = F[i].deleted
       /\ F2[i].text = IF TellsText(ev, F[i].id) THEN ev.text ELSE F[i].text
       /\ F2[i].counts = IF TellsCounts(ev, F[i].id) THEN ev.counts ELSE F[i].counts
       /\ F[i].read => F2[i].read
       /\ ev.kind = "read" /\ F[i].by = Me /\ ~F[i].deleted => F2[i].read

LEMMA UpdatedTold ==
  ASSUME NEW R \in Seq(Row), NEW F \in Seq(Bubble), NEW F2, NEW P \in Seq(Event), P # <<>>,
         Updated(F, F2, P[1]), Told(R, F, P)
  PROVE  Told(R, F2, Tail(P))
<1> DEFINE Q == Tail(P)
           n == Len(P)
           ev == P[1]
<1>1. /\ Q \in Seq(Event) /\ n \in Nat /\ n >= 1 /\ Len(Q) = n - 1
      /\ \A k \in 1 .. n - 1 : k + 1 \in 1 .. n /\ Q[k] = P[k + 1]
      /\ \A k \in 1 .. n : k = 1 \/ (k - 1 \in 1 .. n - 1 /\ Q[k - 1] = P[k])
  BY TailIs
<1>2. /\ Len(F2) = Len(F) /\ ev.kind \notin {"new", "delete"}
      /\ \A i \in 1 .. Len(F) : /\ F2[i].id = F[i].id /\ F2[i].by = F[i].by
                                /\ F2[i].deleted = F[i].deleted
  BY DEF Updated
<1>3. 1 \in 1 .. n
  BY <1>1
<1> HIDE DEF Q, n, ev
<1>4. Ordered(F2) /\ KnownBubbles(R, F2)
  BY <1>2 DEF Told, Ordered, KnownBubbles
<1>5. KnownEvents(R, Q)
  BY TailKnown DEF Told, Q
<1>6. NewComesFirst(F2, Q)
  <2> SUFFICES ASSUME NEW l \in 1 .. n - 1, Q[l].kind = "new"
               PROVE  /\ \A k \in 1 .. n - 1 : k < l => Q[k].id < Q[l].id
                      /\ \A i \in 1 .. Len(F) : F2[i].id < Q[l].id
    BY <1>1, <1>2 DEF NewComesFirst
  <2>1. l + 1 \in 1 .. n /\ Q[l] = P[l + 1]
    BY <1>1
  <2>2. /\ \A k \in 1 .. n : k < l + 1 => P[k].id < P[l + 1].id
        /\ \A i \in 1 .. Len(F) : F[i].id < P[l + 1].id
    BY <2>1 DEF Told, NewComesFirst, n
  <2>3. ASSUME NEW k \in 1 .. n - 1, k < l PROVE Q[k].id < Q[l].id
    <3>1. k + 1 \in 1 .. n /\ k + 1 < l + 1 /\ Q[k] = P[k + 1]
      BY <1>1, <2>3
    <3> QED BY <2>1, <2>2, <3>1
  <2> QED BY <1>2, <2>1, <2>2, <2>3
<1>7. Present(R, F2, Q)
  <2> SUFFICES ASSUME NEW m \in 1 .. Len(R), Stays(R, m)
               PROVE  \/ \E i \in 1 .. Len(F) : F2[i].id = m
                      \/ \E k \in 1 .. n - 1 : Q[k].kind = "new" /\ Q[k].id = m
    BY <1>1, <1>2 DEF Present
  <2>1. \/ \E i \in 1 .. Len(F) : F[i].id = m
        \/ \E k \in 1 .. n : P[k].kind = "new" /\ P[k].id = m
    BY DEF Told, Present, n
  <2>2. ASSUME NEW k \in 1 .. n, P[k].kind = "new", P[k].id = m
        PROVE  \E l \in 1 .. n - 1 : Q[l].kind = "new" /\ Q[l].id = m
    BY <1>1, <1>2, <2>2 DEF ev
  <2> QED BY <1>2, <2>1, <2>2
<1>8. TextsTold(R, F2, Q)
  <2> SUFFICES ASSUME NEW m \in 1 .. Len(R), Stays(R, m)
               PROVE  \/ \E k \in 1 .. n - 1 : /\ TellsText(Q[k], m) /\ Q[k].text = R[m].text
                                               /\ \A l \in 1 .. n - 1 : k < l => ~TellsText(Q[l], m)
                      \/ /\ \A l \in 1 .. n - 1 : ~TellsText(Q[l], m)
                         /\ \A i \in 1 .. Len(F) : F2[i].id = m => F2[i].text = R[m].text
    BY <1>1, <1>2 DEF TextsTold
  <2>1. CASE \E k \in 1 .. n : /\ TellsText(P[k], m) /\ P[k].text = R[m].text
                               /\ \A l \in 1 .. n : k < l => ~TellsText(P[l], m)
    <3>1. PICK k \in 1 .. n : /\ TellsText(P[k], m) /\ P[k].text = R[m].text
                              /\ \A l \in 1 .. n : k < l => ~TellsText(P[l], m)
      BY <2>1
    <3>2. CASE k = 1
      <4>1. \A l \in 1 .. n - 1 : ~TellsText(Q[l], m)
        <5> SUFFICES ASSUME NEW l \in 1 .. n - 1 PROVE ~TellsText(Q[l], m)
          OBVIOUS
        <5>1. l + 1 \in 1 .. n /\ 1 < l + 1 /\ Q[l] = P[l + 1]
          BY <1>1
        <5> QED BY <3>1, <3>2, <5>1
      <4>2. \A i \in 1 .. Len(F) : F2[i].id = m => F2[i].text = R[m].text
        BY <1>2, <3>1, <3>2 DEF Updated, ev
      <4> QED BY <4>1, <4>2
    <3>3. CASE k # 1
      <4>1. k - 1 \in 1 .. n - 1 /\ Q[k - 1] = P[k]
        BY <1>1, <3>3
      <4>2. ASSUME NEW l \in 1 .. n - 1, k - 1 < l PROVE ~TellsText(Q[l], m)
        <5>1. l + 1 \in 1 .. n /\ k < l + 1 /\ Q[l] = P[l + 1]
          BY <1>1, <4>2
        <5> QED BY <3>1, <5>1
      <4> QED BY <3>1, <4>1, <4>2
    <3> QED BY <3>2, <3>3
  <2>2. CASE /\ \A l \in 1 .. n : ~TellsText(P[l], m)
             /\ \A i \in 1 .. Len(F) : F[i].id = m => F[i].text = R[m].text
    <3>1. \A l \in 1 .. n - 1 : ~TellsText(Q[l], m)
      BY <1>1, <2>2
    <3>2. \A i \in 1 .. Len(F) : F2[i].id = m => F2[i].text = R[m].text
      BY <1>2, <1>3, <2>2 DEF Updated, ev
    <3> QED BY <3>1, <3>2
  <2> QED BY <2>1, <2>2 DEF Told, TextsTold, n
<1>9. CountsTold(R, F2, Q)
  <2> SUFFICES ASSUME NEW m \in 1 .. Len(R), Stays(R, m)
               PROVE  \/ \E k \in 1 .. n - 1 : /\ TellsCounts(Q[k], m) /\ Q[k].counts = CountsOf(R[m].react)
                                               /\ \A l \in 1 .. n - 1 : k < l => ~TellsCounts(Q[l], m)
                      \/ /\ \A l \in 1 .. n - 1 : ~TellsCounts(Q[l], m)
                         /\ \A i \in 1 .. Len(F) : F2[i].id = m => F2[i].counts = CountsOf(R[m].react)
    BY <1>1, <1>2 DEF CountsTold
  <2>1. CASE \E k \in 1 .. n : /\ TellsCounts(P[k], m) /\ P[k].counts = CountsOf(R[m].react)
                               /\ \A l \in 1 .. n : k < l => ~TellsCounts(P[l], m)
    <3>1. PICK k \in 1 .. n : /\ TellsCounts(P[k], m) /\ P[k].counts = CountsOf(R[m].react)
                              /\ \A l \in 1 .. n : k < l => ~TellsCounts(P[l], m)
      BY <2>1
    <3>2. CASE k = 1
      <4>1. \A l \in 1 .. n - 1 : ~TellsCounts(Q[l], m)
        <5> SUFFICES ASSUME NEW l \in 1 .. n - 1 PROVE ~TellsCounts(Q[l], m)
          OBVIOUS
        <5>1. l + 1 \in 1 .. n /\ 1 < l + 1 /\ Q[l] = P[l + 1]
          BY <1>1
        <5> QED BY <3>1, <3>2, <5>1
      <4>2. \A i \in 1 .. Len(F) : F2[i].id = m => F2[i].counts = CountsOf(R[m].react)
        BY <1>2, <3>1, <3>2 DEF Updated, ev
      <4> QED BY <4>1, <4>2
    <3>3. CASE k # 1
      <4>1. k - 1 \in 1 .. n - 1 /\ Q[k - 1] = P[k]
        BY <1>1, <3>3
      <4>2. ASSUME NEW l \in 1 .. n - 1, k - 1 < l PROVE ~TellsCounts(Q[l], m)
        <5>1. l + 1 \in 1 .. n /\ k < l + 1 /\ Q[l] = P[l + 1]
          BY <1>1, <4>2
        <5> QED BY <3>1, <5>1
      <4> QED BY <3>1, <4>1, <4>2
    <3> QED BY <3>2, <3>3
  <2>2. CASE /\ \A l \in 1 .. n : ~TellsCounts(P[l], m)
             /\ \A i \in 1 .. Len(F) : F[i].id = m => F[i].counts = CountsOf(R[m].react)
    <3>1. \A l \in 1 .. n - 1 : ~TellsCounts(Q[l], m)
      BY <1>1, <2>2
    <3>2. \A i \in 1 .. Len(F) : F2[i].id = m => F2[i].counts = CountsOf(R[m].react)
      BY <1>2, <1>3, <2>2 DEF Updated, ev
    <3> QED BY <3>1, <3>2
  <2> QED BY <2>1, <2>2 DEF Told, CountsTold, n
<1>10. DeletionsTold(R, F2, Q)
  <2> SUFFICES ASSUME NEW m \in 1 .. Len(R), R[m].deleted
               PROVE  \/ \E k \in 1 .. n - 1 : Q[k].kind = "delete" /\ Q[k].id = m
                      \/ /\ \A i \in 1 .. Len(F) : F2[i].id = m => F2[i].deleted
                         /\ \A k \in 1 .. n - 1 : Q[k].kind = "new" => Q[k].id # m
    BY <1>1, <1>2 DEF DeletionsTold
  <2>1. \/ \E k \in 1 .. n : P[k].kind = "delete" /\ P[k].id = m
        \/ /\ \A i \in 1 .. Len(F) : F[i].id = m => F[i].deleted
           /\ \A k \in 1 .. n : P[k].kind = "new" => P[k].id # m
    BY DEF Told, DeletionsTold, n
  <2>2. ASSUME NEW k \in 1 .. n, P[k].kind = "delete", P[k].id = m
        PROVE  \E l \in 1 .. n - 1 : Q[l].kind = "delete" /\ Q[l].id = m
    <3>1. k # 1
      BY <1>2, <2>2 DEF ev
    <3>2. k - 1 \in 1 .. n - 1 /\ Q[k - 1] = P[k]
      BY <1>1, <3>1
    <3> QED BY <2>2, <3>2
  <2>3. CASE /\ \A i \in 1 .. Len(F) : F[i].id = m => F[i].deleted
             /\ \A k \in 1 .. n : P[k].kind = "new" => P[k].id # m
    <3>1. \A i \in 1 .. Len(F) : F2[i].id = m => F2[i].deleted
      BY <1>2, <2>3
    <3>2. ASSUME NEW k \in 1 .. n - 1, Q[k].kind = "new" PROVE Q[k].id # m
      <4>1. k + 1 \in 1 .. n /\ Q[k] = P[k + 1]
        BY <1>1
      <4> QED BY <2>3, <3>2, <4>1
    <3> QED BY <3>1, <3>2
  <2> QED BY <2>1, <2>2, <2>3
<1>11. ReadsTold(R, F2, Q)
  <2> SUFFICES ASSUME NEW m \in 1 .. Len(R), R[m].read, R[m].by = Me
               PROVE  /\ \A i \in 1 .. Len(F) : F2[i].id = m /\ ~F2[i].deleted /\ ~F2[i].read =>
                                               \E k \in 1 .. n - 1 : Q[k].kind = "read"
                      /\ \A k \in 1 .. n - 1 : Q[k].kind = "new" /\ Q[k].id = m =>
                                               \E l \in 1 .. n - 1 : k < l /\ Q[l].kind = "read"
    BY <1>1, <1>2 DEF ReadsTold
  <2>1. /\ \A i \in 1 .. Len(F) : F[i].id = m /\ ~F[i].deleted /\ ~F[i].read =>
                                 \E k \in 1 .. n : P[k].kind = "read"
        /\ \A k \in 1 .. n : P[k].kind = "new" /\ P[k].id = m =>
                             \E l \in 1 .. n : k < l /\ P[l].kind = "read"
    BY DEF Told, ReadsTold, n
  <2>2. ASSUME NEW i \in 1 .. Len(F), F2[i].id = m, ~F2[i].deleted, ~F2[i].read
        PROVE  \E k \in 1 .. n - 1 : Q[k].kind = "read"
    <3>1. F[i].id = m /\ ~F[i].deleted /\ ~F[i].read /\ F[i].by = Me
      BY <1>2, <2>2 DEF Updated, Told, KnownBubbles
    <3>2. ev.kind # "read"
      BY <2>2, <3>1 DEF Updated, ev
    <3>3. PICK k \in 1 .. n : P[k].kind = "read"
      BY <2>1, <3>1
    <3> QED BY <1>1, <3>2, <3>3 DEF ev
  <2>3. ASSUME NEW k \in 1 .. n - 1, Q[k].kind = "new", Q[k].id = m
        PROVE  \E l \in 1 .. n - 1 : k < l /\ Q[l].kind = "read"
    <3>1. k + 1 \in 1 .. n /\ Q[k] = P[k + 1]
      BY <1>1
    <3>2. PICK l \in 1 .. n : k + 1 < l /\ P[l].kind = "read"
      BY <2>1, <2>3, <3>1
    <3>3. l - 1 \in 1 .. n - 1 /\ Q[l - 1] = P[l] /\ k < l - 1
      BY <1>1, <3>2
    <3> QED BY <3>2, <3>3
  <2> QED BY <2>2, <2>3
<1>12. Told(R, F2, Q)
  BY <1>4, <1>5, <1>6, <1>7, <1>8, <1>9, <1>10, <1>11 DEF Told
<1> QED BY <1>12 DEF Q

\* A page shows the message that an event announces.
LEMMA ShownTold ==
  ASSUME NEW R \in Seq(Row), NEW F \in Seq(Bubble), NEW F2 \in Seq(Bubble),
         NEW P \in Seq(Event), P # <<>>, Told(R, F, P), P[1].kind = "new",
         Len(F2) = Len(F) + 1, \A i \in 1 .. Len(F) : F2[i] = F[i],
         F2[Len(F) + 1] = [id |-> P[1].id, by |-> P[1].by, text |-> P[1].text,
                           deleted |-> FALSE, read |-> FALSE, counts |-> NoCounts]
  PROVE  Told(R, F2, Tail(P))
<1> DEFINE Q == Tail(P)
           n == Len(P)
           ev == P[1]
           f == Len(F)
<1>1. /\ Q \in Seq(Event) /\ n \in Nat /\ n >= 1 /\ Len(Q) = n - 1
      /\ \A k \in 1 .. n - 1 : k + 1 \in 1 .. n /\ Q[k] = P[k + 1]
      /\ \A k \in 1 .. n : k = 1 \/ (k - 1 \in 1 .. n - 1 /\ Q[k - 1] = P[k])
      /\ ev \in Event
  BY TailIs
<1>2. /\ Len(F2) = f + 1 /\ f \in Nat /\ \A i \in 1 .. f : F2[i] = F[i] /\ i \in 1 .. f + 1
      /\ f + 1 \in 1 .. f + 1
  OBVIOUS
<1>3. 1 \in 1 .. n
  BY <1>1
<1>4. /\ F2[f + 1].id = ev.id /\ F2[f + 1].by = ev.by /\ F2[f + 1].text = ev.text
      /\ F2[f + 1].counts = NoCounts /\ ~F2[f + 1].deleted /\ ~F2[f + 1].read
  OBVIOUS
<1>5. \A i \in 1 .. f + 1 : i \in 1 .. f \/ i = f + 1
  BY <1>2
<1>6. ev.kind = "new"
  OBVIOUS
<1> HIDE DEF Q, n, ev, f
<1>7. ev.id \in 1 .. Len(R) /\ ev.by = R[ev.id].by /\ ev.counts = NoCounts
  <2>1. ev.id <= Len(R) /\ ev.id >= 1 /\ ev.by = R[ev.id].by /\ ev.counts = NoCounts
    BY <1>3, <1>6 DEF Told, KnownEvents, n, ev
  <2>2. ev.id \in Nat /\ Len(R) \in Nat
    BY <1>1, RoomAssumption DEF Event, Ids
  <2> QED BY <2>1, <2>2
<1>8. \A i \in 1 .. f : F[i].id < ev.id
  BY <1>3, <1>6 DEF Told, NewComesFirst, n, ev, f
<1>9. \A k \in 1 .. n - 1 : Q[k].kind = "new" => ev.id < Q[k].id
  <2> SUFFICES ASSUME NEW k \in 1 .. n - 1, Q[k].kind = "new" PROVE ev.id < Q[k].id
    OBVIOUS
  <2>1. k + 1 \in 1 .. n /\ 1 < k + 1 /\ Q[k] = P[k + 1]
    BY <1>1
  <2> QED BY <2>1, <1>3 DEF Told, NewComesFirst, n, ev
<1>10. Ordered(F2)
  <2> SUFFICES ASSUME NEW i \in 1 .. f + 1, NEW j \in 1 .. f + 1, i < j PROVE F2[i].id < F2[j].id
    BY <1>2 DEF Ordered
  <2>1. i \in 1 .. f
    BY <1>2
  <2>2. CASE j = f + 1
    BY <1>2, <1>4, <1>8, <2>1, <2>2
  <2>3. CASE j \in 1 .. f
    BY <1>2, <2>1, <2>3 DEF Told, Ordered, f
  <2> QED BY <1>5, <2>2, <2>3
<1>11. KnownBubbles(R, F2)
  <2> SUFFICES ASSUME NEW i \in 1 .. f + 1
               PROVE  /\ F2[i].id \in 1 .. Len(R)
                      /\ F2[i].by = R[F2[i].id].by
                      /\ F2[i].deleted => R[F2[i].id].deleted
    BY <1>2 DEF KnownBubbles
  <2>1. CASE i = f + 1
    BY <1>4, <1>7, <2>1
  <2>2. CASE i \in 1 .. f
    BY <1>2, <2>2 DEF Told, KnownBubbles, f
  <2> QED BY <1>5, <2>1, <2>2
<1>12. KnownEvents(R, Q)
  BY TailKnown DEF Told, Q
<1>13. NewComesFirst(F2, Q)
  <2> SUFFICES ASSUME NEW l \in 1 .. n - 1, Q[l].kind = "new"
               PROVE  /\ \A k \in 1 .. n - 1 : k < l => Q[k].id < Q[l].id
                      /\ \A i \in 1 .. f + 1 : F2[i].id < Q[l].id
    BY <1>1, <1>2 DEF NewComesFirst
  <2>1. l + 1 \in 1 .. n /\ Q[l] = P[l + 1]
    BY <1>1
  <2>2. /\ \A k \in 1 .. n : k < l + 1 => P[k].id < P[l + 1].id
        /\ \A i \in 1 .. f : F[i].id < P[l + 1].id
    BY <2>1 DEF Told, NewComesFirst, n, f
  <2>3. ASSUME NEW k \in 1 .. n - 1, k < l PROVE Q[k].id < Q[l].id
    <3>1. k + 1 \in 1 .. n /\ k + 1 < l + 1 /\ Q[k] = P[k + 1]
      BY <1>1, <2>3
    <3> QED BY <2>1, <2>2, <3>1
  <2>4. ASSUME NEW i \in 1 .. f + 1 PROVE F2[i].id < Q[l].id
    <3>1. CASE i = f + 1
      BY <1>4, <1>9, <3>1
    <3>2. CASE i \in 1 .. f
      BY <1>2, <2>1, <2>2, <3>2
    <3> QED BY <1>5, <3>1, <3>2
  <2> QED BY <2>3, <2>4
<1>14. Present(R, F2, Q)
  <2> SUFFICES ASSUME NEW m \in 1 .. Len(R), Stays(R, m)
               PROVE  \/ \E i \in 1 .. f + 1 : F2[i].id = m
                      \/ \E k \in 1 .. n - 1 : Q[k].kind = "new" /\ Q[k].id = m
    BY <1>1, <1>2 DEF Present
  <2>1. \/ \E i \in 1 .. f : F[i].id = m
        \/ \E k \in 1 .. n : P[k].kind = "new" /\ P[k].id = m
    BY DEF Told, Present, n, f
  <2>2. ASSUME NEW k \in 1 .. n, P[k].kind = "new", P[k].id = m
        PROVE  \/ F2[f + 1].id = m
               \/ \E l \in 1 .. n - 1 : Q[l].kind = "new" /\ Q[l].id = m
    BY <1>1, <1>4, <2>2 DEF ev
  <2> QED BY <1>2, <2>1, <2>2
<1>15. TextsTold(R, F2, Q)
  <2> SUFFICES ASSUME NEW m \in 1 .. Len(R), Stays(R, m)
               PROVE  \/ \E k \in 1 .. n - 1 : /\ TellsText(Q[k], m) /\ Q[k].text = R[m].text
                                               /\ \A l \in 1 .. n - 1 : k < l => ~TellsText(Q[l], m)
                      \/ /\ \A l \in 1 .. n - 1 : ~TellsText(Q[l], m)
                         /\ \A i \in 1 .. f + 1 : F2[i].id = m => F2[i].text = R[m].text
    BY <1>1, <1>2 DEF TextsTold
  <2>1. CASE \E k \in 1 .. n : /\ TellsText(P[k], m) /\ P[k].text = R[m].text
                               /\ \A l \in 1 .. n : k < l => ~TellsText(P[l], m)
    <3>1. PICK k \in 1 .. n : /\ TellsText(P[k], m) /\ P[k].text = R[m].text
                              /\ \A l \in 1 .. n : k < l => ~TellsText(P[l], m)
      BY <2>1
    <3>2. CASE k = 1
      <4>1. \A l \in 1 .. n - 1 : ~TellsText(Q[l], m)
        <5> SUFFICES ASSUME NEW l \in 1 .. n - 1 PROVE ~TellsText(Q[l], m)
          OBVIOUS
        <5>1. l + 1 \in 1 .. n /\ 1 < l + 1 /\ Q[l] = P[l + 1]
          BY <1>1
        <5> QED BY <3>1, <3>2, <5>1
      <4>2. ev.id = m /\ ev.text = R[m].text
        BY <3>1, <3>2 DEF TellsText, ev
      <4>3. ASSUME NEW i \in 1 .. f + 1, F2[i].id = m PROVE F2[i].text = R[m].text
        <5>1. CASE i = f + 1
          BY <1>4, <4>2, <5>1
        <5>2. CASE i \in 1 .. f
          <6>1. m < m
            BY <1>2, <1>8, <4>2, <4>3, <5>2
          <6> QED BY <6>1
        <5> QED BY <1>5, <5>1, <5>2
      <4> QED BY <4>1, <4>3
    <3>3. CASE k # 1
      <4>1. k - 1 \in 1 .. n - 1 /\ Q[k - 1] = P[k]
        BY <1>1, <3>3
      <4>2. ASSUME NEW l \in 1 .. n - 1, k - 1 < l PROVE ~TellsText(Q[l], m)
        <5>1. l + 1 \in 1 .. n /\ k < l + 1 /\ Q[l] = P[l + 1]
          BY <1>1, <4>2
        <5> QED BY <3>1, <5>1
      <4> QED BY <3>1, <4>1, <4>2
    <3> QED BY <3>2, <3>3
  <2>2. CASE /\ \A l \in 1 .. n : ~TellsText(P[l], m)
             /\ \A i \in 1 .. f : F[i].id = m => F[i].text = R[m].text
    <3>1. \A l \in 1 .. n - 1 : ~TellsText(Q[l], m)
      BY <1>1, <2>2
    <3>2. ev.id # m
      BY <1>3, <1>6, <2>2 DEF TellsText, ev
    <3>3. \A i \in 1 .. f + 1 : F2[i].id = m => F2[i].text = R[m].text
      BY <1>2, <1>4, <1>5, <2>2, <3>2
    <3> QED BY <3>1, <3>3
  <2> QED BY <2>1, <2>2 DEF Told, TextsTold, n, f
<1>16. CountsTold(R, F2, Q)
  <2> SUFFICES ASSUME NEW m \in 1 .. Len(R), Stays(R, m)
               PROVE  \/ \E k \in 1 .. n - 1 : /\ TellsCounts(Q[k], m) /\ Q[k].counts = CountsOf(R[m].react)
                                               /\ \A l \in 1 .. n - 1 : k < l => ~TellsCounts(Q[l], m)
                      \/ /\ \A l \in 1 .. n - 1 : ~TellsCounts(Q[l], m)
                         /\ \A i \in 1 .. f + 1 : F2[i].id = m => F2[i].counts = CountsOf(R[m].react)
    BY <1>1, <1>2 DEF CountsTold
  <2>1. CASE \E k \in 1 .. n : /\ TellsCounts(P[k], m) /\ P[k].counts = CountsOf(R[m].react)
                               /\ \A l \in 1 .. n : k < l => ~TellsCounts(P[l], m)
    <3>1. PICK k \in 1 .. n : /\ TellsCounts(P[k], m) /\ P[k].counts = CountsOf(R[m].react)
                              /\ \A l \in 1 .. n : k < l => ~TellsCounts(P[l], m)
      BY <2>1
    <3>2. CASE k = 1
      <4>1. \A l \in 1 .. n - 1 : ~TellsCounts(Q[l], m)
        <5> SUFFICES ASSUME NEW l \in 1 .. n - 1 PROVE ~TellsCounts(Q[l], m)
          OBVIOUS
        <5>1. l + 1 \in 1 .. n /\ 1 < l + 1 /\ Q[l] = P[l + 1]
          BY <1>1
        <5> QED BY <3>1, <3>2, <5>1
      <4>2. ev.id = m /\ ev.counts = CountsOf(R[m].react)
        BY <3>1, <3>2 DEF TellsCounts, ev
      <4>3. ASSUME NEW i \in 1 .. f + 1, F2[i].id = m PROVE F2[i].counts = CountsOf(R[m].react)
        <5>1. CASE i = f + 1
          BY <1>4, <1>7, <4>2, <5>1
        <5>2. CASE i \in 1 .. f
          <6>1. m < m
            BY <1>2, <1>8, <4>2, <4>3, <5>2
          <6> QED BY <6>1
        <5> QED BY <1>5, <5>1, <5>2
      <4> QED BY <4>1, <4>3
    <3>3. CASE k # 1
      <4>1. k - 1 \in 1 .. n - 1 /\ Q[k - 1] = P[k]
        BY <1>1, <3>3
      <4>2. ASSUME NEW l \in 1 .. n - 1, k - 1 < l PROVE ~TellsCounts(Q[l], m)
        <5>1. l + 1 \in 1 .. n /\ k < l + 1 /\ Q[l] = P[l + 1]
          BY <1>1, <4>2
        <5> QED BY <3>1, <5>1
      <4> QED BY <3>1, <4>1, <4>2
    <3> QED BY <3>2, <3>3
  <2>2. CASE /\ \A l \in 1 .. n : ~TellsCounts(P[l], m)
             /\ \A i \in 1 .. f : F[i].id = m => F[i].counts = CountsOf(R[m].react)
    <3>1. \A l \in 1 .. n - 1 : ~TellsCounts(Q[l], m)
      BY <1>1, <2>2
    <3>2. ev.id # m
      BY <1>3, <1>6, <2>2 DEF TellsCounts, ev
    <3>3. \A i \in 1 .. f + 1 : F2[i].id = m => F2[i].counts = CountsOf(R[m].react)
      BY <1>2, <1>4, <1>5, <2>2, <3>2
    <3> QED BY <3>1, <3>3
  <2> QED BY <2>1, <2>2 DEF Told, CountsTold, n, f
<1>17. DeletionsTold(R, F2, Q)
  <2> SUFFICES ASSUME NEW m \in 1 .. Len(R), R[m].deleted
               PROVE  \/ \E k \in 1 .. n - 1 : Q[k].kind = "delete" /\ Q[k].id = m
                      \/ /\ \A i \in 1 .. f + 1 : F2[i].id = m => F2[i].deleted
                         /\ \A k \in 1 .. n - 1 : Q[k].kind = "new" => Q[k].id # m
    BY <1>1, <1>2 DEF DeletionsTold
  <2>1. \/ \E k \in 1 .. n : P[k].kind = "delete" /\ P[k].id = m
        \/ /\ \A i \in 1 .. f : F[i].id = m => F[i].deleted
           /\ \A k \in 1 .. n : P[k].kind = "new" => P[k].id # m
    BY DEF Told, DeletionsTold, n, f
  <2>2. ASSUME NEW k \in 1 .. n, P[k].kind = "delete", P[k].id = m
        PROVE  \E l \in 1 .. n - 1 : Q[l].kind = "delete" /\ Q[l].id = m
    <3>1. k # 1
      BY <1>6, <2>2 DEF ev
    <3>2. k - 1 \in 1 .. n - 1 /\ Q[k - 1] = P[k]
      BY <1>1, <3>1
    <3> QED BY <2>2, <3>2
  <2>3. CASE /\ \A i \in 1 .. f : F[i].id = m => F[i].deleted
             /\ \A k \in 1 .. n : P[k].kind = "new" => P[k].id # m
    <3>1. ev.id # m
      BY <1>3, <1>6, <2>3 DEF ev
    <3>2. \A i \in 1 .. f + 1 : F2[i].id = m => F2[i].deleted
      BY <1>2, <1>4, <1>5, <2>3, <3>1
    <3>3. ASSUME NEW k \in 1 .. n - 1, Q[k].kind = "new" PROVE Q[k].id # m
      <4>1. k + 1 \in 1 .. n /\ Q[k] = P[k + 1]
        BY <1>1
      <4> QED BY <2>3, <3>3, <4>1
    <3> QED BY <3>2, <3>3
  <2> QED BY <2>1, <2>2, <2>3
<1>18. ReadsTold(R, F2, Q)
  <2> SUFFICES ASSUME NEW m \in 1 .. Len(R), R[m].read, R[m].by = Me
               PROVE  /\ \A i \in 1 .. f + 1 : F2[i].id = m /\ ~F2[i].deleted /\ ~F2[i].read =>
                                               \E k \in 1 .. n - 1 : Q[k].kind = "read"
                      /\ \A k \in 1 .. n - 1 : Q[k].kind = "new" /\ Q[k].id = m =>
                                               \E l \in 1 .. n - 1 : k < l /\ Q[l].kind = "read"
    BY <1>1, <1>2 DEF ReadsTold
  <2>1. /\ \A i \in 1 .. f : F[i].id = m /\ ~F[i].deleted /\ ~F[i].read =>
                             \E k \in 1 .. n : P[k].kind = "read"
        /\ \A k \in 1 .. n : P[k].kind = "new" /\ P[k].id = m =>
                             \E l \in 1 .. n : k < l /\ P[l].kind = "read"
    BY DEF Told, ReadsTold, n, f
  <2>2. ASSUME NEW i \in 1 .. f + 1, F2[i].id = m, ~F2[i].deleted, ~F2[i].read
        PROVE  \E k \in 1 .. n - 1 : Q[k].kind = "read"
    <3>1. \E k \in 1 .. n : P[k].kind = "read"
      BY <1>2, <1>3, <1>4, <1>5, <1>6, <2>1, <2>2 DEF ev
    <3>2. PICK k \in 1 .. n : P[k].kind = "read"
      BY <3>1
    <3> QED BY <1>1, <1>6, <3>2 DEF ev
  <2>3. ASSUME NEW k \in 1 .. n - 1, Q[k].kind = "new", Q[k].id = m
        PROVE  \E l \in 1 .. n - 1 : k < l /\ Q[l].kind = "read"
    <3>1. k + 1 \in 1 .. n /\ Q[k] = P[k + 1]
      BY <1>1
    <3>2. PICK l \in 1 .. n : k + 1 < l /\ P[l].kind = "read"
      BY <2>1, <2>3, <3>1
    <3>3. l - 1 \in 1 .. n - 1 /\ Q[l - 1] = P[l] /\ k < l - 1
      BY <1>1, <3>2
    <3> QED BY <3>2, <3>3
  <2> QED BY <2>2, <2>3
<1>19. Told(R, F2, Q)
  BY <1>10, <1>11, <1>12, <1>13, <1>14, <1>15, <1>16, <1>17, <1>18 DEF Told
<1> QED BY <1>19 DEF Q

\* A page takes the bubble of a deleted message away, if it has one.
LEMMA TakenTold ==
  ASSUME NEW R \in Seq(Row), NEW F \in Seq(Bubble), NEW F2 \in Seq(Bubble),
         NEW P \in Seq(Event), P # <<>>, Told(R, F, P), P[1].kind = "delete", Ordered(F2),
         \A i \in 1 .. Len(F2) : \E j \in 1 .. Len(F) : F2[i] = F[j] /\ F[j].id # P[1].id,
         \A j \in 1 .. Len(F) : F[j].id # P[1].id => \E i \in 1 .. Len(F2) : F2[i] = F[j]
  PROVE  Told(R, F2, Tail(P))
<1> DEFINE Q == Tail(P)
           n == Len(P)
           ev == P[1]
<1>1. /\ Q \in Seq(Event) /\ n \in Nat /\ n >= 1 /\ Len(Q) = n - 1
      /\ \A k \in 1 .. n - 1 : k + 1 \in 1 .. n /\ Q[k] = P[k + 1]
      /\ \A k \in 1 .. n : k = 1 \/ (k - 1 \in 1 .. n - 1 /\ Q[k - 1] = P[k])
      /\ ev \in Event
  BY TailIs
<1>2. /\ \A i \in 1 .. Len(F2) : \E j \in 1 .. Len(F) : F2[i] = F[j] /\ F[j].id # ev.id
      /\ \A j \in 1 .. Len(F) : F[j].id # ev.id => \E i \in 1 .. Len(F2) : F2[i] = F[j]
  OBVIOUS
<1>3. 1 \in 1 .. n /\ ev.kind = "delete"
  BY <1>1
<1> HIDE DEF Q, n, ev
<1>4. ev.id \in 1 .. Len(R) /\ (R[ev.id].deleted \/ R[ev.id].gone)
  <2>1. ev.id <= Len(R) /\ ev.id >= 1 /\ (R[ev.id].deleted \/ R[ev.id].gone)
    BY <1>3 DEF Told, KnownEvents, n, ev
  <2>2. ev.id \in Nat /\ Len(R) \in Nat
    BY <1>1, RoomAssumption DEF Event, Ids
  <2> QED BY <2>1, <2>2
<1>5. \A m \in 1 .. Len(R) : Stays(R, m) => m # ev.id
  BY <1>4 DEF Stays
<1>6. \A k \in 1 .. n - 1 : Q[k].kind = "new" => Q[k].id # ev.id
  <2> SUFFICES ASSUME NEW k \in 1 .. n - 1, Q[k].kind = "new" PROVE Q[k].id # ev.id
    OBVIOUS
  <2>1. k + 1 \in 1 .. n /\ 1 < k + 1 /\ Q[k] = P[k + 1]
    BY <1>1
  <2>2. ev.id < Q[k].id
    BY <2>1, <1>3 DEF Told, NewComesFirst, n, ev
  <2>3. ev.id \in Nat
    BY <1>4
  <2> QED BY <2>2, <2>3
<1>7. KnownBubbles(R, F2)
  <2> SUFFICES ASSUME NEW i \in 1 .. Len(F2)
               PROVE  /\ F2[i].id \in 1 .. Len(R)
                      /\ F2[i].by = R[F2[i].id].by
                      /\ F2[i].deleted => R[F2[i].id].deleted
    BY DEF KnownBubbles
  <2>1. PICK j \in 1 .. Len(F) : F2[i] = F[j]
    BY <1>2
  <2> QED BY <2>1 DEF Told, KnownBubbles
<1>8. KnownEvents(R, Q)
  BY TailKnown DEF Told, Q
<1>9. NewComesFirst(F2, Q)
  <2> SUFFICES ASSUME NEW l \in 1 .. n - 1, Q[l].kind = "new"
               PROVE  /\ \A k \in 1 .. n - 1 : k < l => Q[k].id < Q[l].id
                      /\ \A i \in 1 .. Len(F2) : F2[i].id < Q[l].id
    BY <1>1 DEF NewComesFirst
  <2>1. l + 1 \in 1 .. n /\ Q[l] = P[l + 1]
    BY <1>1
  <2>2. /\ \A k \in 1 .. n : k < l + 1 => P[k].id < P[l + 1].id
        /\ \A i \in 1 .. Len(F) : F[i].id < P[l + 1].id
    BY <2>1 DEF Told, NewComesFirst, n
  <2>3. ASSUME NEW k \in 1 .. n - 1, k < l PROVE Q[k].id < Q[l].id
    <3>1. k + 1 \in 1 .. n /\ k + 1 < l + 1 /\ Q[k] = P[k + 1]
      BY <1>1, <2>3
    <3> QED BY <2>1, <2>2, <3>1
  <2> QED BY <1>2, <2>1, <2>2, <2>3
<1>10. Present(R, F2, Q)
  <2> SUFFICES ASSUME NEW m \in 1 .. Len(R), Stays(R, m)
               PROVE  \/ \E i \in 1 .. Len(F2) : F2[i].id = m
                      \/ \E k \in 1 .. n - 1 : Q[k].kind = "new" /\ Q[k].id = m
    BY <1>1 DEF Present
  <2>1. \/ \E i \in 1 .. Len(F) : F[i].id = m
        \/ \E k \in 1 .. n : P[k].kind = "new" /\ P[k].id = m
    BY DEF Told, Present, n
  <2>2. ASSUME NEW i \in 1 .. Len(F), F[i].id = m PROVE \E j \in 1 .. Len(F2) : F2[j].id = m
    BY <1>2, <1>5, <2>2
  <2>3. ASSUME NEW k \in 1 .. n, P[k].kind = "new", P[k].id = m
        PROVE  \E l \in 1 .. n - 1 : Q[l].kind = "new" /\ Q[l].id = m
    <3>1. k # 1
      BY <1>3, <2>3 DEF ev
    <3>2. k - 1 \in 1 .. n - 1 /\ Q[k - 1] = P[k]
      BY <1>1, <3>1
    <3> QED BY <2>3, <3>2
  <2> QED BY <2>1, <2>2, <2>3
<1>11. TextsTold(R, F2, Q)
  <2> SUFFICES ASSUME NEW m \in 1 .. Len(R), Stays(R, m)
               PROVE  \/ \E k \in 1 .. n - 1 : /\ TellsText(Q[k], m) /\ Q[k].text = R[m].text
                                               /\ \A l \in 1 .. n - 1 : k < l => ~TellsText(Q[l], m)
                      \/ /\ \A l \in 1 .. n - 1 : ~TellsText(Q[l], m)
                         /\ \A i \in 1 .. Len(F2) : F2[i].id = m => F2[i].text = R[m].text
    BY <1>1 DEF TextsTold
  <2>1. CASE \E k \in 1 .. n : /\ TellsText(P[k], m) /\ P[k].text = R[m].text
                               /\ \A l \in 1 .. n : k < l => ~TellsText(P[l], m)
    <3>1. PICK k \in 1 .. n : /\ TellsText(P[k], m) /\ P[k].text = R[m].text
                              /\ \A l \in 1 .. n : k < l => ~TellsText(P[l], m)
      BY <2>1
    <3>2. k # 1
      BY <1>3, <3>1 DEF TellsText, ev
    <3>3. k - 1 \in 1 .. n - 1 /\ Q[k - 1] = P[k]
      BY <1>1, <3>2
    <3>4. ASSUME NEW l \in 1 .. n - 1, k - 1 < l PROVE ~TellsText(Q[l], m)
      <4>1. l + 1 \in 1 .. n /\ k < l + 1 /\ Q[l] = P[l + 1]
        BY <1>1, <3>4
      <4> QED BY <3>1, <4>1
    <3> QED BY <3>1, <3>3, <3>4
  <2>2. CASE /\ \A l \in 1 .. n : ~TellsText(P[l], m)
             /\ \A i \in 1 .. Len(F) : F[i].id = m => F[i].text = R[m].text
    <3>1. \A l \in 1 .. n - 1 : ~TellsText(Q[l], m)
      BY <1>1, <2>2
    <3>2. ASSUME NEW i \in 1 .. Len(F2), F2[i].id = m PROVE F2[i].text = R[m].text
      <4>1. PICK j \in 1 .. Len(F) : F2[i] = F[j]
        BY <1>2
      <4> QED BY <2>2, <3>2, <4>1
    <3> QED BY <3>1, <3>2
  <2> QED BY <2>1, <2>2 DEF Told, TextsTold, n
<1>12. CountsTold(R, F2, Q)
  <2> SUFFICES ASSUME NEW m \in 1 .. Len(R), Stays(R, m)
               PROVE  \/ \E k \in 1 .. n - 1 : /\ TellsCounts(Q[k], m) /\ Q[k].counts = CountsOf(R[m].react)
                                               /\ \A l \in 1 .. n - 1 : k < l => ~TellsCounts(Q[l], m)
                      \/ /\ \A l \in 1 .. n - 1 : ~TellsCounts(Q[l], m)
                         /\ \A i \in 1 .. Len(F2) : F2[i].id = m => F2[i].counts = CountsOf(R[m].react)
    BY <1>1 DEF CountsTold
  <2>1. CASE \E k \in 1 .. n : /\ TellsCounts(P[k], m) /\ P[k].counts = CountsOf(R[m].react)
                               /\ \A l \in 1 .. n : k < l => ~TellsCounts(P[l], m)
    <3>1. PICK k \in 1 .. n : /\ TellsCounts(P[k], m) /\ P[k].counts = CountsOf(R[m].react)
                              /\ \A l \in 1 .. n : k < l => ~TellsCounts(P[l], m)
      BY <2>1
    <3>2. k # 1
      BY <1>3, <3>1 DEF TellsCounts, ev
    <3>3. k - 1 \in 1 .. n - 1 /\ Q[k - 1] = P[k]
      BY <1>1, <3>2
    <3>4. ASSUME NEW l \in 1 .. n - 1, k - 1 < l PROVE ~TellsCounts(Q[l], m)
      <4>1. l + 1 \in 1 .. n /\ k < l + 1 /\ Q[l] = P[l + 1]
        BY <1>1, <3>4
      <4> QED BY <3>1, <4>1
    <3> QED BY <3>1, <3>3, <3>4
  <2>2. CASE /\ \A l \in 1 .. n : ~TellsCounts(P[l], m)
             /\ \A i \in 1 .. Len(F) : F[i].id = m => F[i].counts = CountsOf(R[m].react)
    <3>1. \A l \in 1 .. n - 1 : ~TellsCounts(Q[l], m)
      BY <1>1, <2>2
    <3>2. ASSUME NEW i \in 1 .. Len(F2), F2[i].id = m PROVE F2[i].counts = CountsOf(R[m].react)
      <4>1. PICK j \in 1 .. Len(F) : F2[i] = F[j]
        BY <1>2
      <4> QED BY <2>2, <3>2, <4>1
    <3> QED BY <3>1, <3>2
  <2> QED BY <2>1, <2>2 DEF Told, CountsTold, n
<1>13. DeletionsTold(R, F2, Q)
  <2> SUFFICES ASSUME NEW m \in 1 .. Len(R), R[m].deleted
               PROVE  \/ \E k \in 1 .. n - 1 : Q[k].kind = "delete" /\ Q[k].id = m
                      \/ /\ \A i \in 1 .. Len(F2) : F2[i].id = m => F2[i].deleted
                         /\ \A k \in 1 .. n - 1 : Q[k].kind = "new" => Q[k].id # m
    BY <1>1 DEF DeletionsTold
  <2>1. CASE m = ev.id
    BY <1>2, <1>6, <2>1
  <2>2. CASE m # ev.id
    <3>1. \/ \E k \in 1 .. n : P[k].kind = "delete" /\ P[k].id = m
          \/ /\ \A i \in 1 .. Len(F) : F[i].id = m => F[i].deleted
             /\ \A k \in 1 .. n : P[k].kind = "new" => P[k].id # m
      BY DEF Told, DeletionsTold, n
    <3>2. ASSUME NEW k \in 1 .. n, P[k].kind = "delete", P[k].id = m
          PROVE  \E l \in 1 .. n - 1 : Q[l].kind = "delete" /\ Q[l].id = m
      <4>1. k # 1
        BY <2>2, <3>2 DEF ev
      <4>2. k - 1 \in 1 .. n - 1 /\ Q[k - 1] = P[k]
        BY <1>1, <4>1
      <4> QED BY <3>2, <4>2
    <3>3. CASE /\ \A i \in 1 .. Len(F) : F[i].id = m => F[i].deleted
               /\ \A k \in 1 .. n : P[k].kind = "new" => P[k].id # m
      <4>1. ASSUME NEW i \in 1 .. Len(F2), F2[i].id = m PROVE F2[i].deleted
        <5>1. PICK j \in 1 .. Len(F) : F2[i] = F[j]
          BY <1>2
        <5> QED BY <3>3, <4>1, <5>1
      <4>2. ASSUME NEW k \in 1 .. n - 1, Q[k].kind = "new" PROVE Q[k].id # m
        <5>1. k + 1 \in 1 .. n /\ Q[k] = P[k + 1]
          BY <1>1
        <5> QED BY <3>3, <4>2, <5>1
      <4> QED BY <4>1, <4>2
    <3> QED BY <3>1, <3>2, <3>3
  <2> QED BY <2>1, <2>2
<1>14. ReadsTold(R, F2, Q)
  <2> SUFFICES ASSUME NEW m \in 1 .. Len(R), R[m].read, R[m].by = Me
               PROVE  /\ \A i \in 1 .. Len(F2) : F2[i].id = m /\ ~F2[i].deleted /\ ~F2[i].read =>
                                               \E k \in 1 .. n - 1 : Q[k].kind = "read"
                      /\ \A k \in 1 .. n - 1 : Q[k].kind = "new" /\ Q[k].id = m =>
                                               \E l \in 1 .. n - 1 : k < l /\ Q[l].kind = "read"
    BY <1>1 DEF ReadsTold
  <2>1. /\ \A i \in 1 .. Len(F) : F[i].id = m /\ ~F[i].deleted /\ ~F[i].read =>
                                 \E k \in 1 .. n : P[k].kind = "read"
        /\ \A k \in 1 .. n : P[k].kind = "new" /\ P[k].id = m =>
                             \E l \in 1 .. n : k < l /\ P[l].kind = "read"
    BY DEF Told, ReadsTold, n
  <2>2. ASSUME NEW i \in 1 .. Len(F2), F2[i].id = m, ~F2[i].deleted, ~F2[i].read
        PROVE  \E k \in 1 .. n - 1 : Q[k].kind = "read"
    <3>1. PICK k \in 1 .. n : P[k].kind = "read"
      BY <1>2, <2>1, <2>2
    <3>2. k # 1
      BY <1>3, <3>1 DEF ev
    <3>3. k - 1 \in 1 .. n - 1 /\ Q[k - 1] = P[k]
      BY <1>1, <3>2
    <3> QED BY <3>1, <3>3
  <2>3. ASSUME NEW k \in 1 .. n - 1, Q[k].kind = "new", Q[k].id = m
        PROVE  \E l \in 1 .. n - 1 : k < l /\ Q[l].kind = "read"
    <3>1. k + 1 \in 1 .. n /\ Q[k] = P[k + 1]
      BY <1>1
    <3>2. PICK l \in 1 .. n : k + 1 < l /\ P[l].kind = "read"
      BY <2>1, <2>3, <3>1
    <3>3. l - 1 \in 1 .. n - 1 /\ Q[l - 1] = P[l] /\ k < l - 1
      BY <1>1, <3>2
    <3> QED BY <3>2, <3>3
  <2> QED BY <2>2, <2>3
<1>15. Told(R, F2, Q)
  BY <1>7, <1>8, <1>9, <1>10, <1>11, <1>12, <1>13, <1>14 DEF Told
<1> QED BY <1>15 DEF Q

-----------------------------------------------------------------------------
(* The page follows.                                                       *)

\* Handling the next event keeps the page told.
LEMMA NextTold ==
  ASSUME TypeInv, NEW P \in Seq(Event), P # <<>>, P[1].kind = "new" => P[1].id \in Ids,
         Told(rows, feed, P)
  PROVE  Told(rows, Shown(P[1]), Tail(P))
<1>1. rows \in Seq(Row) /\ feed \in Seq(Bubble) /\ P[1] \in Event /\ 1 \in 1 .. Len(P)
  BY TailIs DEF TypeInv, TypeOK
<1>2. PICK ev \in Event : ev = P[1]
  BY <1>1
<1>3. Len(feed) \in Nat /\ \A i \in 1 .. Len(feed) : feed[i] \in Bubble
  BY <1>1, ElementOfSeq
<1>4. \A i, j \in 1 .. Len(feed) : feed[i].id = feed[j].id => i = j
  <2> SUFFICES ASSUME NEW i \in 1 .. Len(feed), NEW j \in 1 .. Len(feed),
                      feed[i].id = feed[j].id, i # j
               PROVE  FALSE
    OBVIOUS
  <2>1. feed[i].id \in Nat
    BY <1>3, RoomAssumption DEF Bubble, Ids
  <2>2. i < j \/ j < i
    BY <1>3
  <2> QED BY <2>1, <2>2 DEF Told, Ordered
<1>5. CASE ev.kind = "new"
  <2>1. Shown(ev) = ShowNew(ev) /\ ev.id \in Ids
    BY <1>2, <1>5 DEF Shown
  <2>2. /\ ShowNew(ev) \in Seq(Bubble) /\ Len(ShowNew(ev)) = Len(feed) + 1
        /\ \A i \in 1 .. Len(feed) : ShowNew(ev)[i] = feed[i]
        /\ ShowNew(ev)[Len(feed) + 1] =
             [id |-> ev.id, by |-> ev.by, text |-> ev.text, deleted |-> FALSE,
              read |-> FALSE, counts |-> NoCounts]
    BY <1>1, <2>1, ShowNewIs, Zenon
  <2> QED BY <1>1, <1>2, <1>5, <2>1, <2>2, ShownTold
<1>6. CASE ev.kind = "read"
  <2>1. Shown(ev) = Ticked
    BY <1>6 DEF Shown
  <2>2. Updated(feed, Ticked, ev)
    <3>1. /\ Ticked \in Seq(Bubble) /\ Len(Ticked) = Len(feed)
          /\ \A i \in 1 .. Len(feed) :
               Ticked[i] = IF feed[i].by = Me /\ ~feed[i].deleted
                           THEN [feed[i] EXCEPT !.read = TRUE] ELSE feed[i]
      BY <1>1, TickedIs
    <3>2. ASSUME NEW i \in 1 .. Len(feed)
          PROVE  /\ Ticked[i].id = feed[i].id /\ Ticked[i].by = feed[i].by
                 /\ Ticked[i].deleted = feed[i].deleted
                 /\ Ticked[i].text = feed[i].text /\ Ticked[i].counts = feed[i].counts
                 /\ feed[i].read => Ticked[i].read
                 /\ feed[i].by = Me /\ ~feed[i].deleted => Ticked[i].read
      BY <1>3, <3>1 DEF Bubble
    <3> QED BY <1>6, <3>1, <3>2 DEF Updated, TellsText, TellsCounts
  <2> QED BY <1>1, <1>2, <2>1, <2>2, UpdatedTold
<1>7. CASE ev.kind \in {"edit", "react"} /\ At(ev.id) = 0
  <2>1. Shown(ev) = feed
    BY <1>7 DEF Shown
  <2>2. \A i \in 1 .. Len(feed) : feed[i].id # ev.id
    BY <1>1, <1>7, AtIs
  <2>3. Updated(feed, feed, ev)
    BY <1>1, <1>7, <2>2 DEF Updated, TellsText, TellsCounts
  <2> QED BY <1>1, <1>2, <2>1, <2>3, UpdatedTold
<1>8. CASE ev.kind \in {"edit", "react"} /\ At(ev.id) # 0
  <2>1. PICK i \in 1 .. Len(feed) : i = At(ev.id) /\ feed[i].id = ev.id
    BY <1>1, <1>8, AtIs
  <2>2. \A j \in 1 .. Len(feed) : feed[j].id = ev.id <=> j = i
    BY <1>4, <2>1
  <2>3. CASE ev.kind = "edit"
    <3>1. PICK b \in Bubble : b = [feed[i] EXCEPT !.text = ev.text]
      BY <1>3, BubbleWith, EventParts
    <3>2. Shown(ev) = [feed EXCEPT ![i] = b]
      BY <1>8, <2>1, <2>3, <3>1 DEF Shown
    <3>3. /\ b.id = feed[i].id /\ b.by = feed[i].by /\ b.deleted = feed[i].deleted
          /\ b.text = ev.text /\ b.counts = feed[i].counts /\ b.read = feed[i].read
      BY <1>3, <3>1 DEF Bubble
    <3>4. /\ Shown(ev) \in Seq(Bubble) /\ Len(Shown(ev)) = Len(feed)
          /\ \A j \in 1 .. Len(feed) : Shown(ev)[j] = IF j = i THEN b ELSE feed[j]
      BY <1>1, <3>2, BubbleChanged
    <3>5. Updated(feed, Shown(ev), ev)
      BY <2>2, <2>3, <3>3, <3>4 DEF Updated, TellsText, TellsCounts
    <3> QED BY <1>1, <1>2, <3>5, UpdatedTold
  <2>4. CASE ev.kind = "react"
    <3>1. PICK b \in Bubble : b = [feed[i] EXCEPT !.counts = ev.counts]
      BY <1>3, BubbleWith, EventParts
    <3>2. Shown(ev) = [feed EXCEPT ![i] = b]
      BY <1>8, <2>1, <2>4, <3>1 DEF Shown
    <3>3. /\ b.id = feed[i].id /\ b.by = feed[i].by /\ b.deleted = feed[i].deleted
          /\ b.text = feed[i].text /\ b.counts = ev.counts /\ b.read = feed[i].read
      BY <1>3, <3>1 DEF Bubble
    <3>4. /\ Shown(ev) \in Seq(Bubble) /\ Len(Shown(ev)) = Len(feed)
          /\ \A j \in 1 .. Len(feed) : Shown(ev)[j] = IF j = i THEN b ELSE feed[j]
      BY <1>1, <3>2, BubbleChanged
    <3>5. Updated(feed, Shown(ev), ev)
      BY <2>2, <2>4, <3>3, <3>4 DEF Updated, TellsText, TellsCounts
    <3> QED BY <1>1, <1>2, <3>5, UpdatedTold
  <2> QED BY <1>8, <2>3, <2>4
<1>9. CASE ev.kind = "delete" /\ At(ev.id) = 0
  <2>1. Shown(ev) = feed
    BY <1>9 DEF Shown
  <2>2. \A i \in 1 .. Len(feed) : feed[i].id # ev.id
    BY <1>1, <1>9, AtIs
  <2>3. Ordered(feed)
    BY DEF Told
  <2> QED BY <1>1, <1>2, <1>9, <2>1, <2>2, <2>3, TakenTold
<1>10. CASE ev.kind = "delete" /\ At(ev.id) # 0
  <2>1. PICK i \in 1 .. Len(feed) : i = At(ev.id) /\ feed[i].id = ev.id
    BY <1>1, <1>10, AtIs
  <2>2. PICK F2 : F2 = RemoveAt(feed, i)
    OBVIOUS
  <2>3. Shown(ev) = F2
    BY <1>10, <2>1, <2>2 DEF Shown
  <2>4. /\ F2 \in Seq(Bubble) /\ Len(F2) = Len(feed) - 1
        /\ \A j \in 1 .. Len(feed) - 1 : F2[j] = IF j < i THEN feed[j] ELSE feed[j + 1]
    BY <1>1, <2>2, RemovedIs
  <2>5. Ordered(F2)
    <3> SUFFICES ASSUME NEW j \in 1 .. Len(feed) - 1, NEW k \in 1 .. Len(feed) - 1, j < k
                 PROVE  F2[j].id < F2[k].id
      BY <2>4 DEF Ordered
    <3>1. PICK x \in 1 .. Len(feed) : F2[j] = feed[x] /\ x = IF j < i THEN j ELSE j + 1
      BY <1>3, <2>4
    <3>2. PICK y \in 1 .. Len(feed) : F2[k] = feed[y] /\ y = IF k < i THEN k ELSE k + 1
      BY <1>3, <2>4
    <3>3. x < y
      BY <1>3, <3>1, <3>2
    <3> QED BY <3>1, <3>2, <3>3 DEF Told, Ordered
  <2>6. ASSUME NEW j \in 1 .. Len(F2)
        PROVE  \E k \in 1 .. Len(feed) : F2[j] = feed[k] /\ feed[k].id # ev.id
    <3>1. j \in 1 .. Len(feed) - 1
      BY <2>4, <2>6
    <3>2. CASE j < i
      <4>1. j \in 1 .. Len(feed) /\ F2[j] = feed[j] /\ j # i
        BY <1>3, <2>4, <3>1, <3>2
      <4> QED BY <1>4, <2>1, <4>1
    <3>3. CASE ~ (j < i)
      <4>1. j + 1 \in 1 .. Len(feed) /\ F2[j] = feed[j + 1] /\ j + 1 # i
        BY <1>3, <2>4, <3>1, <3>3
      <4> QED BY <1>4, <2>1, <4>1
    <3> QED BY <3>2, <3>3
  <2>7. ASSUME NEW k \in 1 .. Len(feed), feed[k].id # ev.id
        PROVE  \E j \in 1 .. Len(F2) : F2[j] = feed[k]
    <3>1. k < i \/ k > i
      BY <1>3, <2>1, <2>7
    <3>2. CASE k < i
      BY <1>3, <2>4, <3>2
    <3>3. CASE k > i
      <4>1. k - 1 \in 1 .. Len(feed) - 1 /\ ~(k - 1 < i) /\ (k - 1) + 1 = k
        BY <1>3, <3>3
      <4> QED BY <2>4, <4>1
    <3> QED BY <3>1, <3>2, <3>3
  <2> QED BY <1>1, <1>2, <1>10, <2>3, <2>4, <2>5, <2>6, <2>7, TakenTold
<1> QED BY <1>2, <1>5, <1>6, <1>7, <1>8, <1>9, <1>10, EventParts DEF Kinds

\* A page that has just been given the history, with nothing on its way, has been
\* told of all.
LEMMA HistoryTold ==
  ASSUME TypeInv PROVE Told(rows, History, <<>>)
<1>1. /\ History \in Seq(Bubble)
      /\ \A i \in 1 .. Len(History) :
           /\ History[i].id \in 1 .. Len(rows) /\ InHistory(History[i].id)
           /\ History[i] = BubbleOf(History[i].id)
      /\ \A i, j \in 1 .. Len(History) : i < j => History[i].id < History[j].id
      /\ \A m \in 1 .. Len(rows) : InHistory(m) => \E i \in 1 .. Len(History) : History[i].id = m
  BY HistoryIs
<1>2. PICK H : H = History
  OBVIOUS
<1>3. Len(<<>>) = 0 /\ 1 .. Len(<<>>) = {}
  BY EmptySeq
<1>4. ASSUME NEW i \in 1 .. Len(H)
      PROVE  /\ H[i].id \in 1 .. Len(rows)
             /\ H[i].by = rows[H[i].id].by /\ H[i].text = rows[H[i].id].text
             /\ H[i].deleted = rows[H[i].id].deleted /\ H[i].read = rows[H[i].id].read
             /\ H[i].counts = CountsOf(rows[H[i].id].react)
  <2>1. PICK m : m = H[i].id
    OBVIOUS
  <2>2. m \in 1 .. Len(rows) /\ H[i] = BubbleOf(m)
    BY <1>1, <1>2, <2>1
  <2> QED BY <2>1, <2>2 DEF BubbleOf
<1>5. Ordered(H) /\ KnownBubbles(rows, H)
  BY <1>1, <1>2, <1>4 DEF Ordered, KnownBubbles
<1>6. KnownEvents(rows, <<>>) /\ NewComesFirst(H, <<>>)
  BY <1>3 DEF KnownEvents, NewComesFirst
<1>7. Present(rows, H, <<>>)
  BY <1>1, <1>2 DEF Present, Stays, InHistory
<1>8. TextsTold(rows, H, <<>>)
  BY <1>3, <1>4 DEF TextsTold
<1>9. CountsTold(rows, H, <<>>)
  BY <1>3, <1>4 DEF CountsTold
<1>10. DeletionsTold(rows, H, <<>>)
  BY <1>3, <1>4 DEF DeletionsTold
<1>11. ReadsTold(rows, H, <<>>)
  BY <1>3, <1>4 DEF ReadsTold
<1> QED BY <1>2, <1>5, <1>6, <1>7, <1>8, <1>9, <1>10, <1>11 DEF Told

-----------------------------------------------------------------------------
(* Events that may reach a page before its history, or after it, and leave it *)
(* told of the same.                                                          *)

\* The events P announce no message, and the last of them that tells a text or the
\* counts tells the one the row has.
EventsTrue(R, P) ==
  /\ KnownEvents(R, P)
  /\ \A k \in 1 .. Len(P) : P[k].kind # "new"
  /\ TextsTold(R, <<>>, P) /\ CountsTold(R, <<>>, P)

\* No event at all.
LEMMA NoneTrue ==
  ASSUME NEW R PROVE EventsTrue(R, <<>>)
<1>1. Len(<<>>) = 0 /\ 1 .. Len(<<>>) = {}
  BY EmptySeq
<1> QED BY <1>1 DEF EventsTrue, KnownEvents, TextsTold, CountsTold

\* So are events that some page is waiting for.
LEMMA TrueOf ==
  ASSUME NEW R, NEW F, NEW P, Told(R, F, P), \A k \in 1 .. Len(P) : P[k].kind # "new"
  PROVE  EventsTrue(R, P)
<1>1. 1 .. Len(<<>>) = {}
  BY EmptySeq
<1>2. TextsTold(R, <<>>, P)
  BY <1>1 DEF Told, TextsTold
<1>3. CountsTold(R, <<>>, P)
  BY <1>1 DEF Told, CountsTold
<1> QED BY <1>2, <1>3 DEF Told, EventsTrue

\* A page that was told of all is not misled by them.
LEMMA MergeTold ==
  ASSUME NEW R, NEW F, NEW P, Told(R, F, <<>>), EventsTrue(R, P) PROVE Told(R, F, P)
<1>1. 1 .. Len(<<>>) = {}
  BY EmptySeq
<1>2. NewComesFirst(F, P)
  BY DEF EventsTrue, NewComesFirst
<1>3. Present(R, F, P)
  BY <1>1 DEF Told, Present
<1>4. TextsTold(R, F, P)
  <2> SUFFICES ASSUME NEW m \in 1 .. Len(R), Stays(R, m)
               PROVE  \/ \E k \in 1 .. Len(P) : /\ TellsText(P[k], m) /\ P[k].text = R[m].text
                                                /\ \A l \in 1 .. Len(P) : k < l => ~TellsText(P[l], m)
                      \/ /\ \A l \in 1 .. Len(P) : ~TellsText(P[l], m)
                         /\ \A i \in 1 .. Len(F) : F[i].id = m => F[i].text = R[m].text
    BY DEF TextsTold
  <2>1. \A i \in 1 .. Len(F) : F[i].id = m => F[i].text = R[m].text
    BY <1>1 DEF Told, TextsTold
  <2> QED BY <2>1 DEF EventsTrue, TextsTold
<1>5. CountsTold(R, F, P)
  <2> SUFFICES ASSUME NEW m \in 1 .. Len(R), Stays(R, m)
               PROVE  \/ \E k \in 1 .. Len(P) : /\ TellsCounts(P[k], m) /\ P[k].counts = CountsOf(R[m].react)
                                                /\ \A l \in 1 .. Len(P) : k < l => ~TellsCounts(P[l], m)
                      \/ /\ \A l \in 1 .. Len(P) : ~TellsCounts(P[l], m)
                         /\ \A i \in 1 .. Len(F) : F[i].id = m => F[i].counts = CountsOf(R[m].react)
    BY DEF CountsTold
  <2>1. \A i \in 1 .. Len(F) : F[i].id = m => F[i].counts = CountsOf(R[m].react)
    BY <1>1 DEF Told, CountsTold
  <2> QED BY <2>1 DEF EventsTrue, CountsTold
<1>6. DeletionsTold(R, F, P)
  BY <1>1 DEF Told, DeletionsTold, EventsTrue
<1>7. ReadsTold(R, F, P)
  BY <1>1 DEF Told, ReadsTold, EventsTrue
<1> QED BY <1>2, <1>3, <1>4, <1>5, <1>6, <1>7 DEF Told, EventsTrue

\* Handling the first of them leaves such events.
LEMMA TailTrue ==
  ASSUME NEW R, NEW P \in Seq(Event), P # <<>>, EventsTrue(R, P)
  PROVE  EventsTrue(R, Tail(P))
<1> DEFINE n == Len(P)
<1>1. 1 .. Len(<<>>) = {}
  BY EmptySeq
<1>2. PICK Q : Q = Tail(P)
  OBVIOUS
<1>3. /\ n \in Nat /\ n >= 1 /\ Len(Q) = n - 1
      /\ \A k \in 1 .. n - 1 : k + 1 \in 1 .. n /\ Q[k] = P[k + 1]
      /\ \A k \in 1 .. n : k = 1 \/ (k - 1 \in 1 .. n - 1 /\ Q[k - 1] = P[k])
  BY <1>2, TailIs
<1>4. KnownEvents(R, Q)
  BY <1>2, TailKnown DEF EventsTrue
<1> HIDE DEF n
<1>5. \A k \in 1 .. n - 1 : Q[k].kind # "new"
  BY <1>3 DEF EventsTrue, n
<1>6. TextsTold(R, <<>>, Q)
  <2> SUFFICES ASSUME NEW m \in 1 .. Len(R), Stays(R, m)
               PROVE  \/ \E k \in 1 .. n - 1 : /\ TellsText(Q[k], m) /\ Q[k].text = R[m].text
                                               /\ \A l \in 1 .. n - 1 : k < l => ~TellsText(Q[l], m)
                      \/ \A l \in 1 .. n - 1 : ~TellsText(Q[l], m)
    BY <1>1, <1>3 DEF TextsTold
  <2>1. \/ \A l \in 1 .. n : ~TellsText(P[l], m)
        \/ \E k \in 1 .. n : /\ TellsText(P[k], m) /\ P[k].text = R[m].text
                             /\ \A l \in 1 .. n : k < l => ~TellsText(P[l], m)
    BY DEF EventsTrue, TextsTold, n
  <2>2. CASE \A l \in 1 .. n : ~TellsText(P[l], m)
    BY <1>3, <2>2
  <2>3. ASSUME NEW k \in 1 .. n, TellsText(P[k], m), P[k].text = R[m].text,
               \A l \in 1 .. n : k < l => ~TellsText(P[l], m)
        PROVE  \/ \E j \in 1 .. n - 1 : /\ TellsText(Q[j], m) /\ Q[j].text = R[m].text
                                        /\ \A l \in 1 .. n - 1 : j < l => ~TellsText(Q[l], m)
               \/ \A l \in 1 .. n - 1 : ~TellsText(Q[l], m)
    <3>1. \A l \in 1 .. n - 1 : k - 1 < l => ~TellsText(Q[l], m)
      <4> SUFFICES ASSUME NEW l \in 1 .. n - 1, k - 1 < l PROVE ~TellsText(Q[l], m)
        OBVIOUS
      <4>1. l + 1 \in 1 .. n /\ Q[l] = P[l + 1] /\ k < l + 1
        BY <1>3
      <4> QED BY <4>1, <2>3
    <3>2. CASE k = 1
      BY <1>3, <3>1, <3>2
    <3>3. CASE k # 1
      BY <1>3, <2>3, <3>1, <3>3
    <3> QED BY <3>2, <3>3
  <2> QED BY <2>1, <2>2, <2>3
<1>7. CountsTold(R, <<>>, Q)
  <2> SUFFICES ASSUME NEW m \in 1 .. Len(R), Stays(R, m)
               PROVE  \/ \E k \in 1 .. n - 1 : /\ TellsCounts(Q[k], m) /\ Q[k].counts = CountsOf(R[m].react)
                                               /\ \A l \in 1 .. n - 1 : k < l => ~TellsCounts(Q[l], m)
                      \/ \A l \in 1 .. n - 1 : ~TellsCounts(Q[l], m)
    BY <1>1, <1>3 DEF CountsTold
  <2>1. \/ \A l \in 1 .. n : ~TellsCounts(P[l], m)
        \/ \E k \in 1 .. n : /\ TellsCounts(P[k], m) /\ P[k].counts = CountsOf(R[m].react)
                             /\ \A l \in 1 .. n : k < l => ~TellsCounts(P[l], m)
    BY DEF EventsTrue, CountsTold, n
  <2>2. CASE \A l \in 1 .. n : ~TellsCounts(P[l], m)
    BY <1>3, <2>2
  <2>3. ASSUME NEW k \in 1 .. n, TellsCounts(P[k], m), P[k].counts = CountsOf(R[m].react),
               \A l \in 1 .. n : k < l => ~TellsCounts(P[l], m)
        PROVE  \/ \E j \in 1 .. n - 1 : /\ TellsCounts(Q[j], m) /\ Q[j].counts = CountsOf(R[m].react)
                                        /\ \A l \in 1 .. n - 1 : j < l => ~TellsCounts(Q[l], m)
               \/ \A l \in 1 .. n - 1 : ~TellsCounts(Q[l], m)
    <3>1. \A l \in 1 .. n - 1 : k - 1 < l => ~TellsCounts(Q[l], m)
      <4> SUFFICES ASSUME NEW l \in 1 .. n - 1, k - 1 < l PROVE ~TellsCounts(Q[l], m)
        OBVIOUS
      <4>1. l + 1 \in 1 .. n /\ Q[l] = P[l + 1] /\ k < l + 1
        BY <1>3
      <4> QED BY <4>1, <2>3
    <3>2. CASE k = 1
      BY <1>3, <3>1, <3>2
    <3>3. CASE k # 1
      BY <1>3, <2>3, <3>1, <3>3
    <3> QED BY <3>2, <3>3
  <2> QED BY <2>1, <2>2, <2>3
<1> QED BY <1>2, <1>3, <1>4, <1>5, <1>6, <1>7 DEF EventsTrue

\* An empty page stays empty until a message is announced.
LEMMA ShownOnEmpty ==
  ASSUME NEW ev, ev.kind # "new", feed = <<>> PROVE Shown(ev) = <<>>
<1>1. Len(feed) = 0 /\ feed \in Seq(Bubble)
  BY EmptySeq
<1>2. At(ev.id) = 0
  BY <1>1, AtIs
<1>3. Ticked = <<>>
  BY <1>1 DEF Ticked
<1> QED BY <1>2, <1>3 DEF Shown

-----------------------------------------------------------------------------
(* The invariant, with one hub.  Two of them may publish in another order     *)
(* than the one in which they wrote.                                          *)

\* The events that the page has not handled, in their order.
Pending(hub) == IF work[hub] = NoEvent THEN bus ELSE Append(bus, work[hub])

\* A call that was not answered holds no history.
SnapsEmpty == \A i \in Loads : load[i] \in {"idle", "asked"} => snap[i] = <<>>

\* While a clean page loads it loads once; what is on its way is true of the rows and
\* announces no message; the answer that the page holds tells all, as if nothing were
\* on its way, and there is an empty feed to put it in.
CleanLoad(hub) ==
  clean /\ Loading =>
    /\ EventsTrue(rows, Pending(hub))
    /\ \A i, j \in Loads : load[i] # "idle" /\ load[j] # "idle" => i = j
    /\ \A i \in Loads : load[i] \in {"answered", "cleared"} => Told(rows, snap[i], <<>>)
    /\ \A i \in Loads : load[i] = "cleared" => feed = <<>>

\* And when it does not, it has been told of all, or will be.
CleanFeed(hub) == clean /\ ~Loading => Told(rows, feed, Pending(hub))

PageInv(hub) ==
  /\ TypeInv
  /\ SnapsEmpty
  /\ clean => conn
  /\ CleanLoad(hub)
  /\ CleanFeed(hub)

\* An empty page of a conversation without messages has been told of all.
LEMMA EmptyTold == Told(<<>>, <<>>, <<>>)
<1>1. Len(<<>>) = 0 /\ 1 .. Len(<<>>) = {}
  BY EmptySeq
<1> QED BY <1>1 DEF Told, Ordered, KnownBubbles, KnownEvents, NewComesFirst, Present, TextsTold,
                    CountsTold, DeletionsTold, ReadsTold

LEMMA PageInit ==
  ASSUME NEW hub, Hubs = {hub}, Init PROVE PageInv(hub)
<1>1. TypeInv
  BY TypeInit
<1>2. ~Loading /\ SnapsEmpty /\ conn
  BY DEF Init, Loading, SnapsEmpty
<1>3. Pending(hub) = <<>>
  BY DEF Init, Pending
<1>4. Told(rows, feed, <<>>)
  BY EmptyTold DEF Init
<1> QED BY <1>1, <1>2, <1>3, <1>4 DEF PageInv, CleanLoad, CleanFeed

\* What is on its way is a sequence of events, and the events of new messages
\* name them.
LEMMA PendingType ==
  ASSUME NEW hub \in Hubs, TypeInv
  PROVE  /\ Pending(hub) \in Seq(Event)
         /\ \A k \in 1 .. Len(Pending(hub)) :
              Pending(hub)[k].kind = "new" => Pending(hub)[k].id \in Ids
<1>1. bus \in Seq(Event) /\ work[hub] \in Event \cup {NoEvent}
  BY DEF TypeInv, TypeOK
<1>2. CASE work[hub] = NoEvent
  BY <1>1, <1>2 DEF Pending, TypeInv, NewIsNamed
<1>3. CASE work[hub] # NoEvent
  <2>1. work[hub] \in Event /\ (work[hub].kind = "new" => work[hub].id \in Ids)
    BY <1>1, <1>3 DEF TypeInv, NewIsNamed
  <2>2. PICK Q : Q = Append(bus, work[hub])
    OBVIOUS
  <2>3. /\ Q \in Seq(Event) /\ Len(Q) = Len(bus) + 1 /\ Len(bus) \in Nat
        /\ \A k \in 1 .. Len(bus) : Q[k] = bus[k]
        /\ Q[Len(bus) + 1] = work[hub]
    BY <1>1, <2>1, <2>2, AppendedIs
  <2>4. \A k \in 1 .. Len(bus) + 1 : k \in 1 .. Len(bus) \/ k = Len(bus) + 1
    BY <2>3
  <2>5. \A k \in 1 .. Len(bus) : bus[k].kind = "new" => bus[k].id \in Ids
    BY DEF TypeInv, NewIsNamed
  <2>6. \A k \in 1 .. Len(Q) : Q[k].kind = "new" => Q[k].id \in Ids
    BY <2>1, <2>3, <2>4, <2>5
  <2>7. Pending(hub) = Q
    BY <1>3, <2>2 DEF Pending
  <2> QED BY <2>3, <2>6, <2>7
<1> QED BY <1>2, <1>3

\* A hub that handles a message keeps the invariant if its event tells any page of
\* what it wrote.
LEMMA HandleKeeps ==
  ASSUME NEW hub, Hubs = {hub}, PageInv(hub), TypeInv', NEW ev \in Event, NEW done \in BOOLEAN,
         Handle(hub, ev, done),
         done => \A F \in Seq(Bubble), P \in Seq(Event) :
                   Told(rows, F, P) => Told(rows', F, Append(P, ev))
  PROVE  PageInv(hub)'
<1>1. /\ work[hub] = NoEvent /\ work'[hub] = ev /\ ev # NoEvent
      /\ UNCHANGED <<pageVars, bus, conn>>
      /\ clean' = (clean /\ Found(ev) /\ done)
  BY RoomAssumption DEF Handle, PageInv, TypeInv, TypeOK
<1>2. Pending(hub) = bus /\ Pending(hub)' = Append(bus, ev)
  BY <1>1 DEF Pending
<1>3. SnapsEmpty' /\ (clean' => conn') /\ Loading' = Loading /\ feed' = feed /\ load' = load
  BY <1>1 DEF PageInv, SnapsEmpty, Loading, pageVars
<1>4. feed \in Seq(Bubble) /\ bus \in Seq(Event)
  BY DEF PageInv, TypeInv, TypeOK
<1>5. CleanLoad(hub)'
  <2> SUFFICES ASSUME clean', Loading PROVE CleanLoad(hub)'
    BY <1>3 DEF CleanLoad
  <2>1. /\ clean /\ done /\ ev.kind # "new"
        /\ \A i \in Loads : load[i] \notin {"answered", "cleared"}
    BY <1>1 DEF Found, Loading
  <2>2. PICK H \in Seq(Bubble) : Told(rows, H, <<>>)
    BY HistoryTold, HistoryIs DEF PageInv
  <2>3. EventsTrue(rows, bus)
    BY <1>2, <2>1 DEF PageInv, CleanLoad
  <2>4. Told(rows', H, Append(bus, ev))
    BY <1>4, <2>1, <2>2, <2>3, MergeTold
  <2>5. \A k \in 1 .. Len(Append(bus, ev)) : Append(bus, ev)[k].kind # "new"
    <3>1. \A k \in 1 .. Len(bus) : bus[k].kind # "new"
      BY <2>3 DEF EventsTrue
    <3> QED BY <1>4, <2>1, <3>1, AppendedIs
  <2>6. EventsTrue(rows', Pending(hub)')
    BY <1>2, <2>4, <2>5, TrueOf
  <2>7. \A i, j \in Loads : load[i] # "idle" /\ load[j] # "idle" => i = j
    BY <2>1 DEF PageInv, CleanLoad
  <2> QED BY <1>3, <2>1, <2>6, <2>7 DEF CleanLoad
<1>6. CleanFeed(hub)'
  <2> SUFFICES ASSUME clean', ~Loading PROVE Told(rows, feed, Pending(hub))'
    BY <1>3 DEF CleanFeed
  <2>1. done /\ Told(rows, feed, bus)
    BY <1>1, <1>2 DEF PageInv, CleanFeed
  <2>2. Told(rows', feed, Append(bus, ev))
    BY <1>4, <2>1
  <2> QED BY <1>2, <1>3, <2>2
<1> QED BY <1>3, <1>5, <1>6 DEF PageInv

LEMMA PostKeeps ==
  ASSUME NEW hub, Hubs = {hub}, PageInv(hub), TypeInv', NEW u \in Users, Post(hub, u)
  PROVE  PageInv(hub)'
<1> DEFINE row == [by |-> u, text |-> ops + 1, deleted |-> FALSE, read |-> FALSE,
                   react |-> [v \in Users |-> NoEmoji], gone |-> FALSE, hidden |-> FALSE]
<1>1. TypeInv /\ rows \in Seq(Row) /\ feed \in Seq(Bubble) /\ bus \in Seq(Event)
  BY DEF PageInv, TypeInv, TypeOK
<1>2. ops + 1 \in Contents /\ Len(rows) + 1 \in Ids
  BY <1>1, RoomAssumption DEF Post, Handle, TypeInv, TypeOK, RowsCounted, Contents, Ids
<1>3. PICK r \in Row : r = row
  BY <1>2 DEF Row
<1>4. PICK ev : ev = Ev("new", Len(rows) + 1, u, ops + 1, NoCounts)
  OBVIOUS
<1>5. /\ ev \in Event /\ ev.kind = "new" /\ ev.id = Len(rows) + 1 /\ ev.by = u
      /\ ev.text = ops + 1 /\ ev.counts = NoCounts
  BY <1>2, <1>4, NoCountsType, EvType DEF Kinds, Ev
<1>6. rows' = Append(rows, r) /\ Handle(hub, ev, TRUE)
  BY <1>3, <1>4 DEF Post
<1>7. /\ r.by = u /\ r.text = ops + 1 /\ ~r.deleted /\ ~r.read
      /\ r.react = [v \in Users |-> NoEmoji]
  BY <1>3
<1>8. ev.counts = CountsOf(r.react)
  BY <1>5, <1>7, NoReactions
<1>9. ASSUME NEW F \in Seq(Bubble), NEW P \in Seq(Event), Told(rows, F, P)
      PROVE  Told(Append(rows, r), F, Append(P, ev))
  BY <1>1, <1>5, <1>7, <1>8, <1>9, PostedTold
<1> QED BY <1>5, <1>6, <1>9, HandleKeeps

\* The rest of what a hub handles changes rows.
LEMMA ChangeKeeps ==
  ASSUME NEW hub, Hubs = {hub}, PageInv(hub), TypeInv', NEW ev \in Event, NEW done \in BOOLEAN,
         Handle(hub, ev, done), done => Handled(rows, rows', ev)
  PROVE  PageInv(hub)'
<1>1. rows \in Seq(Row)
  BY DEF PageInv, TypeInv, TypeOK
<1>2. ASSUME done, NEW F \in Seq(Bubble), NEW P \in Seq(Event), Told(rows, F, P)
      PROVE  Told(rows', F, Append(P, ev))
  BY <1>1, <1>2, HandledTold
<1> QED BY <1>2, HandleKeeps

LEMMA EditKeeps ==
  ASSUME NEW hub, Hubs = {hub}, PageInv(hub), TypeInv', NEW m \in 1 .. Len(rows),
         NEW u \in Users, Edit(hub, m, u)
  PROVE  PageInv(hub)'
<1>1. PICK ok \in Works :
        /\ rows' = IF ok /\ Own(m, u) /\ ~rows[m].gone /\ ~rows[m].deleted
                   THEN [rows EXCEPT ![m].text = ops + 1] ELSE rows
        /\ Handle(hub, Ev("edit", m, u, ops + 1, NoCounts), ok /\ Own(m, u))
  BY DEF Edit
<1>2. TypeInv /\ rows \in Seq(Row) /\ (ok /\ Own(m, u)) \in BOOLEAN
  BY RoomAssumption DEF PageInv, TypeInv, TypeOK, Works, Own
<1>3. ops + 1 \in Contents /\ m \in Ids /\ rows[m] \in Row
  BY <1>1, <1>2, RowsType, RoomAssumption DEF Handle, TypeInv, TypeOK, Contents
<1>4. PICK ev : ev = Ev("edit", m, u, ops + 1, NoCounts)
  OBVIOUS
<1>5. ev \in Event /\ ev.kind = "edit" /\ ev.id = m /\ ev.text = ops + 1
  BY <1>3, <1>4, NoCountsType, EvType DEF Kinds, Ev
<1>6. PICK r \in Row : r = [rows[m] EXCEPT !.text = ops + 1]
  BY <1>3 DEF Row
<1>7. /\ r.by = rows[m].by /\ r.text = ops + 1 /\ r.deleted = rows[m].deleted
      /\ r.read = rows[m].read /\ r.react = rows[m].react
      /\ r.gone = rows[m].gone /\ r.hidden = rows[m].hidden
  BY <1>3, <1>6 DEF Row
<1>8. ASSUME ok /\ Own(m, u) PROVE Handled(rows, rows', ev)
  <2>1. CASE ~rows[m].gone /\ ~rows[m].deleted
    <3>1. rows' = [rows EXCEPT ![m] = r]
      BY <1>1, <1>6, <1>8, <2>1
    <3>2. /\ rows' \in Seq(Row) /\ Len(rows') = Len(rows)
          /\ \A n \in 1 .. Len(rows) : rows'[n] = IF n = m THEN r ELSE rows[n]
      BY <1>2, <3>1, RowWritten
    <3> QED BY <1>3, <1>5, <1>7, <3>2, RowsType, <1>2 DEF Handled, Stays, TellsText, TellsCounts
  <2>2. CASE ~(~rows[m].gone /\ ~rows[m].deleted)
    <3>1. rows' = rows
      BY <1>1, <2>2
    <3>2. ~Stays(rows, m)
      BY <2>2 DEF Stays
    <3> QED BY <1>2, <1>5, <3>1, <3>2, RowsType DEF Handled, TellsText, TellsCounts
  <2> QED BY <2>1, <2>2
<1>9. Handle(hub, ev, ok /\ Own(m, u))
  BY <1>1, <1>4
<1> QED BY <1>2, <1>5, <1>8, <1>9, ChangeKeeps

LEMMA DeleteKeeps ==
  ASSUME NEW hub, Hubs = {hub}, PageInv(hub), TypeInv', NEW m \in 1 .. Len(rows),
         NEW u \in Users, DeleteForAll(hub, m, u)
  PROVE  PageInv(hub)'
<1>1. PICK ok \in Works :
        /\ rows' = IF ok /\ Own(m, u) /\ ~rows[m].gone
                   THEN [rows EXCEPT ![m].deleted = TRUE, ![m].text = Erased] ELSE rows
        /\ Handle(hub, Ev("delete", m, u, Erased, NoCounts), ok /\ Own(m, u))
  BY DEF DeleteForAll
<1>2. TypeInv /\ rows \in Seq(Row) /\ (ok /\ Own(m, u)) \in BOOLEAN
  BY RoomAssumption DEF PageInv, TypeInv, TypeOK, Works, Own
<1>3. Erased \in Contents /\ m \in Ids /\ rows[m] \in Row
  BY <1>2, RowsType, RoomAssumption DEF Contents, Erased
<1>4. PICK ev : ev = Ev("delete", m, u, Erased, NoCounts)
  OBVIOUS
<1>5. ev \in Event /\ ev.kind = "delete" /\ ev.id = m
  BY <1>3, <1>4, NoCountsType, EvType DEF Kinds, Ev
<1>6. PICK r \in Row : r = [rows[m] EXCEPT !.deleted = TRUE, !.text = Erased]
  BY <1>3 DEF Row
<1>7. r.by = rows[m].by /\ r.deleted /\ r.read = rows[m].read /\ r.gone = rows[m].gone
  BY <1>3, <1>6 DEF Row
<1>8. ASSUME ok /\ Own(m, u) PROVE Handled(rows, rows', ev)
  <2>1. CASE ~rows[m].gone
    <3>1. rows' = [rows EXCEPT ![m] = r]
      BY <1>1, <1>2, <1>6, <1>8, <2>1
    <3>2. /\ rows' \in Seq(Row) /\ Len(rows') = Len(rows)
          /\ \A n \in 1 .. Len(rows) : rows'[n] = IF n = m THEN r ELSE rows[n]
      BY <1>2, <3>1, RowWritten
    <3> QED BY <1>2, <1>3, <1>5, <1>7, <3>2, RowsType DEF Handled, Stays, TellsText, TellsCounts
  <2>2. CASE rows[m].gone
    <3>1. rows' = rows
      BY <1>1, <2>2
    <3> QED BY <1>2, <1>5, <2>2, <3>1, RowsType DEF Handled, TellsText, TellsCounts
  <2> QED BY <2>1, <2>2
<1>9. Handle(hub, ev, ok /\ Own(m, u))
  BY <1>1, <1>4
<1> QED BY <1>2, <1>5, <1>8, <1>9, ChangeKeeps

LEMMA ReactKeeps ==
  ASSUME NEW hub, Hubs = {hub}, PageInv(hub), TypeInv', NEW m \in 1 .. Len(rows),
         NEW u \in Users, NEW e \in Emojis, React(hub, m, u, e)
  PROVE  PageInv(hub)'
<1>1. PICK written \in Works, read \in Works :
        /\ rows' = IF written /\ ~rows[m].gone
                   THEN [rows EXCEPT ![m].react[u] = Toggled(@, e)] ELSE rows
        /\ Handle(hub, Ev("react", m, u, Erased,
                          IF read THEN CountsOf(Counted(m)) ELSE NoCounts), read)
  BY DEF React
<1>2. TypeInv /\ rows \in Seq(Row) /\ read \in BOOLEAN
  BY RoomAssumption DEF PageInv, TypeInv, TypeOK, Works
<1>3. Erased \in Contents /\ m \in Ids /\ rows[m] \in Row
  BY <1>2, RowsType, RoomAssumption DEF Contents, Erased
<1>4. PICK counts \in Counts : counts = IF read THEN CountsOf(Counted(m)) ELSE NoCounts
  BY CountsType, NoCountsType
<1>5. PICK ev : ev = Ev("react", m, u, Erased, counts)
  OBVIOUS
<1>6. ev \in Event /\ ev.kind = "react" /\ ev.id = m /\ ev.counts = counts
  BY <1>3, <1>4, <1>5, EvType DEF Kinds, Ev
<1>7. PICK r \in Row : r = [rows[m] EXCEPT !.react[u] = Toggled(@, e)]
  BY <1>3 DEF Row, Toggled
<1>8. /\ r.by = rows[m].by /\ r.text = rows[m].text /\ r.deleted = rows[m].deleted
      /\ r.read = rows[m].read /\ r.gone = rows[m].gone /\ r.hidden = rows[m].hidden
  BY <1>3, <1>7 DEF Row
<1>9. ASSUME read PROVE Handled(rows, rows', ev)
  <2>1. ev.counts = CountsOf(rows'[m].react)
    BY <1>4, <1>6, <1>9 DEF Counted
  <2>2. CASE rows' = rows
    BY <1>2, <1>6, <2>1, <2>2, RowsType DEF Handled, TellsText, TellsCounts
  <2>3. CASE rows' # rows
    <3>1. rows' = [rows EXCEPT ![m] = r]
      BY <1>1, <1>2, <1>7, <2>3
    <3>2. /\ rows' \in Seq(Row) /\ Len(rows') = Len(rows)
          /\ \A n \in 1 .. Len(rows) : rows'[n] = IF n = m THEN r ELSE rows[n]
      BY <1>2, <3>1, RowWritten
    <3> QED BY <1>2, <1>3, <1>6, <1>8, <2>1, <3>2, RowsType DEF Handled, Stays, TellsText, TellsCounts
  <2> QED BY <2>2, <2>3
<1>10. Handle(hub, ev, read)
  BY <1>1, <1>4, <1>5
<1> QED BY <1>2, <1>6, <1>9, <1>10, ChangeKeeps

LEMMA ReadKeeps ==
  ASSUME NEW hub, Hubs = {hub}, PageInv(hub), TypeInv', NEW u \in Users, Read(hub, u)
  PROVE  PageInv(hub)'
<1>1. PICK ok \in Works : /\ rows' = IF ok THEN Marked(u) ELSE rows
                          /\ Handle(hub, Ev("read", 0, u, Erased, NoCounts), TRUE)
  BY DEF Read
<1>2. TypeInv /\ rows \in Seq(Row)
  BY DEF PageInv, TypeInv, TypeOK
<1>3. PICK ev : ev = Ev("read", 0, u, Erased, NoCounts)
  OBVIOUS
<1>4. ev \in Event /\ ev.kind = "read" /\ ev.id = 0
  BY <1>3, NoCountsType, EvType, RoomAssumption DEF Kinds, Contents, Erased, Ev
<1>5. /\ rows' \in Seq(Row) /\ Len(rows') = Len(rows)
      /\ \A n \in 1 .. Len(rows) : rows'[n] = rows[n] \/ rows'[n] = [rows[n] EXCEPT !.read = TRUE]
  BY <1>1, <1>2, MarkedIs
<1>6. ASSUME NEW n \in 1 .. Len(rows)
      PROVE  /\ rows'[n].by = rows[n].by /\ rows'[n].text = rows[n].text
             /\ rows'[n].deleted = rows[n].deleted /\ rows'[n].react = rows[n].react
             /\ rows'[n].gone = rows[n].gone /\ rows'[n].hidden = rows[n].hidden
  BY <1>2, <1>5, RowsType DEF Row
<1>7. Handled(rows, rows', ev)
  BY <1>2, <1>4, <1>5, <1>6, RowsType DEF Handled, Stays, TellsText, TellsCounts
<1>8. Handle(hub, ev, TRUE)
  BY <1>1, <1>3
<1> QED BY <1>4, <1>7, <1>8, ChangeKeeps

\* Hiding and expiry change rows without an event.
LEMMA WithdrawKeeps ==
  ASSUME NEW hub, Hubs = {hub}, PageInv(hub), TypeInv', Withdrawn(rows, rows'),
         UNCHANGED <<work, pageVars, bus, conn, clean>>
  PROVE  PageInv(hub)'
<1>1. /\ Pending(hub)' = Pending(hub) /\ Loading' = Loading
      /\ feed' = feed /\ load' = load /\ snap' = snap
  BY DEF Pending, Loading, pageVars
<1>2. SnapsEmpty' /\ (clean' => conn')
  BY DEF PageInv, SnapsEmpty, pageVars
<1>3. /\ rows \in Seq(Row) /\ feed \in Seq(Bubble) /\ Pending(hub) \in Seq(Event)
      /\ snap \in [Loads -> Seq(Bubble)] /\ <<>> \in Seq(Event)
  BY PendingType, EmptySeq DEF PageInv, TypeInv, TypeOK
<1>4. CleanLoad(hub)'
  <2> SUFFICES ASSUME clean, Loading PROVE CleanLoad(hub)'
    BY <1>1 DEF CleanLoad
  <2>1. PICK H \in Seq(Bubble) : Told(rows, H, <<>>)
    BY HistoryTold, HistoryIs DEF PageInv
  <2>2. EventsTrue(rows, Pending(hub))
    BY DEF PageInv, CleanLoad
  <2>3. Told(rows', H, Pending(hub))
    BY <1>3, <2>1, <2>2, MergeTold, WithdrawnTold
  <2>4. EventsTrue(rows', Pending(hub))
    BY <2>2, <2>3, TrueOf DEF EventsTrue
  <2>5. ASSUME NEW i \in Loads, load[i] \in {"answered", "cleared"}
        PROVE  Told(rows', snap[i], <<>>)
    <3>1. Told(rows, snap[i], <<>>)
      BY <2>5 DEF PageInv, CleanLoad
    <3> QED BY <1>3, <3>1, WithdrawnTold
  <2>6. /\ \A i, j \in Loads : load[i] # "idle" /\ load[j] # "idle" => i = j
        /\ \A i \in Loads : load[i] = "cleared" => feed = <<>>
    BY DEF PageInv, CleanLoad
  <2> QED BY <1>1, <2>4, <2>5, <2>6 DEF CleanLoad
<1>5. CleanFeed(hub)'
  <2> SUFFICES ASSUME clean, ~Loading PROVE Told(rows, feed, Pending(hub))'
    BY <1>1 DEF CleanFeed
  <2>1. Told(rows, feed, Pending(hub))
    BY DEF PageInv, CleanFeed
  <2>2. Told(rows', feed, Pending(hub))
    BY <1>3, <2>1, WithdrawnTold
  <2> QED BY <1>1, <2>2
<1> QED BY <1>2, <1>4, <1>5 DEF PageInv

LEMMA HideKeeps ==
  ASSUME NEW hub, Hubs = {hub}, PageInv(hub), TypeInv', NEW m \in 1 .. Len(rows),
         HideForMe(hub, m)
  PROVE  PageInv(hub)'
<1>1. TypeInv /\ rows[m] \in Row
  BY RowsType DEF PageInv
<1>2. PICK r \in Row : r = [rows[m] EXCEPT !.hidden = TRUE]
  BY <1>1 DEF Row
<1>3. /\ r.by = rows[m].by /\ r.text = rows[m].text /\ r.deleted = rows[m].deleted
      /\ r.read = rows[m].read /\ r.gone = rows[m].gone /\ r.hidden
  BY <1>1, <1>2 DEF Row
<1>4. rows' = [rows EXCEPT ![m] = r]
  BY <1>2 DEF HideForMe
<1>5. /\ rows' \in Seq(Row) /\ Len(rows') = Len(rows)
      /\ \A n \in 1 .. Len(rows) : rows'[n] = IF n = m THEN r ELSE rows[n]
  BY <1>1, <1>4, RowWritten
<1>6. Withdrawn(rows, rows')
  BY <1>3, <1>5 DEF Withdrawn, Stays
<1>7. UNCHANGED <<work, pageVars, bus, conn, clean>>
  BY DEF HideForMe, pageVars
<1> QED BY <1>6, <1>7, WithdrawKeeps

LEMMA ClearHistoryKeeps ==
  ASSUME NEW hub, Hubs = {hub}, PageInv(hub), TypeInv', ClearHistory PROVE PageInv(hub)'
<1>1. TypeInv /\ \A n \in 1 .. Len(rows) : rows[n] \in Row
  BY RowsType DEF PageInv
<1>2. rows' \in Seq(Row) /\ rows' = [n \in 1 .. Len(rows) |-> [rows[n] EXCEPT !.hidden = TRUE]]
  BY DEF ClearHistory, TypeInv, TypeOK
<1>3. Len(rows') = Len(rows)
  BY <1>1, <1>2, RowsType
<1>4. ASSUME NEW n \in 1 .. Len(rows)
      PROVE  /\ rows'[n].by = rows[n].by /\ rows'[n].text = rows[n].text
             /\ rows'[n].deleted = rows[n].deleted /\ rows'[n].read = rows[n].read
             /\ rows'[n].gone = rows[n].gone /\ rows'[n].hidden
  BY <1>1, <1>2 DEF Row
<1>5. Withdrawn(rows, rows')
  BY <1>2, <1>3, <1>4 DEF Withdrawn, Stays
<1>6. UNCHANGED <<work, pageVars, bus, conn, clean>>
  BY DEF ClearHistory, pageVars
<1> QED BY <1>5, <1>6, WithdrawKeeps

LEMMA ExpireKeeps ==
  ASSUME NEW hub, Hubs = {hub}, PageInv(hub), TypeInv', NEW m \in 1 .. Len(rows), Expire(m)
  PROVE  PageInv(hub)'
<1>1. TypeInv /\ rows[m] \in Row
  BY RowsType DEF PageInv
<1>2. PICK r \in Row : r = [rows[m] EXCEPT !.gone = TRUE, !.react = [u \in Users |-> NoEmoji]]
  BY <1>1 DEF Row
<1>3. /\ r.by = rows[m].by /\ r.text = rows[m].text /\ r.deleted = rows[m].deleted
      /\ r.read = rows[m].read /\ r.gone
  BY <1>1, <1>2 DEF Row
<1>4. rows' = [rows EXCEPT ![m] = r]
  BY <1>1, <1>2 DEF Expire, TypeInv, TypeOK
<1>5. /\ rows' \in Seq(Row) /\ Len(rows') = Len(rows)
      /\ \A n \in 1 .. Len(rows) : rows'[n] = IF n = m THEN r ELSE rows[n]
  BY <1>1, <1>4, RowWritten
<1>6. Withdrawn(rows, rows')
  BY <1>3, <1>5 DEF Withdrawn, Stays
<1>7. UNCHANGED <<work, pageVars, bus, conn, clean>>
  BY DEF Expire, pageVars
<1> QED BY <1>6, <1>7, WithdrawKeeps

\* Publishing moves the event from the hub to the queue, or the page is not clean.
LEMMA PublishKeeps ==
  ASSUME NEW hub, Hubs = {hub}, PageInv(hub), TypeInv', Publish(hub) PROVE PageInv(hub)'
<1>1. /\ work[hub] # NoEvent /\ work'[hub] = NoEvent
      /\ UNCHANGED <<rows, pageVars, conn>>
  BY DEF Publish, PageInv, TypeInv, TypeOK
<1>2. SnapsEmpty' /\ Loading' = Loading /\ feed' = feed
  BY <1>1 DEF PageInv, SnapsEmpty, Loading, pageVars
<1>3. CASE conn /\ bus' = Append(bus, work[hub]) /\ UNCHANGED clean
  <2>1. Pending(hub)' = Pending(hub)
    BY <1>1, <1>3 DEF Pending
  <2>2. load' = load /\ snap' = snap /\ rows' = rows
    BY <1>1 DEF pageVars
  <2>3. CleanLoad(hub)'
    BY <1>2, <1>3, <2>1, <2>2 DEF PageInv, CleanLoad
  <2>4. CleanFeed(hub)'
    BY <1>1, <1>2, <1>3, <2>1 DEF PageInv, CleanFeed
  <2> QED BY <1>1, <1>2, <1>3, <2>3, <2>4 DEF PageInv
<1>4. CASE clean' = FALSE
  BY <1>2, <1>4 DEF PageInv, CleanLoad, CleanFeed
<1> QED BY <1>3, <1>4 DEF Publish

LEMMA FollowKeeps ==
  ASSUME NEW hub, Hubs = {hub}, PageInv(hub), TypeInv', Follow PROVE PageInv(hub)'
<1>1. /\ bus \in Seq(Event) /\ bus # <<>> /\ TypeInv
      /\ feed' = Shown(Head(bus)) /\ bus' = Tail(bus)
      /\ UNCHANGED <<rows, work, load, snap, conn, clean>>
  BY DEF Follow, backVars, PageInv, TypeInv, TypeOK
<1>2. SnapsEmpty' /\ Loading' = Loading
  BY <1>1 DEF PageInv, SnapsEmpty, Loading
<1>3. PICK P \in Seq(Event) : P = Pending(hub)
  BY <1>1, PendingType
<1>4. P # <<>> /\ P[1] = Head(bus) /\ Pending(hub)' = Tail(P)
  <2>1. CASE work[hub] = NoEvent
    BY <1>1, <1>3, <2>1 DEF Pending
  <2>2. CASE work[hub] # NoEvent
    <3>1. work[hub] \in Event
      BY <1>1, <2>2 DEF TypeInv, TypeOK
    <3>2. P = Append(bus, work[hub]) /\ Pending(hub)' = Append(Tail(bus), work[hub])
      BY <1>1, <1>3, <2>2 DEF Pending
    <3> QED BY <1>1, <3>1, <3>2, HeadTailAppend
  <2> QED BY <2>1, <2>2
<1>5. CleanLoad(hub)'
  <2> SUFFICES ASSUME clean, Loading PROVE CleanLoad(hub)'
    BY <1>1, <1>2 DEF CleanLoad
  <2>1. EventsTrue(rows, P)
    BY <1>3 DEF PageInv, CleanLoad
  <2>2. EventsTrue(rows, Tail(P))
    BY <1>4, <2>1, TailTrue
  <2>3. P[1].kind # "new"
    <3>1. 1 \in 1 .. Len(P)
      BY <1>4, TailIs
    <3> QED BY <2>1, <3>1 DEF EventsTrue
  <2>4. feed = <<>> => feed' = <<>>
    BY <1>1, <1>4, <2>3, ShownOnEmpty
  <2>5. /\ \A i, j \in Loads : load[i] # "idle" /\ load[j] # "idle" => i = j
        /\ \A i \in Loads : load[i] \in {"answered", "cleared"} => Told(rows, snap[i], <<>>)
        /\ \A i \in Loads : load[i] = "cleared" => feed = <<>>
    BY DEF PageInv, CleanLoad
  <2> QED BY <1>1, <1>4, <2>2, <2>4, <2>5 DEF CleanLoad
<1>6. CleanFeed(hub)'
  <2> SUFFICES ASSUME clean, ~Loading PROVE Told(rows, feed', Pending(hub)')
    BY <1>1, <1>2 DEF CleanFeed
  <2>1. P[1].kind = "new" => P[1].id \in Ids
    BY <1>1, <1>3, <1>4, PendingType
  <2>2. Told(rows, feed, P)
    BY <1>3 DEF PageInv, CleanFeed
  <2>3. Told(rows, Shown(P[1]), Tail(P))
    BY <1>1, <1>4, <2>1, <2>2, NextTold
  <2> QED BY <1>1, <1>4, <2>3
<1> QED BY <1>1, <1>2, <1>5, <1>6 DEF PageInv

LEMMA ConnectionKeeps ==
  ASSUME NEW hub, Hubs = {hub}, PageInv(hub), TypeInv', Drop \/ Reconnect PROVE PageInv(hub)'
<1>1. SnapsEmpty' /\ Loading' = Loading
  BY DEF Drop, Reconnect, backVars, pageVars, PageInv, SnapsEmpty, Loading
<1>2. ~clean'
  BY DEF Drop, Reconnect, PageInv
<1> QED BY <1>1, <1>2 DEF PageInv, CleanLoad, CleanFeed

\* Every step of loadMessages keeps the invariant.
LEMMA LoadKeeps ==
  ASSUME NEW hub, Hubs = {hub}, PageInv(hub), TypeInv', NEW i \in Loads,
         Ask(i) \/ Answer(i) \/ Clear(i) \/ Render(i)
  PROVE  PageInv(hub)'
<1>1. /\ TypeInv /\ load \in [Loads -> {"idle", "asked", "answered", "cleared"}]
      /\ snap \in [Loads -> Seq(Bubble)]
  BY DEF PageInv, TypeInv, TypeOK
<1>2. UNCHANGED <<rows, work, bus, conn>>
  BY DEF Ask, Answer, Clear, Render, backVars
<1>3. Pending(hub)' = Pending(hub) /\ Told(rows, History, <<>>)
  BY <1>1, <1>2, HistoryTold DEF Pending
<1>4. CASE Ask(i)
  <2>1. /\ load[i] = "idle" /\ load' = [load EXCEPT ![i] = "asked"]
        /\ clean' = (conn /\ Settled /\ ~Loading) /\ UNCHANGED <<feed, snap>>
    BY <1>4 DEF Ask
  <2>2. SnapsEmpty'
    BY <1>1, <2>1 DEF PageInv, SnapsEmpty
  <2>3. Loading' /\ (clean' => conn')
    BY <1>1, <1>2, <2>1 DEF Loading
  <2>4. CleanLoad(hub)'
    <3> SUFFICES ASSUME conn, Settled, ~Loading PROVE CleanLoad(hub)'
      BY <2>1 DEF CleanLoad
    <3>1. \A j \in Loads : load'[j] = IF j = i THEN "asked" ELSE "idle"
      BY <1>1, <2>1 DEF Loading
    <3>2. Pending(hub) = <<>>
      BY DEF Pending, Settled, AllPublished
    <3>3. EventsTrue(rows', Pending(hub)')
      BY <1>3, <3>2, NoneTrue
    <3> QED BY <3>1, <3>3 DEF CleanLoad
  <2> QED BY <2>2, <2>3, <2>4 DEF PageInv, CleanFeed
<1>5. CASE Answer(i)
  <2>1. /\ load[i] = "asked" /\ load' = [load EXCEPT ![i] = "answered"] /\ feed' = feed
        /\ \/ snap' = [snap EXCEPT ![i] = History] /\ UNCHANGED clean
           \/ clean' = FALSE /\ UNCHANGED snap
    BY <1>5 DEF Answer
  <2>2. \A j \in Loads : /\ load'[j] = IF j = i THEN "answered" ELSE load[j]
                         /\ j # i => snap'[j] = snap[j]
    BY <1>1, <2>1
  <2>3. SnapsEmpty'
    BY <2>2 DEF PageInv, SnapsEmpty
  <2>4. Loading' /\ Loading
    BY <2>1, <2>2 DEF Loading
  <2>5. CleanLoad(hub)'
    <3> SUFFICES ASSUME clean' PROVE CleanLoad(hub)'
      BY DEF CleanLoad
    <3>1. /\ clean /\ EventsTrue(rows, Pending(hub)) /\ snap'[i] = History
          /\ \A j, k \in Loads : load[j] # "idle" /\ load[k] # "idle" => j = k
      BY <1>1, <2>1, <2>4 DEF PageInv, CleanLoad
    <3>2. \A j \in Loads : load'[j] # "idle" => j = i
      BY <2>1, <2>2, <3>1
    <3>3. \A j \in Loads : load'[j] # "cleared"
      BY <2>2, <3>2
    <3>4. \A j, k \in Loads : load'[j] # "idle" /\ load'[k] # "idle" => j = k
      BY <3>2
    <3>5. \A j \in Loads : load'[j] \in {"answered", "cleared"} => Told(rows, snap'[j], <<>>)
      BY <1>3, <3>1, <3>2
    <3> QED BY <1>2, <1>3, <3>1, <3>3, <3>4, <3>5 DEF CleanLoad
  <2>6. clean' => conn'
    BY <1>2, <2>1 DEF PageInv
  <2> QED BY <2>3, <2>4, <2>5, <2>6 DEF PageInv, CleanFeed
<1>6. CASE Clear(i)
  <2>1. /\ load[i] = "answered" /\ load' = [load EXCEPT ![i] = "cleared"] /\ feed' = <<>>
        /\ UNCHANGED <<snap, clean>>
    BY <1>6 DEF Clear, Emptied
  <2>2. \A j \in Loads : load'[j] = IF j = i THEN "cleared" ELSE load[j]
    BY <1>1, <2>1
  <2>3. SnapsEmpty'
    BY <2>1, <2>2 DEF PageInv, SnapsEmpty
  <2>4. Loading' /\ Loading
    BY <2>1, <2>2 DEF Loading
  <2>5. CleanLoad(hub)'
    <3> SUFFICES ASSUME clean PROVE CleanLoad(hub)'
      BY <2>1 DEF CleanLoad
    <3>1. /\ EventsTrue(rows, Pending(hub)) /\ Told(rows, snap[i], <<>>)
          /\ \A j, k \in Loads : load[j] # "idle" /\ load[k] # "idle" => j = k
      BY <2>1, <2>4 DEF PageInv, CleanLoad
    <3>2. \A j \in Loads : load'[j] # "idle" => j = i
      BY <2>1, <2>2, <3>1
    <3>3. \A j, k \in Loads : load'[j] # "idle" /\ load'[k] # "idle" => j = k
      BY <3>2
    <3>4. \A j \in Loads : load'[j] \in {"answered", "cleared"} => Told(rows, snap'[j], <<>>)
      BY <2>1, <3>1, <3>2
    <3> QED BY <1>2, <1>3, <2>1, <3>1, <3>3, <3>4 DEF CleanLoad
  <2>6. clean' => conn'
    BY <1>2, <2>1 DEF PageInv
  <2> QED BY <2>3, <2>4, <2>5, <2>6 DEF PageInv, CleanFeed
<1>7. CASE Render(i)
  <2>1. /\ load[i] = "cleared" /\ load' = [load EXCEPT ![i] = "idle"]
        /\ feed' = feed \o snap[i] /\ snap' = [snap EXCEPT ![i] = <<>>] /\ UNCHANGED clean
    BY <1>7 DEF Render
  <2>2. \A j \in Loads : /\ load'[j] = IF j = i THEN "idle" ELSE load[j]
                         /\ snap'[j] = IF j = i THEN <<>> ELSE snap[j]
    BY <1>1, <2>1
  <2>3. SnapsEmpty' /\ (clean' => conn')
    BY <1>2, <2>1, <2>2 DEF PageInv, SnapsEmpty
  <2>4. CASE ~clean
    BY <2>1, <2>3, <2>4 DEF PageInv, CleanLoad, CleanFeed
  <2>5. CASE clean
    <3>1. /\ EventsTrue(rows, Pending(hub)) /\ Told(rows, snap[i], <<>>) /\ feed = <<>>
          /\ \A j \in Loads : load[j] # "idle" => j = i
      BY <2>1, <2>5 DEF PageInv, CleanLoad, Loading
    <3>2. ~Loading'
      BY <2>2, <3>1 DEF Loading
    <3>3. feed' = snap[i]
      BY <1>1, <2>1, <3>1, ConcatEmptySeq
    <3>4. Told(rows, snap[i], Pending(hub))
      BY <3>1, MergeTold
    <3>5. CleanFeed(hub)'
      BY <1>2, <1>3, <3>3, <3>4 DEF CleanFeed
    <3> QED BY <2>3, <3>2, <3>5 DEF PageInv, CleanLoad
  <2> QED BY <2>4, <2>5
<1> QED BY <1>4, <1>5, <1>6, <1>7

LEMMA PageStep ==
  ASSUME NEW hub, Hubs = {hub}, PageInv(hub), [Next]_vars PROVE PageInv(hub)'
<1>1. TypeInv'
  BY TypeStep DEF PageInv
<1>2. ASSUME NEW h \in Hubs, HubHandles(h) PROVE PageInv(hub)'
  BY <1>1, <1>2, PostKeeps, ReadKeeps, EditKeeps, DeleteKeeps, HideKeeps, ReactKeeps DEF HubHandles
<1>3. ASSUME NEW h \in Hubs, Publish(h) PROVE PageInv(hub)'
  BY <1>1, <1>3, PublishKeeps
<1>4. ASSUME NEW m \in 1 .. Len(rows), Expire(m) PROVE PageInv(hub)'
  BY <1>1, <1>4, ExpireKeeps
<1>5. CASE ClearHistory
  BY <1>1, <1>5, ClearHistoryKeeps
<1>6. CASE Follow
  BY <1>1, <1>6, FollowKeeps
<1>7. CASE Drop \/ Reconnect
  BY <1>1, <1>7, ConnectionKeeps
<1>8. CASE PageLoads
  BY <1>1, <1>8, LoadKeeps DEF PageLoads
<1>9. CASE UNCHANGED vars
  <2>1. Loading' = Loading /\ Pending(hub)' = Pending(hub)
    BY <1>9 DEF vars, backVars, pageVars, Loading, Pending
  <2>2. UNCHANGED <<rows, feed, load, snap, clean, conn>>
    BY <1>9 DEF vars, backVars, pageVars
  <2> QED BY <1>1, <2>1, <2>2 DEF PageInv, SnapsEmpty, CleanLoad, CleanFeed
<1>10. CASE Quiet
  BY <1>9, <1>10 DEF Quiet
<1> QED BY <1>2, <1>3, <1>4, <1>5, <1>6, <1>7, <1>8, <1>9, <1>10 DEF Next

LEMMA PageInvariant ==
  ASSUME NEW hub, Hubs = {hub} PROVE Spec => []PageInv(hub)
<1>1. Init => PageInv(hub)
  BY PageInit
<1>2. PageInv(hub) /\ [Next]_vars => PageInv(hub)'
  BY PageStep
<1> QED BY <1>1, <1>2, PTL DEF Spec

\* With one process a clean page shows its messages in the order of their
\* numbers, none twice, whatever edits, deletions, reactions and loads there are.
THEOREM CleanPageInOrder ==
  ASSUME NEW hub, Hubs = {hub} PROVE Spec => []InOrder
<1>1. PageInv(hub) => InOrder
  BY DEF PageInv, CleanFeed, Told, Ordered, InOrder
<1> QED BY <1>1, PageInvariant, PTL

\* With one process, once nothing is on its way, every message of Me that somebody
\* has read has blue ticks on a clean page.
THEOREM CleanPageTicked ==
  ASSUME NEW hub, Hubs = {hub} PROVE Spec => []ReadIsTicked
<1>1. PageInv(hub) => ReadIsTicked
  <2> SUFFICES ASSUME PageInv(hub), clean, Settled, ~Loading, NEW i \in 1 .. Len(feed),
                      feed[i].by = Me, ~feed[i].deleted, rows[feed[i].id].read
               PROVE  feed[i].read
    BY DEF ReadIsTicked
  <2>1. Pending(hub) = <<>>
    BY DEF Pending, Settled, AllPublished
  <2>2. Told(rows, feed, <<>>) /\ 1 .. Len(<<>>) = {}
    BY <2>1, EmptySeq DEF PageInv, CleanFeed
  <2>3. feed[i].id \in 1 .. Len(rows) /\ rows[feed[i].id].by = Me
    BY <2>2 DEF Told, KnownBubbles
  <2> QED BY <2>2, <2>3 DEF Told, ReadsTold
<1> QED BY <1>1, PageInvariant, PTL

\* What a page that was told of all says of row m.
ToldOf(m) == <<m, rows[m].by, rows[m].text, CountsOf(rows[m].react)>>

\* The bubble of a message that stays says what its row does.
LEMMA BubbleTold ==
  ASSUME NEW F \in Seq(Bubble), Told(rows, F, <<>>), NEW i \in 1 .. Len(F), Stands(F[i])
  PROVE  /\ F[i].id \in 1 .. Len(rows) /\ Stays(rows, F[i].id)
         /\ <<F[i].id, F[i].by, F[i].text, F[i].counts>> = ToldOf(F[i].id)
<1>1. Len(<<>>) = 0 /\ 1 .. Len(<<>>) = {}
  BY EmptySeq
<1>2. PICK m : m = F[i].id
  OBVIOUS
<1>3. m \in 1 .. Len(rows) /\ F[i].by = rows[m].by
  BY <1>2 DEF Told, KnownBubbles
<1>4. ~rows[m].deleted
  BY <1>1, <1>2, <1>3 DEF Told, DeletionsTold, Stands
<1>5. Stays(rows, m)
  BY <1>2, <1>4 DEF Stands, Stays
<1>6. F[i].text = rows[m].text
  BY <1>1, <1>2, <1>3, <1>5 DEF Told, TextsTold
<1>7. F[i].counts = CountsOf(rows[m].react)
  BY <1>1, <1>2, <1>3, <1>5 DEF Told, CountsTold
<1> QED BY <1>2, <1>3, <1>5, <1>6, <1>7 DEF ToldOf

\* So what such a page shows is determined: it climbs through the messages that
\* stay, and says of each what its row does.
LEMMA StandingIs ==
  ASSUME NEW F \in Seq(Bubble), Told(rows, F, <<>>)
  PROVE  \E k, f :
           /\ k \in Nat /\ Climbs(f, k)
           /\ {f[n] : n \in 1 .. k} = {m \in 1 .. Len(rows) : Stays(rows, m)}
           /\ Standing(F) = [n \in 1 .. k |-> ToldOf(f[n])]
<1> DEFINE kept == {i \in 1 .. Len(F) : Stands(F[i])}
           told(b) == <<b.id, b.by, b.text, b.counts>>
<1>1. Len(F) \in Nat /\ kept \in SUBSET (1 .. Len(F)) /\ \A i \in kept : Stands(F[i])
  OBVIOUS
<1>2. PICK k, a : k = Cardinality(kept) /\ a = Ascending(kept)
  OBVIOUS
<1>3. /\ k \in Nat /\ a \in [1 .. k -> kept]
      /\ \A i, j \in 1 .. k : i < j => a[i] < a[j]
      /\ \A x \in kept : \E i \in 1 .. k : a[i] = x
  BY <1>1, <1>2, AscendingLists
<1>4. Standing(F) = [n \in 1 .. k |-> told(F[a[n]])]
  BY <1>2 DEF Standing
<1>5. \A n \in 1 .. k : a[n] \in 1 .. Len(F) /\ Stands(F[a[n]])
  BY <1>1, <1>3
<1>6. PICK f : f = [n \in 1 .. k |-> F[a[n]].id]
  OBVIOUS
<1>7. \A n \in 1 .. k : f[n] = F[a[n]].id
  BY <1>6
<1>8. \A n \in 1 .. k : /\ f[n] \in 1 .. Len(rows) /\ Stays(rows, f[n])
                        /\ told(F[a[n]]) = ToldOf(f[n])
  BY <1>5, <1>7, BubbleTold
<1> HIDE DEF told, kept
<1>9. Standing(F) = [n \in 1 .. k |-> ToldOf(f[n])]
  BY <1>4, <1>8
<1>10. Climbs(f, k)
  <2>1. f \in [1 .. k -> Nat]
    BY <1>6, <1>7, <1>8
  <2>2. ASSUME NEW i \in 1 .. k, NEW j \in 1 .. k, i < j PROVE f[i] < f[j]
    BY <1>3, <1>5, <1>7, <2>2 DEF Told, Ordered
  <2> QED BY <2>1, <2>2 DEF Climbs
<1>11. ASSUME NEW m \in 1 .. Len(rows), Stays(rows, m) PROVE \E n \in 1 .. k : f[n] = m
  <2>1. Len(<<>>) = 0 /\ 1 .. Len(<<>>) = {}
    BY EmptySeq
  <2>2. PICK i \in 1 .. Len(F) : F[i].id = m
    BY <1>11, <2>1 DEF Told, Present
  <2>3. Stands(F[i])
    BY <1>11, <2>2 DEF Told, KnownBubbles, Stands, Stays
  <2>4. i \in kept
    BY <2>3 DEF kept
  <2> QED BY <1>3, <1>7, <2>2, <2>4
<1>12. {f[n] : n \in 1 .. k} = {m \in 1 .. Len(rows) : Stays(rows, m)}
  BY <1>8, <1>11
<1> QED BY <1>3, <1>9, <1>10, <1>12

\* With one process a clean page, once nothing is on its way, shows what it would
\* show if it loaded the conversation again, but for what was withdrawn.
THEOREM CleanPageConverges ==
  ASSUME NEW hub, Hubs = {hub} PROVE Spec => []Converged
<1>1. PageInv(hub) => Converged
  <2> SUFFICES ASSUME PageInv(hub), clean, Settled, ~Loading
               PROVE  Standing(feed) = Standing(History)
    BY DEF Converged
  <2>1. Pending(hub) = <<>>
    BY DEF Pending, Settled, AllPublished
  <2>2. Told(rows, feed, <<>>) /\ feed \in Seq(Bubble)
    BY <2>1 DEF PageInv, CleanFeed, TypeInv, TypeOK
  <2>3. Told(rows, History, <<>>) /\ History \in Seq(Bubble)
    BY HistoryTold, HistoryIs DEF PageInv
  <2>4. PICK k, f :
          /\ k \in Nat /\ Climbs(f, k)
          /\ {f[n] : n \in 1 .. k} = {m \in 1 .. Len(rows) : Stays(rows, m)}
          /\ Standing(feed) = [n \in 1 .. k |-> ToldOf(f[n])]
    BY <2>2, StandingIs
  <2>5. PICK l, g :
          /\ l \in Nat /\ Climbs(g, l)
          /\ {g[n] : n \in 1 .. l} = {m \in 1 .. Len(rows) : Stays(rows, m)}
          /\ Standing(History) = [n \in 1 .. l |-> ToldOf(g[n])]
    BY <2>3, StandingIs
  <2>6. k = l /\ f = g
    BY <2>4, <2>5, ClimbsEqual
  <2> QED BY <2>4, <2>5, <2>6
<1> QED BY <1>1, PageInvariant, PTL

=============================================================================
