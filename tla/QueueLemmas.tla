----------------------------- MODULE QueueLemmas -----------------------------
(***************************************************************************)
(* Queues in which nobody stands twice, and what is left of one when an    *)
(* element is struck out, joins it or is taken from its head; and induction *)
(* over what has been taken from it so far.                                *)
(***************************************************************************)
EXTENDS Naturals, Integers, Sequences, SequenceTheorems, WellFoundedInduction, TLAPS

InQueue(q, j) == \E n \in DOMAIN q : q[n] = j
Distinct(q) == \A m, n \in DOMAIN q : q[m] = q[n] => m = n

(* r is q with the element at index i struck out. *)
LacksIndex(r, q, i) ==
  /\ Len(r) = Len(q) - 1
  /\ \A n \in 1..(Len(q) - 1) : r[n] = IF n < i THEN q[n] ELSE q[n + 1]

(* What splice(i, 1) leaves of a queue. *)
Struck(q, i) == SubSeq(q, 1, i - 1) \o SubSeq(q, i + 1, Len(q))

(* The elements of a queue without the one at index i, given as r: the      *)
(* others, each once.                                                      *)
LEMMA Without ==
  ASSUME NEW S, NEW q \in Seq(S), Distinct(q), NEW i \in 1..Len(q),
         NEW r \in Seq(S), LacksIndex(r, q, i)
  PROVE  Distinct(r) /\ \A j : InQueue(r, j) <=> InQueue(q, j) /\ j # q[i]
<1>1. i \in 1..Len(q) /\ Len(q) \in Nat /\ DOMAIN q = 1..Len(q) /\ DOMAIN r = 1..(Len(q) - 1)
  BY DEF LacksIndex
<1>2. Distinct(r)
  <2> SUFFICES ASSUME NEW m \in 1..(Len(q) - 1), NEW n \in 1..(Len(q) - 1), r[m] = r[n]
               PROVE  m = n
    BY <1>1 DEF Distinct
  <2>1. r[m] = (IF m < i THEN q[m] ELSE q[m + 1]) /\ r[n] = (IF n < i THEN q[n] ELSE q[n + 1])
    BY DEF LacksIndex
  <2>2. \A k, l \in 1..Len(q) : q[k] = q[l] => k = l
    BY <1>1 DEF Distinct
  <2>3. m + 1 \in 1..Len(q) /\ n + 1 \in 1..Len(q) /\ m \in 1..Len(q) /\ n \in 1..Len(q)
    BY <1>1
  <2>4. CASE m < i /\ n < i
    BY <2>1, <2>2, <2>3, <2>4
  <2>5. CASE m < i /\ ~(n < i)
    <3>1. m = n + 1
      BY <2>1, <2>2, <2>3, <2>5
    <3> QED BY <1>1, <2>5, <3>1
  <2>6. CASE ~(m < i) /\ n < i
    <3>1. m + 1 = n
      BY <2>1, <2>2, <2>3, <2>6
    <3> QED BY <1>1, <2>6, <3>1
  <2>7. CASE ~(m < i) /\ ~(n < i)
    <3>1. m + 1 = n + 1
      BY <2>1, <2>2, <2>3, <2>7
    <3> QED BY <3>1
  <2> QED BY <2>4, <2>5, <2>6, <2>7
<1>3. ASSUME NEW j, InQueue(r, j) PROVE InQueue(q, j) /\ j # q[i]
  <2>1. PICK n \in 1..(Len(q) - 1) : r[n] = j
    BY <1>1, <1>3 DEF InQueue
  <2> QED BY <1>1, <2>1 DEF InQueue, Distinct, LacksIndex
<1>4. ASSUME NEW j, InQueue(q, j), j # q[i] PROVE InQueue(r, j)
  <2>1. PICK n \in 1..Len(q) : q[n] = j
    BY <1>1, <1>4 DEF InQueue
  <2>2. CASE n < i
    BY <1>1, <2>1, <2>2 DEF InQueue, LacksIndex
  <2>3. CASE n > i
    <3>1. n - 1 \in 1..(Len(q) - 1) /\ r[n - 1] = j
      BY <1>1, <2>1, <2>3 DEF LacksIndex
    <3> QED BY <1>1, <3>1 DEF InQueue
  <2> QED BY <1>1, <1>4, <2>1, <2>2, <2>3
<1> QED BY <1>2, <1>3, <1>4

(* Two sequences, the second behind the first. *)
LEMMA Behind ==
  ASSUME NEW S, NEW a \in Seq(S), NEW b \in Seq(S)
  PROVE  /\ a \o b \in Seq(S) /\ Len(a \o b) = Len(a) + Len(b)
         /\ \A n \in Nat \ {0} : n <= Len(a) => (a \o b)[n] = a[n]
         /\ \A n \in Nat : n > Len(a) /\ n <= Len(a) + Len(b) => (a \o b)[n] = b[n - Len(a)]
<1>1. Len(a) \in Nat /\ Len(b) \in Nat
  OBVIOUS
<1> QED BY <1>1, ConcatProperties

(* What stands before index i and what stands behind it, put together. *)
LEMMA Glue ==
  ASSUME NEW S, NEW q \in Seq(S), NEW i \in 1..Len(q),
         NEW a \in Seq(S), Len(a) = i - 1, \A n \in 1..(i - 1) : a[n] = q[n],
         NEW b \in Seq(S), Len(b) = Len(q) - i, \A n \in 1..(Len(q) - i) : b[n] = q[n + i]
  PROVE  a \o b \in Seq(S) /\ LacksIndex(a \o b, q, i)
<1>1. i \in Nat /\ Len(q) \in Nat /\ 1 <= i /\ i <= Len(q)
  OBVIOUS
<1>2. a \o b \in Seq(S) /\ Len(a \o b) = Len(q) - 1
  <2>1. a \o b \in Seq(S) /\ Len(a \o b) = Len(a) + Len(b)
    BY Behind
  <2>2. Len(a) + Len(b) = Len(q) - 1
    BY <1>1
  <2> QED BY <2>1, <2>2
<1>3. ASSUME NEW n \in 1..(Len(q) - 1) PROVE (a \o b)[n] = IF n < i THEN q[n] ELSE q[n + 1]
  <2>1. CASE n < i
    <3>1. (a \o b)[n] = a[n] /\ n \in 1..(i - 1)
      BY <1>1, <2>1, Behind
    <3> QED BY <2>1, <3>1
  <2>2. CASE ~(n < i)
    <3>1. (a \o b)[n] = b[n - (i - 1)] /\ n - (i - 1) \in 1..(Len(q) - i)
      BY <1>1, <2>2, Behind
    <3>2. (n - (i - 1)) + i = n + 1
      BY <1>1
    <3>3. b[n - (i - 1)] = q[n + 1]
      BY <3>1, <3>2
    <3> QED BY <2>2, <3>1, <3>3
  <2> QED BY <2>1, <2>2
<1> QED BY <1>2, <1>3 DEF LacksIndex

(* Striking the index of a job from a queue without repetitions leaves the *)
(* other jobs, in a queue without repetitions (splice).                    *)
LEMMA Strike ==
  ASSUME NEW S, NEW q \in Seq(S), Distinct(q), NEW i \in DOMAIN q
  PROVE  /\ Struck(q, i) \in Seq(S) /\ Distinct(Struck(q, i))
         /\ \A j : InQueue(Struck(q, i), j) <=> InQueue(q, j) /\ j # q[i]
<1>1. i \in 1..Len(q) /\ Len(q) \in Nat /\ i \in Int
  OBVIOUS
<1>2. \A n \in 1..Len(q) : q[n] \in S
  OBVIOUS
<1>3. /\ SubSeq(q, 1, i - 1) \in Seq(S) /\ Len(SubSeq(q, 1, i - 1)) = i - 1
      /\ \A n \in 1..(i - 1) : SubSeq(q, 1, i - 1)[n] = q[n]
  BY <1>1, <1>2, SubSeqProperties
<1>4. /\ SubSeq(q, i + 1, Len(q)) \in Seq(S) /\ Len(SubSeq(q, i + 1, Len(q))) = Len(q) - i
      /\ \A n \in 1..(Len(q) - i) : SubSeq(q, i + 1, Len(q))[n] = q[n + i]
  BY <1>1
<1>5. Struck(q, i) \in Seq(S) /\ LacksIndex(Struck(q, i), q, i)
  <2> DEFINE a == SubSeq(q, 1, i - 1)
             b == SubSeq(q, i + 1, Len(q))
  <2>1. a \in Seq(S) /\ Len(a) = i - 1 /\ \A n \in 1..(i - 1) : a[n] = q[n]
    BY <1>3
  <2>2. b \in Seq(S) /\ Len(b) = Len(q) - i /\ \A n \in 1..(Len(q) - i) : b[n] = q[n + i]
    BY <1>4
  <2>3. Struck(q, i) = a \o b
    BY DEF Struck
  <2> HIDE DEF a, b
  <2>4. a \o b \in Seq(S) /\ LacksIndex(a \o b, q, i)
    BY <1>1, <2>1, <2>2, Glue
  <2> QED BY <2>3, <2>4
<1>6. ASSUME NEW t \in Seq(S), LacksIndex(t, q, i)
      PROVE  Distinct(t) /\ \A j : InQueue(t, j) <=> InQueue(q, j) /\ j # q[i]
  BY <1>1, <1>6, Without
<1> QED BY <1>5, <1>6

(* Joining the line behind jobs among which one is not. *)
LEMMA Join ==
  ASSUME NEW S, NEW q \in Seq(S), Distinct(q), NEW x \in S, ~InQueue(q, x)
  PROVE  /\ Append(q, x) \in Seq(S) /\ Distinct(Append(q, x)) /\ Append(q, x) # <<>>
         /\ \A j : InQueue(Append(q, x), j) <=> InQueue(q, j) \/ j = x
<1>1. /\ DOMAIN q = 1..Len(q) /\ Len(q) \in Nat
      /\ DOMAIN Append(q, x) = 1..(Len(q) + 1)
      /\ \A n \in 1..Len(q) : Append(q, x)[n] = q[n]
      /\ Append(q, x)[Len(q) + 1] = x
  OBVIOUS
<1>2. Append(q, x) \in Seq(S) /\ Append(q, x) # <<>>
  OBVIOUS
<1>3. \A j : InQueue(Append(q, x), j) <=> InQueue(q, j) \/ j = x
  BY <1>1 DEF InQueue
<1>4. Distinct(Append(q, x))
  BY <1>1 DEF Distinct, InQueue
<1> QED BY <1>2, <1>3, <1>4

(* The head of a queue without repetitions is not in its tail (shift). *)
LEMMA Shift ==
  ASSUME NEW S, NEW q \in Seq(S), Distinct(q), q # <<>>
  PROVE  /\ Head(q) \in S /\ InQueue(q, Head(q)) /\ Tail(q) \in Seq(S) /\ Distinct(Tail(q))
         /\ \A j : InQueue(Tail(q), j) <=> InQueue(q, j) /\ j # Head(q)
<1>1. /\ DOMAIN q = 1..Len(q) /\ Len(q) \in Nat \ {0} /\ Head(q) = q[1]
      /\ DOMAIN Tail(q) = 1..(Len(q) - 1)
      /\ \A n \in 1..(Len(q) - 1) : Tail(q)[n] = q[n + 1]
  OBVIOUS
<1>2. Head(q) \in S /\ Tail(q) \in Seq(S)
  OBVIOUS
<1>3. InQueue(q, Head(q)) /\ Distinct(Tail(q))
  BY <1>1 DEF InQueue, Distinct
<1>4. ASSUME NEW j, InQueue(Tail(q), j) PROVE InQueue(q, j) /\ j # Head(q)
  <2>1. PICK n \in 1..(Len(q) - 1) : q[n + 1] = j
    BY <1>1, <1>4 DEF InQueue
  <2> QED BY <1>1, <2>1 DEF InQueue, Distinct
<1>5. ASSUME NEW j, InQueue(q, j), j # Head(q) PROVE InQueue(Tail(q), j)
  <2>1. PICK n \in 1..Len(q) : q[n] = j
    BY <1>1, <1>5 DEF InQueue
  <2>2. n - 1 \in 1..(Len(q) - 1) /\ Tail(q)[n - 1] = j
    BY <1>1, <1>5, <2>1
  <2> QED BY <1>1, <2>2 DEF InQueue
<1> QED BY <1>2, <1>3, <1>4, <1>5

(* Every set of numbers has a least one. *)
LEMMA LeastNumber ==
  ASSUME NEW T \in SUBSET Nat, T # {}
  PROVE  \E n \in T : \A m \in T : n <= m
<1> DEFINE R == {ss \in Nat \X Nat : ss[1] < ss[2]}
<1>1. IsWellFoundedOn(R, Nat)
  BY NatLessThanWellFounded DEF OpToRel
<1>2. \A m, n \in Nat : <<m, n>> \in R <=> m < n
  OBVIOUS
<1> HIDE DEF R
<1>3. PICK n \in T : \A m \in T : ~(<<m, n>> \in R)
  BY <1>1, WFMin
<1>4. ASSUME NEW m \in T PROVE n <= m
  <2>1. m \in Nat /\ n \in Nat
    OBVIOUS
  <2>2. ~(m < n)
    BY <1>2, <1>3, <2>1
  <2> QED BY <2>1, <2>2
<1> QED BY <1>4

(* What holds of 0 and of the successor of every number it holds of, holds   *)
(* of all.                                                                  *)
LEMMA FromZero ==
  ASSUME NEW S, 0 \in S, \A n \in Nat : n \in S => n + 1 \in S
  PROVE  \A n \in Nat : n \in S
<1> SUFFICES ASSUME NEW k \in Nat, k \notin S PROVE FALSE
  OBVIOUS
<1> DEFINE T == {n \in Nat : n \notin S}
<1>1. T \in SUBSET Nat /\ T # {}
  OBVIOUS
<1>2. PICK n \in T : \A m \in T : n <= m
  BY <1>1, LeastNumber
<1>3. n # 0 /\ n - 1 \in Nat /\ n - 1 \notin T
  BY <1>2
<1> QED BY <1>2, <1>3
=============================================================================
