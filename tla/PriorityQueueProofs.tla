------------------------ MODULE PriorityQueueProofs ------------------------
(***************************************************************************)
(* What the array operations of PriorityQueue keep, for queues of any      *)
(* length.  Induction over the length goes through the least element of a  *)
(* set of naturals, which needs no operator parameter.                     *)
(***************************************************************************)
EXTENDS PriorityQueue, SequenceTheorems, WellFoundedInduction, TLAPS

(* A non-empty set of naturals has a least element. *)
LEMMA LeastExists ==
  ASSUME NEW S \in SUBSET Nat, S # {}
  PROVE  \E m \in S : \A n \in S : m <= n
<1> DEFINE R == OpToRel(<, Nat)
<1>1. IsWellFoundedOn(R, Nat)
  BY NatLessThanWellFounded
<1>2. PICK x \in S : \A y \in S : <<y, x>> \notin R
  <2> HIDE DEF R
  <2> QED BY <1>1, WFMin
<1>3. \A y \in S : ~(y < x)
  BY <1>2 DEF OpToRel
<1> QED BY <1>3

(* Induction, with the property given as the set of naturals that have it. *)
LEMMA InductionOnNat ==
  ASSUME NEW S, 0 \in S, \A n \in Nat : n \in S => n + 1 \in S
  PROVE  Nat \subseteq S
<1> DEFINE T == Nat \ S
<1> SUFFICES ASSUME T # {} PROVE FALSE
  OBVIOUS
<1>1. PICK m \in T : \A n \in T : m <= n
  <2>1. T \in SUBSET Nat
    OBVIOUS
  <2> HIDE DEF T
  <2> QED BY <2>1, LeastExists
<1>2. m \in Nat /\ m # 0
  OBVIOUS
<1>3. m - 1 \in S
  BY <1>1, <1>2
<1> QED BY <1>2, <1>3

(* InsertAt: one longer, the entries from k on moved up by one. *)
LEMMA InsertAtProperties ==
  ASSUME NEW S, NEW q \in Seq(S), NEW k \in 1 .. Len(q), NEW id \in S
  PROVE  /\ InsertAt(q, k, id) \in Seq(S)
         /\ Len(InsertAt(q, k, id)) = Len(q) + 1
         /\ \A i \in 1 .. Len(q) + 1 :
              InsertAt(q, k, id)[i] =
                IF i < k THEN q[i] ELSE IF i = k THEN id ELSE q[i - 1]
<1> DEFINE a == SubSeq(q, 1, k - 1)
           c == SubSeq(q, k, Len(q))
           d == a \o <<id>>
<1>0. Len(q) \in Nat /\ k \in Nat /\ k # 0 /\ k <= Len(q)
  OBVIOUS
<1>1. a \in Seq(S) /\ Len(a) = k - 1 /\ \A i \in 1 .. k - 1 : a[i] = q[i]
  BY <1>0
<1>2. c \in Seq(S) /\ Len(c) = Len(q) - k + 1 /\ \A i \in 1 .. Len(q) - k + 1 : c[i] = q[k + i - 1]
  <2>1. \A i \in k .. Len(q) : q[i] \in S
    BY <1>0
  <2>2. k \in Int /\ Len(q) \in Int
    BY <1>0
  <2>3. /\ c \in Seq(S)
        /\ Len(c) = IF k <= Len(q) THEN Len(q) - k + 1 ELSE 0
        /\ \A i \in 1 .. Len(q) - k + 1 : c[i] = q[k + i - 1]
    BY <2>1, <2>2, SubSeqProperties
  <2> QED BY <1>0, <2>3
<1> HIDE DEF a, c
<1>3. d \in Seq(S) /\ Len(d) = k /\ d[k] = id /\ \A i \in 1 .. k - 1 : d[i] = q[i]
  BY <1>0, <1>1
<1> HIDE DEF d
<1>4. InsertAt(q, k, id) = d \o c
  BY DEF InsertAt, d, a, c
<1>5. /\ d \o c \in Seq(S) /\ Len(d \o c) = k + (Len(q) - k + 1)
      /\ \A i \in 1 .. k + (Len(q) - k + 1) :
           (d \o c)[i] = IF i <= k THEN d[i] ELSE c[i - k]
  <2>1. /\ d \o c \in Seq(S) /\ Len(d \o c) = Len(d) + Len(c)
        /\ \A i \in 1 .. Len(d) + Len(c) :
              (d \o c)[i] = IF i <= Len(d) THEN d[i] ELSE c[i - Len(d)]
    BY <1>2, <1>3, ConcatProperties
  <2> QED BY <1>2, <1>3, <2>1
<1>6. ASSUME NEW i \in 1 .. Len(q) + 1
      PROVE  (d \o c)[i] = IF i < k THEN q[i] ELSE IF i = k THEN id ELSE q[i - 1]
  <2>1. i \in 1 .. k + (Len(q) - k + 1)
    BY <1>0
  <2>2. CASE i <= k
    <3>1. (d \o c)[i] = d[i]
      BY <2>1, <2>2, <1>5
    <3>2. CASE i = k
      BY <3>1, <3>2, <1>0, <1>3
    <3>3. CASE i # k
      <4>1. i \in 1 .. k - 1 /\ i < k
        BY <1>0, <2>2, <3>3
      <4> QED BY <3>1, <4>1, <1>3
    <3> QED BY <3>2, <3>3
  <2>3. CASE i > k
    <3>1. i - k \in 1 .. Len(q) - k + 1 /\ k + (i - k) - 1 = i - 1 /\ ~(i <= k) /\ ~(i < k) /\ i # k
      BY <1>0, <2>3
    <3>2. c[i - k] = q[k + (i - k) - 1]
      BY <3>1, <1>2
    <3>3. (d \o c)[i] = q[i - 1]
      BY <3>1, <3>2, <2>1, <1>5
    <3> QED BY <3>1, <3>3
  <2>4. i <= k \/ i > k
    BY <1>0
  <2> QED BY <2>2, <2>3, <2>4
<1> QED BY <1>0, <1>4, <1>5, <1>6

(* RemoveAt: one shorter, the entries behind k moved down by one. *)
LEMMA RemoveAtProperties ==
  ASSUME NEW S, NEW q \in Seq(S), NEW k \in 1 .. Len(q)
  PROVE  /\ RemoveAt(q, k) \in Seq(S)
         /\ Len(RemoveAt(q, k)) = Len(q) - 1
         /\ \A i \in 1 .. Len(q) - 1 : RemoveAt(q, k)[i] = IF i < k THEN q[i] ELSE q[i + 1]
<1> DEFINE a == SubSeq(q, 1, k - 1)
           c == SubSeq(q, k + 1, Len(q))
<1>0. Len(q) \in Nat /\ k \in Nat /\ k # 0 /\ k <= Len(q)
  OBVIOUS
<1>1. a \in Seq(S) /\ Len(a) = k - 1 /\ \A i \in 1 .. k - 1 : a[i] = q[i]
  BY <1>0
<1>2. c \in Seq(S) /\ Len(c) = Len(q) - k /\ \A i \in 1 .. Len(q) - k : c[i] = q[k + i]
  <2>1. \A i \in k + 1 .. Len(q) : q[i] \in S
    BY <1>0
  <2>2. k + 1 \in Int /\ Len(q) \in Int
    BY <1>0
  <2>3. /\ c \in Seq(S) 
        /\ Len(c) = IF k + 1 <= Len(q) THEN Len(q) - (k + 1) + 1 ELSE 0
        /\ \A i \in 1 .. Len(q) - (k + 1) + 1 : c[i] = q[(k + 1) + i - 1]
    BY <2>1, <2>2, SubSeqProperties
  <2>4. \A i \in 1 .. Len(q) - k : (k + 1) + i - 1 = k + i /\ i \in 1 .. Len(q) - (k + 1) + 1
    BY <1>0
  <2> QED BY <1>0, <2>3, <2>4
<1> HIDE DEF a, c
<1>3. RemoveAt(q, k) = a \o c
  BY DEF RemoveAt, a, c
<1>4. /\ a \o c \in Seq(S) /\ Len(a \o c) = (k - 1) + (Len(q) - k)
      /\ \A i \in 1 .. (k - 1) + (Len(q) - k) : (a \o c)[i] = IF i <= k - 1 THEN a[i] ELSE c[i - (k - 1)]
  <2>1. /\ a \o c \in Seq(S) /\ Len(a \o c) = Len(a) + Len(c)
        /\ \A i \in 1 .. Len(a) + Len(c) :
              (a \o c)[i] = IF i <= Len(a) THEN a[i] ELSE c[i - Len(a)]
    BY <1>1, <1>2, ConcatProperties
  <2> QED BY <1>1, <1>2, <2>1
<1>5. (k - 1) + (Len(q) - k) = Len(q) - 1
  BY <1>0
<1>6. ASSUME NEW i \in 1 .. Len(q) - 1
      PROVE (a \o c)[i] = IF i < k THEN q[i] ELSE q[i + 1]
  <2>1. (a \o c)[i] = IF i <= k - 1 THEN a[i] ELSE c[i - (k - 1)]
    BY <1>4, <1>5
  <2>2. CASE i < k
    BY <1>0, <1>1, <2>1, <2>2
  <2>3. CASE i >= k
    <3>1. i - (k - 1) \in 1 .. Len(q) - k /\ k + (i - (k - 1)) = i + 1 /\ ~(i <= k - 1)
      BY <1>0, <2>3
    <3>2. c[i - (k - 1)] = q[k + (i - (k - 1))]
      BY <1>2, <3>1
    <3>3. (a \o c)[i] = q[i + 1]
      BY <2>1, <3>1, <3>2
    <3>4. ~(i < k)
      BY <1>0, <2>3
    <3> QED BY <3>3, <3>4
  <2>4. i < k \/ i >= k
    BY <1>0
  <2> QED BY <2>2, <2>3, <2>4
<1> QED BY <1>3, <1>4, <1>5, <1>6

(* r is q with id put in at k and the others kept in order. *)
PutIn(r, q, k, id) ==
  \A i \in 1 .. Len(q) + 1 :
    r[i] = IF i < k THEN q[i] ELSE IF i = k THEN id ELSE q[i - 1]

(* In front of k nothing in q weighs less than id, at k stands what does. *)
IsPlace(q, k, id, weight) ==
  /\ \A i \in 1 .. Len(q) : i < k => weight[q[i]] >= weight[id]
  /\ k <= Len(q) => weight[q[k]] < weight[id]

(* InsertByPriority puts id in at its place. *)
LEMMA InsertByPriorityShape ==
  ASSUME NEW S, NEW q \in Seq(S), NEW id \in S, NEW weight \in [S -> Nat]
  PROVE  /\ InsertByPriority(q, id, weight) \in Seq(S)
         /\ Len(InsertByPriority(q, id, weight)) = Len(q) + 1
         /\ \E k \in 1 .. Len(q) + 1 :
              /\ IsPlace(q, k, id, weight)
              /\ PutIn(InsertByPriority(q, id, weight), q, k, id)
<1> DEFINE lower == {i \in 1 .. Len(q) : weight[q[i]] < weight[id]}
           r == InsertByPriority(q, id, weight)
           first == SelectInSeq(q, LAMBDA other : weight[other] < weight[id])
<1>a. first = IF lower # {} THEN Min(lower) ELSE 0
  BY DEF SelectInSeq
<1>b. r = IF first = 0 THEN Append(q, id) ELSE InsertAt(q, first, id)
  BY DEF InsertByPriority
<1> HIDE DEF first, r
<1>0. /\ Len(q) \in Nat
      /\ \A i \in 1 .. Len(q) : q[i] \in S
      /\ \A x \in S : weight[x] \in Nat
  BY LenProperties, ElementOfSeq
<1>1. CASE lower = {}
  <2>1. r = Append(q, id)
    BY <1>a, <1>b, <1>1
  <2>2. \A i \in 1 .. Len(q) : weight[q[i]] >= weight[id]
    BY <1>0, <1>1
  <2>3. /\ r \in Seq(S) /\ Len(r) = Len(q) + 1
        /\ \A i \in 1 .. Len(q) : r[i] = q[i]
        /\ r[Len(q) + 1] = id
    BY <2>1, AppendProperties
  <2>4. PutIn(r, q, Len(q) + 1, id)
    <3> SUFFICES ASSUME NEW i \in 1 .. Len(q) + 1
                 PROVE  r[i] = IF i < Len(q) + 1 THEN q[i]
                               ELSE IF i = Len(q) + 1 THEN id ELSE q[i - 1]
      BY DEF PutIn
    <3>1. CASE i = Len(q) + 1
      BY <1>0, <2>3, <3>1
    <3>2. CASE i \in 1 .. Len(q)
      BY <1>0, <2>3, <3>2
    <3> QED BY <1>0, <3>1, <3>2
  <2>5. Len(q) + 1 \in 1 .. Len(q) + 1 /\ ~(Len(q) + 1 <= Len(q))
    BY <1>0
  <2>6. IsPlace(q, Len(q) + 1, id, weight)
    BY <2>2, <2>5 DEF IsPlace
  <2> QED BY <2>3, <2>4, <2>5, <2>6 DEF r
<1>2. CASE lower # {}
  <2>1. PICK k \in lower : first = k /\ \A i \in lower : k <= i
    <3>1. \E m \in lower : \A n \in lower : m <= n
      <4>1. lower \in SUBSET Nat
        OBVIOUS
      <4> HIDE DEF lower
      <4> QED BY <1>2, <4>1, LeastExists
    <3> HIDE DEF lower
    <3> QED BY <1>2, <1>a, <3>1 DEF Min
  <2>2. k \in 1 .. Len(q) /\ weight[q[k]] < weight[id]
    OBVIOUS
  <2>3. ASSUME NEW i \in 1 .. Len(q), i < k
        PROVE  weight[q[i]] >= weight[id]
    <3>1. i \notin lower
      BY <1>0, <2>1, <2>2, <2>3
    <3> QED BY <1>0, <3>1
  <2>4. r = InsertAt(q, k, id)
    BY <1>0, <1>b, <2>1, <2>2
  <2>5. k \in 1 .. Len(q) + 1
    BY <1>0, <2>2
  <2>6. r \in Seq(S) /\ Len(r) = Len(q) + 1
    <3> HIDE DEF lower
    <3> QED BY <2>2, <2>4, InsertAtProperties
  <2>7. PutIn(r, q, k, id)
    <3> HIDE DEF lower
    <3>1. \A i \in 1 .. Len(q) + 1 :
            InsertAt(q, k, id)[i] = IF i < k THEN q[i] ELSE IF i = k THEN id ELSE q[i - 1]
      BY <2>2, InsertAtProperties
    <3> QED BY <2>4, <3>1 DEF PutIn
  <2>8. IsPlace(q, k, id, weight)
    <3> HIDE DEF lower
    <3> QED BY <2>2, <2>3 DEF IsPlace
  <2> HIDE DEF lower
  <2> QED BY <2>5, <2>6, <2>7, <2>8 DEF r
<1> QED BY <1>1, <1>2

(* An entry that enters the queue by priority is added to it, ... *)
LEMMA InsertByPriorityEntries ==
  ASSUME NEW S, NEW q \in Seq(S), NEW id \in S, NEW weight \in [S -> Nat]
  PROVE  /\ InsertByPriority(q, id, weight) \in Seq(S)
         /\ ToSet(InsertByPriority(q, id, weight)) = ToSet(q) \cup {id}
<1> DEFINE r == InsertByPriority(q, id, weight)
<1> HIDE DEF r
<1>1. /\ r \in Seq(S)
      /\ Len(r) = Len(q) + 1
  BY InsertByPriorityShape DEF r
<1>0. PICK k \in 1 .. Len(q) + 1 : PutIn(r, q, k, id)
  BY InsertByPriorityShape DEF r
<1>2. \A i \in 1 .. Len(q) + 1 :
        r[i] = IF i < k THEN q[i] ELSE IF i = k THEN id ELSE q[i - 1]
  BY <1>0 DEF PutIn
<1>3. /\ Len(q) \in Nat
      /\ DOMAIN q = 1 .. Len(q)
      /\ DOMAIN r = 1 .. Len(q) + 1
  BY <1>1, LenProperties
<1>4. ASSUME NEW x \in ToSet(r) PROVE x \in ToSet(q) \cup {id}
  <2>1. PICK i \in 1 .. Len(q) + 1 : x = r[i]
    BY <1>3 DEF ToSet
  <2>2. i < k \/ i = k \/ i > k
    BY <1>3
  <2>3. CASE i < k
    <3>1. r[i] = q[i] /\ i \in 1 .. Len(q)
      BY <1>2, <1>3, <2>3
    <3> QED BY <1>3, <2>1, <3>1 DEF ToSet
  <2>4. CASE i = k
    BY <1>2, <2>1, <2>4
  <2>5. CASE i > k
    <3>1. i - 1 \in 1 .. Len(q) /\ ~(i < k) /\ i # k
      BY <1>3, <2>5
    <3>2. r[i] = q[i - 1]
      BY <1>2, <3>1
    <3> QED BY <1>3, <2>1, <3>1, <3>2 DEF ToSet
  <2> QED BY <2>2, <2>3, <2>4, <2>5
<1>5. id \in ToSet(r)
  <2>1. r[k] = id
    BY <1>2
  <2> QED BY <1>3, <2>1 DEF ToSet
<1>6. ASSUME NEW x \in ToSet(q) PROVE x \in ToSet(r)
  <2>1. PICK i \in 1 .. Len(q) : x = q[i]
    BY <1>3 DEF ToSet
  <2>2. i < k \/ i >= k
    BY <1>3
  <2>3. CASE i < k
    <3>1. i \in 1 .. Len(q) + 1
      BY <1>3
    <3>2. r[i] = q[i]
      BY <1>2, <2>3, <3>1
    <3> QED BY <1>3, <2>1, <3>1, <3>2 DEF ToSet
  <2>4. CASE i >= k
    <3>1. i + 1 \in 1 .. Len(q) + 1 /\ ~(i + 1 < k) /\ i + 1 # k /\ (i + 1) - 1 = i
      BY <1>3, <2>4
    <3>2. r[i + 1] = q[i]
      BY <1>2, <3>1
    <3> QED BY <1>3, <2>1, <3>1, <3>2 DEF ToSet
  <2> QED BY <2>2, <2>3, <2>4
<1> QED BY <1>1, <1>4, <1>5, <1>6 DEF r

(* ... stays single if it was not there, ... *)
LEMMA InsertByPriorityInjective ==
  ASSUME NEW S, NEW q \in Seq(S), NEW id \in S, NEW weight \in [S -> Nat],
         id \notin ToSet(q), IsInjective(q)
  PROVE  IsInjective(InsertByPriority(q, id, weight))
<1> DEFINE r == InsertByPriority(q, id, weight)
<1> HIDE DEF r
<1>1. r \in Seq(S) /\ Len(r) = Len(q) + 1
  BY InsertByPriorityShape DEF r
<1>0. PICK k \in 1 .. Len(q) + 1 : PutIn(r, q, k, id)
  BY InsertByPriorityShape DEF r
<1>2. \A i \in 1 .. Len(q) + 1 :
        r[i] = IF i < k THEN q[i] ELSE IF i = k THEN id ELSE q[i - 1]
  BY <1>0 DEF PutIn
<1>3. /\ Len(q) \in Nat
      /\ DOMAIN q = 1 .. Len(q)
      /\ DOMAIN r = 1 .. Len(q) + 1
  BY <1>1, LenProperties
<1>4. /\ \A i \in 1 .. Len(q) : q[i] # id
      /\ \A i, j \in 1 .. Len(q) : q[i] = q[j] => i = j
  BY <1>3 DEF ToSet, IsInjective
<1> DEFINE old(i) == IF i < k THEN i ELSE i - 1
<1>5. \A i \in 1 .. Len(q) + 1 : i # k => old(i) \in 1 .. Len(q) /\ r[i] = q[old(i)]
  BY <1>2, <1>3
<1>6. \A i, j \in 1 .. Len(q) + 1 : i # k /\ j # k /\ old(i) = old(j) => i = j
  BY <1>3
<1>7. r[k] = id
  BY <1>2
<1> HIDE DEF old
<1>8. ASSUME NEW i \in 1 .. Len(q) + 1, NEW j \in 1 .. Len(q) + 1, r[i] = r[j]
      PROVE  i = j
  BY <1>4, <1>5, <1>6, <1>7, <1>8
<1> QED BY <1>3, <1>8 DEF IsInjective, r

(* ... and leaves a sorted queue sorted. *)
LEMMA InsertByPrioritySorted ==
  ASSUME NEW S, NEW q \in Seq(S), NEW id \in S, NEW weight \in [S -> Nat],
         SortedByPriority(q, weight)
  PROVE  SortedByPriority(InsertByPriority(q, id, weight), weight)
<1> DEFINE r == InsertByPriority(q, id, weight)
           w(i) == weight[q[i]]
<1> HIDE DEF r
<1>1. r \in Seq(S) /\ Len(r) = Len(q) + 1
  BY InsertByPriorityShape DEF r
<1>0. PICK k \in 1 .. Len(q) + 1 : IsPlace(q, k, id, weight) /\ PutIn(r, q, k, id)
  BY InsertByPriorityShape DEF r
<1>2. /\ \A i \in 1 .. Len(q) : i < k => weight[q[i]] >= weight[id]
      /\ k <= Len(q) => weight[q[k]] < weight[id]
      /\ \A i \in 1 .. Len(q) + 1 :
           r[i] = IF i < k THEN q[i] ELSE IF i = k THEN id ELSE q[i - 1]
  BY <1>0 DEF IsPlace, PutIn
<1>3. /\ Len(q) \in Nat
      /\ DOMAIN q = 1 .. Len(q)
      /\ DOMAIN r = 1 .. Len(q) + 1
      /\ weight[id] \in Nat
      /\ \A i \in 1 .. Len(q) : w(i) \in Nat
  BY <1>1, LenProperties, ElementOfSeq
<1>4. \A i, j \in 1 .. Len(q) : i < j => w(i) >= w(j)
  BY <1>3 DEF SortedByPriority
<1>5. \A i \in 1 .. Len(q) : i >= k => w(i) < weight[id]
  <2> SUFFICES ASSUME NEW i \in 1 .. Len(q), i >= k PROVE w(i) < weight[id]
    OBVIOUS
  <2>1. k \in 1 .. Len(q) /\ w(k) < weight[id] /\ (k < i \/ k = i)
    BY <1>2, <1>3
  <2>2. w(k) >= w(i) \/ k = i
    BY <1>4, <2>1
  <2>3. w(k) \in Nat /\ w(i) \in Nat
    BY <1>3, <2>1
  <2> HIDE DEF w
  <2> QED BY <1>3, <2>1, <2>2, <2>3
<1>6. \A i \in 1 .. Len(q) : i < k => w(i) >= weight[id]
  BY <1>2
<1>7. /\ \A i \in 1 .. Len(q) + 1 : i < k => weight[r[i]] = w(i) /\ i \in 1 .. Len(q)
      /\ \A i \in 1 .. Len(q) + 1 : i > k => weight[r[i]] = w(i - 1) /\ i - 1 \in 1 .. Len(q)
      /\ weight[r[k]] = weight[id]
  BY <1>2, <1>3
<1> HIDE DEF w
<1>8. ASSUME NEW i \in 1 .. Len(q) + 1, NEW j \in 1 .. Len(q) + 1, i < j
      PROVE  weight[r[i]] >= weight[r[j]]
  <2>1. CASE j < k
    BY <1>3, <1>4, <1>7, <1>8, <2>1
  <2>2. CASE j = k
    BY <1>3, <1>6, <1>7, <1>8, <2>2
  <2>3. CASE j > k /\ i < k
    <3>1. w(i) >= weight[id] /\ weight[id] > w(j - 1) /\ w(i) \in Nat /\ w(j - 1) \in Nat
      BY <1>3, <1>5, <1>6, <1>7, <2>3
    <3> QED BY <1>3, <1>7, <2>3, <3>1
  <2>4. CASE j > k /\ i = k
    <3>1. weight[id] > w(j - 1) /\ w(j - 1) \in Nat
      BY <1>3, <1>5, <1>7, <1>8, <2>4
    <3> QED BY <1>3, <1>7, <2>4, <3>1
  <2>5. CASE j > k /\ i > k
    <3>1. i - 1 < j - 1 /\ i - 1 \in 1 .. Len(q) /\ j - 1 \in 1 .. Len(q)
      BY <1>3, <1>7, <1>8, <2>5
    <3> QED BY <1>4, <1>7, <2>5, <3>1
  <2> QED BY <1>3, <2>1, <2>2, <2>3, <2>4, <2>5
<1> QED BY <1>3, <1>8 DEF SortedByPriority, r

(* An entry put into a sorted queue goes behind every entry of at least its *)
(* own weight.                                                             *)
LEMMA InsertByPriorityFifo ==
  ASSUME NEW S, NEW q \in Seq(S), NEW id \in S, NEW weight \in [S -> Nat],
         SortedByPriority(q, weight),
         NEW r, r = InsertByPriority(q, id, weight),
         NEW i \in DOMAIN r, NEW j \in DOMAIN r, i < j,
         r[i] \notin ToSet(q)
  PROVE  weight[r[i]] > weight[r[j]]
<1>1. r \in Seq(S) /\ Len(r) = Len(q) + 1
  BY InsertByPriorityShape
<1>2. PICK k \in 1 .. Len(q) + 1 : IsPlace(q, k, id, weight) /\ PutIn(r, q, k, id)
  BY InsertByPriorityShape
<1>3. /\ Len(q) \in Nat
      /\ DOMAIN q = 1 .. Len(q) /\ DOMAIN r = 1 .. Len(q) + 1
      /\ weight[id] \in Nat
      /\ \A m \in 1 .. Len(q) : q[m] \in ToSet(q) /\ weight[q[m]] \in Nat
  BY <1>1, LenProperties, ElementOfSeq DEF ToSet
<1>4. /\ i \in 1 .. Len(q) + 1 /\ j \in 1 .. Len(q) + 1
      /\ r[i] = IF i < k THEN q[i] ELSE IF i = k THEN id ELSE q[i - 1]
      /\ r[j] = IF j < k THEN q[j] ELSE IF j = k THEN id ELSE q[j - 1]
  BY <1>2, <1>3 DEF PutIn
<1>5. i = k
  <2>1. i < k => i \in 1 .. Len(q)
    BY <1>3, <1>4
  <2>2. i > k => i - 1 \in 1 .. Len(q)
    BY <1>3, <1>4
  <2> QED BY <1>3, <1>4, <2>1, <2>2
<1>6. j - 1 \in 1 .. Len(q) /\ k \in 1 .. Len(q) /\ k <= j - 1
  BY <1>3, <1>4, <1>5
<1>7. r[i] = id /\ r[j] = q[j - 1]
  BY <1>4, <1>5, <1>6
<1>8. weight[q[k]] < weight[id]
  BY <1>2, <1>6 DEF IsPlace
<1>9. weight[q[k]] >= weight[q[j - 1]]
  <2>1. CASE k = j - 1
    BY <1>3, <1>6, <2>1
  <2>2. CASE k < j - 1
    BY <1>3, <1>6, <2>2 DEF SortedByPriority
  <2> QED BY <1>6, <2>1, <2>2
<1> DEFINE x == weight[id]  y == weight[q[k]]  z == weight[q[j - 1]]
<1>10. x \in Nat /\ y \in Nat /\ z \in Nat /\ y < x /\ y >= z
  BY <1>3, <1>6, <1>8, <1>9
<1> HIDE DEF x, y, z
<1>11. x > z
  BY <1>10
<1> QED BY <1>7, <1>11 DEF x, z

(* r keeps some entries of q, in their order: h tells where each one was. *)
KeepsOrder(r, q) ==
  \E h \in [1 .. Len(r) -> 1 .. Len(q)] :
    /\ \A i \in 1 .. Len(r) : r[i] = q[h[i]]
    /\ \A i, j \in 1 .. Len(r) : i < j => h[i] < h[j]

(* What keeps the order keeps entries single and the queue sorted. *)
LEMMA KeepsOrderKeeps ==
  ASSUME NEW S, NEW q \in Seq(S), NEW r \in Seq(S), KeepsOrder(r, q)
  PROVE  /\ ToSet(r) \subseteq ToSet(q)
         /\ IsInjective(q) => IsInjective(r)
         /\ \A weight : SortedByPriority(q, weight) => SortedByPriority(r, weight)
<1>1. PICK h \in [1 .. Len(r) -> 1 .. Len(q)] :
        /\ \A i \in 1 .. Len(r) : r[i] = q[h[i]]
        /\ \A i, j \in 1 .. Len(r) : i < j => h[i] < h[j]
  BY DEF KeepsOrder
<1>2. /\ DOMAIN q = 1 .. Len(q) /\ Len(q) \in Nat
      /\ DOMAIN r = 1 .. Len(r) /\ Len(r) \in Nat
      /\ \A i \in 1 .. Len(r) : h[i] \in 1 .. Len(q)
  BY LenProperties
<1>3. ToSet(r) \subseteq ToSet(q)
  BY <1>1, <1>2 DEF ToSet
<1>4. ASSUME IsInjective(q) PROVE IsInjective(r)
  <2> SUFFICES ASSUME NEW i \in 1 .. Len(r), NEW j \in 1 .. Len(r), r[i] = r[j]
               PROVE  i = j
    BY <1>2 DEF IsInjective
  <2>1. q[h[i]] = q[h[j]]
    BY <1>1
  <2>2. h[i] = h[j]
    BY <1>2, <1>4, <2>1 DEF IsInjective
  <2>3. ~(h[i] < h[j]) /\ ~(h[j] < h[i])
    BY <1>2, <2>2
  <2>4. ~(i < j) /\ ~(j < i)
    BY <1>1, <2>3
  <2> QED BY <1>2, <2>4
<1>5. ASSUME NEW weight, SortedByPriority(q, weight)
      PROVE  SortedByPriority(r, weight)
  <2> SUFFICES ASSUME NEW i \in 1 .. Len(r), NEW j \in 1 .. Len(r), i < j
               PROVE  weight[r[i]] >= weight[r[j]]
    BY <1>2 DEF SortedByPriority
  <2>1. r[i] = q[h[i]] /\ r[j] = q[h[j]] /\ h[i] < h[j]
    BY <1>1
  <2>2. weight[q[h[i]]] >= weight[q[h[j]]]
    BY <1>2, <1>5, <2>1 DEF SortedByPriority
  <2> QED BY <2>1, <2>2
<1> QED BY <1>3, <1>4, <1>5

(* RemoveFirst of an entry leaves a sequence of the same entries. *)
LEMMA RemoveFirstType ==
  ASSUME NEW S, NEW q \in Seq(S), NEW id \in ToSet(q)
  PROVE  RemoveFirst(q, id) \in Seq(S)
<1> DEFINE at == {i \in 1 .. Len(q) : q[i] = id}
           first == SelectInSeq(q, LAMBDA v : v = id)
<1>1. at # {}
  BY LenProperties DEF ToSet
<1>2. first = Min(at)
  <2>1. first = IF at # {} THEN Min(at) ELSE 0
    BY DEF SelectInSeq
  <2> QED BY <1>1, <2>1
<1>3. RemoveFirst(q, id) = RemoveAt(q, first)
  BY <1>1 DEF RemoveFirst
<1>4. Min(at) \in at
  <2>1. at \in SUBSET Nat
    OBVIOUS
  <2> HIDE DEF at
  <2>2. \E m \in at : \A n \in at : m <= n
    BY <1>1, <2>1, LeastExists
  <2> QED BY <2>2 DEF Min
<1> HIDE DEF first
<1> QED BY <1>2, <1>3, <1>4, RemoveAtProperties

(* RemoveFirst of an entry that is there once removes exactly it. *)
LEMMA RemoveFirstEntries ==
  ASSUME NEW S, NEW q \in Seq(S), IsInjective(q), NEW id \in ToSet(q)
  PROVE  /\ RemoveFirst(q, id) \in Seq(S)
         /\ KeepsOrder(RemoveFirst(q, id), q)
         /\ ToSet(RemoveFirst(q, id)) = ToSet(q) \ {id}
<1> DEFINE at == {i \in 1 .. Len(q) : q[i] = id}
           r == RemoveFirst(q, id)
           first == SelectInSeq(q, LAMBDA v : v = id)
<1>0. Len(q) \in Nat /\ DOMAIN q = 1 .. Len(q)
  BY LenProperties
<1>a. first = IF at # {} THEN Min(at) ELSE 0
  BY DEF SelectInSeq
<1>b. r = IF at # {} THEN RemoveAt(q, first) ELSE q
  BY DEF RemoveFirst
<1> HIDE DEF first, r
<1>1. PICK k \in 1 .. Len(q) : q[k] = id
  BY <1>0 DEF ToSet
<1>2. at = {k}
  BY <1>0, <1>1 DEF IsInjective
<1>3. Min({k}) = k
  BY <1>0 DEF Min
<1>4. r = RemoveAt(q, k)
  BY <1>2, <1>3, <1>a, <1>b
<1>5. /\ r \in Seq(S)
      /\ Len(r) = Len(q) - 1
      /\ \A i \in 1 .. Len(q) - 1 : r[i] = IF i < k THEN q[i] ELSE q[i + 1]
  BY <1>4, RemoveAtProperties
<1>6. DOMAIN r = 1 .. Len(q) - 1
  BY <1>5, LenProperties
<1> DEFINE h == [i \in 1 .. Len(r) |-> IF i < k THEN i ELSE i + 1]
<1>7. h \in [1 .. Len(r) -> 1 .. Len(q)] /\ \A i \in 1 .. Len(r) : h[i] # k
  BY <1>0, <1>5
<1>8. \A i \in 1 .. Len(r) : r[i] = q[h[i]]
  BY <1>0, <1>5
<1>9. \A i, j \in 1 .. Len(r) : i < j => h[i] < h[j]
  BY <1>0, <1>5
<1>10. \A j \in 1 .. Len(q) : j # k => \E i \in 1 .. Len(r) : h[i] = j
  <2> SUFFICES ASSUME NEW j \in 1 .. Len(q), j # k PROVE \E i \in 1 .. Len(r) : h[i] = j
    OBVIOUS
  <2>1. CASE j < k
    <3>1. j \in 1 .. Len(r)
      BY <1>0, <1>5, <2>1
    <3> QED BY <2>1, <3>1
  <2>2. CASE j > k
    <3>1. j - 1 \in 1 .. Len(r) /\ ~(j - 1 < k) /\ (j - 1) + 1 = j
      BY <1>0, <1>5, <2>2
    <3>2. h[j - 1] = j
      BY <3>1
    <3> QED BY <3>1, <3>2
  <2> QED BY <1>0, <2>1, <2>2
<1> HIDE DEF h
<1>11. KeepsOrder(r, q)
  BY <1>7, <1>8, <1>9 DEF KeepsOrder
<1>12. \A j \in 1 .. Len(q) : q[j] = id => j = k
  BY <1>0, <1>1 DEF IsInjective
<1>13. ASSUME NEW x \in ToSet(r) PROVE x \in ToSet(q) \ {id}
  <2>1. PICK i \in 1 .. Len(r) : x = r[i]
    BY <1>5, <1>6 DEF ToSet
  <2>2. x = q[h[i]] /\ h[i] \in 1 .. Len(q) /\ h[i] # k
    BY <1>7, <1>8, <2>1
  <2> QED BY <1>0, <1>12, <2>2 DEF ToSet
<1>14. ASSUME NEW x \in ToSet(q), x # id PROVE x \in ToSet(r)
  <2>1. PICK j \in 1 .. Len(q) : x = q[j]
    BY <1>0 DEF ToSet
  <2>2. PICK i \in 1 .. Len(r) : h[i] = j
    BY <1>1, <1>10, <1>14, <2>1
  <2> QED BY <1>5, <1>6, <1>8, <2>1, <2>2 DEF ToSet
<1> QED BY <1>5, <1>11, <1>13, <1>14 DEF r

(* One unfolding of the recursive function in Without. *)
Left(q, taken, f, i) ==
  IF i = 0 THEN << >>
  ELSE IF q[i] \in taken THEN f[i - 1]
  ELSE Append(f[i - 1], q[i])

(* h lists, in order, the positions up to n whose entries are not taken. *)
LeftBy(q, taken, n, r, h) ==
  /\ h \in [1 .. Len(r) -> 1 .. n]
  /\ \A i \in 1 .. Len(r) : r[i] = q[h[i]] /\ q[h[i]] \notin taken
  /\ \A i, j \in 1 .. Len(r) : i < j => h[i] < h[j]
  /\ \A j \in 1 .. n : q[j] \notin taken => \E i \in 1 .. Len(r) : h[i] = j

(* The recursive function exists: there is one on 0 .. n for every n. *)
LEMMA LeftExists ==
  ASSUME NEW q, NEW taken, NEW n \in Nat
  PROVE  \E f : f = [i \in 0 .. n |-> Left(q, taken, f, i)]
<1> DEFINE S == {m \in Nat : \E f : f = [i \in 0 .. m |-> Left(q, taken, f, i)]}
<1>1. 0 \in S
  <2> DEFINE f == [i \in 0 .. 0 |-> << >>]
  <2>1. f = [i \in 0 .. 0 |-> Left(q, taken, f, i)]
    BY DEF Left
  <2> QED BY <2>1
<1>2. ASSUME NEW m \in Nat, m \in S PROVE m + 1 \in S
  <2>1. PICK f : f = [i \in 0 .. m |-> Left(q, taken, f, i)]
    BY <1>2
  <2> DEFINE g == [i \in 0 .. m + 1 |->
                     IF i <= m THEN f[i] ELSE Left(q, taken, f, m + 1)]
  <2>2. \A i \in 0 .. m : g[i] = f[i] /\ f[i] = Left(q, taken, f, i)
    BY <2>1
  <2>3. g[m + 1] = Left(q, taken, f, m + 1)
    BY <1>2
  <2>4. \A i \in 0 .. m + 1 : i # 0 => i - 1 \in 0 .. m
    BY <1>2
  <2>5. \A i \in 0 .. m + 1 : Left(q, taken, g, i) = Left(q, taken, f, i)
    <3> HIDE DEF g
    <3> QED BY <2>2, <2>4 DEF Left
  <2>6. \A i \in 0 .. m + 1 : i \in 0 .. m \/ i = m + 1
    BY <1>2
  <2>7. \A i \in 0 .. m + 1 : g[i] = Left(q, taken, g, i)
    <3> HIDE DEF g
    <3> QED BY <2>2, <2>3, <2>5, <2>6
  <2>8. g = [i \in 0 .. m + 1 |-> g[i]]
    OBVIOUS
  <2>9. g = [i \in 0 .. m + 1 |-> Left(q, taken, g, i)]
    <3> HIDE DEF g
    <3> QED BY <2>7, <2>8
  <2>10. \E e : e = [i \in 0 .. m + 1 |-> Left(q, taken, e, i)]
    <3> HIDE DEF g
    <3> QED BY <2>9
  <2> QED BY <1>2, <2>10
<1>3. Nat \subseteq S
  <2> HIDE DEF S
  <2> QED BY <1>1, <1>2, InductionOnNat
<1> QED BY <1>3

(* Without keeps the entries that are not taken, in their order. *)
LEMMA WithoutEntries ==
  ASSUME NEW S, NEW q \in Seq(S), NEW taken
  PROVE  /\ Without(q, taken) \in Seq(S)
         /\ KeepsOrder(Without(q, taken), q)
         /\ ToSet(Without(q, taken)) = ToSet(q) \ taken
<1> DEFINE f == CHOOSE g : g = [i \in 0 .. Len(q) |-> Left(q, taken, g, i)]
<1>0. /\ Len(q) \in Nat /\ DOMAIN q = 1 .. Len(q)
      /\ \A i \in 1 .. Len(q) : q[i] \in S
  BY LenProperties, ElementOfSeq
<1>1. Without(q, taken) = f[Len(q)]
  BY DEF Without, Left
<1>2. f = [i \in 0 .. Len(q) |-> Left(q, taken, f, i)]
  BY <1>0, LeftExists
<1> HIDE DEF f
<1>3. /\ f[0] = << >>
      /\ \A i \in 1 .. Len(q) :
           f[i] = IF q[i] \in taken THEN f[i - 1] ELSE Append(f[i - 1], q[i])
  <2>1. \A i \in 0 .. Len(q) : f[i] = Left(q, taken, f, i)
    BY <1>2
  <2>2. 0 \in 0 .. Len(q) /\ \A i \in 1 .. Len(q) : i \in 0 .. Len(q) /\ i # 0
    BY <1>0
  <2> QED BY <2>1, <2>2 DEF Left
<1> DEFINE OK(n) == f[n] \in Seq(S) /\ \E h : LeftBy(q, taken, n, f[n], h)
           N == {n \in Nat : n <= Len(q) => OK(n)}
<1>4. 0 \in N
  <2> DEFINE h == [i \in 1 .. 0 |-> i]
  <2>1. LeftBy(q, taken, 0, << >>, h)
    BY DEF LeftBy
  <2>2. << >> \in Seq(S)
    OBVIOUS
  <2>3. f[0] \in Seq(S) /\ LeftBy(q, taken, 0, f[0], h)
    BY <1>3, <2>1, <2>2
  <2> HIDE DEF h
  <2> QED BY <2>3
<1>5. ASSUME NEW n \in Nat, n \in N PROVE n + 1 \in N
  <2> SUFFICES ASSUME n + 1 <= Len(q) PROVE OK(n + 1)
    OBVIOUS
  <2>1. n + 1 \in 1 .. Len(q) /\ (n + 1) - 1 = n /\ q[n + 1] \in S
    BY <1>0
  <2>2. f[n] \in Seq(S) /\ \E h : LeftBy(q, taken, n, f[n], h)
    BY <1>0, <1>5
  <2>3. PICK h : LeftBy(q, taken, n, f[n], h)
    BY <2>2
  <2> DEFINE r == f[n]
             l == Len(r)
  <2>4. /\ h \in [1 .. l -> 1 .. n]
        /\ \A i \in 1 .. l : r[i] = q[h[i]] /\ q[h[i]] \notin taken
        /\ \A i, j \in 1 .. l : i < j => h[i] < h[j]
        /\ \A j \in 1 .. n : q[j] \notin taken => \E i \in 1 .. l : h[i] = j
    BY <2>3 DEF LeftBy
  <2>5. l \in Nat /\ \A i \in 1 .. l : h[i] \in 1 .. n
    BY <2>2, <2>4, LenProperties
  <2>6. \A j \in 1 .. n + 1 : j \in 1 .. n \/ j = n + 1
    BY <1>5
  <2>7. CASE q[n + 1] \in taken
    <3>1. f[n + 1] = r
      BY <1>3, <2>1, <2>7
    <3>2. h \in [1 .. l -> 1 .. n + 1]
      BY <1>5, <2>4, <2>5
    <3>3. \A j \in 1 .. n + 1 : q[j] \notin taken => \E i \in 1 .. l : h[i] = j
      BY <2>4, <2>6, <2>7
    <3>4. LeftBy(q, taken, n + 1, r, h)
      <4> HIDE DEF r
      <4> QED BY <2>4, <3>2, <3>3 DEF LeftBy
    <3> QED BY <2>2, <3>1, <3>4
  <2>8. CASE q[n + 1] \notin taken
    <3> DEFINE s == Append(r, q[n + 1])
               k == [i \in 1 .. l + 1 |-> IF i = l + 1 THEN n + 1 ELSE h[i]]
    <3>1. f[n + 1] = s
      BY <1>3, <2>1, <2>8
    <3>2. /\ s \in Seq(S) /\ Len(s) = l + 1
          /\ \A i \in 1 .. l : s[i] = r[i]
          /\ s[l + 1] = q[n + 1]
      BY <2>1, <2>2, AppendProperties
    <3>3. \A i \in 1 .. l + 1 : i \in 1 .. l \/ i = l + 1
      BY <2>5
    <3>4. /\ \A i \in 1 .. l : i \in 1 .. l + 1 /\ i # l + 1
          /\ l + 1 \in 1 .. l + 1
      BY <2>5
    <3>5. k[l + 1] = n + 1 /\ \A i \in 1 .. l : k[i] = h[i]
      BY <3>4
    <3>6. k \in [1 .. l + 1 -> 1 .. n + 1]
      BY <1>5, <2>5, <3>3
    <3> HIDE DEF r, s, k, l
    <3>7. \A i \in 1 .. l + 1 : s[i] = q[k[i]] /\ q[k[i]] \notin taken
      BY <2>4, <2>8, <3>2, <3>3, <3>5
    <3>8. \A i, j \in 1 .. l + 1 : i < j => k[i] < k[j]
      <4> SUFFICES ASSUME NEW i \in 1 .. l + 1, NEW j \in 1 .. l + 1, i < j
                   PROVE  k[i] < k[j]
        OBVIOUS
      <4>1. i \in 1 .. l
        BY <2>5
      <4>2. CASE j \in 1 .. l
        BY <2>4, <3>5, <4>1, <4>2
      <4>3. CASE j = l + 1
        <5>1. k[i] = h[i] /\ h[i] \in 1 .. n /\ k[j] = n + 1
          BY <2>5, <3>5, <4>1, <4>3
        <5> QED BY <1>5, <5>1
      <4> QED BY <3>3, <4>2, <4>3
    <3>9. \A j \in 1 .. n + 1 : q[j] \notin taken => \E i \in 1 .. l + 1 : k[i] = j
      BY <2>4, <2>6, <3>4, <3>5
    <3>10. LeftBy(q, taken, n + 1, s, k)
      BY <3>2, <3>6, <3>7, <3>8, <3>9 DEF LeftBy
    <3> QED BY <3>1, <3>2, <3>10
  <2> QED BY <2>7, <2>8
<1>6. OK(Len(q))
  <2>1. Nat \subseteq N
    <3> HIDE DEF N
    <3> QED BY <1>4, <1>5, InductionOnNat
  <2> QED BY <1>0, <2>1
<1>7. PICK h : LeftBy(q, taken, Len(q), Without(q, taken), h)
  BY <1>1, <1>6
<1>8. Without(q, taken) \in Seq(S)
  BY <1>1, <1>6
<1> DEFINE r == Without(q, taken)
<1> HIDE DEF r
<1>9. /\ h \in [1 .. Len(r) -> 1 .. Len(q)]
      /\ \A i \in 1 .. Len(r) : r[i] = q[h[i]] /\ q[h[i]] \notin taken
      /\ \A i, j \in 1 .. Len(r) : i < j => h[i] < h[j]
      /\ \A j \in 1 .. Len(q) : q[j] \notin taken => \E i \in 1 .. Len(r) : h[i] = j
  BY <1>7 DEF LeftBy, r
<1>10. DOMAIN r = 1 .. Len(r)
  BY <1>8, LenProperties DEF r
<1>11. KeepsOrder(r, q)
  BY <1>9 DEF KeepsOrder
<1>12. ASSUME NEW x \in ToSet(r) PROVE x \in ToSet(q) \ taken
  BY <1>0, <1>9, <1>10 DEF ToSet
<1>13. ASSUME NEW x \in ToSet(q), x \notin taken PROVE x \in ToSet(r)
  <2>1. PICK j \in 1 .. Len(q) : x = q[j]
    BY <1>0 DEF ToSet
  <2>2. PICK i \in 1 .. Len(r) : h[i] = j
    BY <1>9, <1>13, <2>1
  <2> QED BY <1>9, <1>10, <2>1, <2>2 DEF ToSet
<1> QED BY <1>8, <1>11, <1>12, <1>13 DEF r
=============================================================================
