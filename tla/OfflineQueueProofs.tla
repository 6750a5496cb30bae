-------------------------- MODULE OfflineQueueProofs --------------------------
(***************************************************************************)
(* Proofs about OfflineQueue: its safety properties, and that it is a      *)
(* durable outbox.  The argument is about order: what is queued or in a    *)
(* batch ascends, so that each operation is there once, and what was taken *)
(* by a sync was accepted before what is in the queue.                     *)
(***************************************************************************)
EXTENDS OfflineQueue, PriorityQueueProofs

Q == ToSet(queuedOperations)
B(s) == ToSet(toProcess[s])

(* The queue, what is stored and every batch ascend. *)
Ascending ==
  /\ IsAscending(queuedOperations)
  /\ IsAscending(stored)
  /\ \A s \in Sync : IsAscending(toProcess[s])

(* What a sync has taken was accepted before what is queued. *)
TakenFirst == \A s \in Sync : \A x \in B(s), y \in Q : x < y

(* Every operation that is anywhere has been accepted. *)
Numbered ==
  /\ \A op \in Q \cup ToSet(stored) \cup direct \cup executed : op <= accepted
  /\ \A s \in Sync : \A op \in B(s) : op <= accepted

(* What is stored is known elsewhere too: a removed operation is not.      *)
StoredKnown == \A op \in ToSet(stored) : op \in Q \cup executed \/ \E s \in Sync : op \in B(s)

(* OnePlace, without what follows from the order. *)
Apart ==
  /\ Q \cap (direct \cup executed) = {}
  /\ direct \cap executed = {}
  /\ \A s \in Sync : B(s) \cap (direct \cup executed) = {}
  /\ \A s, t \in Sync : s # t => B(s) \cap B(t) = {}

(* StoredIsQueue, with the sync under way. *)
Saved == stored = queuedOperations \/ (queuedOperations = << >> /\ \E s \in Sync : toProcess[s] # << >>)

IInv ==
  /\ TypeOK
  /\ QueueBounded
  /\ Ascending
  /\ TakenFirst
  /\ Numbered
  /\ StoredKnown
  /\ Apart
  /\ Saved

------------------------------------------------------------------------------
LEMMA OpNat == Op \subseteq Nat
BY OfflineAssumption DEF Op

(* Ascending sequences. *)
LEMMA EmptyFacts == ToSet(<< >>) = {} /\ IsAscending(<< >>) /\ << >> \in Seq(Op) /\ Len(<< >>) = 0
BY EmptySeq DEF ToSet, IsAscending

LEMMA MembersTyped == ASSUME NEW q \in Seq(Op) PROVE ToSet(q) \subseteq Op
BY LenProperties DEF ToSet

LEMMA AscendingInjective ==
  ASSUME NEW q \in Seq(Op), IsAscending(q)
  PROVE  IsInjective(q)
<1>1. Len(q) \in Nat /\ DOMAIN q = 1 .. Len(q) /\ \A i \in 1 .. Len(q) : q[i] \in Nat
  BY LenProperties, OpNat
<1> QED BY <1>1 DEF IsAscending, IsInjective

LEMMA AppendFacts ==
  ASSUME NEW q \in Seq(Op), NEW op \in Op, IsAscending(q), \A x \in ToSet(q) : x < op
  PROVE  /\ Append(q, op) \in Seq(Op)
         /\ Len(Append(q, op)) = Len(q) + 1
         /\ ToSet(Append(q, op)) = ToSet(q) \cup {op}
         /\ IsAscending(Append(q, op))
<1> DEFINE r == Append(q, op)
<1>1. /\ r \in Seq(Op) /\ Len(r) = Len(q) + 1
      /\ \A i \in 1 .. Len(q) : r[i] = q[i]
      /\ r[Len(q) + 1] = op
  BY AppendProperties
<1>2. /\ Len(q) \in Nat /\ DOMAIN q = 1 .. Len(q)
      /\ DOMAIN r = 1 .. Len(q) + 1 /\ \A i \in 1 .. Len(q) : q[i] \in Nat
  BY <1>1, LenProperties, OpNat
<1> HIDE DEF r
<1>3. ToSet(r) = ToSet(q) \cup {op}
  BY <1>1, <1>2 DEF ToSet
<1>4. ASSUME NEW i \in DOMAIN r, NEW j \in DOMAIN r, i < j PROVE r[i] < r[j]
  <2>1. CASE j = Len(q) + 1
    BY <1>1, <1>2, <1>4, <2>1 DEF ToSet
  <2>2. CASE j # Len(q) + 1
    BY <1>1, <1>2, <1>4, <2>2 DEF IsAscending
  <2> QED BY <2>1, <2>2
<1>5. IsAscending(r)
  BY <1>4 DEF IsAscending
<1> QED BY <1>1, <1>3, <1>5 DEF r

LEMMA TailFacts ==
  ASSUME NEW q \in Seq(Op), q # << >>, IsAscending(q)
  PROVE  /\ Tail(q) \in Seq(Op)
         /\ Len(Tail(q)) = Len(q) - 1
         /\ Head(q) \in Op
         /\ ToSet(q) = {Head(q)} \cup ToSet(Tail(q))
         /\ IsAscending(Tail(q))
         /\ \A x \in ToSet(Tail(q)) : Head(q) < x
<1> DEFINE r == Tail(q)
<1>1. /\ r \in Seq(Op) /\ Len(r) = Len(q) - 1 /\ Head(q) \in Op
      /\ \A i \in 1 .. Len(r) : r[i] = q[i + 1]
  BY HeadTailProperties
<1>2. /\ Len(q) \in Nat \ {0} /\ DOMAIN q = 1 .. Len(q) /\ DOMAIN r = 1 .. Len(r)
      /\ \A i \in 1 .. Len(q) : q[i] \in Nat
  BY <1>1, EmptySeq, LenProperties, OpNat
<1>3. Head(q) = q[1]
  BY <1>2
<1> HIDE DEF r
<1>4. ToSet(q) = {q[1]} \cup ToSet(r)
  <2>1. ASSUME NEW x \in ToSet(q) PROVE x = q[1] \/ x \in ToSet(r)
    <3>1. PICK i \in 1 .. Len(q) : x = q[i]
      BY <1>2 DEF ToSet
    <3>2. CASE i = 1
      BY <3>1, <3>2
    <3>3. CASE i # 1
      <4>1. i - 1 \in 1 .. Len(r) /\ r[i - 1] = q[(i - 1) + 1] /\ (i - 1) + 1 = i
        BY <1>1, <1>2, <3>3
      <4> QED BY <1>2, <3>1, <4>1 DEF ToSet
    <3> QED BY <3>2, <3>3
  <2>2. \A i \in 1 .. Len(r) : r[i] \in ToSet(q)
    BY <1>1, <1>2 DEF ToSet
  <2>3. q[1] \in ToSet(q)
    BY <1>2 DEF ToSet
  <2> QED BY <1>2, <2>1, <2>2, <2>3 DEF ToSet
<1>5. \A i \in 1 .. Len(r) : i + 1 \in 1 .. Len(q) /\ i + 1 \in Nat /\ i \in Nat /\ i + 1 > 1
  BY <1>1, <1>2
<1>6. ASSUME NEW i \in DOMAIN r, NEW j \in DOMAIN r, i < j PROVE r[i] < r[j]
  <2>1. i + 1 < j + 1
    BY <1>2, <1>5, <1>6
  <2>2. q[i + 1] < q[j + 1]
    BY <1>2, <1>5, <2>1 DEF IsAscending
  <2> QED BY <1>1, <1>2, <2>2
<1>7. IsAscending(r)
  BY <1>6 DEF IsAscending
<1>8. ASSUME NEW x \in ToSet(r) PROVE q[1] < x
  <2>1. PICK i \in 1 .. Len(r) : x = q[i + 1]
    BY <1>1, <1>2 DEF ToSet
  <2>2. 1 \in DOMAIN q /\ i + 1 \in DOMAIN q /\ 1 < i + 1
    BY <1>2, <1>5
  <2> QED BY <2>1, <2>2 DEF IsAscending
<1> QED BY <1>1, <1>3, <1>4, <1>7, <1>8 DEF r

LEMMA RemoveAtFacts ==
  ASSUME NEW q \in Seq(Op), NEW k \in DOMAIN q, IsAscending(q)
  PROVE  /\ RemoveAt(q, k) \in Seq(Op)
         /\ Len(RemoveAt(q, k)) = Len(q) - 1
         /\ ToSet(RemoveAt(q, k)) \subseteq ToSet(q)
         /\ IsAscending(RemoveAt(q, k))
<1> DEFINE r == RemoveAt(q, k)
<1>1. Len(q) \in Nat /\ DOMAIN q = 1 .. Len(q) /\ \A i \in 1 .. Len(q) : q[i] \in Nat
  BY LenProperties, OpNat
<1>2. /\ r \in Seq(Op) /\ Len(r) = Len(q) - 1
      /\ \A i \in 1 .. Len(q) - 1 : r[i] = IF i < k THEN q[i] ELSE q[i + 1]
  BY <1>1, RemoveAtProperties
<1>3. DOMAIN r = 1 .. Len(q) - 1
  BY <1>2, LenProperties
<1> HIDE DEF r
<1>4. ASSUME NEW i \in DOMAIN r, NEW j \in DOMAIN r, i < j PROVE r[i] < r[j]
  <2> DEFINE from(n) == IF n < k THEN n ELSE n + 1
  <2>1. /\ from(i) \in DOMAIN q /\ from(j) \in DOMAIN q /\ from(i) < from(j)
        /\ r[i] = q[from(i)] /\ r[j] = q[from(j)]
    BY <1>1, <1>2, <1>3, <1>4
  <2> HIDE DEF from
  <2> QED BY <2>1 DEF IsAscending
<1>5. ASSUME NEW i \in DOMAIN r PROVE r[i] \in ToSet(q)
  <2>1. i \in 1 .. Len(q) /\ i + 1 \in 1 .. Len(q)
    BY <1>1, <1>3
  <2> QED BY <1>1, <1>2, <1>3, <2>1 DEF ToSet
<1>6. IsAscending(r) /\ ToSet(r) \subseteq ToSet(q)
  BY <1>4, <1>5 DEF IsAscending, ToSet
<1> QED BY <1>2, <1>6 DEF r

LEMMA MakeRoomFacts ==
  ASSUME NEW q \in Seq(Op), IsAscending(q), Len(q) <= MAX_QUEUE_SIZE
  PROVE  /\ MakeRoom(q) \in Seq(Op)
         /\ Len(MakeRoom(q)) < MAX_QUEUE_SIZE
         /\ IsAscending(MakeRoom(q))
         /\ ToSet(MakeRoom(q)) \subseteq ToSet(q)
         /\ \/ ToSet(MakeRoom(q)) = ToSet(q)
            \/ \E x \in ToSet(q) :
                 /\ ToSet(MakeRoom(q)) = ToSet(q) \ {x}
                 /\ \A y \in ToSet(q) : x <= y
<1>1. MAX_QUEUE_SIZE \in Nat \ {0} /\ Len(q) \in Nat
  BY OfflineAssumption, LenProperties
<1>2. CASE Len(q) >= MAX_QUEUE_SIZE
  <2>1. MakeRoom(q) = Tail(q) /\ q # << >>
    BY <1>1, <1>2, EmptyFacts DEF MakeRoom
  <2>2. ToSet(q) \subseteq Nat
    BY MembersTyped, OpNat
  <2>3. /\ Tail(q) \in Seq(Op) /\ Len(Tail(q)) = Len(q) - 1
        /\ Head(q) \in Op /\ IsAscending(Tail(q))
        /\ ToSet(q) = {Head(q)} \cup ToSet(Tail(q))
        /\ \A x \in ToSet(Tail(q)) : Head(q) < x
    BY <2>1, TailFacts
  <2>4. ToSet(Tail(q)) = ToSet(q) \ {Head(q)} /\ \A y \in ToSet(q) : Head(q) <= y
    <3> DEFINE h == Head(q)
               t == ToSet(Tail(q))
    <3>1. h \in Nat /\ t \subseteq Nat /\ ToSet(q) = {h} \cup t /\ \A x \in t : h < x
      BY <2>2, <2>3
    <3> HIDE DEF h, t
    <3>2. h \notin t /\ \A y \in {h} \cup t : h <= y
      BY <3>1
    <3>3. t = ToSet(q) \ {h} /\ \A y \in ToSet(q) : h <= y
      BY <3>1, <3>2
    <3> QED BY <3>3 DEF h, t
  <2> QED BY <1>1, <2>1, <2>3, <2>4
<1>3. CASE ~(Len(q) >= MAX_QUEUE_SIZE)
  BY <1>1, <1>3 DEF MakeRoom
<1> QED BY <1>2, <1>3

------------------------------------------------------------------------------
(* The invariant, one lemma per action that disturbs it. *)

LEMMA InitInv == Init => IInv
<1> SUFFICES ASSUME Init PROVE IInv
  OBVIOUS
<1>1. \A s \in Sync : toProcess[s] = << >>
  BY DEF Init
<1>2. 0 \in 0 .. MaxOps /\ 0 \in 0 .. MaxRestarts /\ 0 <= MAX_QUEUE_SIZE
  BY OfflineAssumption
<1>3. TypeOK /\ QueueBounded
  BY <1>2, EmptyFacts DEF Init, TypeOK, QueueBounded
<1>4. Q = {} /\ ToSet(stored) = {} /\ \A s \in Sync : B(s) = {}
  BY <1>1, EmptyFacts DEF Init, Q, B
<1>5. Ascending /\ TakenFirst /\ Numbered /\ StoredKnown /\ Apart /\ Saved
  BY <1>1, <1>4, EmptyFacts
  DEF Init, Ascending, TakenFirst, Numbered, StoredKnown, Apart, Saved
<1> QED BY <1>3, <1>5 DEF IInv

(* What the invariant says of the numbers there are. *)
LEMMA Numbers ==
  ASSUME IInv
  PROVE  /\ Q \subseteq Nat /\ ToSet(stored) \subseteq Op /\ Q \subseteq Op
         /\ \A s \in Sync : B(s) \subseteq Nat /\ B(s) \subseteq Op
         /\ accepted \in Nat /\ MaxOps \in Nat
<1>1. /\ queuedOperations \in Seq(Op) /\ stored \in Seq(Op) /\ accepted \in 0 .. MaxOps
      /\ \A s \in Sync : toProcess[s] \in Seq(Op)
  BY DEF IInv, TypeOK
<1>2. /\ Q \subseteq Op /\ ToSet(stored) \subseteq Op /\ \A s \in Sync : B(s) \subseteq Op
  BY <1>1, MembersTyped DEF Q, B
<1>3. MaxOps \in Nat /\ accepted \in Nat
  BY <1>1, OfflineAssumption
<1> QED BY <1>2, <1>3, OpNat

LEMMA QueueStep ==
  ASSUME IInv, QueueOperation
  PROVE  IInv'
<1> DEFINE op == accepted + 1
<1>1. op \in Op /\ op \in Nat /\ accepted' = op /\ accepted \in Nat /\ accepted < op
  BY OfflineAssumption DEF IInv, TypeOK, QueueOperation, Op
<1>2. CASE isCurrentlyOnline
  <2>1. /\ direct' = direct \cup {op}
        /\ UNCHANGED <<queuedOperations, stored, toProcess, isCurrentlyOnline, syncInterval,
                       executed, restarts>>
    BY <1>2 DEF QueueOperation
  <2>2. op \notin Q /\ op \notin executed /\ \A s \in Sync : op \notin B(s)
    BY <1>1, Numbers DEF IInv, Numbered, TypeOK
  <2>3. TypeOK'
    <3>1. accepted' \in 0 .. MaxOps
      BY <1>1, Numbers DEF Op
    <3> QED BY <1>1, <2>1, <3>1 DEF IInv, TypeOK
  <2>5. Numbered'
    <3>1. ASSUME NEW x \in Nat, x <= accepted PROVE x <= op
      BY <1>1, <3>1
    <3>2. executed \subseteq Nat /\ direct \subseteq Nat /\ ToSet(stored) \subseteq Nat
      BY OpNat, Numbers DEF IInv, TypeOK
    <3>4. op <= op
      BY <1>1
    <3>3. Q' = Q /\ ToSet(stored') = ToSet(stored) /\ \A s \in Sync : B(s)' = B(s)
      BY <2>1 DEF Q, B
    <3> QED BY <1>1, <2>1, <3>1, <3>2, <3>3, <3>4, Numbers DEF IInv, Numbered
  <2>4. Apart'
    BY <2>1, <2>2 DEF IInv, Apart, Q, B
  <2> QED
    BY <2>1, <2>3, <2>4, <2>5 DEF IInv, QueueBounded, Ascending, TakenFirst, StoredKnown, Saved, Q, B
<1>3. CASE ~isCurrentlyOnline
  <2> DEFINE r == MakeRoom(queuedOperations)
  <2>1. /\ queuedOperations' = Append(r, op) /\ stored' = Append(r, op)
        /\ UNCHANGED <<direct, toProcess, isCurrentlyOnline, syncInterval, executed, restarts>>
    BY <1>3 DEF QueueOperation
  <2>2. /\ r \in Seq(Op) /\ IsAscending(r) /\ ToSet(r) \subseteq Q
        /\ Len(r) < MAX_QUEUE_SIZE
    BY MakeRoomFacts DEF IInv, TypeOK, QueueBounded, Ascending, Q
  <2>3. /\ op \notin direct /\ op \notin executed
        /\ \A x \in Q : x < op
        /\ \A s \in Sync : \A x \in B(s) : x < op
    BY <1>1, Numbers, OpNat DEF IInv, Numbered, TypeOK
  <2> HIDE DEF r, op
  <2>4. /\ Append(r, op) \in Seq(Op) /\ Len(Append(r, op)) = Len(r) + 1
        /\ ToSet(Append(r, op)) = ToSet(r) \cup {op} /\ IsAscending(Append(r, op))
    BY <1>1, <2>2, <2>3, AppendFacts
  <2>5. Q' = ToSet(r) \cup {op} /\ ToSet(stored') = Q' /\ \A s \in Sync : B(s)' = B(s)
    BY <2>1, <2>4 DEF Q, B
  <2>6. TypeOK' /\ QueueBounded'
    <3>1. Len(r) \in Nat /\ MAX_QUEUE_SIZE \in Nat
      BY <2>2, LenProperties, OfflineAssumption
    <3>2. accepted' \in 0 .. MaxOps
      BY <1>1, Numbers DEF Op
    <3> QED BY <2>1, <2>2, <2>4, <3>1, <3>2 DEF IInv, TypeOK, QueueBounded
  <2>7. Ascending' /\ TakenFirst'
    BY <2>1, <2>2, <2>3, <2>4, <2>5 DEF IInv, Ascending, TakenFirst
  <2>8. Numbered'
    <3>1. ASSUME NEW x \in Nat, x <= accepted PROVE x <= op
      BY <1>1, <3>1
    <3>2. executed \subseteq Nat /\ direct \subseteq Nat
      BY OpNat DEF IInv, TypeOK
    <3>3. op <= op
      BY <1>1
    <3> QED BY <1>1, <2>1, <2>2, <2>5, <3>1, <3>2, <3>3, Numbers DEF IInv, Numbered
  <2>9. StoredKnown' /\ Apart' /\ Saved'
    BY <2>1, <2>2, <2>3, <2>5, Numbers, <1>1 DEF IInv, StoredKnown, Apart, Saved
  <2> QED BY <2>6, <2>7, <2>8, <2>9 DEF IInv
<1> QED BY <1>2, <1>3

LEMMA DirectStep ==
  ASSUME IInv, NEW op \in direct, DirectExecuted(op)
  PROVE  IInv'
<1>1. /\ direct' = direct \ {op} /\ executed' = executed \cup {op}
      /\ UNCHANGED <<isCurrentlyOnline, queuedOperations, stored, syncInterval, toProcess,
                     accepted, restarts>>
  BY DEF DirectExecuted
<1>2. op \notin Q /\ \A s \in Sync : op \notin B(s)
  BY DEF IInv, Apart
<1>3. TypeOK' /\ Numbered'
  BY <1>1 DEF IInv, TypeOK, Numbered, Q, B
<1>4. Apart' /\ StoredKnown'
  BY <1>1, <1>2 DEF IInv, Apart, StoredKnown, Q, B
<1> QED
  BY <1>1, <1>3, <1>4 DEF IInv, QueueBounded, Ascending, TakenFirst, Saved, Q, B

(* The queue becomes a part of what it was, and is stored. *)
LEMMA ShrinkStep ==
  ASSUME IInv, queuedOperations' \in Seq(Op), Len(queuedOperations') <= Len(queuedOperations),
         ToSet(queuedOperations') \subseteq Q, IsAscending(queuedOperations'),
         stored' = queuedOperations', syncInterval' \in BOOLEAN,
         UNCHANGED <<isCurrentlyOnline, toProcess, direct, accepted, executed, restarts>>
  PROVE  IInv'
<1>1. Q' \subseteq Q /\ ToSet(stored') = Q' /\ \A s \in Sync : B(s)' = B(s)
  BY DEF Q, B
<1>2. TypeOK' /\ Ascending' /\ Saved'
  BY DEF IInv, TypeOK, Ascending, Saved
<1>3. QueueBounded'
  <2>1. /\ Len(queuedOperations) \in Nat /\ Len(queuedOperations') \in Nat
        /\ MAX_QUEUE_SIZE \in Nat
    BY LenProperties, OfflineAssumption DEF IInv, TypeOK
  <2> QED BY <2>1 DEF IInv, QueueBounded
<1>4. TakenFirst' /\ Numbered'
  BY <1>1 DEF IInv, TakenFirst, Numbered
<1>5. StoredKnown' /\ Apart'
  BY <1>1 DEF IInv, StoredKnown, Apart
<1> QED BY <1>2, <1>3, <1>4, <1>5 DEF IInv

(* A sync takes the queue. *)
LEMMA TakeStep ==
  ASSUME IInv, NEW s \in Sync, toProcess[s] = << >>, TakeQueue(s),
         isCurrentlyOnline' \in BOOLEAN, syncInterval' \in BOOLEAN,
         UNCHANGED <<direct, accepted, executed, restarts>>
  PROVE  IInv'
<1>1. /\ toProcess'[s] = queuedOperations /\ queuedOperations' = << >>
      /\ \A t \in Sync : t # s => toProcess'[t] = toProcess[t]
      /\ toProcess' \in [Sync -> Seq(Op)]
      /\ stored' = stored \/ (queuedOperations = << >> /\ stored' = << >>)
  BY DEF IInv, TypeOK, TakeQueue
<1>2. /\ B(s) = {} /\ B(s)' = Q /\ Q' = {}
      /\ \A t \in Sync : t # s => B(t)' = B(t)
  BY <1>1, EmptyFacts DEF Q, B
<1>3. TypeOK' /\ Ascending' /\ QueueBounded'
  <2>1. Len(queuedOperations') <= MAX_QUEUE_SIZE
    BY <1>1, EmptyFacts, OfflineAssumption
  <2> QED BY <1>1, <2>1, EmptyFacts DEF IInv, TypeOK, Ascending, QueueBounded
<1>4. TakenFirst' /\ Numbered'
  BY <1>1, <1>2, EmptyFacts DEF IInv, TakenFirst, Numbered
<1>5. StoredKnown'
  BY <1>1, <1>2, EmptyFacts DEF IInv, StoredKnown
<1>6. Apart'
  <2>1. \A t \in Sync : B(t) \cap Q = {}
    BY Numbers DEF IInv, TakenFirst
  <2> QED BY <1>1, <1>2, <2>1 DEF IInv, Apart
<1>7. Saved'
  <2>1. CASE queuedOperations = << >>
    BY <1>1, <2>1 DEF TakeQueue, Saved
  <2>2. CASE queuedOperations # << >>
    BY <1>1, <2>2 DEF Saved
  <2> QED BY <2>1, <2>2
<1> QED BY <1>3, <1>4, <1>5, <1>6, <1>7 DEF IInv

(* What Executes(s) does to batches and history. *)
LEMMA ExecutesFacts ==
  ASSUME IInv, NEW s \in Sync, Executes(s)
  PROVE  /\ Head(toProcess[s]) \in Op
         /\ B(s) = {Head(toProcess[s])} \cup B(s)'
         /\ \A x \in B(s)' : Head(toProcess[s]) < x
         /\ executed' = executed \cup {Head(toProcess[s])}
         /\ IsAscending(toProcess'[s])
         /\ \A t \in Sync : t # s => toProcess'[t] = toProcess[t] /\ B(t)' = B(t)
         /\ toProcess' \in [Sync -> Seq(Op)]
<1>1. toProcess[s] \in Seq(Op) /\ toProcess[s] # << >> /\ IsAscending(toProcess[s])
  BY DEF IInv, TypeOK, Ascending, Executes
<1>2. /\ Tail(toProcess[s]) \in Seq(Op)
      /\ Head(toProcess[s]) \in Op
      /\ ToSet(toProcess[s]) = {Head(toProcess[s])} \cup ToSet(Tail(toProcess[s]))
      /\ IsAscending(Tail(toProcess[s]))
      /\ \A x \in ToSet(Tail(toProcess[s])) : Head(toProcess[s]) < x
  BY <1>1, TailFacts
<1>3. /\ toProcess' = [toProcess EXCEPT ![s] = Tail(toProcess[s])]
      /\ executed' = executed \cup {Head(toProcess[s])}
  BY DEF Executes
<1>4. /\ toProcess'[s] = Tail(toProcess[s])
      /\ \A t \in Sync : t # s => toProcess'[t] = toProcess[t]
      /\ toProcess' \in [Sync -> Seq(Op)]
  BY <1>2, <1>3 DEF IInv, TypeOK
<1> QED BY <1>2, <1>3, <1>4 DEF B

LEMMA ExecutesStep ==
  ASSUME IInv, NEW s \in Sync, Executes(s)
  PROVE  IInv'
<1> DEFINE h == Head(toProcess[s])
<1>1. /\ h \in Op /\ B(s) = {h} \cup B(s)' /\ \A x \in B(s)' : h < x
      /\ executed' = executed \cup {h} /\ IsAscending(toProcess'[s])
      /\ \A t \in Sync : t # s => toProcess'[t] = toProcess[t] /\ B(t)' = B(t)
      /\ toProcess' \in [Sync -> Seq(Op)]
  BY ExecutesFacts
<1>2. /\ UNCHANGED <<isCurrentlyOnline, queuedOperations, syncInterval, direct, accepted,
                     restarts>>
      /\ stored' = IF Len(toProcess[s]) = 1 THEN queuedOperations ELSE stored
  BY DEF Executes
<1> HIDE DEF h
<1>3. h \notin B(s)' /\ h \notin Q /\ h \notin direct
  BY <1>1, Numbers, OpNat DEF IInv, TakenFirst, Apart
<1>4. Q' = Q /\ (ToSet(stored') = Q \/ stored' = stored)
  BY <1>2 DEF Q
<1>5. TypeOK' /\ Ascending' /\ QueueBounded'
  BY <1>1, <1>2 DEF IInv, TypeOK, Ascending, QueueBounded
<1>6. TakenFirst' /\ Numbered'
  BY <1>1, <1>2, <1>4 DEF IInv, TakenFirst, Numbered
<1>7. StoredKnown'
  BY <1>1, <1>4 DEF IInv, StoredKnown
<1>8. Apart'
  BY <1>1, <1>2, <1>3, <1>4 DEF IInv, Apart
<1>9. Saved'
  <2>1. CASE Len(toProcess[s]) = 1
    BY <1>2, <2>1 DEF Saved
  <2>2. CASE Len(toProcess[s]) # 1
    <3>1. toProcess'[s] # << >>
      <4>1. /\ Len(Tail(toProcess[s])) = Len(toProcess[s]) - 1
            /\ toProcess'[s] = Tail(toProcess[s])
            /\ Len(toProcess[s]) \in Nat \ {0}
        BY TailFacts, EmptySeq DEF IInv, TypeOK, Ascending, Executes
      <4>2. Len(toProcess'[s]) # 0
        BY <2>2, <4>1
      <4> QED BY <4>2, EmptyFacts
    <3> QED BY <1>2, <2>2, <3>1 DEF IInv, Saved
  <2> QED BY <2>1, <2>2
<1> QED BY <1>5, <1>6, <1>7, <1>8, <1>9 DEF IInv

LEMMA RestartStep ==
  ASSUME IInv, Restart
  PROVE  IInv'
<1>1. /\ queuedOperations' = stored /\ stored' = stored /\ accepted' = accepted
      /\ direct' = {} /\ executed' = executed \ ToSet(stored)
      /\ toProcess' = [s \in Sync |-> << >>]
      /\ isCurrentlyOnline' = TRUE /\ syncInterval' = FALSE
      /\ restarts' = restarts + 1 /\ restarts < MaxRestarts
  BY DEF Restart
<1>2. Q' = ToSet(stored) /\ ToSet(stored') = ToSet(stored) /\ \A s \in Sync : B(s)' = {}
  BY <1>1, EmptyFacts DEF Q, B
<1>3. restarts' \in 0 .. MaxRestarts
  BY <1>1, OfflineAssumption DEF IInv, TypeOK
<1>4. TypeOK' /\ Ascending'
  BY <1>1, <1>3, EmptyFacts DEF IInv, TypeOK, Ascending
<1>5. QueueBounded' /\ Saved'
  BY <1>1 DEF IInv, QueueBounded, Saved
<1>6. TakenFirst' /\ Numbered' /\ StoredKnown' /\ Apart'
  BY <1>1, <1>2 DEF IInv, TakenFirst, Numbered, StoredKnown, Apart
<1> QED BY <1>4, <1>5, <1>6 DEF IInv

LEMMA NextInv == IInv /\ [Next]_vars => IInv'
<1> SUFFICES ASSUME IInv, [Next]_vars PROVE IInv'
  OBVIOUS
<1>0. ASSUME UNCHANGED <<queuedOperations, stored, toProcess, direct, accepted, executed, restarts>>,
             isCurrentlyOnline' \in BOOLEAN, syncInterval' \in BOOLEAN
      PROVE  IInv'
  BY <1>0
  DEF IInv, TypeOK, QueueBounded, Ascending, TakenFirst, Numbered, StoredKnown, Apart, Saved, Q, B
<1>1. ASSUME NEW s \in Sync, NEW online \in BOOLEAN, StartSync(s, online),
             isCurrentlyOnline' \in BOOLEAN,
             UNCHANGED <<direct, accepted, executed, restarts>>
      PROVE  IInv'
  <2>1. CASE TakeQueue(s) /\ toProcess[s] = << >>
    BY <1>1, <2>1, TakeStep DEF StartSync
  <2>2. CASE UNCHANGED <<queuedOperations, stored, toProcess>>
    BY <1>0, <1>1, <2>2 DEF StartSync
  <2> QED BY <1>1, <2>1, <2>2 DEF StartSync
<1>2. CASE QueueOperation
  BY <1>2, QueueStep
<1>3. CASE RemoveQueuedOperation
  <2>1. PICK k \in DOMAIN queuedOperations : queuedOperations' = RemoveAt(queuedOperations, k)
    BY <1>3 DEF RemoveQueuedOperation
  <2>2. /\ queuedOperations' \in Seq(Op) /\ IsAscending(queuedOperations')
        /\ Len(queuedOperations') <= Len(queuedOperations)
        /\ ToSet(queuedOperations') \subseteq Q
    <3>1. queuedOperations \in Seq(Op) /\ IsAscending(queuedOperations)
      BY DEF IInv, TypeOK, Ascending
    <3>2. Len(queuedOperations) \in Nat
      BY <3>1, LenProperties
    <3> QED BY <2>1, <3>1, <3>2, RemoveAtFacts DEF Q
  <2> QED BY <1>3, <2>2, ShrinkStep DEF RemoveQueuedOperation, IInv, TypeOK
<1>4. CASE ClearQueuedOperations
  <2>1. /\ queuedOperations' \in Seq(Op) /\ IsAscending(queuedOperations')
        /\ Len(queuedOperations') <= Len(queuedOperations)
        /\ ToSet(queuedOperations') \subseteq Q
    <3>1. queuedOperations' = << >> /\ Len(queuedOperations) \in Nat
      BY <1>4, LenProperties DEF ClearQueuedOperations, IInv, TypeOK
    <3> QED BY <3>1, EmptyFacts
  <2> QED BY <1>4, <2>1, ShrinkStep DEF ClearQueuedOperations, IInv, TypeOK
<1>5. CASE StopSync
  BY <1>0, <1>5 DEF StopSync, IInv, TypeOK
<1>6. CASE Dispose
  <2>1. Len(queuedOperations) <= Len(queuedOperations)
    BY LenProperties DEF IInv, TypeOK
  <2> QED BY <1>6, <2>1, ShrinkStep DEF Dispose, IInv, TypeOK, Ascending, Q
<1>7. CASE Restart
  BY <1>7, RestartStep
<1>8. ASSUME NEW op \in direct, DirectExecuted(op) PROVE IInv'
  BY <1>8, DirectStep
<1>9. ASSUME NEW s \in Sync, ForceSync(s) PROVE IInv'
  BY <1>9, TakeStep DEF ForceSync, IInv, TypeOK
<1>10. ASSUME NEW s \in Sync, Executes(s) PROVE IInv'
  BY <1>10, ExecutesStep
<1>11. ASSUME NEW s \in Sync, StartSyncCalled(s) PROVE IInv'
  BY <1>1, <1>11 DEF StartSyncCalled, IInv, TypeOK
<1>12. ASSUME NEW s \in Sync, StatusChanges(s) PROVE IInv'
  <2>1. isCurrentlyOnline' \in BOOLEAN /\ syncInterval \in BOOLEAN
    BY <1>12 DEF StatusChanges, IInv, TypeOK
  <2> QED BY <1>0, <1>1, <1>12, <2>1 DEF StatusChanges
<1>13. CASE UNCHANGED vars
  BY <1>0, <1>13 DEF vars, IInv, TypeOK
<1> QED
  BY <1>2, <1>3, <1>4, <1>5, <1>6, <1>7, <1>8, <1>9, <1>10, <1>11, <1>12, <1>13 DEF Next

LEMMA Inductive == Spec => []IInv
BY InitInv, NextInv, PTL DEF Spec

------------------------------------------------------------------------------
(* The places of an operation, as the properties name them. *)
LEMMA InSyncing == ASSUME NEW op PROVE op \in Syncing <=> \E s \in Sync : op \in B(s)
BY DEF Syncing, B

LEMMA NonEmpty == ASSUME NEW q \in Seq(Op), q # << >> PROVE ToSet(q) # {}
<1>1. Len(q) \in Nat \ {0} /\ DOMAIN q = 1 .. Len(q)
  BY EmptySeq, LenProperties
<1>2. q[1] \in ToSet(q)
  BY <1>1 DEF ToSet
<1> QED BY <1>2

(* Whatever the numbers of operations, syncs and restarts: the variables   *)
(* have their types.                                                       *)
THEOREM TypeCorrect == Spec => []TypeOK
<1>1. IInv => TypeOK
  BY DEF IInv
<1> QED BY <1>1, Inductive, PTL

(* The queue stays within its limit, in memory and in storage. *)
THEOREM LimitKept == Spec => []QueueBounded
<1>1. IInv => QueueBounded
  BY DEF IInv
<1> QED BY <1>1, Inductive, PTL

(* What is stored is the queue, unless a sync is under way. *)
THEOREM StoredIsCurrent == Spec => []StoredIsQueue
<1>1. ASSUME IInv PROVE StoredIsQueue
  <2>1. ASSUME NEW s \in Sync, toProcess[s] # << >> PROVE Syncing # {}
    <3>1. B(s) # {}
      BY <1>1, <2>1, NonEmpty DEF IInv, TypeOK, B
    <3> QED BY <3>1, InSyncing
  <2> QED BY <1>1, <2>1 DEF IInv, Saved, StoredIsQueue
<1> QED BY <1>1, Inductive, PTL

(* An operation is in one place, once. *)
THEOREM InOnePlace == Spec => []OnePlace
<1>1. ASSUME IInv PROVE OnePlace
  <2>1. IsInjective(queuedOperations) /\ \A s \in Sync : IsInjective(toProcess[s])
    BY <1>1, AscendingInjective DEF IInv, TypeOK, Ascending
  <2>2. Q \cap (direct \cup executed) = {} /\ direct \cap executed = {}
    BY <1>1 DEF IInv, Apart
  <2>3. ASSUME NEW op \in Syncing PROVE op \notin Q /\ op \notin direct /\ op \notin executed
    <3>1. PICK s \in Sync : op \in B(s)
      BY <2>3, InSyncing
    <3>2. op \in Nat /\ ~(op < op)
      BY <1>1, <3>1, Numbers
    <3> QED BY <1>1, <3>1, <3>2 DEF IInv, Apart, TakenFirst
  <2> QED BY <1>1, <2>1, <2>2, <2>3 DEF OnePlace, IInv, Apart, Q, B
<1> QED BY <1>1, Inductive, PTL

(* A sync alone executes the oldest first. *)
THEOREM OldestExecutedFirst == Spec => OldestFirst
<1> DEFINE Step ==
      \A s \in Sync :
        /\ Len(toProcess'[s]) < Len(toProcess[s])
        /\ \A t \in Sync \ {s} : toProcess[t] = << >>
        => \A op \in executed' \ executed :
             \A other \in ToSet(queuedOperations) \cup Syncing : op <= other
<1>1. ASSUME IInv, [Next]_vars PROVE [Step]_vars
  <2>1. ASSUME NEW s \in Sync, Len(toProcess'[s]) < Len(toProcess[s]),
               \A t \in Sync \ {s} : toProcess[t] = << >>,
               NEW op \in executed' \ executed,
               NEW other \in Q \cup Syncing
        PROVE  op <= other
    <3>1. ASSUME UNCHANGED toProcess PROVE FALSE
      <4>1. Len(toProcess[s]) \in Nat
        BY <1>1, LenProperties DEF IInv, TypeOK
      <4> QED BY <2>1, <3>1, <4>1
    <3>2. ASSUME executed' \subseteq executed PROVE FALSE
      BY <2>1, <3>2
    <3>3. PICK t \in Sync : Executes(t)
      <4>1. ASSUME NEW t \in Sync, StartSync(t, isCurrentlyOnline) \/ StartSync(t, TRUE),
                   UNCHANGED executed
            PROVE  FALSE
        BY <3>2, <4>1
      <4> QED
        BY <1>1, <3>1, <3>2
        DEF Next, vars, QueueOperation, RemoveQueuedOperation, ClearQueuedOperations, StopSync,
            Dispose, Restart, DirectExecuted, ForceSync, StartSyncCalled, StatusChanges
    <3> DEFINE h == Head(toProcess[t])
    <3>4. /\ h \in Op /\ B(t) = {h} \cup B(t)' /\ \A x \in B(t)' : h < x
          /\ executed' = executed \cup {h}
      BY <1>1, <3>3, ExecutesFacts
    <3>5. t = s
      BY <2>1, <3>3 DEF Executes
    <3> HIDE DEF h
    <3>6. op = h /\ h \in Nat
      BY <2>1, <3>4, OpNat
    <3>7. ASSUME other \in Syncing PROVE other \in B(s)
      <4>1. PICK u \in Sync : other \in B(u)
        BY <3>7, InSyncing
      <4> QED BY <2>1, <4>1, EmptyFacts DEF B
    <3>8. CASE other \in Q
      BY <1>1, <3>4, <3>6, <3>8, Numbers DEF IInv, TakenFirst
    <3>9. CASE other \in B(s)
      BY <1>1, <3>4, <3>5, <3>6, <3>9, Numbers
    <3> QED BY <2>1, <3>7, <3>8, <3>9
  <2> QED BY <2>1 DEF Q
<1> QED BY <1>1, Inductive, PTL DEF Spec, OldestFirst

------------------------------------------------------------------------------
(* The manager implements the outbox. *)

(* Where the places say an operation is, in terms of the variables. *)
Placed ==
  \A op \in Op :
    /\ Place[op] \in {"new", "waiting", "syncing", "sending", "done", "gone"}
    /\ Place[op] = "waiting" <=> op \in Q
    /\ Place[op] = "syncing" <=> \E s \in Sync : op \in B(s)
    /\ Place[op] = "sending" <=> op \in direct
    /\ Place[op] = "done" <=> op \in executed
    /\ Place[op] = "new" <=> op > accepted

LEMMA PlaceFactsNamed == IInv => Placed
<1> SUFFICES ASSUME IInv, NEW op \in Op
             PROVE  /\ Place[op] \in {"new", "waiting", "syncing", "sending", "done", "gone"}
                    /\ Place[op] = "waiting" <=> op \in Q
                    /\ Place[op] = "syncing" <=> \E s \in Sync : op \in B(s)
                    /\ Place[op] = "sending" <=> op \in direct
                    /\ Place[op] = "done" <=> op \in executed
                    /\ Place[op] = "new" <=> op > accepted
  BY DEF Placed
<1>1. op \in Nat /\ accepted \in Nat /\ ~(op < op)
  BY OpNat, Numbers
<1>2. /\ op \in Syncing <=> \E s \in Sync : op \in B(s)
      /\ op \in Q <=> op \in ToSet(queuedOperations)
  BY InSyncing DEF Q
<1>3. /\ op \in Q => op \notin Syncing /\ op \notin direct /\ op \notin executed
      /\ op \in Syncing => op \notin direct /\ op \notin executed
      /\ op \in direct => op \notin executed
  BY <1>1, <1>2 DEF IInv, Apart, TakenFirst
<1>4. op \in Q \cup Syncing \cup direct \cup executed => ~(op > accepted)
  BY <1>1, <1>2 DEF IInv, Numbered
<1>5. Place[op] = CASE op \in Q -> "waiting"
                    [] op \in Syncing -> "syncing"
                    [] op \in direct -> "sending"
                    [] op \in executed -> "done"
                    [] op > accepted -> "new"
                    [] OTHER -> "gone"
  BY DEF Place, Q
<1> QED BY <1>2, <1>3, <1>4, <1>5

LEMMA PlaceFacts ==
  IInv => \A op \in Op :
    /\ Place[op] \in {"new", "waiting", "syncing", "sending", "done", "gone"}
    /\ Place[op] = "waiting" <=> op \in Q
    /\ Place[op] = "syncing" <=> \E s \in Sync : op \in B(s)
    /\ Place[op] = "sending" <=> op \in direct
    /\ Place[op] = "done" <=> op \in executed
    /\ Place[op] = "new" <=> op > accepted
BY PlaceFactsNamed DEF Placed

LEMMA PlaceFactsNext ==
  IInv' => \A op \in Op :
    /\ Place'[op] \in {"new", "waiting", "syncing", "sending", "done", "gone"}
    /\ Place'[op] = "waiting" <=> op \in Q'
    /\ Place'[op] = "syncing" <=> \E s \in Sync : op \in B(s)'
    /\ Place'[op] = "sending" <=> op \in direct'
    /\ Place'[op] = "done" <=> op \in executed'
    /\ Place'[op] = "new" <=> op > accepted'
<1>1. IInv' => Placed'
  BY PlaceFactsNamed, PTL
<1> QED BY <1>1 DEF Placed

LEMMA PlaceIsFunction ==
  Place = [op \in Op |-> Place[op]] /\ Place' = [op \in Op |-> Place'[op]]
BY DEF Place

(* Nothing changes its place when the sets that matter stay. *)
LEMMA PlaceStays ==
  ASSUME UNCHANGED <<queuedOperations, toProcess, direct, executed, accepted>>
  PROVE  Place' = Place
BY DEF Place, Syncing

LEMMA TakeStarts ==
  ASSUME IInv, IInv', NEW s \in Sync, toProcess[s] = << >>, TakeQueue(s),
         UNCHANGED <<direct, accepted, executed>>
  PROVE  Outbox!StartSync \/ Place' = Place
<1>1. /\ B(s) = {} /\ B(s)' = Q /\ Q' = {} /\ \A t \in Sync : t # s => B(t)' = B(t)
  BY EmptyFacts DEF IInv, TypeOK, TakeQueue, Q, B
<1>2. ASSUME NEW op \in Op
      PROVE Place'[op] = IF op \in Q THEN "syncing" ELSE Place[op]
  BY <1>1, <1>2, PlaceFacts, PlaceFactsNext
<1>3. \A op \in Op : op \in Outbox!In("waiting") <=> op \in Q
  BY PlaceFacts DEF Outbox!In, Outbox!Op, Op
<1>4. CASE Q = {}
  BY <1>2, <1>4, PlaceIsFunction
<1>5. CASE Q # {}
  <2>1. Outbox!In("waiting") # {}
    BY <1>3, <1>5, Numbers
  <2>2. Place' = [op \in Outbox!Op |-> IF op \in Outbox!In("waiting") THEN "syncing" ELSE Place[op]]
    BY <1>2, <1>3, PlaceIsFunction DEF Outbox!Op, Op
  <2> QED BY <2>1, <2>2 DEF Outbox!StartSync, Outbox!Moves
<1> QED BY <1>4, <1>5

LEMMA FinishFinishes ==
  ASSUME IInv, IInv', NEW op \in Op, op \in direct \/ \E s \in Sync : op \in B(s),
         \A other \in Op : other # op => Place'[other] = Place[other],
         op \in executed'
  PROVE  Outbox!Finish(op)
<1>1. Place[op] \in {"syncing", "sending"} /\ Place'[op] = "done"
  BY PlaceFacts, PlaceFactsNext
<1>2. Place' = [other \in Outbox!Op |-> IF other \in {op} THEN "done" ELSE Place[other]]
  BY <1>1, PlaceIsFunction DEF Outbox!Op, Op
<1> QED BY <1>1, <1>2 DEF Outbox!Finish, Outbox!Moves

(* A part of the queue is removed. *)
LEMMA ShrinkDiscards ==
  ASSUME IInv, IInv', Q' \subseteq Q, UNCHANGED <<toProcess, direct, executed, accepted>>
  PROVE  (\E ops \in SUBSET Outbox!Op : Outbox!Discard(ops)) \/ Place' = Place
<1> DEFINE ops == Q \ Q'
<1>1. \A s \in Sync : B(s)' = B(s)
  BY DEF B
<1>2. ASSUME NEW op \in Op PROVE Place'[op] = IF op \in ops THEN "gone" ELSE Place[op]
  BY <1>1, <1>2, PlaceFacts, PlaceFactsNext
<1>3. ops \subseteq Op /\ \A op \in ops : Place[op] = "waiting"
  BY PlaceFacts, Numbers
<1> HIDE DEF ops
<1>4. CASE ops = {}
  BY <1>2, <1>4, PlaceIsFunction
<1>5. CASE ops # {}
  <2>1. Place' = [op \in Outbox!Op |-> IF op \in ops THEN "gone" ELSE Place[op]]
    BY <1>2, PlaceIsFunction DEF Outbox!Op, Op
  <2>2. ops \in SUBSET Outbox!Op /\ ops \subseteq Outbox!In("waiting")
    BY <1>3 DEF Outbox!In, Outbox!Op, Op
  <2> QED BY <1>5, <2>1, <2>2 DEF Outbox!Discard, Outbox!Moves
<1> QED BY <1>4, <1>5

LEMMA QueueAccepts ==
  ASSUME IInv, IInv', QueueOperation
  PROVE  \E op \in Outbox!Op : Outbox!Accept(op) \/ Outbox!Send(op)
<1> DEFINE op == accepted + 1
           new == Outbox!In("new")
<1>1. op \in Op /\ op \in Nat /\ accepted' = op /\ accepted \in Nat /\ MaxOps \in Nat
  BY Numbers DEF QueueOperation, Op
<1>2. \A other \in Op : other \in Nat /\ (other > accepted <=> other = op \/ other > op)
  BY <1>1, OpNat
<1>3. \A s \in Sync : B(s)' = B(s)
  BY DEF B, QueueOperation
<1>4. executed' = executed
  BY DEF QueueOperation
<1>5. Place[op] = "new" /\ \A other \in new : op <= other
  <2>1. op > accepted
    BY <1>1
  <2>2. Place[op] = "new"
    BY <1>1, <2>1, PlaceFacts
  <2>3. ASSUME NEW other \in new PROVE op <= other
    <3>1. other \in Op /\ Place[other] = "new"
      BY <2>3 DEF Outbox!In, Outbox!Op, Op
    <3>2. other > accepted /\ other \in Nat
      BY <1>2, <3>1, PlaceFacts
    <3> QED BY <1>1, <3>2
  <2> QED BY <2>2, <2>3
<1> HIDE DEF op, new
<1>6. CASE isCurrentlyOnline
  <2>1. direct' = direct \cup {op} /\ queuedOperations' = queuedOperations
    BY <1>6 DEF QueueOperation, op
  <2>2. Q' = Q
    BY <2>1 DEF Q
  <2>3. ASSUME NEW other \in Op
        PROVE Place'[other] = IF other \in {op} THEN "sending" ELSE Place[other]
    <3>1. CASE other = op
      BY <2>1, <3>1, PlaceFactsNext
    <3>2. CASE other # op
      <4>1. other > accepted <=> other > accepted'
        BY <1>1, <1>2, <3>2
      <4> QED BY <1>3, <1>4, <2>1, <2>2, <3>2, <4>1, PlaceFacts, PlaceFactsNext
    <3> QED BY <3>1, <3>2
  <2>4. Outbox!Send(op)
    BY <1>5, <2>3, PlaceIsFunction DEF Outbox!Send, Outbox!Moves, Outbox!Op, Op, new
  <2> QED BY <1>1, <2>4 DEF Outbox!Op, Op
<1>7. CASE ~isCurrentlyOnline
  <2> DEFINE r == ToSet(MakeRoom(queuedOperations))
  <2>1. queuedOperations' = Append(MakeRoom(queuedOperations), op) /\ direct' = direct
    BY <1>7 DEF QueueOperation, op
  <2>2. /\ r \subseteq Q
        /\ r = Q \/ \E x \in Q : r = Q \ {x} /\ \A y \in Q : x <= y
        /\ MakeRoom(queuedOperations) \in Seq(Op) /\ IsAscending(MakeRoom(queuedOperations))
    BY MakeRoomFacts DEF IInv, TypeOK, QueueBounded, Ascending, Q
  <2> HIDE DEF r
  <2>3. Q' = r \cup {op}
    <3>1. \A x \in Q : x < op
      BY <1>1, Numbers DEF IInv, Numbered, op
    <3>2. ToSet(Append(MakeRoom(queuedOperations), op)) = ToSet(MakeRoom(queuedOperations)) \cup {op}
      BY <1>1, <2>2, <3>1, AppendFacts DEF r
    <3> QED BY <2>1, <3>2 DEF Q, r
  <2>4. ASSUME NEW other \in Op
        PROVE Place'[other] = IF other = op THEN "waiting"
                              ELSE IF other \in Q \ r THEN "gone" ELSE Place[other]
    <3>1. CASE other = op
      BY <2>3, <3>1, PlaceFactsNext
    <3>2. CASE other # op
      <4>1. other > accepted <=> other > accepted'
        BY <1>1, <1>2, <3>2
      <4>2. other \in Q' <=> other \in r
        BY <2>3, <3>2
      <4>3. other \in Q => ~(other > accepted')
        BY <4>1, PlaceFacts
      <4> QED BY <1>3, <1>4, <2>1, <2>2, <3>2, <4>1, <4>2, <4>3, PlaceFacts, PlaceFactsNext
    <3> QED BY <3>1, <3>2
  <2>5. CASE r = Q
    <3>1. Place' = [Place EXCEPT ![op] = "waiting"]
      BY <2>4, <2>5, PlaceIsFunction
    <3> QED BY <1>1, <1>5, <3>1 DEF Outbox!Accept, Outbox!Op, Op, new
  <2>6. ASSUME NEW x \in Q, r = Q \ {x}, \A y \in Q : x <= y
        PROVE  Outbox!Accept(op)
    <3>1. x # op /\ x \in Op
      <4>1. x <= accepted /\ x \in Nat /\ x \in Op
        BY <2>6, Numbers DEF IInv, Numbered
      <4> QED BY <1>1, <4>1 DEF op
    <3>2. Place' = [Place EXCEPT ![op] = "waiting", ![x] = "gone"]
      <4>1. \A other \in Op : Place'[other] = [Place EXCEPT ![op] = "waiting", ![x] = "gone"][other]
        BY <1>1, <2>4, <2>6, <3>1, PlaceIsFunction
      <4> QED BY <4>1, PlaceIsFunction
    <3>3. x \in Outbox!In("waiting") /\ \A other \in Outbox!In("waiting") : x <= other
      BY <2>6, <3>1, PlaceFacts DEF Outbox!In, Outbox!Op, Op
    <3> QED BY <1>5, <3>2, <3>3 DEF Outbox!Accept, new
  <2> QED BY <1>1, <2>2, <2>5, <2>6 DEF Outbox!Op, Op, Outbox!Accept
<1> QED BY <1>6, <1>7

LEMMA RestartRestarts ==
  ASSUME IInv, IInv', Restart
  PROVE  Outbox!Restart
<1> DEFINE Sy == Outbox!In("syncing")
<1>1. /\ direct' = {} /\ executed' = executed \ ToSet(stored) /\ accepted' = accepted
      /\ Q' = ToSet(stored) /\ \A s \in Sync : B(s)' = {}
  BY EmptyFacts DEF Restart, Q, B
<1>2. Q \subseteq ToSet(stored)
  BY EmptyFacts DEF IInv, Saved, Q
<1>3. ASSUME ToSet(stored) # Q PROVE Sy # {}
  <2>1. PICK s \in Sync : toProcess[s] # << >>
    BY <1>3 DEF IInv, Saved, Q
  <2>2. PICK op \in Op : op \in B(s)
    <3>1. B(s) # {}
      BY <2>1, NonEmpty DEF IInv, TypeOK, B
    <3> QED BY <3>1, Numbers
  <2>3. op \in Sy
    BY <2>2, PlaceFacts DEF Outbox!In, Outbox!Op, Op
  <2> QED BY <2>3
<1> HIDE DEF Sy
<1>4. ASSUME NEW op \in Op
      PROVE  Place'[op] \in Outbox!AfterRestart(op)
  <2>0. /\ Place[op] \in {"new", "waiting", "syncing", "sending", "done", "gone"}
        /\ Place'[op] \in {"new", "waiting", "syncing", "sending", "done", "gone"}
    BY PlaceFacts, PlaceFactsNext
  <2>1. CASE Place[op] = "syncing"
    <3>1. ~(op > accepted) /\ op \notin executed
      BY <2>1, PlaceFacts
    <3>2. Place'[op] \in {"waiting", "gone"}
      BY <1>1, <2>0, <3>1, PlaceFactsNext
    <3> QED BY <2>1, <3>2 DEF Outbox!AfterRestart
  <2>2. CASE Place[op] = "sending"
    <3>1. ~(op > accepted) /\ op \notin executed /\ op \notin ToSet(stored)
      <4>1. op \notin Q /\ op \notin executed /\ (\A s \in Sync : op \notin B(s)) /\ ~(op > accepted)
        BY <2>2, PlaceFacts
      <4> QED BY <4>1 DEF IInv, StoredKnown
    <3>2. Place'[op] = "gone"
      BY <1>1, <2>0, <3>1, PlaceFactsNext
    <3> QED BY <2>2, <3>2 DEF Outbox!AfterRestart
  <2>3. CASE Place[op] = "done"
    <3>1. op \in executed /\ op \notin Q /\ ~(op > accepted)
      BY <2>3, PlaceFacts
    <3>2. CASE op \in ToSet(stored)
      <4>1. Place'[op] = "waiting" /\ Sy # {}
        BY <1>1, <1>3, <3>1, <3>2, PlaceFactsNext
      <4> QED BY <2>3, <4>1 DEF Outbox!AfterRestart, Sy
    <3>3. CASE op \notin ToSet(stored)
      <4>1. Place'[op] = "done"
        BY <1>1, <3>1, <3>3, PlaceFactsNext
      <4> QED BY <2>3, <4>1 DEF Outbox!AfterRestart
    <3> QED BY <3>2, <3>3
  <2>4. CASE Place[op] \in {"waiting", "new", "gone"}
    <3>1. op \notin executed /\ op \notin direct /\ \A s \in Sync : op \notin B(s)
      BY <2>4, PlaceFacts
    <3>2. op \in ToSet(stored) <=> op \in Q
      BY <1>2, <3>1 DEF IInv, StoredKnown
    <3>3. Place'[op] = Place[op]
      BY <1>1, <2>0, <2>4, <3>1, <3>2, PlaceFacts, PlaceFactsNext
    <3> QED BY <2>4, <3>3 DEF Outbox!AfterRestart
  <2> QED BY <2>0, <2>1, <2>2, <2>3, <2>4
<1>5. Place' \in [Outbox!Op -> Outbox!Status]
  BY PlaceFactsNext, PlaceIsFunction DEF Outbox!Op, Op, Outbox!Status
<1> QED BY <1>4, <1>5 DEF Outbox!Restart, Outbox!Op, Op

(* Queueing, syncs that overlap, storage and restarts do to an operation   *)
(* what a durable outbox may do to it, and nothing else.                   *)
THEOREM ImplementsDurableOutbox == Spec => ImplementsOutbox
<1>1. ASSUME Init PROVE Outbox!Init
  <2>1. IInv /\ accepted = 0 /\ \A op \in Op : op > 0
    BY <1>1, InitInv DEF Init, Op
  <2>2. \A op \in Op : Place[op] = "new"
    BY <2>1, PlaceFacts
  <2> QED BY <2>2, PlaceIsFunction DEF Outbox!Init, Outbox!Op, Op
<1>2. ASSUME IInv, IInv', [Next]_vars PROVE [Outbox!Next]_Place
  <2> USE <1>2
  <2>1. CASE QueueOperation
    BY <2>1, QueueAccepts DEF Outbox!Next
  <2>2. CASE RemoveQueuedOperation \/ ClearQueuedOperations
    <3>1. Q' \subseteq Q
      <4>1. CASE ClearQueuedOperations
        BY <4>1, EmptyFacts DEF ClearQueuedOperations, Q
      <4>2. CASE RemoveQueuedOperation
        BY <4>2, RemoveAtFacts DEF RemoveQueuedOperation, Q, IInv, TypeOK, Ascending
      <4> QED BY <2>2, <4>1, <4>2
    <3>2. UNCHANGED <<toProcess, direct, executed, accepted>>
      BY <2>2 DEF RemoveQueuedOperation, ClearQueuedOperations
    <3> QED BY <3>1, <3>2, ShrinkDiscards DEF Outbox!Next
  <2>3. ASSUME StopSync \/ Dispose \/ UNCHANGED vars PROVE Place' = Place
    BY <2>3, PlaceStays DEF StopSync, Dispose, vars
  <2>4. CASE Restart
    BY <2>4, RestartRestarts DEF Outbox!Next
  <2>5. ASSUME NEW op \in direct, DirectExecuted(op) PROVE Outbox!Next
    <3>1. op \in Op
      BY DEF IInv, TypeOK
    <3>2. /\ direct' = direct \ {op} /\ executed' = executed \cup {op} /\ accepted' = accepted
          /\ Q' = Q /\ \A s \in Sync : B(s)' = B(s)
      BY <2>5 DEF DirectExecuted, Q, B
    <3>3. \A other \in Op : other # op => Place'[other] = Place[other]
      BY <3>2, PlaceFacts, PlaceFactsNext
    <3> QED BY <3>1, <3>2, <3>3, FinishFinishes DEF Outbox!Next, Outbox!Op, Op
  <2>6. ASSUME NEW s \in Sync, Executes(s) PROVE Outbox!Next
    <3> DEFINE op == Head(toProcess[s])
    <3>1. /\ op \in Op /\ B(s) = {op} \cup B(s)' /\ executed' = executed \cup {op}
          /\ \A t \in Sync : t # s => B(t)' = B(t)
      BY <2>6, ExecutesFacts
    <3>2. Q' = Q /\ direct' = direct /\ accepted' = accepted
      BY <2>6 DEF Executes, Q
    <3> HIDE DEF op
    <3>3. \A other \in Op : other # op => Place'[other] = Place[other]
      BY <3>1, <3>2, PlaceFacts, PlaceFactsNext
    <3> QED BY <3>1, <3>3, FinishFinishes DEF Outbox!Next, Outbox!Op, Op
  <2>7. ASSUME NEW s \in Sync, NEW online, StartSync(s, online),
               UNCHANGED <<direct, accepted, executed>>
        PROVE  Outbox!Next \/ Place' = Place
    BY <2>7, TakeStarts, PlaceStays DEF StartSync, Outbox!Next
  <2>8. ASSUME NEW s \in Sync, ForceSync(s) \/ StartSyncCalled(s) \/ StatusChanges(s)
        PROVE  Outbox!Next \/ Place' = Place
    <3>1. CASE ForceSync(s)
      BY <3>1, TakeStarts DEF ForceSync, Outbox!Next
    <3>2. CASE StartSyncCalled(s)
      BY <2>7, <3>2 DEF StartSyncCalled
    <3>3. CASE StatusChanges(s)
      BY <2>7, <3>3, PlaceStays DEF StatusChanges
    <3> QED BY <2>8, <3>1, <3>2, <3>3
  <2> QED BY <2>1, <2>2, <2>3, <2>4, <2>5, <2>6, <2>8 DEF Next
<1> QED BY <1>1, <1>2, Inductive, PTL DEF Spec, ImplementsOutbox, Outbox!Spec
=============================================================================
