---------------------- MODULE RuntimeConnectionProofs ----------------------
(***************************************************************************)
(* The runtime connection keeps its invariants for any number of links and *)
(* of overlapping connect() calls.                                         *)
(***************************************************************************)
EXTENDS RuntimeConnection, FiniteSetTheorems, TLAPS

(* A socket that opens or is open is the one the service knows. *)
SocketKnown == \A l \in Link : link[l] \in {"connecting", "open"} => l = socket

(* What does not count anything. *)
IInv == TypeOK /\ SocketKnown /\ NeverGivesUp /\ ConnectedIsOpen

LEMMA TypeStep == TypeOK /\ [Next]_vars => TypeOK'
<1> SUFFICES ASSUME TypeOK, [Next]_vars PROVE TypeOK'
  OBVIOUS
<1> USE ConnectionAssumption DEF TypeOK, Phase, Fetch
<1>1. ASSUME NEW l \in Link, Connect(l) PROVE TypeOK'
  <2>1. connects' \in 0 .. MaxConnects
    BY <1>1 DEF Connect
  <2> QED BY <1>1, <2>1 DEF Connect, Begin, syncVars
<1>2. ASSUME NEW l \in Link, RetryFires(l) PROVE TypeOK'
  BY <1>2 DEF RetryFires, Begin, syncVars
<1>3. ASSUME NEW l \in Link, HealthFails(l) PROVE TypeOK'
  BY <1>3 DEF HealthFails, Failed, syncVars
<1>4. ASSUME NEW l \in Link, OpensSocket(l) PROVE TypeOK'
  BY <1>4 DEF OpensSocket, Closed, syncVars
<1>5. ASSUME NEW l \in Link, SocketOpens(l) PROVE TypeOK'
  BY <1>5 DEF SocketOpens, Sync, syncVars
<1>6. ASSUME NEW l \in Link, SocketFails(l) PROVE TypeOK'
  BY <1>6 DEF SocketFails, Failed, Forgotten, syncVars
<1>7. ASSUME NEW l \in Link, SocketDrops(l) PROVE TypeOK'
  BY <1>7 DEF SocketDrops, Failed, Forgotten, syncVars
<1>8. CASE Dispose
  BY <1>8 DEF Dispose, Closed, syncVars
<1>9. CASE SyncTick \/ SyncEnds
  BY <1>9 DEF SyncTick, SyncEnds, Sync, connectionVars
<1>10. CASE GoesDown \/ ComesUp
  BY <1>10 DEF GoesDown, ComesUp, InFlight, Opened, connectionVars, syncVars
<1>11. CASE UNCHANGED vars
  BY <1>11 DEF vars, connectionVars, syncVars
<1> QED
  BY <1>1, <1>2, <1>3, <1>4, <1>5, <1>6, <1>7, <1>8, <1>9, <1>10, <1>11
  DEF Next, HealthEnds, SocketSettles

LEMMA InitType == Init => TypeOK
<1>1. 0 \in 0 .. MaxConnects
  BY ConnectionAssumption
<1> QED BY <1>1 DEF Init, TypeOK, Phase, Fetch

(* A step that leaves the connection alone. *)
LEMMA QuietStep ==
  ASSUME IInv, UNCHANGED connectionVars
  PROVE  SocketKnown' /\ NeverGivesUp' /\ ConnectedIsOpen'
BY DEF IInv, connectionVars, SocketKnown, NeverGivesUp, ConnectedIsOpen,
       Connected, InFlight, Opened

(* A step by which l becomes, or stays, part of an attempt. *)
LEMMA AttemptStep ==
  ASSUME IInv, NEW l \in Link, l \in InFlight', SocketKnown'
  PROVE  NeverGivesUp' /\ ConnectedIsOpen'
BY DEF NeverGivesUp, ConnectedIsOpen

(* A step by which an attempt or a connection fails. *)
LEMMA FailureStep ==
  ASSUME Failed
  PROVE  NeverGivesUp' /\ ConnectedIsOpen'
BY DEF Failed, NeverGivesUp, ConnectedIsOpen

LEMMA IInvStep == IInv /\ [Next]_vars => IInv'
<1> SUFFICES ASSUME IInv, [Next]_vars
             PROVE  SocketKnown' /\ NeverGivesUp' /\ ConnectedIsOpen'
  BY TypeStep DEF IInv
<1>0. TypeOK /\ SocketKnown
  BY DEF IInv
<1>1. ASSUME NEW l \in Link, Begin(l), Connect(l) \/ RetryFires(l)
      PROVE  SocketKnown' /\ NeverGivesUp' /\ ConnectedIsOpen'
  <2>1. SocketKnown'
    BY <1>0, <1>1 DEF Begin, SocketKnown, TypeOK
  <2>2. l \in InFlight'
    BY <1>0, <1>1 DEF Begin, InFlight, TypeOK
  <2> QED BY <2>1, <2>2, AttemptStep
<1>2. ASSUME NEW l \in Link, HealthFails(l)
      PROVE  SocketKnown' /\ NeverGivesUp' /\ ConnectedIsOpen'
  <2>1. SocketKnown'
    BY <1>0, <1>2 DEF HealthFails, SocketKnown, TypeOK
  <2> QED BY <1>2, <2>1, FailureStep DEF HealthFails
<1>3. ASSUME NEW l \in Link, OpensSocket(l)
      PROVE  SocketKnown' /\ NeverGivesUp' /\ ConnectedIsOpen'
  <2>1. SocketKnown'
    BY <1>0, <1>3 DEF OpensSocket, Closed, SocketKnown, TypeOK
  <2>2. l \in InFlight'
    BY <1>0, <1>3 DEF OpensSocket, Closed, InFlight, TypeOK
  <2> QED BY <2>1, <2>2, AttemptStep
<1>4. ASSUME NEW l \in Link, SocketOpens(l)
      PROVE  SocketKnown' /\ NeverGivesUp' /\ ConnectedIsOpen'
  <2>1. SocketKnown' /\ socket' = l /\ l \in Opened' /\ state' = "connected"
    BY <1>0, <1>4 DEF SocketOpens, SocketKnown, Opened, TypeOK
  <2> QED BY <2>1 DEF NeverGivesUp, ConnectedIsOpen, Connected
<1>5. ASSUME NEW l \in Link, SocketFails(l)
      PROVE  SocketKnown' /\ NeverGivesUp' /\ ConnectedIsOpen'
  <2>1. SocketKnown'
    BY <1>0, <1>5 DEF SocketFails, Forgotten, SocketKnown, TypeOK
  <2> QED BY <1>5, <2>1, FailureStep DEF SocketFails
<1>6. ASSUME NEW l \in Link, SocketDrops(l)
      PROVE  SocketKnown' /\ NeverGivesUp' /\ ConnectedIsOpen'
  <2>1. SocketKnown' /\ socket = l
    BY <1>0, <1>6 DEF SocketDrops, Forgotten, SocketKnown, TypeOK
  <2>2. CASE state = "connected"
    BY <1>6, <2>1, <2>2, FailureStep DEF SocketDrops
  <2>3. CASE state # "connected"
    <3>1. UNCHANGED <<state, timer, disposed, connects>>
      BY <1>6, <2>3 DEF SocketDrops
    <3>2. InFlight' = InFlight
      BY <1>0, <1>6 DEF SocketDrops, InFlight, TypeOK
    <3> QED BY <2>1, <2>3, <3>1, <3>2
            DEF IInv, NeverGivesUp, ConnectedIsOpen, Connected
  <2> QED BY <2>2, <2>3
<1>7. CASE Dispose
  <2>1. SocketKnown'
    BY <1>0, <1>7, ConnectionAssumption DEF Dispose, Closed, SocketKnown, TypeOK
  <2> QED BY <1>7, <2>1 DEF Dispose, NeverGivesUp, ConnectedIsOpen
<1>8. CASE UNCHANGED connectionVars
  BY <1>8, QuietStep
<1> QED
  BY <1>1, <1>2, <1>3, <1>4, <1>5, <1>6, <1>7, <1>8
  DEF Next, HealthEnds, SocketSettles, Connect, RetryFires, SyncTick, SyncEnds,
      GoesDown, ComesUp, vars

LEMMA Inductive == Spec => []IInv
<1>1. Init => IInv
  BY InitType DEF Init, IInv, SocketKnown, NeverGivesUp, ConnectedIsOpen
<1> QED BY <1>1, IInvStep, PTL DEF Spec

(* The state of the service keeps its type, however many connect() calls,  *)
(* attempts and drops there are.                                           *)
THEOREM TypeCorrect == Spec => []TypeOK
<1>1. IInv => TypeOK
  BY DEF IInv
<1> QED BY <1>1, Inductive, PTL

(* Events come in by one socket, the one the service can close. *)
THEOREM OneSocketAlways == Spec => []OneSocketListens
<1>1. IInv => OneSocketListens
  BY DEF IInv, SocketKnown, OneSocketListens, Opened
<1> QED BY <1>1, Inductive, PTL

(* From the first connect() to dispose() the service is connected, tries,  *)
(* or will try.                                                            *)
THEOREM GivesUpNever == Spec => []NeverGivesUp
<1>1. IInv => NeverGivesUp
  BY DEF IInv
<1> QED BY <1>1, Inductive, PTL

(* A state that says connected is true when no attempt is under way. *)
THEOREM ConnectedTruly == Spec => []ConnectedIsOpen
<1>1. IInv => ConnectedIsOpen
  BY DEF IInv
<1> QED BY <1>1, Inductive, PTL

-----------------------------------------------------------------------------
Live == InFlight \cup Opened

(* What a step does to the links that are not free. *)
LEMMA LiveSets ==
  ASSUME TypeOK, TypeOK'
  PROVE  /\ Live = {l \in Link : link[l] # "free"}
         /\ Live' = {l \in Link : link'[l] # "free"}
         /\ IsFiniteSet(Live) /\ IsFiniteSet(Live')
         /\ Cardinality(Live) \in Nat /\ Cardinality(Live') \in Nat
<1>1. /\ Live = {l \in Link : link[l] # "free"}
      /\ Live' = {l \in Link : link'[l] # "free"}
  BY DEF Live, InFlight, Opened, TypeOK, Phase
<1>2. IsFiniteSet(Live) /\ IsFiniteSet(Live')
  BY <1>1, ConnectionAssumption, FS_Subset
<1> QED BY <1>1, <1>2, FS_CardinalityType

LEMMA CountStep == IInv /\ RetriesDoNotMultiply /\ [Next]_vars => RetriesDoNotMultiply'
<1> SUFFICES ASSUME IInv, RetriesDoNotMultiply, [Next]_vars PROVE RetriesDoNotMultiply'
  OBVIOUS
<1> DEFINE due == IF timer THEN 1 ELSE 0
           due2 == IF timer' THEN 1 ELSE 0
<1>0. TypeOK /\ TypeOK'
  BY TypeStep DEF IInv
<1>1. Cardinality(Live) + due <= connects
  BY DEF RetriesDoNotMultiply, Live
<1>2. SUFFICES Cardinality(Live') + due2 <= connects'
  BY DEF RetriesDoNotMultiply, Live
<1>3. /\ Cardinality(Live) \in Nat /\ Cardinality(Live') \in Nat
      /\ connects \in Nat /\ due \in 0 .. 1 /\ due2 \in 0 .. 1
  BY <1>0, LiveSets, ConnectionAssumption DEF TypeOK
<1>4. ASSUME NEW l \in Link, Begin(l) PROVE Cardinality(Live') = Cardinality(Live) + 1
  <2>1. l \notin Live /\ Live' = Live \cup {l}
    BY <1>0, <1>4, LiveSets DEF Begin, TypeOK
  <2> QED BY <1>0, <2>1, LiveSets, FS_AddElement
<1>5. ASSUME Live' \subseteq Live PROVE Cardinality(Live') <= Cardinality(Live)
  BY <1>0, <1>5, LiveSets, FS_Subset
<1>6. ASSUME NEW l \in Live, Live' = Live \ {l}
      PROVE  Cardinality(Live') = Cardinality(Live) - 1
  BY <1>0, <1>6, LiveSets, FS_RemoveElement
<1>7. ASSUME NEW l \in Link, Connect(l) PROVE Cardinality(Live') + due2 <= connects'
  <2>1. due2 = 0 /\ connects' = connects + 1 /\ Begin(l)
    BY <1>7 DEF Connect
  <2>2. Cardinality(Live') = Cardinality(Live) + 1
    BY <2>1, <1>4
  <2> HIDE DEF due, due2
  <2> QED BY <1>1, <1>3, <2>1, <2>2
<1>8. ASSUME NEW l \in Link, RetryFires(l) PROVE Cardinality(Live') + due2 <= connects'
  <2>1. due = 1 /\ due2 = 0 /\ connects' = connects /\ Begin(l)
    BY <1>8 DEF RetryFires
  <2>2. Cardinality(Live') = Cardinality(Live) + 1
    BY <2>1, <1>4
  <2> HIDE DEF due, due2
  <2> QED BY <1>1, <1>3, <2>1, <2>2
<1>9. ASSUME NEW l \in Link, HealthFails(l) \/ SocketFails(l) \/ SocketDrops(l)
      PROVE  Cardinality(Live') + due2 <= connects'
  <2>1. l \in Live /\ Live' = Live \ {l} /\ connects' = connects
    BY <1>0, <1>9, LiveSets DEF HealthFails, SocketFails, SocketDrops, TypeOK
  <2>2. Cardinality(Live') = Cardinality(Live) - 1
    BY <2>1, <1>6
  <2> HIDE DEF due, due2
  <2> QED BY <1>1, <1>3, <2>1, <2>2
<1>10. ASSUME Live' \subseteq Live, due2 <= due, connects' = connects
       PROVE  Cardinality(Live') + due2 <= connects'
  <2>1. Cardinality(Live') <= Cardinality(Live)
    BY <1>5, <1>10
  <2> HIDE DEF due, due2
  <2> QED BY <1>1, <1>3, <1>10, <2>1
<1>11. ASSUME NEW l \in Link, OpensSocket(l) \/ SocketOpens(l)
       PROVE  Cardinality(Live') + due2 <= connects'
  <2>0. ASSUME NEW m \in Link, link[m] = "free" PROVE link'[m] = "free"
    <3>1. CASE OpensSocket(l)
      BY <1>0, <2>0, <3>1 DEF OpensSocket, Closed, TypeOK
    <3>2. CASE SocketOpens(l)
      BY <1>0, <2>0, <3>2 DEF SocketOpens, TypeOK
    <3> QED BY <1>11, <3>1, <3>2
  <2>1. Live' \subseteq Live
    BY <1>0, <2>0, LiveSets
  <2> QED BY <1>10, <1>11, <2>1 DEF OpensSocket, SocketOpens
<1>12. CASE Dispose
  <2>1. Live' \subseteq Live
    BY <1>0, <1>12, LiveSets DEF Dispose, Closed, TypeOK
  <2> QED BY <1>10, <1>12, <2>1 DEF Dispose
<1>13. CASE UNCHANGED connectionVars
  <2>1. Live' \subseteq Live
    BY <1>0, <1>13, LiveSets DEF connectionVars
  <2> QED BY <1>10, <1>13, <2>1 DEF connectionVars
<1> QED
  BY <1>7, <1>8, <1>9, <1>11, <1>12, <1>13
  DEF Next, HealthEnds, SocketSettles, SyncTick, SyncEnds, GoesDown, ComesUp, vars

(* However attempts overlap, there are no more of them, open sockets and   *)
(* retries than calls of connect().                                        *)
THEOREM RetriesMultiplyNever == Spec => []RetriesDoNotMultiply
<1>1. Init => RetriesDoNotMultiply
  <2>1. ASSUME Init PROVE InFlight \cup Opened = {}
    BY <2>1 DEF Init, InFlight, Opened
  <2>2. ASSUME Init PROVE Cardinality(InFlight \cup Opened) = 0
    BY <2>1, <2>2, FS_EmptySet
  <2>3. ASSUME Init PROVE connects = 0 /\ (IF timer THEN 1 ELSE 0) = 0
    BY <2>3 DEF Init
  <2> QED BY <2>2, <2>3 DEF RetriesDoNotMultiply
<1> QED BY <1>1, CountStep, Inductive, PTL DEF Spec
=============================================================================
