-------------------------- MODULE PythonRuntimeProofs --------------------------
(***************************************************************************)
(* Proofs about the two components of the Python runtime that keep and     *)
(* restore states: WorkflowRun first, ProjectState after it.               *)
(*                                                                         *)
(* WorkflowRun: the type invariant, and the four safety properties that    *)
(* MCWorkflowRun checks.  The argument is about one call: its locals and   *)
(* the places of its nodes have the same shape from the first await to the *)
(* last, whatever other calls and orders write into the states they share. *)
(*                                                                         *)
(* ProjectState: a revision identifies what it was made with, so that a    *)
(* write guarded by one overwrites nothing unseen.                         *)
(***************************************************************************)
EXTENDS WorkflowRun, ProjectState, SequenceTheorems, TLAPS

StateRecord == [status : Status, completed : SUBSET Node]
CallRecord == [kind : {"none", "run", "step"}, own : Nat \ {0}, layer : SUBSET Node,
               visited : SUBSET Node, results : SUBSET Node,
               outcome : {"none", "completed", "cancelled", "failed"}]

(* Who is under way holds in its nodes' places what its locals say; who is *)
(* not holds none.  A call that a rollback() found under way has a state   *)
(* that is not the last.                                                   *)
Shape(c) ==
  /\ calls[c].kind # "none" <=> c <= Len(checkpoints)
  /\ c \in undone => calls[c].kind # "none"
  /\ c \in undone /\ UnderWay(c) => calls[c].own < Len(states)
  /\ ~UnderWay(c) => \A n \in Node : work[c][n] = "none"
  /\ UnderWay(c) =>
       /\ calls[c].visited = calls[c].results \cup calls[c].layer
       /\ \A n \in Node : work[c][n] # "none" <=> n \in calls[c].visited
       /\ \A n \in calls[c].results : work[c][n] \in {"done", "skipped"}
  /\ UnderWay(c) /\ calls[c].kind = "run"
       => \A n \in calls[c].layer : Deps[n] \subseteq calls[c].results
  /\ UnderWay(c) /\ calls[c].kind = "step"
       => \A m, n \in calls[c].visited : m = n

IInv == TypeOK /\ \A c \in Call : Shape(c)

------------------------------------------------------------------------------
(* Sequences of states. *)
LEMMA LastState ==
  ASSUME TypeOK
  PROVE  InPlace \in 1 .. Len(states) /\ Len(states) \in Nat
<1>1. states \in Seq(StateRecord) /\ states # << >>
  BY DEF TypeOK, StateRecord
<1>2. Len(states) \in Nat /\ Len(states) # 0
  BY <1>1, LenProperties, EmptySeq
<1> QED BY <1>2 DEF InPlace

LEMMA WrittenState ==
  ASSUME TypeOK, NEW i \in 1 .. Len(states), NEW s \in StateRecord,
         states' = [states EXCEPT ![i] = s]
  PROVE  /\ states' \in Seq(StateRecord) /\ states' # << >>
         /\ Len(states') = Len(states)
         /\ i < Len(states) => states'[Len(states')] = states[InPlace]
<1>1. states \in Seq(StateRecord) /\ Len(states) \in Nat
  BY LenProperties DEF TypeOK, StateRecord
<1>2. /\ states' \in Seq(StateRecord)
      /\ Len(states') = Len(states)
      /\ \A j \in 1 .. Len(states) : states'[j] = IF j = i THEN s ELSE states[j]
  BY <1>1, ExceptSeq
<1>3. states' # << >>
  BY <1>1, <1>2, EmptySeq
<1>4. Len(states) \in 1 .. Len(states) /\ Len(states') = Len(states)
  BY <1>2, LastState DEF InPlace
<1>5. ASSUME i < Len(states) PROVE states'[Len(states)] = states[Len(states)]
  <2>1. Len(states) # i
    BY <1>1, <1>5
  <2> QED BY ONLY <1>2, <1>4, <2>1, Zenon
<1> QED BY <1>2, <1>3, <1>4, <1>5 DEF InPlace

LEMMA OwnState ==
  ASSUME TypeOK, NEW c \in Call
  PROVE  /\ calls[c] \in CallRecord
         /\ calls[c].own \in 1 .. Len(states)
         /\ states[calls[c].own] \in StateRecord
<1>1. states \in Seq(StateRecord) /\ Len(states) \in Nat
  BY LenProperties DEF TypeOK, StateRecord
<1>2. calls[c] \in CallRecord /\ calls[c].own <= Len(states)
  BY DEF TypeOK, CallRecord
<1>3. calls[c].own \in 1 .. Len(states)
  BY <1>1, <1>2 DEF CallRecord
<1>4. states[calls[c].own] \in StateRecord
  BY <1>1, <1>3, ElementOfSeq
<1> QED BY <1>2, <1>3, <1>4

LEMMA LastTyped == ASSUME TypeOK PROVE states[InPlace] \in StateRecord
BY LastState, ElementOfSeq DEF TypeOK, StateRecord

(* What a call starts and ends with. *)
LEMMA CallTyped ==
  ASSUME NEW kind \in {"none", "run", "step"}, NEW layer \in SUBSET Node,
         NEW outcome \in {"none", "completed", "cancelled", "failed"}
  PROVE  /\ TypeOK => Begun(kind, layer) \in CallRecord /\ Begun(kind, layer).own = Len(states)
         /\ Returned(kind, outcome) \in CallRecord
         /\ Returned(kind, outcome).own = 1
<1>1. TypeOK => Len(states) \in Nat \ {0}
  BY LastState
<1> QED BY <1>1 DEF Begun, Returned, InPlace, CallRecord

(* The type invariant, of the records above. *)
Typed ==
  /\ states \in Seq(StateRecord) /\ states # << >>
  /\ checkpoints \in Seq(SUBSET Node)
  /\ cancelSet \in BOOLEAN
  /\ calls \in [Call -> CallRecord]
  /\ \A c \in Call : calls[c].own <= Len(states)
  /\ work \in [Call -> [Node -> Work]]
  /\ attempts \in [Call -> [Node -> Nat]]
  /\ orders \in 0 .. MaxOrders
  /\ undone \subseteq Call

LEMMA TypedIs == TypeOK <=> Typed
BY DEF TypeOK, Typed, StateRecord, CallRecord

LEMMA CallsReplaced ==
  ASSUME TypeOK, NEW c \in Call, NEW call \in CallRecord, call.own <= Len(states),
         calls' = [calls EXCEPT ![c] = call]
  PROVE  calls' \in [Call -> CallRecord] /\ \A x \in Call : calls'[x].own <= Len(states)
<1>1. calls \in [Call -> CallRecord] /\ \A x \in Call : calls[x].own <= Len(states)
  BY TypedIs DEF Typed
<1> QED BY <1>1

LEMMA WorkReplaced ==
  ASSUME TypeOK, NEW c \in Call, NEW n \in Node, NEW w \in Work,
         work' = [work EXCEPT ![c][n] = w]
  PROVE  work' \in [Call -> [Node -> Work]]
<1>1. work \in [Call -> [Node -> Work]] /\ work[c] \in [Node -> Work]
  BY TypedIs DEF Typed
<1>2. [work[c] EXCEPT ![n] = w] \in [Node -> Work]
  BY <1>1
<1> QED BY <1>1, <1>2

LEMMA AttemptsReplaced ==
  ASSUME TypeOK, NEW c \in Call, NEW n \in Node, NEW k \in Nat,
         attempts' = [attempts EXCEPT ![c][n] = k]
  PROVE  attempts' \in [Call -> [Node -> Nat]]
<1>1. attempts \in [Call -> [Node -> Nat]] /\ attempts[c] \in [Node -> Nat]
  BY TypedIs DEF Typed
<1>2. [attempts[c] EXCEPT ![n] = k] \in [Node -> Nat]
  BY <1>1
<1> QED BY <1>1, <1>2

(* A layer has everything it waits for, and is empty only at the end. *)
LEMMA LayerFacts ==
  ASSUME NEW visited \in SUBSET Node
  PROVE  /\ NextLayer(visited) \subseteq Node \ visited
         /\ \A n \in NextLayer(visited) : Deps[n] \subseteq visited
         /\ NextLayer(visited) = {} => visited = Node
<1>1. CASE Node \ visited = {}
  BY <1>1 DEF NextLayer
<1>2. CASE Node \ visited # {}
  <2>1. PICK n \in Node \ visited : Deps[n] \cap (Node \ visited) = {}
    BY <1>2, GraphAssumption
  <2>2. Deps[n] \subseteq visited
    BY <2>1, GraphAssumption
  <2> QED BY <2>1, <2>2 DEF NextLayer
<1> QED BY <1>1, <1>2

------------------------------------------------------------------------------
(* Type correctness, one step per action. *)
LEMMA TypeInit == Init => TypeOK
<1> SUFFICES ASSUME Init PROVE Typed
  BY TypedIs
<1> USE DEF Init
<1>1. states \in Seq(StateRecord) /\ states # << >> /\ Len(states) = 1
  <2>1. [status |-> "idle", completed |-> {}] \in StateRecord
    BY DEF StateRecord, Status
  <2> QED BY <2>1
<1>2. calls \in [Call -> CallRecord]
  BY CallTyped DEF NoCall
<1>3. \A c \in Call : calls[c].own <= Len(states)
  <2>1. NoCall.own = 1
    BY CallTyped DEF NoCall
  <2> QED BY <1>1, <2>1
<1>4. checkpoints \in Seq(SUBSET Node)
  BY EmptySeq
<1>5. orders \in 0 .. MaxOrders
  BY GraphAssumption
<1> QED BY <1>1, <1>2, <1>3, <1>4, <1>5 DEF Typed, Work

(* The end of a node and the end of a call, wherever they are part of. *)
LEMMA NodeEndsTyped ==
  ASSUME TypeOK, NEW c \in Call, NEW n \in Node, NEW how \in Work,
         NEW outcome \in {"completed", "failed"}, NodeEnds(c, n, how, outcome)
  PROVE  /\ calls' \in [Call -> CallRecord]
         /\ \A x \in Call : calls'[x].own <= Len(states)
         /\ work' \in [Call -> [Node -> Work]]
         /\ attempts' \in [Call -> [Node -> Nat]]
<1>1. attempts' \in [Call -> [Node -> Nat]]
  BY AttemptsReplaced DEF NodeEnds
<1>2. work' \in [Call -> [Node -> Work]]
  <2>1. work' = [work EXCEPT ![c][n] = how] \/ work' = [work EXCEPT ![c][n] = "none"]
    BY DEF NodeEnds
  <2>2. "none" \in Work
    BY DEF Work
  <2> QED BY <2>1, <2>2, WorkReplaced
<1>3. calls' \in [Call -> CallRecord] /\ \A x \in Call : calls'[x].own <= Len(states)
  <2> DEFINE last == Returned("step", outcome)
  <2>1. last \in CallRecord /\ last.own = 1
    BY CallTyped
  <2>2. 1 <= Len(states)
    BY LastState
  <2>3. calls' = calls \/ calls' = [calls EXCEPT ![c] = last]
    BY DEF NodeEnds
  <2> HIDE DEF last
  <2>4. CASE calls' = calls
    BY <2>4, TypedIs DEF Typed
  <2>5. CASE calls' = [calls EXCEPT ![c] = last]
    BY <2>1, <2>2, <2>5, CallsReplaced
  <2> QED BY <2>3, <2>4, <2>5
<1> QED BY <1>1, <1>2, <1>3

LEMMA EndsTyped ==
  ASSUME TypeOK, NEW c \in Call, NEW outcome \in {"completed", "cancelled", "failed"},
         Ends(c, outcome)
  PROVE  /\ calls' \in [Call -> CallRecord]
         /\ \A x \in Call : calls'[x].own <= Len(states)
         /\ work' \in [Call -> [Node -> Work]]
<1>1. work' \in [Call -> [Node -> Work]]
  BY TypedIs DEF Typed, Ends, Work
<1>2. calls' \in [Call -> CallRecord] /\ \A x \in Call : calls'[x].own <= Len(states)
  <2> DEFINE last == Returned(calls[c].kind, outcome)
  <2>1. calls[c].kind \in {"none", "run", "step"}
    BY OwnState DEF CallRecord
  <2>2. last \in CallRecord /\ last.own = 1
    BY <2>1, CallTyped
  <2>3. 1 <= Len(states)
    BY LastState
  <2>4. calls' = [calls EXCEPT ![c] = last]
    BY DEF Ends
  <2> HIDE DEF last
  <2> QED BY <2>2, <2>3, <2>4, CallsReplaced
<1> QED BY <1>1, <1>2

LEMMA TypeStep == TypeOK /\ [Next]_vars => TypeOK'
<1> SUFFICES ASSUME TypeOK, [Next]_vars PROVE Typed'
  BY DEF TypeOK, Typed, StateRecord, CallRecord
<1> USE TypedIs, LastState, LastTyped DEF Typed
<1>1. ASSUME NEW c \in Call, Run(c) PROVE Typed'
  <2> DEFINE layer == NextLayer({})
             call == Begun("run", layer)
             first == [states[InPlace] EXCEPT !.status = "running"]
  <2>1. layer \subseteq Node
    BY LayerFacts
  <2>2. call \in CallRecord /\ call.own = Len(states)
    BY <2>1, CallTyped
  <2>3. first \in StateRecord
    BY DEF StateRecord, Status
  <2>4. states' = [states EXCEPT ![InPlace] = first]
    BY <1>1 DEF Run
  <2>5. states' \in Seq(StateRecord) /\ states' # << >> /\ Len(states') = Len(states)
    BY <2>3, <2>4, WrittenState
  <2>6. checkpoints' \in Seq(SUBSET Node)
    BY <1>1, AppendProperties DEF Run, StateRecord
  <2>7. work' \in [Call -> [Node -> Work]]
    BY <1>1 DEF Run, Starts, Work
  <2>8. calls' = [calls EXCEPT ![c] = call]
    BY <1>1 DEF Run
  <2>9. cancelSet' \in BOOLEAN /\ UNCHANGED <<attempts, orders, undone>>
    BY <1>1 DEF Run
  <2> HIDE DEF call
  <2>10. calls' \in [Call -> CallRecord] /\ \A x \in Call : calls'[x].own <= Len(states)
    BY <2>2, <2>8, CallsReplaced
  <2> QED BY <2>5, <2>6, <2>7, <2>9, <2>10
<1>2. ASSUME NEW c \in Call, NEW n \in StepNode, ExecuteStep(c, n) PROVE Typed'
  <2> DEFINE call == Begun("step", {n})
             first == [states[InPlace] EXCEPT !.status = "running"]
  <2>1. n \in Node
    BY GraphAssumption
  <2>2. call \in CallRecord /\ call.own = Len(states)
    BY <2>1, CallTyped
  <2>3. first \in StateRecord
    BY DEF StateRecord, Status
  <2>4. states' = [states EXCEPT ![InPlace] = first] \/ states' = states
    BY <1>2 DEF ExecuteStep
  <2>5. states' \in Seq(StateRecord) /\ states' # << >> /\ Len(states') = Len(states)
    BY <2>3, <2>4, WrittenState
  <2>6. checkpoints' \in Seq(SUBSET Node)
    BY <1>2, AppendProperties DEF ExecuteStep, StateRecord
  <2>7. work' \in [Call -> [Node -> Work]] /\ attempts' \in [Call -> [Node -> Nat]]
    <3>1. "created" \in Work /\ "attempting" \in Work /\ 1 \in Nat
      BY DEF Work
    <3>2. CASE n \in Conditional
      <4>1. work' = [work EXCEPT ![c][n] = "created"] /\ attempts' = attempts
        BY <1>2, <3>2 DEF ExecuteStep
      <4> QED BY <2>1, <3>1, <4>1, WorkReplaced
    <3>3. CASE n \notin Conditional
      <4>1. /\ work' = [work EXCEPT ![c][n] = "attempting"]
            /\ attempts' = [attempts EXCEPT ![c][n] = 1]
        BY <1>2, <3>3 DEF ExecuteStep
      <4> QED BY <2>1, <3>1, <4>1, WorkReplaced, AttemptsReplaced
    <3> QED BY <3>2, <3>3
  <2>8. calls' = [calls EXCEPT ![c] = call]
    BY <1>2 DEF ExecuteStep
  <2>9. UNCHANGED <<cancelSet, orders, undone>>
    BY <1>2 DEF ExecuteStep
  <2> HIDE DEF call
  <2>10. calls' \in [Call -> CallRecord] /\ \A x \in Call : calls'[x].own <= Len(states)
    BY <2>2, <2>8, CallsReplaced
  <2> QED BY <2>5, <2>6, <2>7, <2>9, <2>10
<1>3. ASSUME NEW c \in Call, NEW n \in Node, Enters(c, n) PROVE Typed'
  <2> DEFINE s == [states[calls[c].own] EXCEPT !.status = "running"]
  <2>1. s \in StateRecord
    BY OwnState DEF StateRecord, Status
  <2>2. states' = [states EXCEPT ![calls[c].own] = s]
    BY <1>3 DEF Enters
  <2>3. states' \in Seq(StateRecord) /\ states' # << >> /\ Len(states') = Len(states)
    BY <2>1, <2>2, WrittenState, OwnState
  <2> QED BY <1>3, <2>3 DEF Enters, Work
<1>4. ASSUME NEW c \in Call, NEW n \in Node, Skips(c, n) PROVE Typed'
  <2>1. NodeEnds(c, n, "skipped", "completed") /\ "skipped" \in Work
    BY <1>4 DEF Skips, Work
  <2> QED BY <1>4, <2>1, NodeEndsTyped DEF Skips
<1>12. ASSUME NEW c \in Call, NEW n \in Node, ConditionRaises(c, n) PROVE Typed'
  <2>1. NodeEnds(c, n, "raised", "failed") /\ "raised" \in Work
    BY <1>12 DEF ConditionRaises, Work
  <2> QED BY <1>12, <2>1, NodeEndsTyped DEF ConditionRaises
<1>5. ASSUME NEW c \in Call, NEW n \in Node, Succeeds(c, n) PROVE Typed'
  <2> DEFINE s == [states[calls[c].own] EXCEPT !.completed = @ \cup {n}]
  <2>1. s \in StateRecord
    BY OwnState DEF StateRecord
  <2>2. states' = [states EXCEPT ![calls[c].own] = s]
    BY <1>5 DEF Succeeds
  <2>3. states' \in Seq(StateRecord) /\ states' # << >> /\ Len(states') = Len(states)
    BY <2>1, <2>2, WrittenState, OwnState
  <2>4. NodeEnds(c, n, "done", "completed") /\ "done" \in Work
    BY <1>5 DEF Succeeds, Work
  <2> QED BY <1>5, <2>3, <2>4, NodeEndsTyped DEF Succeeds
<1>6. ASSUME NEW c \in Call, NEW n \in Node, Fails(c, n) PROVE Typed'
  <2>1. CASE attempts[c][n] >= MaxAttempts
    <3> DEFINE s == [states[calls[c].own] EXCEPT !.status = "failed"]
    <3>1. s \in StateRecord
      BY OwnState DEF StateRecord, Status
    <3>2. attempts[c][n] \in Nat /\ MaxAttempts \in Nat
      BY GraphAssumption
    <3>3. states' = [states EXCEPT ![calls[c].own] = s]
      BY <1>6, <2>1, <3>2 DEF Fails
    <3>4. states' \in Seq(StateRecord) /\ states' # << >> /\ Len(states') = Len(states)
      BY <3>1, <3>3, WrittenState, OwnState
    <3>5. NodeEnds(c, n, "raised", "failed") /\ "raised" \in Work
      BY <1>6, <2>1, <3>2 DEF Fails, Work
    <3> QED BY <1>6, <3>4, <3>5, NodeEndsTyped DEF Fails
  <2>2. CASE ~(attempts[c][n] >= MaxAttempts)
    <3>1. attempts[c][n] + 1 \in Nat
      OBVIOUS
    <3>2. attempts' = [attempts EXCEPT ![c][n] = attempts[c][n] + 1]
      BY <1>6, <2>2 DEF Fails
    <3>3. UNCHANGED <<work, states, calls, checkpoints, cancelSet, orders, undone>>
      BY <1>6, <2>2 DEF Fails
    <3>4. attempts' \in [Call -> [Node -> Nat]]
      BY <3>1, <3>2, AttemptsReplaced
    <3> QED BY <3>3, <3>4
  <2> QED BY <2>1, <2>2
<1>7. ASSUME NEW c \in Call, LayerFails(c) PROVE Typed'
  <2>1. PICK before \in SUBSET (calls[c].layer \ Raised(c)) :
          states' = [states EXCEPT ![calls[c].own].completed = @ \cup before,
                                   ![calls[c].own].status = "failed"]
    BY <1>7 DEF LayerFails
  <2> DEFINE s == [states[calls[c].own] EXCEPT !.completed = @ \cup before, !.status = "failed"]
  <2>2. s \in StateRecord
    BY OwnState DEF StateRecord, Status, CallRecord
  <2>3. states' = [states EXCEPT ![calls[c].own] = s]
    BY <2>1, OwnState DEF StateRecord
  <2>4. states' \in Seq(StateRecord) /\ states' # << >> /\ Len(states') = Len(states)
    BY <2>2, <2>3, WrittenState, OwnState
  <2>5. Ends(c, "failed")
    BY <1>7 DEF LayerFails
  <2> QED BY <1>7, <2>4, <2>5, EndsTyped DEF LayerFails
<1>8. ASSUME NEW c \in Call, LayerEnds(c) PROVE Typed'
  <2> DEFINE next == NextLayer(calls[c].visited)
             call == [calls[c] EXCEPT !.layer = next, !.visited = @ \cup next,
                                      !.results = @ \cup calls[c].layer]
  <2>1. Recorded(c) \in StateRecord
    BY OwnState DEF Recorded, StateRecord, CallRecord
  <2>2. states' = [states EXCEPT ![calls[c].own] = Recorded(c)]
    BY <1>8 DEF LayerEnds
  <2>3. states' \in Seq(StateRecord) /\ states' # << >> /\ Len(states') = Len(states)
    BY <2>1, <2>2, WrittenState, OwnState
  <2>0. calls[c].visited \in SUBSET Node
    BY OwnState DEF CallRecord
  <2>4. next \subseteq Node
    BY <2>0, LayerFacts
  <2>5. call \in CallRecord /\ call.own = calls[c].own
    BY <2>4, OwnState DEF CallRecord
  <2>6. calls' = [calls EXCEPT ![c] = call]
    BY <1>8 DEF LayerEnds
  <2>7. work' \in [Call -> [Node -> Work]]
    BY <1>8 DEF LayerEnds, Starts, Work
  <2>8. UNCHANGED <<checkpoints, cancelSet, attempts, orders, undone>>
    BY <1>8 DEF LayerEnds
  <2> HIDE DEF call
  <2>9. calls' \in [Call -> CallRecord] /\ \A x \in Call : calls'[x].own <= Len(states)
    BY <2>5, <2>6, CallsReplaced
  <2> QED BY <2>3, <2>7, <2>8, <2>9
<1>9. ASSUME NEW c \in Call, RunEnds(c) PROVE Typed'
  <2> DEFINE status == IF NextLayer(calls[c].visited) # {} THEN "cancelled" ELSE Recorded(c).status
             last == IF status # "cancelled" THEN "completed" ELSE status
             s == [Recorded(c) EXCEPT !.status = last]
  <2>1. Recorded(c) \in StateRecord
    BY OwnState DEF Recorded, StateRecord, CallRecord
  <2>2. last \in {"completed", "cancelled"} /\ s \in StateRecord
    BY <2>1 DEF StateRecord, Status
  <2>3. states' = [states EXCEPT ![calls[c].own] = s] /\ Ends(c, last)
    BY <1>9 DEF RunEnds
  <2> HIDE DEF last, s
  <2>4. states' \in Seq(StateRecord) /\ states' # << >> /\ Len(states') = Len(states)
    BY <2>2, <2>3, WrittenState, OwnState
  <2> QED BY <1>9, <2>2, <2>3, <2>4, EndsTyped DEF RunEnds
<1>10. ASSUME Order PROVE Typed'
  <2>1. orders' \in 0 .. MaxOrders
    BY <1>10, GraphAssumption DEF Order
  <2>2. ASSUME NEW status \in Status, Marks(status) PROVE Typed'
    <3> DEFINE s == [states[InPlace] EXCEPT !.status = status]
    <3>1. s \in StateRecord
      BY DEF StateRecord
    <3>2. states' = [states EXCEPT ![InPlace] = s]
      BY <2>2 DEF Marks
    <3>3. states' \in Seq(StateRecord) /\ states' # << >> /\ Len(states') = Len(states)
      BY <3>1, <3>2, WrittenState
    <3> QED BY <2>1, <2>2, <3>3 DEF Marks
  <2>3. CASE \E status \in {"paused", "running"} : Marks(status)
    BY <2>2, <2>3 DEF Status
  <2>4. CASE Cancel
    <3> DEFINE s == [states[InPlace] EXCEPT !.status = "cancelled"]
    <3>1. s \in StateRecord
      BY DEF StateRecord, Status
    <3>2. states' = [states EXCEPT ![InPlace] = s]
      BY <2>4 DEF Cancel
    <3>3. states' \in Seq(StateRecord) /\ states' # << >> /\ Len(states') = Len(states)
      BY <3>1, <3>2, WrittenState
    <3> QED BY <2>1, <2>4, <3>3 DEF Cancel
  <2>5. CASE Rollback
    <3>1. CASE checkpoints = << >>
      BY <2>2, <2>5, <3>1 DEF Rollback, Status
    <3>2. CASE checkpoints # << >>
      <4>1. checkpoints[Len(checkpoints)] \in SUBSET Node
        BY <3>2, ElementOfSeq, LenProperties, EmptySeq
      <4>2. RolledBack \in StateRecord
        BY <4>1 DEF RolledBack, StateRecord, Status
      <4>3. states' \in Seq(StateRecord) /\ states' # << >> /\ Len(states') = Len(states) + 1
        <5>1. states' = Append(states, RolledBack)
          BY <2>5, <3>2 DEF Rollback
        <5> QED BY <4>2, <5>1, AppendProperties
      <4>4. undone' \subseteq Call
        BY <2>5, <3>2 DEF Rollback
      <4>5. \A c \in Call : calls'[c].own \in Nat /\ calls'[c].own <= Len(states')
        BY <2>5, <3>2, <4>3, OwnState DEF Rollback
      <4> QED BY <2>1, <2>5, <3>2, <4>3, <4>4, <4>5 DEF Rollback
    <3> QED BY <3>1, <3>2
  <2>6. CASE \E payload \in Payload : DeserialiseState(payload)
    <3>1. PICK payload \in Payload : DeserialiseState(payload)
      BY <2>6
    <3>2. payload \in StateRecord
      BY GraphAssumption DEF StateRecord
    <3>3. states' \in Seq(StateRecord) /\ states' # << >> /\ Len(states') = Len(states)
      BY <3>1, <3>2, WrittenState DEF DeserialiseState
    <3> QED BY <2>1, <3>1, <3>3 DEF DeserialiseState
  <2> QED BY <1>10, <2>3, <2>4, <2>5, <2>6 DEF Order
<1>11. CASE UNCHANGED vars
  BY <1>11 DEF vars
<1> QED BY <1>1, <1>2, <1>3, <1>4, <1>5, <1>6, <1>7, <1>8, <1>9, <1>10, <1>11, <1>12
        DEF Next, NodeStep, LayerStep

------------------------------------------------------------------------------
(* The shape of a call. *)
LEMMA ShapeInit == Init => \A c \in Call : Shape(c)
<1> SUFFICES ASSUME Init, NEW c \in Call PROVE Shape(c)
  OBVIOUS
<1>1. calls[c].kind = "none" /\ ~UnderWay(c) /\ c \notin undone
  BY DEF Init, NoCall, Returned, UnderWay
<1>2. \A n \in Node : work[c][n] = "none"
  BY DEF Init
<1>3. ~(c <= Len(checkpoints))
  BY EmptySeq, GraphAssumption DEF Init, Call
<1> QED BY <1>1, <1>2, <1>3 DEF Shape

(* A step of somebody else leaves it alone. *)
LEMMA ShapeUntouched ==
  ASSUME NEW c \in Call, Shape(c), UNCHANGED <<calls[c], work[c], undone>>,
         c <= Len(checkpoints) <=> c <= Len(checkpoints'), Len(states') = Len(states)
  PROVE  Shape(c)'
BY DEF Shape, UnderWay

LEMMA ShapeNodeEnds ==
  ASSUME TypeOK, TypeOK', NEW c \in Call, NEW n \in Node, Shape(c),
         NEW how \in {"done", "skipped", "raised"}, NEW outcome \in {"completed", "failed"},
         work[c][n] \in {"created", "attempting"}, NodeEnds(c, n, how, outcome),
         UNCHANGED <<checkpoints, undone>>, Len(states') = Len(states)
  PROVE  Shape(c)'
<1>1. n \in calls[c].visited /\ UnderWay(c)
  BY DEF Shape
<1>2. calls[c] \in CallRecord /\ work[c] \in [Node -> Work] /\ calls \in [Call -> CallRecord]
      /\ work \in [Call -> [Node -> Work]]
  BY TypedIs DEF Typed
<1>3. CASE calls[c].kind = "run"
  <2>1. calls' = calls /\ work' = [work EXCEPT ![c][n] = how]
    BY <1>3 DEF NodeEnds
  <2>2. \A m \in Node : work'[c][m] = IF m = n THEN how ELSE work[c][m]
    BY <1>2, <2>1
  <2>3. n \notin calls[c].results
    BY <1>1 DEF Shape
  <2>4. UnderWay(c)'
    BY <1>1, <2>1 DEF UnderWay
  <2> QED BY <1>1, <1>2, <2>1, <2>2, <2>3, <2>4 DEF Shape, UnderWay, CallRecord
<1>4. CASE calls[c].kind = "step"
  <2>1. calls'[c] = Returned("step", outcome) /\ work' = [work EXCEPT ![c][n] = "none"]
    BY <1>2, <1>4 DEF NodeEnds
  <2>2. \A m \in Node : work'[c][m] = IF m = n THEN "none" ELSE work[c][m]
    BY <1>2, <2>1
  <2>3. \A m \in Node : m # n => work[c][m] = "none"
    BY <1>1, <1>4 DEF Shape
  <2>4. calls'[c].kind = "step" /\ ~UnderWay(c)'
    BY <2>1 DEF Returned, UnderWay
  <2> QED BY <1>1, <1>4, <2>2, <2>3, <2>4 DEF Shape
<1>5. calls[c].kind \in {"run", "step"}
  BY <1>1, <1>2 DEF UnderWay, CallRecord
<1> QED BY <1>3, <1>4, <1>5

LEMMA ShapeEnds ==
  ASSUME TypeOK, NEW c \in Call, Shape(c), Gathered(c),
         NEW outcome \in {"completed", "cancelled", "failed"}, Ends(c, outcome),
         UNCHANGED <<checkpoints, undone>>
  PROVE  Shape(c)'
<1>1. UnderWay(c) /\ calls[c].kind = "run" /\ \A n \in calls[c].layer : work[c][n] \in Ended
  BY DEF Gathered, UnderWay
<1>2. /\ calls[c] \in CallRecord
      /\ calls \in [Call -> CallRecord] /\ work \in [Call -> [Node -> Work]]
  BY TypedIs DEF Typed
<1>3. calls'[c] = Returned("run", outcome)
  BY <1>1, <1>2 DEF Ends
<1>4. calls'[c].kind = "run" /\ ~UnderWay(c)'
  BY <1>3 DEF Returned, UnderWay
<1>5. \A n \in Node : work[c][n] \in Ended \/ work[c][n] = "none"
  BY <1>1 DEF Shape, Ended
<1>6. \A n \in Node : work'[c][n] = IF work[c][n] \in Ended THEN "none" ELSE work[c][n]
  BY <1>2 DEF Ends
<1>7. \A n \in Node : work'[c][n] = "none"
  BY <1>5, <1>6
<1> QED BY <1>1, <1>4, <1>7 DEF Shape

(* What the steps of a call leave alone, of it and of the others. *)
LEMMA Aside ==
  ASSUME TypeOK, NEW c \in Call,
         LayerStep(c) \/ \E n \in Node : NodeStep(c, n)
  PROVE  /\ UNCHANGED <<checkpoints, undone>>
         /\ Len(states') = Len(states)
         /\ calls[c].own < Len(states) => states'[Len(states')] = states[InPlace]
         /\ \A x \in Call \ {c} : calls'[x] = calls[x] /\ work'[x] = work[x]
<1> USE TypedIs DEF Typed
<1>1. UNCHANGED <<checkpoints, undone>>
  BY DEF LayerStep, NodeStep, Enters, Skips, ConditionRaises, Succeeds, Fails, LayerFails, LayerEnds, RunEnds
<1>2. \A x \in Call \ {c} : calls'[x] = calls[x] /\ work'[x] = work[x]
  BY DEF LayerStep, NodeStep, Enters, Skips, ConditionRaises, Succeeds, Fails, LayerFails, LayerEnds, RunEnds,
         NodeEnds, Ends
<1>3. states' = states \/ \E s \in StateRecord : states' = [states EXCEPT ![calls[c].own] = s]
  <2> DEFINE old == states[calls[c].own]
  <2>1. old \in StateRecord /\ calls[c] \in CallRecord
    BY OwnState
  <2>2. ASSUME NEW n \in Node, NodeStep(c, n)
        PROVE  states' = states \/ \E s \in StateRecord : states' = [states EXCEPT ![calls[c].own] = s]
    <3>1. /\ [old EXCEPT !.status = "running"] \in StateRecord
          /\ [old EXCEPT !.status = "failed"] \in StateRecord
          /\ [old EXCEPT !.completed = @ \cup {n}] \in StateRecord
      BY <2>1 DEF StateRecord, Status
    <3>2. \/ states' = states
          \/ states' = [states EXCEPT ![calls[c].own] = [old EXCEPT !.status = "running"]]
          \/ states' = [states EXCEPT ![calls[c].own] = [old EXCEPT !.status = "failed"]]
          \/ states' = [states EXCEPT ![calls[c].own] = [old EXCEPT !.completed = @ \cup {n}]]
      BY <2>2 DEF NodeStep, Enters, Skips, ConditionRaises, Succeeds, Fails
    <3> QED BY <3>1, <3>2
  <2>3. ASSUME LayerFails(c)
        PROVE  \E s \in StateRecord : states' = [states EXCEPT ![calls[c].own] = s]
    <3>1. PICK before \in SUBSET (calls[c].layer \ Raised(c)) :
            states' = [states EXCEPT ![calls[c].own].completed = @ \cup before,
                                     ![calls[c].own].status = "failed"]
      BY <2>3 DEF LayerFails
    <3> DEFINE s == [old EXCEPT !.completed = @ \cup before, !.status = "failed"]
    <3>2. s \in StateRecord
      BY <2>1 DEF StateRecord, Status, CallRecord
    <3>3. states' = [states EXCEPT ![calls[c].own] = s]
      BY <3>1, OwnState DEF StateRecord
    <3> QED BY <3>2, <3>3
  <2>4. Recorded(c) \in StateRecord
    BY <2>1 DEF Recorded, StateRecord, CallRecord
  <2>5. ASSUME LayerEnds(c)
        PROVE  \E s \in StateRecord : states' = [states EXCEPT ![calls[c].own] = s]
    BY <2>4, <2>5 DEF LayerEnds
  <2>6. ASSUME RunEnds(c)
        PROVE  \E s \in StateRecord : states' = [states EXCEPT ![calls[c].own] = s]
    <3>1. /\ [Recorded(c) EXCEPT !.status = "completed"] \in StateRecord
          /\ [Recorded(c) EXCEPT !.status = "cancelled"] \in StateRecord
      BY <2>4 DEF StateRecord, Status
    <3>2. \E last \in {"completed", "cancelled"} :
            states' = [states EXCEPT ![calls[c].own] = [Recorded(c) EXCEPT !.status = last]]
      BY <2>6 DEF RunEnds
    <3> QED BY <3>1, <3>2
  <2> QED BY <2>2, <2>3, <2>5, <2>6 DEF LayerStep
<1>4. CASE states' = states
  BY <1>1, <1>2, <1>4 DEF InPlace
<1>5. CASE \E s \in StateRecord : states' = [states EXCEPT ![calls[c].own] = s]
  <2>1. PICK s \in StateRecord : states' = [states EXCEPT ![calls[c].own] = s]
    BY <1>5
  <2>2. calls[c].own \in 1 .. Len(states)
    BY OwnState
  <2> QED BY <1>1, <1>2, <2>1, <2>2, WrittenState
<1> QED BY <1>3, <1>4, <1>5

------------------------------------------------------------------------------
LEMMA ShapeStep ==
  ASSUME IInv, [Next]_vars, TypeOK'
  PROVE  \A x \in Call : Shape(x)'
<1> SUFFICES ASSUME NEW x \in Call PROVE Shape(x)'
  OBVIOUS
<1> USE TypedIs DEF Typed
<1>1. TypeOK /\ Shape(x)
  BY DEF IInv
<1>2. ASSUME NEW c \in Call, x # c, LayerStep(c) \/ \E n \in Node : NodeStep(c, n)
      PROVE  Shape(x)'
  BY <1>1, <1>2, Aside, ShapeUntouched
<1>3. ASSUME NewCall(x)
      PROVE  x = Len(checkpoints) + 1 /\ x \notin undone /\ \A n \in Node : work[x][n] = "none"
  <2>1. Len(checkpoints) \in Nat
    BY <1>1, LenProperties
  <2>2. ~(x <= Len(checkpoints))
    BY <1>3, <2>1 DEF NewCall
  <2>3. calls[x].kind = "none"
    BY <1>1, <2>2 DEF Shape
  <2> QED BY <1>1, <1>3, <2>3 DEF Shape, NewCall, UnderWay
<1>4. ASSUME NEW c \in Call, NEW e \in SUBSET Node, NewCall(c), x # c,
             checkpoints' = Append(checkpoints, e)
      PROVE  x <= Len(checkpoints) <=> x <= Len(checkpoints')
  <2>1. Len(checkpoints) \in Nat /\ Len(checkpoints') = Len(checkpoints) + 1
    BY <1>1, <1>4, LenProperties, AppendProperties
  <2> QED BY <1>4, <2>1, GraphAssumption DEF NewCall, Call
<1>5. ASSUME NewCall(x), NEW e \in SUBSET Node, checkpoints' = Append(checkpoints, e)
      PROVE  x <= Len(checkpoints')
  <2>1. Len(checkpoints) \in Nat /\ Len(checkpoints') = Len(checkpoints) + 1
    BY <1>1, <1>5, LenProperties, AppendProperties
  <2> QED BY <1>5, <2>1 DEF NewCall
<1>6. states[InPlace].completed \in SUBSET Node
  BY <1>1, LastTyped DEF StateRecord
<1>7. ASSUME NEW c \in Call, Run(c) PROVE Shape(x)'
  <2>1. /\ NewCall(c) /\ checkpoints' = Append(checkpoints, states[InPlace].completed)
        /\ calls' = [calls EXCEPT ![c] = Begun("run", NextLayer({}))]
        /\ work' = [work EXCEPT ![c] = Starts(NextLayer({}), work[c])]
        /\ undone' = undone
    BY <1>7 DEF Run
  <2>2. Len(states') = Len(states)
    <3>1. [states[InPlace] EXCEPT !.status = "running"] \in StateRecord
      BY <1>1, LastTyped DEF StateRecord, Status
    <3>2. states' = [states EXCEPT ![InPlace] = [states[InPlace] EXCEPT !.status = "running"]]
      BY <1>7 DEF Run
    <3> QED BY <1>1, <3>1, <3>2, LastState, WrittenState
  <2>3. CASE x # c
    BY <1>1, <1>4, <1>6, <2>1, <2>2, <2>3, ShapeUntouched
  <2>4. CASE x = c
    <3> DEFINE layer == NextLayer({})
    <3>1. \A n \in Node : work'[c][n] = IF n \in layer THEN "created" ELSE "none"
      BY <1>1, <1>3, <2>1, <2>4 DEF Starts
    <3>2. calls'[c] = Begun("run", layer)
      BY <1>1, <2>1
    <3>3. /\ calls'[c].kind = "run" /\ calls'[c].visited = layer /\ calls'[c].layer = layer
          /\ calls'[c].results = {} /\ UnderWay(c)'
      BY <3>2 DEF Begun, UnderWay
    <3>4. layer \subseteq Node /\ \A n \in layer : Deps[n] \subseteq {}
      BY LayerFacts
    <3>5. c <= Len(checkpoints') /\ c \notin undone'
      BY <1>3, <1>5, <1>6, <2>1, <2>4
    <3> HIDE DEF layer
    <3> QED BY <2>4, <3>1, <3>3, <3>4, <3>5 DEF Shape
  <2> QED BY <2>3, <2>4
<1>8. ASSUME NEW c \in Call, NEW n \in StepNode, ExecuteStep(c, n) PROVE Shape(x)'
  <2>0. n \in Node
    BY GraphAssumption
  <2>1. /\ NewCall(c) /\ checkpoints' = Append(checkpoints, states[InPlace].completed)
        /\ calls' = [calls EXCEPT ![c] = Begun("step", {n})]
        /\ \E w \in {"created", "attempting"} : work' = [work EXCEPT ![c][n] = w]
        /\ undone' = undone
    BY <1>8 DEF ExecuteStep
  <2>2. Len(states') = Len(states)
    <3>1. [states[InPlace] EXCEPT !.status = "running"] \in StateRecord
      BY <1>1, LastTyped DEF StateRecord, Status
    <3>2. states' = states
          \/ states' = [states EXCEPT ![InPlace] = [states[InPlace] EXCEPT !.status = "running"]]
      BY <1>8 DEF ExecuteStep
    <3> QED BY <1>1, <3>1, <3>2, LastState, WrittenState
  <2>3. CASE x # c
    <3>1. calls'[x] = calls[x] /\ work'[x] = work[x]
      BY <1>1, <2>1, <2>3
    <3> QED BY <1>1, <1>4, <1>6, <2>1, <2>2, <2>3, <3>1, ShapeUntouched
  <2>4. CASE x = c
    <3>1. PICK w \in {"created", "attempting"} : work' = [work EXCEPT ![c][n] = w]
      BY <2>1
    <3>2. \A m \in Node : work'[c][m] = IF m = n THEN w ELSE "none"
      BY <1>1, <1>3, <2>0, <2>1, <2>4, <3>1
    <3>3. calls'[c] = Begun("step", {n})
      BY <1>1, <2>1
    <3>4. /\ calls'[c].kind = "step" /\ calls'[c].visited = {n} /\ calls'[c].layer = {n}
          /\ calls'[c].results = {} /\ UnderWay(c)'
      BY <3>3 DEF Begun, UnderWay
    <3>5. c <= Len(checkpoints') /\ c \notin undone'
      BY <1>3, <1>5, <1>6, <2>1, <2>4
    <3> QED BY <2>0, <2>4, <3>2, <3>4, <3>5 DEF Shape
  <2> QED BY <2>3, <2>4
<1>9. ASSUME NEW c \in Call, NEW n \in Node, Enters(c, n) PROVE Shape(x)'
  <2>1. CASE x = c
    <3>1. /\ work[c][n] = "created" /\ work' = [work EXCEPT ![c][n] = "attempting"]
          /\ UNCHANGED <<checkpoints, calls, undone>>
      BY <1>9 DEF Enters
    <3>2. \A m \in Node : work'[c][m] = IF m = n THEN "attempting" ELSE work[c][m]
      BY <1>1, <3>1
    <3>3. Len(states') = Len(states)
      BY <1>1, <1>9, Aside DEF NodeStep
    <3>4. n \in calls[c].visited /\ n \notin calls[c].results /\ UnderWay(c)
      BY <1>1, <2>1, <3>1 DEF Shape
    <3>5. calls[c].results \subseteq Node
      BY <1>1, OwnState DEF CallRecord
    <3> QED BY <1>1, <2>1, <3>1, <3>2, <3>3, <3>4, <3>5 DEF Shape, UnderWay
  <2>2. CASE x # c
    BY <1>2, <1>9, <2>2 DEF NodeStep
  <2> QED BY <2>1, <2>2
<1>10. ASSUME NEW c \in Call, NEW n \in Node,
              Skips(c, n) \/ ConditionRaises(c, n) \/ Succeeds(c, n)
       PROVE  Shape(x)'
  <2>1. CASE x = c
    <3>1. /\ work[c][n] \in {"created", "attempting"}
          /\ \/ NodeEnds(c, n, "skipped", "completed")
             \/ NodeEnds(c, n, "raised", "failed")
             \/ NodeEnds(c, n, "done", "completed")
      BY <1>10 DEF Skips, ConditionRaises, Succeeds
    <3>2. UNCHANGED <<checkpoints, undone>> /\ Len(states') = Len(states)
      BY <1>1, <1>10, Aside DEF NodeStep
    <3> QED BY <1>1, <2>1, <3>1, <3>2, ShapeNodeEnds
  <2>2. CASE x # c
    BY <1>2, <1>10, <2>2 DEF NodeStep
  <2> QED BY <2>1, <2>2
<1>11. ASSUME NEW c \in Call, NEW n \in Node, Fails(c, n) PROVE Shape(x)'
  <2>0. UNCHANGED <<checkpoints, undone>> /\ Len(states') = Len(states)
    BY <1>1, <1>11, Aside DEF NodeStep
  <2>1. CASE x = c /\ NodeEnds(c, n, "raised", "failed")
    <3>1. work[c][n] \in {"created", "attempting"}
      BY <1>11 DEF Fails
    <3> QED BY <1>1, <2>0, <2>1, <3>1, ShapeNodeEnds
  <2>2. CASE UNCHANGED <<work, states, calls>>
    BY <1>1, <2>0, <2>2, ShapeUntouched
  <2>3. CASE x # c
    BY <1>2, <1>11, <2>3 DEF NodeStep
  <2> QED BY <1>11, <2>1, <2>2, <2>3 DEF Fails
<1>12. ASSUME NEW c \in Call, LayerFails(c) \/ RunEnds(c) PROVE Shape(x)'
  <2>1. CASE x = c
    <3>1. Gathered(c) /\ \E outcome \in {"completed", "cancelled", "failed"} : Ends(c, outcome)
      BY <1>12 DEF LayerFails, RunEnds
    <3>2. UNCHANGED <<checkpoints, undone>>
      BY <1>12 DEF LayerFails, RunEnds
    <3> QED BY <1>1, <2>1, <3>1, <3>2, ShapeEnds
  <2>2. CASE x # c
    BY <1>2, <1>12, <2>2 DEF LayerStep
  <2> QED BY <2>1, <2>2
<1>13. ASSUME NEW c \in Call, LayerEnds(c) PROVE Shape(x)'
  <2>1. CASE x = c
    <3> DEFINE next == NextLayer(calls[c].visited)
    <3>1. /\ Gathered(c) /\ Raised(c) = {}
          /\ calls' = [calls EXCEPT ![c].layer = next, ![c].visited = @ \cup next,
                                    ![c].results = @ \cup calls[c].layer]
          /\ work' = [work EXCEPT ![c] = Starts(next, work[c])]
      BY <1>13 DEF LayerEnds
    <3>2. /\ calls[c] \in CallRecord /\ calls[c].visited \in SUBSET Node
          /\ calls[c].kind = "run" /\ UnderWay(c)
      BY <1>1, <3>1, OwnState DEF CallRecord, Gathered, UnderWay
    <3>3. /\ next \subseteq Node \ calls[c].visited
          /\ \A n \in next : Deps[n] \subseteq calls[c].visited
      BY <3>2, LayerFacts
    <3> HIDE DEF next
    <3>4. /\ calls'[c].layer = next /\ calls'[c].visited = calls[c].visited \cup next
          /\ calls'[c].results = calls[c].results \cup calls[c].layer
          /\ calls'[c].kind = "run" /\ calls'[c].outcome = "none" /\ calls'[c].own = calls[c].own
      BY <1>1, <3>1, <3>2 DEF CallRecord, UnderWay
    <3>5. \A n \in Node : work'[c][n] = IF n \in next THEN "created" ELSE work[c][n]
      BY <1>1, <3>1 DEF Starts
    <3>6. \A n \in calls[c].layer : work[c][n] \in {"done", "skipped"}
      BY <3>1 DEF Gathered, Raised, Ended
    <3>7. calls[c].visited = calls[c].results \cup calls[c].layer
      BY <1>1, <2>1, <3>2 DEF Shape
    <3>8. \A n \in calls'[c].results : n \notin next /\ work[c][n] \in {"done", "skipped"} /\ n \in Node
      BY <1>1, <2>1, <3>2, <3>3, <3>4, <3>6, <3>7 DEF Shape
    <3>9. UNCHANGED <<checkpoints, undone>> /\ Len(states') = Len(states)
      BY <1>1, <1>13, Aside DEF LayerStep
    <3>10. UnderWay(c)'
      BY <3>4 DEF UnderWay
    <3>11. \A n \in Node : work'[c][n] # "none" <=> n \in calls'[c].visited
      BY <1>1, <2>1, <3>2, <3>3, <3>4, <3>5 DEF Shape
    <3>12. \A n \in calls'[c].results : work'[c][n] \in {"done", "skipped"}
      BY <3>5, <3>8
    <3> QED BY <1>1, <2>1, <3>2, <3>3, <3>4, <3>7, <3>9, <3>10, <3>11, <3>12 DEF Shape
  <2>2. CASE x # c
    BY <1>2, <1>13, <2>2 DEF LayerStep
  <2> QED BY <2>1, <2>2
<1>14. ASSUME Order PROVE Shape(x)'
  <2>1. UNCHANGED <<checkpoints, calls, work>>
    BY <1>14 DEF Order, Marks, Cancel, Rollback, DeserialiseState
  <2>2. ASSUME NEW s \in StateRecord, states' = [states EXCEPT ![InPlace] = s], undone' = undone
        PROVE  Shape(x)'
    BY <1>1, <2>1, <2>2, LastState, WrittenState, ShapeUntouched
  <2>3. ASSUME NEW status \in Status, Marks(status) PROVE Shape(x)'
    <3>1. [states[InPlace] EXCEPT !.status = status] \in StateRecord
      BY <1>1, LastTyped DEF StateRecord
    <3> QED BY <2>2, <2>3, <3>1 DEF Marks
  <2>4. CASE \E status \in {"paused", "running"} : Marks(status)
    BY <2>3, <2>4 DEF Status
  <2>5. CASE Cancel
    <3>1. [states[InPlace] EXCEPT !.status = "cancelled"] \in StateRecord
      BY <1>1, LastTyped DEF StateRecord, Status
    <3> QED BY <2>2, <2>5, <3>1 DEF Cancel
  <2>6. CASE Rollback
    <3>1. CASE checkpoints = << >>
      BY <2>3, <2>6, <3>1 DEF Rollback, Status
    <3>2. CASE checkpoints # << >>
      <4>1. states' = Append(states, RolledBack) /\ undone' = undone \cup {c \in Call : UnderWay(c)}
        BY <2>6, <3>2 DEF Rollback
      <4>2. checkpoints[Len(checkpoints)] \in SUBSET Node
        BY <1>1, <3>2, ElementOfSeq, LenProperties, EmptySeq
      <4>3. RolledBack \in StateRecord
        BY <4>2 DEF RolledBack, StateRecord, Status
      <4>4. Len(states') = Len(states) + 1 /\ Len(states) \in Nat
        BY <1>1, <4>1, <4>3, AppendProperties, LastState
      <4>5. calls[x].own \in 1 .. Len(states)
        BY <1>1, OwnState
      <4>6. x \in undone' => calls[x].kind # "none"
        BY <1>1, <4>1 DEF Shape, UnderWay
      <4> QED BY <1>1, <2>1, <4>4, <4>5, <4>6 DEF Shape, UnderWay
    <3> QED BY <3>1, <3>2
  <2>7. CASE \E payload \in Payload : DeserialiseState(payload)
    BY <2>2, <2>7, GraphAssumption DEF DeserialiseState, StateRecord
  <2> QED BY <1>14, <2>4, <2>5, <2>6, <2>7 DEF Order
<1>15. CASE UNCHANGED vars
  BY <1>1, <1>15, ShapeUntouched DEF vars
<1> QED BY <1>7, <1>8, <1>9, <1>10, <1>11, <1>12, <1>13, <1>14, <1>15
        DEF Next, NodeStep, LayerStep

------------------------------------------------------------------------------
LEMMA Inductive == Spec => []IInv
<1>1. Init => IInv
  BY TypeInit, ShapeInit DEF IInv
<1>2. IInv /\ [Next]_vars => IInv'
  BY TypeStep, ShapeStep DEF IInv
<1> QED BY <1>1, <1>2, PTL DEF Spec

(* Every variable of the runner keeps its type. *)
THEOREM TypeCorrect == Spec => []TypeOK
<1>1. IInv => TypeOK
  BY DEF IInv
<1> QED BY <1>1, Inductive, PTL

(* A node of a run has the results of all its dependencies. *)
THEOREM InputsAreComplete == Spec => []InputsComplete
<1>1. IInv => InputsComplete
  <2> SUFFICES ASSUME IInv, NEW c \in Call, calls[c].kind = "run", NEW n \in Open(c)
               PROVE  Deps[n] \subseteq calls[c].results
    BY DEF InputsComplete
  <2>1. n \in Node /\ work[c][n] \in {"created", "attempting"}
    BY DEF Open
  <2>2. n \in calls[c].layer /\ UnderWay(c)
    BY <2>1 DEF IInv, Shape
  <2> QED BY <2>2 DEF IInv, Shape
<1> QED BY <1>1, Inductive, PTL

(* Nothing goes on of a call that has returned or raised. *)
THEOREM NothingGoesOn == Spec => []EndedIsQuiet
<1>1. IInv => EndedIsQuiet
  BY DEF IInv, Shape, EndedIsQuiet, Open
<1> QED BY <1>1, Inductive, PTL

(* What a run returns, or that it raises, is what became of its nodes. *)
THEOREM OutcomesHonest == Spec => OutcomeHonest
<1> DEFINE Honest == \A c \in Call : calls[c].kind = "run" /\ UnderWay(c) /\ ~UnderWay(c)' =>
             /\ calls'[c].outcome = "completed" =>
                  Node = calls[c].results \cup {n \in Node : work[c][n] \in {"done", "skipped"}}
             /\ calls'[c].outcome = "failed" <=> \E n \in Node : work[c][n] = "raised"
<1>1. ASSUME IInv, [Next]_vars PROVE [Honest]_vars
  <2> SUFFICES ASSUME Next, NEW c \in Call, calls[c].kind = "run", UnderWay(c), ~UnderWay(c)'
               PROVE  /\ calls'[c].outcome = "completed" =>
                           Node = calls[c].results \cup {n \in Node : work[c][n] \in {"done", "skipped"}}
                      /\ calls'[c].outcome = "failed" <=> \E n \in Node : work[c][n] = "raised"
    BY <1>1
  <2>1. TypeOK /\ Shape(c) /\ calls \in [Call -> CallRecord] /\ calls[c] \in CallRecord
    BY <1>1, TypedIs DEF IInv, Typed
  <2>2. calls'[c] # calls[c]
    BY DEF UnderWay
  <2>3. ASSUME LayerFails(c) \/ RunEnds(c)
        PROVE  /\ calls[c].visited = calls[c].results \cup calls[c].layer
               /\ \A n \in calls[c].layer : work[c][n] \in Ended
               /\ (\E n \in Node : work[c][n] = "raised") <=> Raised(c) # {}
    <3>1. Gathered(c)
      BY <2>3 DEF LayerFails, RunEnds
    <3>2. calls[c].layer \subseteq Node
      BY <2>1 DEF CallRecord
    <3>3. \A n \in Node : work[c][n] = "raised" => n \in calls[c].layer
      BY <2>1 DEF Shape
    <3> QED BY <2>1, <3>1, <3>2, <3>3 DEF Shape, Gathered, Raised
  <2>4. CASE LayerFails(c)
    <3>1. calls'[c] = Returned("run", "failed")
      BY <2>1, <2>4 DEF LayerFails, Ends
    <3>2. calls'[c].outcome = "failed"
      BY <3>1 DEF Returned
    <3>3. \E n \in Node : work[c][n] = "raised"
      BY <2>3, <2>4 DEF LayerFails
    <3> QED BY <3>2, <3>3
  <2>5. CASE RunEnds(c)
    <3> DEFINE status == IF NextLayer(calls[c].visited) # {} THEN "cancelled" ELSE Recorded(c).status
               last == IF status # "cancelled" THEN "completed" ELSE status
    <3>1. last \in {"completed", "cancelled"} /\ (last = "completed" => NextLayer(calls[c].visited) = {})
      OBVIOUS
    <3>2. Ends(c, last) /\ Raised(c) = {}
      BY <2>5 DEF RunEnds
    <3> HIDE DEF last
    <3>3. calls'[c] = Returned("run", last)
      BY <2>1, <3>2 DEF Ends
    <3>4. calls'[c].outcome = last
      BY <3>3 DEF Returned
    <3>5. calls[c].visited \in SUBSET Node
      BY <2>1 DEF CallRecord
    <3>6. last = "completed" => Node = calls[c].results \cup calls[c].layer
      BY <2>3, <2>5, <3>1, <3>5, LayerFacts
    <3>7. \A n \in calls[c].layer : work[c][n] \in {"done", "skipped"}
      BY <2>3, <2>5, <3>2 DEF Raised, Ended
    <3>8. last = "completed" =>
            Node = calls[c].results \cup {n \in Node : work[c][n] \in {"done", "skipped"}}
      BY <3>6, <3>7
    <3>9. calls'[c].outcome # "failed"
      BY <3>1, <3>4
    <3> QED BY <2>3, <2>5, <3>2, <3>4, <3>8, <3>9
  <2>6. ASSUME NEW d \in Call, d # c, LayerStep(d) \/ \E n \in Node : NodeStep(d, n) PROVE FALSE
    BY <2>1, <2>2, <2>6, Aside
  <2>7. ASSUME LayerEnds(c) PROVE FALSE
    <3>1. calls'[c].kind = "run" /\ calls'[c].outcome = "none"
      BY <2>1, <2>7 DEF LayerEnds, UnderWay, CallRecord
    <3> QED BY <3>1 DEF UnderWay
  <2>8. ASSUME NEW n \in Node, NodeStep(c, n) PROVE FALSE
    BY <2>2, <2>8 DEF NodeStep, Enters, Skips, ConditionRaises, Succeeds, Fails, NodeEnds
  <2>9. ASSUME NEW d \in Call, Run(d) PROVE FALSE
    <3>1. calls' = [calls EXCEPT ![d] = Begun("run", NextLayer({}))]
      BY <2>9 DEF Run
    <3> QED BY <2>1, <2>2, <3>1 DEF Begun, UnderWay
  <2>10. ASSUME NEW d \in Call, NEW n \in StepNode, ExecuteStep(d, n) PROVE FALSE
    <3>1. calls' = [calls EXCEPT ![d] = Begun("step", {n})]
      BY <2>10 DEF ExecuteStep
    <3> QED BY <2>1, <2>2, <3>1 DEF Begun, UnderWay
  <2>11. ASSUME Order PROVE FALSE
    BY <2>2, <2>11 DEF Order, Marks, Cancel, Rollback, DeserialiseState
  <2> QED BY <2>4, <2>5, <2>6, <2>7, <2>8, <2>9, <2>10, <2>11 DEF Next, LayerStep
<1> QED BY <1>1, Inductive, PTL DEF Spec, OutcomeHonest

(* A call that a rollback() found under way writes nothing to the state    *)
(* that is in place since.                                                 *)
THEOREM UndoneStaysInert == Spec => UndoneIsInert
<1> DEFINE Inert == \A c \in undone : work'[c] # work[c] \/ calls'[c] # calls[c]
                                        => states'[Len(states')] = states[InPlace]
<1>1. ASSUME IInv, [Next]_vars PROVE [Inert]_vars
  <2> SUFFICES ASSUME Next, NEW c \in undone, work'[c] # work[c] \/ calls'[c] # calls[c]
               PROVE  states'[Len(states')] = states[InPlace]
    BY <1>1
  <2>1. TypeOK /\ c \in Call /\ Shape(c) /\ calls \in [Call -> CallRecord]
        /\ work \in [Call -> [Node -> Work]] /\ checkpoints \in Seq(SUBSET Node)
    BY <1>1, TypedIs DEF IInv, Typed
  <2>2. calls[c].kind # "none" /\ c <= Len(checkpoints) /\ Len(checkpoints) \in Nat
    BY <2>1, LenProperties DEF Shape
  <2>3. ASSUME NEW d \in Call, LayerStep(d) \/ \E n \in Node : NodeStep(d, n)
        PROVE  states'[Len(states')] = states[InPlace]
    <3>1. d = c
      BY <2>1, <2>3, Aside
    <3>2. UnderWay(c)
      <4>1. CASE LayerStep(c)
        BY <4>1 DEF LayerStep, LayerFails, LayerEnds, RunEnds, Gathered, UnderWay
      <4>2. CASE \E n \in Node : NodeStep(c, n)
        <5>1. \E n \in Node : work[c][n] \in {"created", "attempting"}
          BY <4>2 DEF NodeStep, Enters, Skips, ConditionRaises, Succeeds, Fails
        <5> QED BY <2>1, <5>1 DEF Shape
      <4> QED BY <2>3, <3>1, <4>1, <4>2
    <3>3. calls[c].own < Len(states)
      BY <2>1, <3>2 DEF Shape
    <3> QED BY <2>1, <2>3, <3>1, <3>3, Aside
  <2>4. ASSUME NEW d \in Call, NewCall(d), \A x \in Call : x # d => calls'[x] = calls[x] /\ work'[x] = work[x]
        PROVE  FALSE
    BY <2>1, <2>2, <2>4 DEF NewCall
  <2>5. ASSUME NEW d \in Call, Run(d) PROVE FALSE
    BY <2>1, <2>4, <2>5 DEF Run
  <2>6. ASSUME NEW d \in Call, NEW n \in StepNode, ExecuteStep(d, n) PROVE FALSE
    BY <2>1, <2>4, <2>6 DEF ExecuteStep
  <2>7. ASSUME Order PROVE FALSE
    BY <2>7 DEF Order, Marks, Cancel, Rollback, DeserialiseState
  <2> QED BY <2>3, <2>5, <2>6, <2>7 DEF Next
<1> QED BY <1>1, Inductive, PTL DEF Spec, UndoneIsInert

------------------------------------------------------------------------------
(* ProjectState *)

(* No copy has a revision that is still to be made. *)
Issued == \A c \in Copies : c.revision <= revisions

StateIInv == StateTypeOK /\ Issued /\ RevisionIdentifies /\ NothingOverwritten

------------------------------------------------------------------------------
LEMMA CopiesTyped == StateTypeOK => Copies \subseteq Copy
BY DEF StateTypeOK, Copies

LEMMA StateIInvInit == StateInit => StateIInv
<1> SUFFICES ASSUME StateInit PROVE StateIInv
  OBVIOUS
<1>1. PICK data \in Data :
        /\ copy = [state \in State |-> [data |-> data, version |-> 0, revision |-> 0]]
        /\ kept = [s \in Snapshot |->
                     [of |-> Original, copy |-> [data |-> data, version |-> 0, revision |-> 0]]]
  BY DEF StateInit
<1> DEFINE first == [data |-> data, version |-> 0, revision |-> 0]
<1>2. first \in Copy /\ first.revision = 0
  BY DEF Copy
<1> HIDE DEF first
<1>3. Copies \subseteq {first}
  <2>1. \A state \in State : copy[state] = first
    BY <1>1 DEF first
  <2>2. \A s \in Snapshot : kept[s].copy = first
    BY <1>1 DEF first
  <2> QED BY <2>1, <2>2, StateAssumption DEF StateInit, Copies
<1>4. StateTypeOK
  BY <1>1, <1>2, StateAssumption DEF StateInit, StateTypeOK, first
<1>5. RevisionIdentifies /\ Issued
  BY <1>2, <1>3 DEF RevisionIdentifies, Issued, StateInit
<1>6. NothingOverwritten
  BY DEF StateInit, NothingOverwritten
<1> QED BY <1>4, <1>5, <1>6 DEF StateIInv

(* Past a guard with a revision the writer has what the state holds. *)
LEMMA PassesFacts ==
  ASSUME StateIInv, NEW state \in State, NEW s \in Snapshot, NEW guard \in Guard, Passes(state, s, guard)
  PROVE  state \in live /\ lost' \subseteq Guard \ {"none"} /\ NothingOverwritten'
<1>1. state \in live /\ copy[state] \in Copies /\ kept[s].copy \in Copies
  BY DEF Passes, Copies
<1>2. CASE guard \in {"revision", "both"}
  <2>1. copy[state].revision = kept[s].copy.revision
    BY <1>2 DEF Passes, DetectConflict
  <2>2. copy[state] = kept[s].copy
    BY <1>1, <2>1 DEF StateIInv, RevisionIdentifies
  <2>3. lost' = lost
    BY <2>2 DEF Passes
  <2> QED BY <1>1, <2>3 DEF StateIInv, StateTypeOK, NothingOverwritten
<1>3. CASE guard \in {"none", "version"}
  <2>1. lost' = lost \/ lost' = lost \cup {"version"}
    BY <1>3 DEF Passes
  <2> QED BY <1>1, <2>1 DEF StateIInv, StateTypeOK, NothingOverwritten, Guard
<1> QED BY <1>2, <1>3 DEF Guard

(* A step that makes one new copy, of a revision of its own, or none. *)
LEMMA CopiesGrow ==
  ASSUME StateIInv, revisions' \in Nat, revisions' >= revisions,
         \/ Copies' \subseteq Copies
         \/ \E new \in Copy : /\ Copies' \subseteq Copies \cup {new}
                              /\ revisions < new.revision /\ new.revision <= revisions'
  PROVE  Issued' /\ RevisionIdentifies'
<1>1. /\ Copies \subseteq Copy /\ revisions \in Nat
      /\ \A c \in Copies : c.revision \in Nat /\ c.revision <= revisions
  BY CopiesTyped, StateAssumption DEF StateIInv, StateTypeOK, Issued, Copy
<1>2. CASE Copies' \subseteq Copies
  BY <1>1, <1>2 DEF StateIInv, Issued, RevisionIdentifies
<1>3. ASSUME NEW new \in Copy, Copies' \subseteq Copies \cup {new},
             revisions < new.revision, new.revision <= revisions'
      PROVE  Issued' /\ RevisionIdentifies'
  <2>1. \A c \in Copies : c.revision # new.revision
    BY <1>1, <1>3 DEF Copy
  <2>2. RevisionIdentifies'
    BY <1>3, <2>1 DEF StateIInv, RevisionIdentifies
  <2>3. Issued'
    BY <1>1, <1>3 DEF Issued
  <2> QED BY <2>2, <2>3
<1> QED BY <1>2, <1>3

LEMMA WrittenFacts ==
  ASSUME StateIInv, NEW state \in live, NEW data \in Data, Written(state, data),
         lost' \subseteq Guard \ {"none"}, NothingOverwritten'
  PROVE  StateIInv'
<1> DEFINE new == [data |-> data, version |-> copy[state].version + 1, revision |-> revisions + 1]
<1>1. /\ revisions \in Nat /\ state \in State /\ copy[state] \in Copy
      /\ copy \in [State -> Copy] /\ kept \in [Snapshot -> [of : State, copy : Copy]]
  BY StateAssumption DEF StateIInv, StateTypeOK
<1>2. revisions' = revisions + 1 /\ revisions' \in 0 .. MaxRevisions
  BY <1>1, StateAssumption DEF Written
<1>3. new \in Copy /\ new.revision = revisions + 1
  BY <1>1 DEF Copy
<1>4. copy' = [copy EXCEPT ![state] = new] /\ UNCHANGED <<live, kept>>
  BY <1>2 DEF Written
<1> HIDE DEF new
<1>5. Copies' \subseteq Copies \cup {new}
  BY <1>1, <1>4 DEF Copies, StateIInv, StateTypeOK
<1>6. Issued' /\ RevisionIdentifies'
  BY <1>1, <1>2, <1>3, <1>5, CopiesGrow
<1>7. StateTypeOK'
  BY <1>1, <1>2, <1>3, <1>4 DEF StateIInv, StateTypeOK
<1> QED BY <1>6, <1>7 DEF StateIInv

LEMMA StateIInvStep == StateIInv /\ [StateNext]_stateVars => StateIInv'
<1> SUFFICES ASSUME StateIInv, [StateNext]_stateVars PROVE StateIInv'
  OBVIOUS
<1>0. /\ StateTypeOK /\ revisions \in Nat
      /\ copy \in [State -> Copy] /\ kept \in [Snapshot -> [of : State, copy : Copy]]
      /\ live \subseteq State
  BY StateAssumption DEF StateIInv, StateTypeOK
<1>1. ASSUME NEW state \in State, NEW s \in Snapshot, NEW guard \in Guard,
             NEW keys \in SUBSET Key, NEW values \in [keys -> Value],
             Update(state, s, guard, values)
      PROVE  StateIInv'
  <2> DEFINE data == [k \in Key |-> IF k \in DOMAIN values THEN values[k] ELSE copy[state].data[k]]
  <2>1. copy[state].data \in Data
    BY <1>0 DEF Copy
  <2>2. data \in Data
    BY <2>1 DEF Data
  <2>3. Passes(state, s, guard) /\ Written(state, data)
    BY <1>1 DEF Update
  <2> HIDE DEF data
  <2> QED BY <2>2, <2>3, PassesFacts, WrittenFacts
<1>2. ASSUME NEW state \in State, NEW s \in Snapshot, NEW guard \in Guard, NEW k \in Key,
             Delete(state, s, guard, k)
      PROVE  StateIInv'
  <2> DEFINE data == [copy[state].data EXCEPT ![k] = Absent]
  <2>1. copy[state].data \in Data
    BY <1>0 DEF Copy
  <2>2. data \in Data
    BY <2>1 DEF Data
  <2>3. Passes(state, s, guard) /\ Written(state, data)
    BY <1>2 DEF Delete
  <2> HIDE DEF data
  <2> QED BY <2>2, <2>3, PassesFacts, WrittenFacts
<1>3. ASSUME NEW state \in State, NEW s \in Snapshot, NEW guard \in Guard, NEW snapshot \in Snapshot,
             Restore(state, s, guard, snapshot)
      PROVE  StateIInv'
  <2>1. /\ copy' = [copy EXCEPT ![state] = kept[snapshot].copy]
        /\ UNCHANGED <<live, kept, revisions>>
    BY <1>3 DEF Restore
  <2>2. kept[snapshot].copy \in Copies /\ kept[snapshot].copy \in Copy
    BY <1>0 DEF Copies
  <2>3. Copies' \subseteq Copies
    BY <1>0, <2>1, <2>2 DEF Copies
  <2>4. Issued' /\ RevisionIdentifies'
    BY <1>0, <2>1, <2>3, CopiesGrow
  <2>5. lost' \subseteq Guard \ {"none"} /\ NothingOverwritten'
    BY <1>3, PassesFacts DEF Restore
  <2>6. StateTypeOK'
    BY <1>0, <2>1, <2>2, <2>5 DEF StateTypeOK
  <2> QED BY <2>4, <2>5, <2>6 DEF StateIInv
<1>4. ASSUME NEW state \in State, NEW s \in Snapshot, TakeSnapshot(state, s)
      PROVE  StateIInv'
  <2>1. /\ state \in live
        /\ kept' = [kept EXCEPT ![s] = [of |-> state, copy |-> copy[state]]]
        /\ UNCHANGED <<live, copy, revisions, lost>>
    BY <1>4 DEF TakeSnapshot
  <2>2. copy[state] \in Copies /\ copy[state] \in Copy
    BY <1>0, <2>1 DEF Copies
  <2>3. \A t \in Snapshot : kept'[t].copy = IF t = s THEN copy[state] ELSE kept[t].copy
    BY <1>0, <2>1
  <2>4. Copies' \subseteq Copies
    BY <2>1, <2>2, <2>3 DEF Copies
  <2>5. Issued' /\ RevisionIdentifies'
    BY <1>0, <2>1, <2>4, CopiesGrow
  <2>6. StateTypeOK' /\ NothingOverwritten'
    BY <1>0, <2>1, <2>2 DEF StateIInv, StateTypeOK, NothingOverwritten
  <2> QED BY <2>5, <2>6 DEF StateIInv
<1>5. ASSUME NEW state \in State, NEW another \in State, Clone(state, another)
      PROVE  StateIInv'
  <2>1. /\ state \in live /\ live' = live \cup {another}
        /\ copy' = [copy EXCEPT ![another] = copy[state]]
        /\ UNCHANGED <<kept, revisions, lost>>
    BY <1>5 DEF Clone
  <2>2. copy[state] \in Copies /\ copy[state] \in Copy
    BY <1>0, <2>1 DEF Copies
  <2>3. Copies' \subseteq Copies
    BY <1>0, <2>1, <2>2 DEF Copies
  <2>4. Issued' /\ RevisionIdentifies'
    BY <1>0, <2>1, <2>3, CopiesGrow
  <2>5. StateTypeOK' /\ NothingOverwritten'
    BY <1>0, <2>1, <2>2 DEF StateIInv, StateTypeOK, NothingOverwritten
  <2> QED BY <2>4, <2>5 DEF StateIInv
<1>6. CASE UNCHANGED stateVars
  BY <1>6 DEF stateVars, StateIInv, StateTypeOK, Issued, RevisionIdentifies, NothingOverwritten, Copies
<1> QED BY <1>1, <1>2, <1>3, <1>4, <1>5, <1>6 DEF StateNext

LEMMA StateInductive == StateSpec => []StateIInv
BY StateIInvInit, StateIInvStep, PTL DEF StateSpec

(* Every variable of the states and their users keeps its type. *)
THEOREM StateTypeCorrect == StateSpec => []StateTypeOK
<1>1. StateIInv => StateTypeOK
  BY DEF StateIInv
<1> QED BY <1>1, StateInductive, PTL

(* However a state is written, restored and cloned, a revision stands for  *)
(* one content and one version.                                            *)
THEOREM RevisionsIdentify == StateSpec => []RevisionIdentifies
<1>1. StateIInv => RevisionIdentifies
  BY DEF StateIInv
<1> QED BY <1>1, StateInductive, PTL

(* A write guarded by a revision overwrites nothing its writer has not     *)
(* seen.                                                                   *)
THEOREM NoUnseenOverwritten == StateSpec => []NothingOverwritten
<1>1. StateIInv => NothingOverwritten
  BY DEF StateIInv
<1> QED BY <1>1, StateInductive, PTL
==============================================================================
