------------------------ MODULE WorkflowEngineProofs ------------------------
(***************************************************************************)
(* Proofs about WorkflowEngine, for any graphs: what a walk leaves behind, *)
(* and that what is published of it is true.                               *)
(*                                                                         *)
(* The argument is about the tree of activations.  A step changes one      *)
(* activation and what it called, so every invariant is shown to survive   *)
(* a few kinds of steps (StepCases): an activation is entered, begins to   *)
(* wait, settles, or calls nodes, and a root is made or taken away.        *)
(***************************************************************************)
EXTENDS WorkflowEngine, SequenceTheorems, WellFoundedInduction, TLAPS

Path == Seq(Node \X Nat) \ {<< >>}

ActivePhase == {"called", "begun", "agent", "sub", "sleep", "body"}

------------------------------------------------------------------------------
(* Paths *)

LEMMA PathFacts ==
  ASSUME NEW p \in Path
  PROVE  /\ Len(p) \in Nat /\ Len(p) >= 1
         /\ \A i \in 1 .. Len(p) : p[i] \in Node \X Nat /\ p[i][1] \in Node /\ p[i][2] \in Nat
         /\ NodeOf(p) = p[Len(p)][1] /\ NodeOf(p) \in Node /\ Of(p) = WorkflowOf[p[Len(p)][1]]
<1>1. p \in Seq(Node \X Nat) /\ p # << >>
  BY DEF Path
<1>2. Len(p) \in Nat /\ Len(p) # 0
  BY <1>1, EmptySeq, LenProperties
<1>3. \A i \in 1 .. Len(p) : p[i] \in Node \X Nat
  BY <1>1, ElementOfSeq
<1> QED BY <1>2, <1>3 DEF NodeOf, Of, Last

LEMMA PathEqual ==
  ASSUME NEW p \in Path, NEW q \in Path, Len(p) = Len(q), \A i \in 1 .. Len(p) : p[i] = q[i]
  PROVE  p = q
BY SeqEqual DEF Path

LEMMA CallerFacts ==
  ASSUME NEW p \in Path, NEW i \in 1 .. Len(p)
  PROVE  /\ Caller(p, i) \in Path /\ Len(Caller(p, i)) = i
         /\ \A j \in 1 .. i : Caller(p, i)[j] = p[j] /\ Caller(Caller(p, i), j) = Caller(p, j)
         /\ NodeOf(Caller(p, i)) = p[i][1]
<1> Len(p) \in Nat /\ \A j \in 1 .. Len(p) : p[j] \in Node \X Nat
  BY PathFacts
<1>1. ASSUME NEW q, NEW n \in Nat, n >= 1, \A j \in 1 .. n : q[j] \in Node \X Nat
      PROVE  /\ Caller(q, n) \in Path /\ Len(Caller(q, n)) = n
             /\ \A j \in 1 .. n : Caller(q, n)[j] = q[j]
  <2>1. 1 \in Int /\ n \in Int /\ \A j \in 1 .. n : q[j] \in Node \X Nat
    BY <1>1
  <2>2. /\ SubSeq(q, 1, n) \in Seq(Node \X Nat)
        /\ Len(SubSeq(q, 1, n)) = IF 1 <= n THEN n - 1 + 1 ELSE 0
        /\ \A j \in 1 .. n - 1 + 1 : SubSeq(q, 1, n)[j] = q[1 + j - 1]
    BY ONLY <2>1, SubSeqProperties
  <2> DEFINE t == SubSeq(q, 1, n)
  <2>3. t \in Seq(Node \X Nat) /\ Len(t) = n /\ \A j \in 1 .. n : t[j] = q[j]
    BY <1>1, <2>2
  <2> HIDE DEF t
  <2>4. t # << >>
    BY <1>1, <2>3, EmptySeq
  <2> QED BY <2>3, <2>4 DEF t, Caller, Path
<1>2. /\ Caller(p, i) \in Path /\ Len(Caller(p, i)) = i
      /\ \A j \in 1 .. i : Caller(p, i)[j] = p[j]
  BY <1>1
<1>3. ASSUME NEW j \in 1 .. i PROVE Caller(Caller(p, i), j) = Caller(p, j)
  <2>1. /\ Caller(p, j) \in Path /\ Len(Caller(p, j)) = j
        /\ \A k \in 1 .. j : Caller(p, j)[k] = p[k]
    BY <1>1
  <2> DEFINE q == Caller(p, i)
  <2>2. \A k \in 1 .. j : q[k] = p[k] /\ q[k] \in Node \X Nat
    BY <1>2
  <2> HIDE DEF q
  <2>3. /\ Caller(q, j) \in Path /\ Len(Caller(q, j)) = j
        /\ \A k \in 1 .. j : Caller(q, j)[k] = q[k]
    BY <1>1, <2>2
  <2>4. Caller(q, j) = Caller(p, j)
    BY <2>1, <2>2, <2>3, PathEqual
  <2> QED BY <2>4 DEF q
<1>4. NodeOf(Caller(p, i)) = p[i][1]
  BY <1>2 DEF NodeOf, Last
<1> QED BY <1>2, <1>3, <1>4

LEMMA AppendFacts ==
  ASSUME NEW p \in Path, NEW n \in Node, NEW round \in Nat
  PROVE  LET q == Append(p, <<n, round>>)
         IN  /\ q \in Path /\ Len(q) = Len(p) + 1
             /\ q[Len(q)] = <<n, round>> /\ Last(q) = <<n, round>> /\ NodeOf(q) = n
             /\ Front(q) = p /\ Caller(q, Len(p)) = p
             /\ \A i \in 1 .. Len(p) : q[i] = p[i] /\ Caller(q, i) = Caller(p, i)
<1> DEFINE q == Append(p, <<n, round>>)
<1>1. /\ q \in Path /\ Len(q) = Len(p) + 1 /\ q[Len(p) + 1] = <<n, round>>
      /\ \A i \in 1 .. Len(p) : q[i] = p[i]
  BY AppendProperties DEF Path
<1>2. Len(p) \in Nat /\ Len(p) >= 1
  BY PathFacts
<1> HIDE DEF q
<1>3. ASSUME NEW i \in 1 .. Len(p) PROVE Caller(q, i) = Caller(p, i)
  <2>1. /\ Caller(p, i) \in Path /\ Len(Caller(p, i)) = i
        /\ \A j \in 1 .. i : Caller(p, i)[j] = p[j]
    BY CallerFacts
  <2>2. i \in 1 .. Len(q)
    BY <1>1, <1>2
  <2>3. /\ Caller(q, i) \in Path /\ Len(Caller(q, i)) = i
        /\ \A j \in 1 .. i : Caller(q, i)[j] = q[j]
    BY <1>1, <2>2, CallerFacts
  <2> QED BY <1>1, <1>2, <2>1, <2>3, PathEqual
<1>4. Caller(p, Len(p)) = p
  <2>1. /\ Caller(p, Len(p)) \in Path /\ Len(Caller(p, Len(p))) = Len(p)
        /\ \A j \in 1 .. Len(p) : Caller(p, Len(p))[j] = p[j]
    BY <1>2, CallerFacts
  <2> QED BY <2>1, PathEqual
<1>5. Caller(q, Len(p)) = p
  BY <1>2, <1>3, <1>4
<1>6. Front(q) = p
  BY <1>1, <1>2, <1>5 DEF Front, Caller
<1>7. Last(q) = <<n, round>> /\ NodeOf(q) = n
  BY <1>1 DEF Last, NodeOf
<1> QED BY <1>1, <1>3, <1>5, <1>6, <1>7 DEF q

------------------------------------------------------------------------------
(* What a step does to the tree of activations *)

NodeStatus == {"pending", "running", "completed", "failed"}

(* An activation resolves or rejects. *)
Settles(p, how) ==
  /\ calls[p].phase \in ActivePhase \cup {"next"}
  /\ calls[p].phase = "called" => how = "ok" /\ Stopped(Of(p))
  /\ calls[p].phase \in {"body", "next"} =>
       (how = "ok" /\ AllReturned(p)) \/ (how = "error" /\ SomeThrew(p))
  /\ Settle(p, how)
  /\ nodes' = IF calls[p].phase \in {"called", "next"} THEN nodes
              ELSE [nodes EXCEPT ![NodeOf(p)] = IF how = "ok" THEN "completed" ELSE "failed"]
  /\ outputs' = IF calls[p].phase \notin {"called", "next"} /\ how = "ok" THEN outputs \cup {NodeOf(p)} ELSE outputs
  /\ UNCHANGED <<status, flags, starts, requested>>

(* It is entered. *)
Enters(p) ==
  /\ calls[p].phase = "called"
  /\ Turn(p)
  /\ GoesTo(p, "begun")
  /\ nodes' = [nodes EXCEPT ![NodeOf(p)] = "running"]
  /\ starts' = [starts EXCEPT ![NodeOf(p)] = @ + 1]
  /\ UNCHANGED <<status, flags, outputs, requested>>

(* It awaits an agent, or a delay. *)
Waits(p, phase) ==
  /\ \/ phase = "agent" /\ calls[p].phase = "begun"
     \/ phase = "sleep" /\ calls[p].phase = "body" /\ Kind[NodeOf(p)] = "retry"
  /\ GoesTo(p, phase)
  /\ UNCHANGED <<status, flags, nodes, outputs, starts, requested>>

(* It calls the nodes of S. *)
Calls(p, phase, S, ns) ==
  /\ calls[p].phase \in ActivePhase \ {"called"}
  /\ calls[p].phase = "begun" \/ Unwound
  /\ calls[p].phase = "body" => AllReturned(p) \/ (Kind[NodeOf(p)] = "retry" /\ phase = "body")
  /\ \/ /\ phase = "body" /\ S \subseteq Inner[NodeOf(p)]
        /\ ns = nodes \/ ns = [n \in Node |-> IF n \in S THEN "pending" ELSE nodes[n]]
     \/ /\ phase = "next" /\ ns = [nodes EXCEPT ![NodeOf(p)] = "completed"]
        /\ S = Successors(NodeOf(p), ns)
  /\ Call(p, phase, S, ns)
  /\ outputs' = IF phase = "next" THEN outputs \cup {NodeOf(p)} ELSE outputs
  /\ UNCHANGED <<status, flags, requested>>

(* A workflow begins, by a call from outside or as an embedded one. *)
Begins(w) ==
  /\ status[w] = "none"
  /\ \/ Started(w, calls)
     \/ \E p \in DOMAIN calls : /\ calls[p].phase = "begun"
                                /\ Started(w, [calls EXCEPT ![p].phase = "sub"])

TreeStep ==
  \/ \E p \in DOMAIN calls :
       \/ \E how \in {"ok", "error"} : Settles(p, how)
       \/ Enters(p)
       \/ \E phase \in {"agent", "sleep"} : Waits(p, phase)
       \/ \E phase \in {"body", "next"}, S \in SUBSET Node, ns \in [Node -> NodeStatus] :
            Calls(p, phase, S, ns)
  \/ \E w \in Workflow : Begins(w) \/ Finalize(w) \/ CancelWorkflow(w)

LEMMA CompleteCases ==
  ASSUME TypeOK, NEW p \in DOMAIN calls, Complete(p), calls[p].phase \in ActivePhase \ {"called"},
         calls[p].phase = "begun" \/ Unwound, calls[p].phase = "body" => AllReturned(p)
  PROVE  TreeStep
<1> DEFINE ns == [nodes EXCEPT ![NodeOf(p)] = "completed"]
           S == Successors(NodeOf(p), ns)
<1>1. ns \in [Node -> NodeStatus] /\ S \in SUBSET Node
  BY DEF TypeOK, NodeStatus, Successors
<1>2. CASE S = {}
  <2>1. /\ Settle(p, "ok") /\ nodes' = ns /\ starts' = starts /\ UNCHANGED <<status, flags, requested>>
        /\ outputs' = outputs \cup {NodeOf(p)}
    BY <1>2 DEF Complete
  <2>2. calls[p].phase \notin {"called", "next"}
    BY DEF ActivePhase
  <2>3. Settles(p, "ok")
    BY <2>1, <2>2 DEF Settles
  <2> QED BY <2>3 DEF TreeStep
<1>3. CASE S # {}
  <2>1. /\ Call(p, "next", S, ns) /\ UNCHANGED <<status, flags, requested>>
        /\ outputs' = outputs \cup {NodeOf(p)}
    BY <1>3 DEF Complete
  <2>2. Calls(p, "next", S, ns)
    BY <2>1 DEF Calls
  <2> QED BY <1>1, <2>2 DEF TreeStep
<1> QED BY <1>2, <1>3

LEMMA FailCase ==
  ASSUME NEW p \in DOMAIN calls, Fail(p), calls[p].phase \in ActivePhase \ {"called"},
         calls[p].phase = "body" => SomeThrew(p)
  PROVE  TreeStep
<1>1. calls[p].phase \notin {"called", "next"}
  BY DEF ActivePhase
<1>2. Settles(p, "error")
  BY <1>1 DEF Fail, Settles
<1> QED BY <1>2 DEF TreeStep

LEMMA RunCase ==
  ASSUME TypeOK, NEW p \in DOMAIN calls, NEW S \in SUBSET Node, S \subseteq Inner[NodeOf(p)],
         Run(p, S, nodes), calls[p].phase \in ActivePhase \ {"called"},
         calls[p].phase = "begun" \/ Unwound, calls[p].phase = "body" => AllReturned(p)
  PROVE  TreeStep
<1>1. nodes \in [Node -> NodeStatus]
  BY DEF TypeOK, NodeStatus
<1>2. Calls(p, "body", S, nodes)
  BY DEF Run, Calls
<1> QED BY <1>1, <1>2 DEF TreeStep

LEMMA AttemptCase ==
  ASSUME TypeOK, NEW p \in DOMAIN calls, Attempt(p), calls[p].phase \in ActivePhase \ {"called"},
         calls[p].phase = "begun" \/ Unwound, Kind[NodeOf(p)] = "retry"
  PROVE  TreeStep
<1> DEFINE S == Inner[NodeOf(p)]
           ns == [n \in Node |-> IF n \in S THEN "pending" ELSE nodes[n]]
<1>1. p \in Path
  BY DEF TypeOK, Path
<1>2. ns \in [Node -> NodeStatus] /\ S \in SUBSET Node
  BY <1>1, PathFacts, WorkflowAssumption DEF TypeOK, NodeStatus
<1>3. Calls(p, "body", S, ns)
  BY DEF Attempt, Run, Calls
<1> QED BY <1>2, <1>3 DEF TreeStep

(* Only a retry sleeps. *)
Asleep == \A p \in DOMAIN calls : calls[p].phase = "sleep" => Kind[NodeOf(p)] = "retry"

LEMMA StepCases == TypeOK /\ Asleep /\ Next => TreeStep
<1> SUFFICES ASSUME TypeOK, Asleep, Next PROVE TreeStep
  OBVIOUS
<1>1. ASSUME NEW p \in DOMAIN calls PROVE p \in Path /\ NodeOf(p) \in Node /\ Inner[NodeOf(p)] \in SUBSET Node
  <2>1. p \in Path
    BY DEF TypeOK, Path
  <2> QED BY <2>1, PathFacts, WorkflowAssumption
<1>2. ASSUME NEW p \in DOMAIN calls, Enter(p) PROVE TreeStep
  <2>1. CASE Stopped(Of(p))
    <3>1. Settles(p, "ok")
      BY <1>2, <2>1 DEF Enter, Settles, ActivePhase
    <3> QED BY <3>1 DEF TreeStep
  <2>2. CASE ~Stopped(Of(p))
    <3>1. Enters(p)
      BY <1>2, <2>2 DEF Enter, Enters
    <3> QED BY <3>1 DEF TreeStep
  <2> QED BY <2>1, <2>2
<1>3. ASSUME NEW p \in DOMAIN calls, Begin(p) PROVE TreeStep
  <2>1. calls[p].phase = "begun" /\ calls[p].phase \in ActivePhase \ {"called"}
    BY <1>3 DEF Begin, ActivePhase
  <2>2. CASE BeginAgent(p)
    <3>1. Waits(p, "agent")
      BY <2>1, <2>2 DEF BeginAgent, Waits
    <3> QED BY <3>1 DEF TreeStep
  <2>3. CASE BeginNoop(p)
    BY <2>1, <2>3, CompleteCases DEF BeginNoop
  <2>4. CASE BeginParallel(p)
    BY <1>1, <2>1, <2>4, RunCase DEF BeginParallel
  <2>5. ASSUME Run(p, {}, nodes) PROVE TreeStep
    BY <2>1, <2>5, RunCase
  <2>6. CASE BeginConditional(p)
    <3>1. ASSUME NEW branch \in Inner[NodeOf(p)], Run(p, {branch}, nodes) PROVE TreeStep
      <4>1. {branch} \in SUBSET Node /\ {branch} \subseteq Inner[NodeOf(p)]
        BY <1>1
      <4> QED BY <2>1, <3>1, <4>1, RunCase
    <3> QED BY <2>5, <2>6, <3>1 DEF BeginConditional
  <2>7. CASE BeginLoop(p)
    BY <1>1, <2>1, <2>5, <2>7, RunCase DEF BeginLoop, Iterate
  <2>8. CASE BeginRetry(p)
    BY <2>1, <2>8, AttemptCase DEF BeginRetry
  <2>9. CASE BeginSubWorkflow(p)
    <3>1. Sub[NodeOf(p)] \in Workflow
      BY <1>1, <2>9, WorkflowAssumption DEF BeginSubWorkflow
    <3>2. Begins(Sub[NodeOf(p)])
      BY <2>1, <2>9 DEF BeginSubWorkflow, Begins
    <3> QED BY <3>1, <3>2 DEF TreeStep
  <2> QED BY <1>3, <2>2, <2>3, <2>4, <2>6, <2>7, <2>8, <2>9 DEF Begin
<1>4. ASSUME NEW p \in DOMAIN calls, BodyReturns(p) PROVE TreeStep
  <2>1. Unwound /\ calls[p].phase = "body" /\ calls[p].phase \in ActivePhase \ {"called"} /\ AllReturned(p)
    BY <1>4 DEF BodyReturns, ActivePhase
  <2> QED BY <1>1, <1>4, <2>1, RunCase, CompleteCases DEF BodyReturns, Iterate
<1>5. ASSUME NEW p \in DOMAIN calls, BodyThrows(p) PROVE TreeStep
  <2>1. Unwound /\ calls[p].phase = "body" /\ SomeThrew(p)
    BY <1>5 DEF BodyThrows
  <2>2. CASE Attempt(p) /\ Kind[NodeOf(p)] = "retry"
    BY <2>1, <2>2, AttemptCase DEF ActivePhase
  <2>3. CASE Fail(p)
    BY <2>1, <2>3, FailCase DEF ActivePhase
  <2>4. CASE /\ Kind[NodeOf(p)] = "retry" /\ GoesTo(p, "sleep")
             /\ UNCHANGED <<status, flags, nodes, outputs, starts, requested>>
    <3>1. Waits(p, "sleep")
      BY <2>1, <2>4 DEF Waits
    <3> QED BY <3>1 DEF TreeStep
  <2> QED BY <1>5, <2>2, <2>3, <2>4 DEF BodyThrows
<1>6. ASSUME NEW p \in DOMAIN calls, NextReturns(p) PROVE TreeStep
  <2>1. Settles(p, "ok") \/ Settles(p, "error")
    BY <1>6 DEF NextReturns, Settles, ActivePhase
  <2> QED BY <2>1 DEF TreeStep
<1>7. ASSUME NEW p \in DOMAIN calls, SubWorkflowReturns(p) PROVE TreeStep
  BY <1>7, CompleteCases, FailCase DEF SubWorkflowReturns, ActivePhase
<1>8. ASSUME NEW p \in DOMAIN calls, AgentAnswers(p) PROVE TreeStep
  BY <1>8, CompleteCases, FailCase DEF AgentAnswers, Quiet, ActivePhase
<1>9. ASSUME NEW p \in DOMAIN calls, DelayEnds(p) PROVE TreeStep
  BY <1>9, AttemptCase DEF DelayEnds, Quiet, ActivePhase, Asleep
<1>10. ASSUME NEW w \in Workflow, ExecuteWorkflow(w) PROVE TreeStep
  <2>1. Begins(w)
    BY <1>10 DEF ExecuteWorkflow, Begins
  <2> QED BY <2>1 DEF TreeStep
<1>11. ASSUME NEW w \in Workflow, Finalize(w) \/ CancelWorkflow(w) PROVE TreeStep
  BY <1>11 DEF TreeStep
<1> QED BY <1>2, <1>3, <1>4, <1>5, <1>6, <1>7, <1>8, <1>9, <1>10, <1>11 DEF Next

------------------------------------------------------------------------------
(* The tree *)

(* A path begins at the entry of a workflow that was begun, and leads over *)
(* nodes of its graph, each inside the one before it or its successor.     *)
Rooted ==
  \A p \in DOMAIN calls :
    /\ p[1] = <<Entry[Of(p)], 1>>
    /\ status[Of(p)] # "none"
    /\ \A i \in 1 .. Len(p) : WorkflowOf[p[i][1]] = Of(p)
    /\ \A i \in 1 .. Len(p) - 1 :
         p[i + 1][1] \in Inner[p[i][1]] \/ <<p[i][1], p[i + 1][1]>> \in Edge

(* A round that is still to come has called nothing yet. *)
Fresh ==
  \A p \in DOMAIN calls : \A i \in 1 .. Len(p) - 1 :
    Caller(p, i) \in DOMAIN calls => p[i + 1][2] <= calls[Caller(p, i)].round

(* What is awaited was called by the strategy, or over an edge. *)
CalledFor ==
  \A p \in DOMAIN calls : \A q \in CalledBy(p) :
    /\ calls[p].phase = "body" => NodeOf(q) \in Inner[NodeOf(p)]
    /\ calls[p].phase = "next" => <<NodeOf(p), NodeOf(q)>> \in Edge

RootRuns == \A w \in Workflow : Root(w) \in DOMAIN calls => status[w] = "running"

TreeInv == TypeOK /\ Asleep /\ Rooted /\ Fresh /\ CalledFor /\ RootRuns

(* p is in another phase, and what it called and was settled is gone; so   *)
(* may p be, if nobody awaits it.                                          *)
Shrinks(p, phase) ==
  /\ p \notin Settled(p)
  /\ \/ DOMAIN calls' = DOMAIN calls \ Settled(p)
     \/ DOMAIN calls' = DOMAIN calls \ (Settled(p) \cup {p}) /\ ~Awaited(p)
  /\ \A q \in DOMAIN calls' :
       calls'[q] = IF q = p THEN [phase |-> phase, round |-> calls[p].round] ELSE calls[q]

New(p, S) == {Append(p, <<n, calls[p].round + 1>>) : n \in S}

(* p has called the nodes of S anew. *)
Grows(p, phase, S) ==
  /\ p \notin Settled(p) /\ p \notin New(p, S)
  /\ New(p, S) \cap DOMAIN calls = {}
  /\ DOMAIN calls' = (DOMAIN calls \ Settled(p)) \cup New(p, S)
  /\ calls'[p] = [phase |-> phase, round |-> calls[p].round + 1]
  /\ \A q \in New(p, S) : calls'[q] = [phase |-> "called", round |-> 0]
  /\ \A q \in DOMAIN calls \ Settled(p) : q # p => calls'[q] = calls[q]

LEMMA DomainPaths ==
  ASSUME TypeOK, NEW p \in DOMAIN calls
  PROVE  /\ p \in Path /\ Len(p) \in Nat /\ Len(p) >= 1 /\ NodeOf(p) \in Node
         /\ calls[p] = [phase |-> calls[p].phase, round |-> calls[p].round]
         /\ calls[p].phase \in Phase /\ calls[p].round \in Nat
         /\ p \notin CalledBy(p)
<1>1. p \in Path
  BY DEF TypeOK, Path
<1>2. calls[p] \in [phase : Phase, round : Nat]
  BY DEF TypeOK
<1> QED BY <1>1, <1>2, PathFacts DEF CalledBy

LEMMA GoesToShrinks ==
  ASSUME TypeOK, NEW p \in DOMAIN calls, NEW phase, GoesTo(p, phase)
  PROVE  Shrinks(p, phase) /\ p \in DOMAIN calls'
<1>1. p \notin Settled(p) /\ calls[p] = [phase |-> calls[p].phase, round |-> calls[p].round]
  BY DomainPaths DEF Settled
<1>2. [calls[p] EXCEPT !.phase = phase] = [phase |-> phase, round |-> calls[p].round]
  BY <1>1
<1>3. calls' = [q \in DOMAIN calls \ Settled(p) |->
                  IF q = p THEN [phase |-> phase, round |-> calls[p].round] ELSE calls[q]]
  BY <1>2 DEF GoesTo
<1> QED BY <1>1, <1>3 DEF Shrinks

LEMMA SettlesShrinks ==
  ASSUME TypeOK, NEW p \in DOMAIN calls, NEW how, Settles(p, how)
  PROVE  Shrinks(p, how)
<1>1. CASE Awaited(p)
  BY <1>1, GoesToShrinks DEF Settles, Settle
<1>2. CASE ~Awaited(p)
  <2>1. calls' = [q \in DOMAIN calls \ (Settled(p) \cup {p}) |-> calls[q]]
    BY <1>2 DEF Settles, Settle
  <2> QED BY <1>2, <2>1, DomainPaths DEF Shrinks, Settled
<1> QED BY <1>1, <1>2

LEMMA EntersShrinks ==
  ASSUME TypeOK, NEW p \in DOMAIN calls, Enters(p)
  PROVE  Shrinks(p, "begun") /\ p \in DOMAIN calls'
BY GoesToShrinks DEF Enters

LEMMA WaitsShrinks ==
  ASSUME TypeOK, NEW p \in DOMAIN calls, NEW phase, Waits(p, phase)
  PROVE  Shrinks(p, phase) /\ p \in DOMAIN calls'
BY GoesToShrinks DEF Waits

LEMMA NewFacts ==
  ASSUME TypeOK, NEW p \in DOMAIN calls, NEW S \in SUBSET Node, NEW q \in New(p, S)
  PROVE  /\ q \in Path /\ Len(q) = Len(p) + 1 /\ NodeOf(q) \in S
         /\ q[Len(q)] = <<NodeOf(q), calls[p].round + 1>>
         /\ Last(q)[2] = calls[p].round + 1
         /\ Front(q) = p /\ Caller(q, Len(p)) = p
         /\ \A i \in 1 .. Len(p) : q[i] = p[i] /\ Caller(q, i) = Caller(p, i)
<1>1. PICK n \in S : q = Append(p, <<n, calls[p].round + 1>>)
  BY DEF New
<1>2. n \in Node /\ calls[p].round + 1 \in Nat /\ p \in Path
  BY DomainPaths
<1> QED BY <1>1, <1>2, AppendFacts

LEMMA CallsGrows ==
  ASSUME TypeOK, Fresh, NEW p \in DOMAIN calls, NEW phase, NEW S \in SUBSET Node, NEW ns,
         Call(p, phase, S, ns)
  PROVE  Grows(p, phase, S)
<1>1. p \notin Settled(p) /\ Len(p) \in Nat /\ Len(p) >= 1 /\ calls[p].round \in Nat
  BY DomainPaths DEF Settled
<1>2. p \notin New(p, S)
  BY <1>1, NewFacts
<1>3. ASSUME NEW q \in New(p, S), q \in DOMAIN calls PROVE FALSE
  <2>1. /\ Len(q) = Len(p) + 1 /\ q[Len(q)] = <<NodeOf(q), calls[p].round + 1>>
        /\ Caller(q, Len(p)) = p
    BY NewFacts
  <2>2. Len(p) \in 1 .. Len(q) - 1 /\ Len(p) + 1 = Len(q)
    BY <1>1, <2>1
  <2>3. q[Len(p) + 1][2] <= calls[p].round
    BY <1>3, <2>1, <2>2 DEF Fresh
  <2> QED BY <1>1, <2>1, <2>2, <2>3
<1>4. calls' = [q \in (DOMAIN calls \ Settled(p)) \cup New(p, S) |->
                  IF q = p THEN [phase |-> phase, round |-> calls[p].round + 1]
                  ELSE IF q \in New(p, S) THEN [phase |-> "called", round |-> 0]
                  ELSE calls[q]]
  BY DEF Call, New
<1> QED BY <1>1, <1>2, <1>3, <1>4 DEF Grows

LEMMA RootFacts ==
  ASSUME NEW w \in Workflow
  PROVE  /\ Root(w) \in Path /\ Len(Root(w)) = 1 /\ Root(w)[1] = <<Entry[w], 1>>
         /\ NodeOf(Root(w)) = Entry[w] /\ Of(Root(w)) = w
<1>1. Entry[w] \in Node /\ WorkflowOf[Entry[w]] = w
  BY WorkflowAssumption, GraphAssumption
<1>2. Root(w) \in Seq(Node \X Nat) /\ Len(Root(w)) = 1 /\ Root(w)[1] = <<Entry[w], 1>>
  BY <1>1 DEF Root
<1>3. Root(w) # << >>
  BY <1>2, EmptySeq
<1> QED BY <1>1, <1>2, <1>3 DEF Path, NodeOf, Of, Last

LEMMA RootOfPath ==
  ASSUME NEW p \in Path, NEW w \in Workflow, p[1] = <<Entry[w], 1>>
  PROVE  Caller(p, 1) = Root(w)
<1>1. 1 \in 1 .. Len(p)
  BY PathFacts
<1>2. /\ Caller(p, 1) \in Path /\ Len(Caller(p, 1)) = 1
      /\ \A j \in 1 .. 1 : Caller(p, 1)[j] = p[j]
  BY <1>1, CallerFacts
<1> QED BY <1>2, RootFacts, PathEqual

(* The root of a workflow that begins is a new tree. *)
LEMMA BeginsFresh ==
  ASSUME TypeOK, Rooted, NEW w \in Workflow, status[w] = "none"
  PROVE  \A p \in DOMAIN calls : p # Root(w) /\ Of(p) # w /\ Caller(p, 1) # Root(w)
<1> SUFFICES ASSUME NEW p \in DOMAIN calls PROVE p # Root(w) /\ Of(p) # w /\ Caller(p, 1) # Root(w)
  OBVIOUS
<1>1. p \in Path /\ 1 \in 1 .. Len(p)
  BY DomainPaths
<1>2. Of(p) # w
  BY DEF Rooted
<1>3. Caller(p, 1)[1] = p[1] /\ WorkflowOf[p[1][1]] = Of(p)
  BY <1>1, CallerFacts DEF Rooted
<1>4. WorkflowOf[Entry[w]] = w
  BY GraphAssumption
<1> QED BY <1>2, <1>3, <1>4, RootFacts

LEMMA BeginsFacts ==
  ASSUME TypeOK, NEW w \in Workflow, Begins(w)
  PROVE  /\ DOMAIN calls' = DOMAIN calls \cup {Root(w)}
         /\ calls'[Root(w)] = [phase |-> "called", round |-> 0]
         /\ \A q \in DOMAIN calls : q # Root(w) =>
              \/ calls'[q] = calls[q]
              \/ calls[q].phase = "begun" /\ calls'[q] = [phase |-> "sub", round |-> calls[q].round]
         /\ status[w] = "none" /\ status' = [status EXCEPT ![w] = "running"]
         /\ UNCHANGED <<flags, nodes, outputs, starts, requested>>
<1>1. CASE Started(w, calls)
  BY <1>1 DEF Begins, Started
<1>2. ASSUME NEW p \in DOMAIN calls, calls[p].phase = "begun", Started(w, [calls EXCEPT ![p].phase = "sub"])
      PROVE  /\ DOMAIN calls' = DOMAIN calls \cup {Root(w)}
             /\ calls'[Root(w)] = [phase |-> "called", round |-> 0]
             /\ \A q \in DOMAIN calls : q # Root(w) =>
                  \/ calls'[q] = calls[q]
                  \/ calls[q].phase = "begun" /\ calls'[q] = [phase |-> "sub", round |-> calls[q].round]
  <2> DEFINE others == [calls EXCEPT ![p].phase = "sub"]
  <2>1. /\ DOMAIN others = DOMAIN calls
        /\ \A q \in DOMAIN calls : others[q] = IF q = p THEN [calls[p] EXCEPT !.phase = "sub"] ELSE calls[q]
    OBVIOUS
  <2>2. calls[p] = [phase |-> calls[p].phase, round |-> calls[p].round]
    BY DomainPaths
  <2>3. [calls[p] EXCEPT !.phase = "sub"] = [phase |-> "sub", round |-> calls[p].round]
    BY <2>2
  <2> HIDE DEF others
  <2>4. calls' = [q \in DOMAIN others \cup {Root(w)} |->
                    IF q = Root(w) THEN [phase |-> "called", round |-> 0] ELSE others[q]]
    BY <1>2 DEF Started, others
  <2> QED BY <1>2, <2>1, <2>3, <2>4
<1>3. /\ status[w] = "none" /\ status' = [status EXCEPT ![w] = "running"]
      /\ UNCHANGED <<flags, nodes, outputs, starts, requested>>
  BY DEF Begins, Started
<1> QED BY <1>1, <1>2, <1>3 DEF Begins

LEMMA FinalizeFacts ==
  ASSUME NEW w \in Workflow, Finalize(w)
  PROVE  /\ Root(w) \in DOMAIN calls /\ calls[Root(w)].phase \in {"ok", "error"}
         /\ DOMAIN calls' = DOMAIN calls \ {Root(w)}
         /\ \A q \in DOMAIN calls' : calls'[q] = calls[q]
         /\ status' = [status EXCEPT ![w] = Outcome(w)]
         /\ Outcome(w) \in {"completed", "failed", "cancelled"}
         /\ flags' = flags \ {w}
         /\ UNCHANGED <<nodes, outputs, starts, requested>>
BY DEF Finalize, Outcome

------------------------------------------------------------------------------
(* Types *)

CallsTyped(f) ==
  \A p \in DOMAIN f : p \in Seq(Node \X Nat) /\ p # << >> /\ f[p] \in [phase : Phase, round : Nat]

LEMMA ShrinksTyped ==
  ASSUME TypeOK, NEW p \in DOMAIN calls, NEW phase \in Phase, Shrinks(p, phase)
  PROVE  CallsTyped(calls')
<1>1. calls[p].round \in Nat /\ DOMAIN calls' \subseteq DOMAIN calls
  BY DomainPaths DEF Shrinks
<1>2. [phase |-> phase, round |-> calls[p].round] \in [phase : Phase, round : Nat]
  BY <1>1
<1> QED BY <1>1, <1>2 DEF Shrinks, TypeOK, CallsTyped

LEMMA GrowsTyped ==
  ASSUME TypeOK, NEW p \in DOMAIN calls, NEW phase \in Phase, NEW S \in SUBSET Node, Grows(p, phase, S)
  PROVE  CallsTyped(calls')
<1>1. calls[p].round \in Nat
  BY DomainPaths
<1>2. [phase |-> phase, round |-> calls[p].round + 1] \in [phase : Phase, round : Nat]
  BY <1>1
<1>3. \A q \in New(p, S) : q \in Seq(Node \X Nat) /\ q # << >>
  BY NewFacts DEF Path
<1>4. \A q \in New(p, S) : calls'[q] \in [phase : Phase, round : Nat]
  BY DEF Grows, Phase
<1>5. \A q \in DOMAIN calls \ Settled(p) : calls'[q] \in [phase : Phase, round : Nat]
  BY <1>2 DEF Grows, TypeOK
<1> QED BY <1>3, <1>4, <1>5 DEF Grows, TypeOK, CallsTyped

LEMMA TypeStep == TypeOK /\ Rooted /\ Fresh /\ (TreeStep \/ UNCHANGED vars) => TypeOK'
<1> SUFFICES ASSUME TypeOK, Rooted, Fresh, TreeStep \/ UNCHANGED vars PROVE TypeOK'
  OBVIOUS
<1>0. TypeOK' <=> /\ status' \in [Workflow -> {"none", "running", "completed", "failed", "cancelled"}]
                  /\ flags' \subseteq requested' /\ requested' \subseteq Workflow
                  /\ nodes' \in [Node -> {"pending", "running", "completed", "failed"}]
                  /\ outputs' \subseteq Node
                  /\ starts' \in [Node -> Nat]
                  /\ CallsTyped(calls')
  BY DEF TypeOK, CallsTyped
<1>1. ASSUME NEW p \in DOMAIN calls, NEW how \in {"ok", "error"}, Settles(p, how) PROVE TypeOK'
  <2>1. CallsTyped(calls')
    BY <1>1, SettlesShrinks, ShrinksTyped DEF Phase
  <2>2. NodeOf(p) \in Node
    BY DomainPaths
  <2> QED BY <1>0, <1>1, <2>1, <2>2 DEF Settles, TypeOK
<1>2. ASSUME NEW p \in DOMAIN calls, NEW phase \in {"agent", "sleep"}, Waits(p, phase) PROVE TypeOK'
  <2>1. CallsTyped(calls')
    BY <1>2, WaitsShrinks, ShrinksTyped DEF Phase
  <2> QED BY <1>0, <1>2, <2>1 DEF Waits, TypeOK
<1>8. ASSUME NEW p \in DOMAIN calls, Enters(p) PROVE TypeOK'
  <2>1. CallsTyped(calls')
    BY <1>8, EntersShrinks, ShrinksTyped DEF Phase
  <2>2. NodeOf(p) \in Node
    BY DomainPaths
  <2> QED BY <1>0, <1>8, <2>1, <2>2 DEF Enters, TypeOK
<1>3. ASSUME NEW p \in DOMAIN calls, NEW phase \in {"body", "next"}, NEW S \in SUBSET Node,
             NEW ns \in [Node -> NodeStatus], Calls(p, phase, S, ns)
      PROVE  TypeOK'
  <2>1. Call(p, phase, S, ns)
    BY <1>3 DEF Calls
  <2>2. CallsTyped(calls')
    <3>1. Grows(p, phase, S) /\ phase \in Phase
      BY <2>1, CallsGrows DEF Phase
    <3> QED BY <3>1, GrowsTyped
  <2>3. NodeOf(p) \in Node
    BY DomainPaths
  <2>4. nodes' \in [Node -> NodeStatus] /\ starts' \in [Node -> Nat]
    BY <2>1 DEF Call, TypeOK, NodeStatus
  <2> QED BY <1>0, <1>3, <2>2, <2>3, <2>4 DEF Calls, TypeOK, NodeStatus
<1>4. ASSUME NEW w \in Workflow, Begins(w) PROVE TypeOK'
  <2>1. Entry[w] \in Node /\ Root(w) \in Seq(Node \X Nat) /\ Root(w) # << >>
    BY RootFacts, WorkflowAssumption DEF Path
  <2>3. /\ DOMAIN calls' = DOMAIN calls \cup {Root(w)}
        /\ calls'[Root(w)] = [phase |-> "called", round |-> 0]
        /\ \A q \in DOMAIN calls : q # Root(w) =>
             \/ calls'[q] = calls[q]
             \/ calls[q].phase = "begun" /\ calls'[q] = [phase |-> "sub", round |-> calls[q].round]
        /\ status' = [status EXCEPT ![w] = "running"]
        /\ UNCHANGED <<flags, nodes, outputs, starts, requested>>
    BY <1>4, BeginsFacts
  <2>2. CallsTyped(calls')
    <3>1. ASSUME NEW q \in DOMAIN calls' PROVE calls'[q] \in [phase : Phase, round : Nat]
      <4>1. CASE q = Root(w)
        BY <2>3, <4>1 DEF Phase
      <4>2. CASE q # Root(w)
        <5>1. q \in DOMAIN calls /\ calls[q] \in [phase : Phase, round : Nat]
          BY <2>3, <4>2 DEF TypeOK
        <5>2. calls'[q] = calls[q] \/ calls'[q] = [phase |-> "sub", round |-> calls[q].round]
          BY <2>3, <4>2, <5>1
        <5> QED BY <5>1, <5>2 DEF Phase
      <4> QED BY <4>1, <4>2
    <3> QED BY <2>1, <2>3, <3>1 DEF TypeOK, CallsTyped
  <2> QED BY <1>0, <2>1, <2>2, <2>3 DEF TypeOK
<1>5. ASSUME NEW w \in Workflow, Finalize(w) PROVE TypeOK'
  <2>1. CallsTyped(calls')
    BY <1>5, FinalizeFacts DEF TypeOK, CallsTyped
  <2> QED BY <1>0, <1>5, <2>1, FinalizeFacts DEF TypeOK
<1>6. ASSUME NEW w \in Workflow, CancelWorkflow(w) PROVE TypeOK'
  BY <1>6 DEF CancelWorkflow, TypeOK
<1>7. CASE UNCHANGED vars
  BY <1>7 DEF vars, TypeOK
<1> QED BY <1>1, <1>2, <1>3, <1>4, <1>5, <1>6, <1>7, <1>8 DEF TreeStep

------------------------------------------------------------------------------
(* The tree keeps its shape *)

LEMMA CalledByFacts ==
  ASSUME TypeOK, NEW p \in DOMAIN calls, NEW q \in DOMAIN calls
  PROVE  q \in CalledBy(p) <=> /\ Len(q) = Len(p) + 1 /\ Caller(q, Len(p)) = p
                               /\ q[Len(p) + 1][2] = calls[p].round
<1>1. Len(p) \in Nat /\ Len(q) \in Nat
  BY DomainPaths
<1>2. ASSUME Len(q) = Len(p) + 1 PROVE Front(q) = Caller(q, Len(p)) /\ Last(q) = q[Len(p) + 1]
  BY <1>1, <1>2 DEF Front, Last, Caller
<1> QED BY <1>2 DEF CalledBy

LEMMA ShrinksTree ==
  ASSUME TreeInv, NEW p \in DOMAIN calls, NEW phase, Shrinks(p, phase), status' = status,
         phase \notin {"body", "next"}, phase = "sleep" => Kind[NodeOf(p)] = "retry"
  PROVE  Asleep' /\ Rooted' /\ Fresh' /\ CalledFor' /\ RootRuns'
<1>1. /\ DOMAIN calls' \subseteq DOMAIN calls
      /\ \A q \in DOMAIN calls' : /\ calls'[q].round = calls[q].round
                                  /\ q # p => calls'[q] = calls[q]
                                  /\ q = p => calls'[q].phase = phase
  BY DEF Shrinks
<1>2. Asleep'
  BY <1>1 DEF TreeInv, Asleep
<1>3. Rooted'
  BY <1>1 DEF TreeInv, Rooted
<1>4. Fresh'
  BY <1>1 DEF TreeInv, Fresh
<1>5. CalledFor'
  <2>1. ASSUME NEW a \in DOMAIN calls', NEW q \in CalledBy(a)', calls'[a].phase \in {"body", "next"}
        PROVE  calls'[a] = calls[a] /\ q \in CalledBy(a)
    BY <1>1, <2>1 DEF CalledBy
  <2> QED BY <1>1, <2>1 DEF TreeInv, CalledFor
<1>6. RootRuns'
  BY <1>1 DEF TreeInv, RootRuns
<1> QED BY <1>2, <1>3, <1>4, <1>5, <1>6

LEMMA GrowsTree ==
  ASSUME TreeInv, NEW p \in DOMAIN calls, NEW phase \in {"body", "next"}, NEW S \in SUBSET Node,
         Grows(p, phase, S), status' = status,
         phase = "body" => S \subseteq Inner[NodeOf(p)],
         phase = "next" => \A n \in S : <<NodeOf(p), n>> \in Edge
  PROVE  Asleep' /\ Rooted' /\ Fresh' /\ CalledFor' /\ RootRuns'
<1>0. TypeOK /\ Rooted /\ Fresh /\ CalledFor /\ RootRuns /\ Asleep
  BY DEF TreeInv
<1>1. /\ p \in Path /\ Len(p) \in Nat /\ Len(p) >= 1 /\ NodeOf(p) \in Node /\ calls[p].round \in Nat
      /\ NodeOf(p) = p[Len(p)][1]
  BY <1>0, DomainPaths, PathFacts
<1>2. \A q \in New(p, S) :
         /\ q \in Path /\ Len(q) = Len(p) + 1 /\ NodeOf(q) \in S
         /\ q[Len(q)] = <<NodeOf(q), calls[p].round + 1>>
         /\ Last(q)[2] = calls[p].round + 1
         /\ Front(q) = p /\ Caller(q, Len(p)) = p
         /\ \A i \in 1 .. Len(p) : q[i] = p[i] /\ Caller(q, i) = Caller(p, i)
  BY <1>0, NewFacts
<1>3. /\ DOMAIN calls' = (DOMAIN calls \ Settled(p)) \cup New(p, S)
      /\ New(p, S) \cap DOMAIN calls = {} /\ p \in DOMAIN calls'
      /\ calls'[p].phase = phase /\ calls'[p].round = calls[p].round + 1
      /\ \A q \in New(p, S) : calls'[q].phase = "called"
      /\ \A q \in DOMAIN calls' : q \notin New(p, S) /\ q # p => q \in DOMAIN calls /\ calls'[q] = calls[q]
      /\ p \notin New(p, S)
  BY DEF Grows
<1>4. Asleep'
  <2> SUFFICES ASSUME NEW q \in DOMAIN calls', calls'[q].phase = "sleep" PROVE Kind[NodeOf(q)] = "retry"
    BY DEF Asleep
  <2>1. q \notin New(p, S) /\ q # p
    BY <1>3
  <2> QED BY <1>0, <1>3, <2>1 DEF Asleep
<1>5. Rooted'
  <2>1. ASSUME NEW q \in New(p, S)
        PROVE  /\ q[1] = <<Entry[Of(q)], 1>> /\ status[Of(q)] # "none"
               /\ \A i \in 1 .. Len(q) : WorkflowOf[q[i][1]] = Of(q)
               /\ \A i \in 1 .. Len(q) - 1 :
                    q[i + 1][1] \in Inner[q[i][1]] \/ <<q[i][1], q[i + 1][1]>> \in Edge
    <3>1. NodeOf(q) \in Inner[NodeOf(p)] \/ <<NodeOf(p), NodeOf(q)>> \in Edge
      BY <1>2
    <3>2. Of(q) = Of(p)
      <4>1. NodeOf(q) \in Inner[NodeOf(p)] => WorkflowOf[NodeOf(q)] = WorkflowOf[NodeOf(p)]
        BY <1>1, GraphAssumption
      <4>2. ASSUME <<NodeOf(p), NodeOf(q)>> \in Edge PROVE WorkflowOf[NodeOf(q)] = WorkflowOf[NodeOf(p)]
        <5> DEFINE e == <<NodeOf(p), NodeOf(q)>>
        <5>1. WorkflowOf[e[1]] = WorkflowOf[e[2]]
          BY <4>2, GraphAssumption
        <5> QED BY <5>1
      <4> QED BY <3>1, <4>1, <4>2 DEF Of
    <3>3. /\ p[1] = <<Entry[Of(p)], 1>> /\ status[Of(p)] # "none"
          /\ \A i \in 1 .. Len(p) : WorkflowOf[p[i][1]] = Of(p)
          /\ \A i \in 1 .. Len(p) - 1 :
               p[i + 1][1] \in Inner[p[i][1]] \/ <<p[i][1], p[i + 1][1]>> \in Edge
      BY <1>0 DEF Rooted
    <3>4. Len(q) = Len(p) + 1 /\ q[Len(q)][1] = NodeOf(q) /\ \A i \in 1 .. Len(p) : q[i] = p[i]
      BY <1>2
    <3>5. ASSUME NEW i \in 1 .. Len(q) PROVE WorkflowOf[q[i][1]] = Of(q)
      <4>1. i \in 1 .. Len(p) \/ i = Len(q)
        BY <1>1, <3>4
      <4> QED BY <3>2, <3>3, <3>4, <4>1 DEF Of
    <3>6. ASSUME NEW i \in 1 .. Len(q) - 1
          PROVE  q[i + 1][1] \in Inner[q[i][1]] \/ <<q[i][1], q[i + 1][1]>> \in Edge
      <4>1. CASE i = Len(p)
        BY <1>1, <3>1, <3>4, <4>1
      <4>2. CASE i # Len(p)
        <5>1. i \in 1 .. Len(p) - 1 /\ i \in 1 .. Len(p) /\ i + 1 \in 1 .. Len(p)
          BY <1>1, <3>4, <4>2
        <5> QED BY <3>3, <3>4, <5>1
      <4> QED BY <4>1, <4>2
    <3>7. 1 \in 1 .. Len(p)
      BY <1>1
    <3> QED BY <3>2, <3>3, <3>4, <3>5, <3>6, <3>7
  <2> QED BY <1>0, <1>3, <2>1 DEF Rooted
<1>6. Fresh'
  <2> SUFFICES ASSUME NEW s \in DOMAIN calls', NEW i \in 1 .. Len(s) - 1, Caller(s, i) \in DOMAIN calls'
               PROVE  s[i + 1][2] <= calls'[Caller(s, i)].round
    BY DEF Fresh
  <2> DEFINE a == Caller(s, i)
  <2>0. a \notin New(p, S) => a \in DOMAIN calls /\ calls'[a].round \in Nat /\ calls[a].round \in Nat
                                /\ calls[a].round <= calls'[a].round
    BY <1>0, <1>1, <1>3, DomainPaths
  <2>1. CASE s \notin New(p, S)
    <3>1. s \in DOMAIN calls /\ s \in Path /\ Len(s) \in Nat /\ i \in 1 .. Len(s)
      BY <1>0, <1>3, <2>1, DomainPaths
    <3>2. ASSUME a \in New(p, S) PROVE FALSE
      <4>1. Len(a) = i /\ \A j \in 1 .. i : a[j] = s[j] /\ Caller(a, j) = Caller(s, j)
        BY <3>1, CallerFacts
      <4>2. i = Len(p) + 1 /\ Len(p) \in 1 .. i /\ Len(p) \in 1 .. Len(s) - 1
        BY <1>1, <1>2, <3>1, <3>2, <4>1
      <4>3. Caller(s, Len(p)) = p /\ s[Len(p) + 1][2] = calls[p].round + 1
        BY <1>1, <1>2, <3>2, <4>1, <4>2
      <4>4. s[Len(p) + 1][2] <= calls[p].round
        BY <1>0, <3>1, <4>2, <4>3 DEF Fresh
      <4> QED BY <1>1, <4>3, <4>4
    <3>3. s[i + 1][2] <= calls[a].round
      BY <1>0, <2>0, <3>1, <3>2 DEF Fresh
    <3>4. s[i + 1][2] \in Nat
      BY <3>1, PathFacts
    <3> QED BY <2>0, <3>2, <3>3, <3>4
  <2>2. CASE s \in New(p, S)
    <3>1. /\ Len(s) = Len(p) + 1 /\ s[Len(s)][2] = calls[p].round + 1 /\ i \in 1 .. Len(p)
          /\ \A j \in 1 .. Len(p) : s[j] = p[j] /\ Caller(s, j) = Caller(p, j)
          /\ Caller(s, Len(p)) = p
      BY <1>1, <1>2, <2>2
    <3>2. CASE i = Len(p)
      BY <1>1, <1>3, <3>1, <3>2
    <3>3. CASE i # Len(p)
      <4>1. i \in 1 .. Len(p) - 1 /\ i + 1 \in 1 .. Len(p) /\ a = Caller(p, i) /\ Len(a) = i
        BY <1>1, <3>1, <3>3, CallerFacts
      <4>2. a \notin New(p, S)
        BY <1>1, <1>2, <4>1
      <4>3. p[i + 1][2] <= calls[a].round /\ p[i + 1][2] \in Nat
        BY <1>0, <1>1, <2>0, <4>1, <4>2, PathFacts DEF Fresh
      <4> QED BY <2>0, <3>1, <4>1, <4>2, <4>3
    <3> QED BY <3>2, <3>3
  <2> QED BY <2>1, <2>2
<1>7. CalledFor'
  <2> SUFFICES ASSUME NEW a \in DOMAIN calls', NEW q \in CalledBy(a)', calls'[a].phase \in {"body", "next"}
               PROVE  /\ calls'[a].phase = "body" => NodeOf(q) \in Inner[NodeOf(a)]
                      /\ calls'[a].phase = "next" => <<NodeOf(a), NodeOf(q)>> \in Edge
    BY DEF CalledFor
  <2>1. /\ q \in DOMAIN calls' /\ Len(q) = Len(a) + 1 /\ Front(q) = a
        /\ Last(q)[2] = calls'[a].round
    BY DEF CalledBy
  <2>2. a \notin New(p, S)
    BY <1>3
  <2>3. CASE a = p
    <3>1. ASSUME q \notin New(p, S) PROVE FALSE
      <4>1. q \in DOMAIN calls /\ Len(q) \in Nat /\ q \in Path
        BY <1>0, <1>3, <2>1, <3>1, DomainPaths
      <4>2. Caller(q, Len(p)) = p /\ q[Len(p) + 1][2] = calls[p].round + 1 /\ Len(p) \in 1 .. Len(q) - 1
        BY <1>1, <1>3, <2>1, <2>3, <4>1 DEF Front, Last, Caller
      <4>3. q[Len(p) + 1][2] <= calls[p].round
        BY <1>0, <4>1, <4>2 DEF Fresh
      <4> QED BY <1>1, <4>2, <4>3
    <3> QED BY <1>2, <1>3, <2>3, <3>1
  <2>4. CASE a # p
    <3>1. a \in DOMAIN calls /\ calls'[a] = calls[a]
      BY <1>3, <2>2, <2>4
    <3>2. q \in DOMAIN calls
      BY <1>2, <1>3, <2>1, <2>4
    <3>3. q \in CalledBy(a)
      BY <2>1, <3>1, <3>2 DEF CalledBy
    <3> QED BY <1>0, <3>1, <3>3 DEF CalledFor
  <2> QED BY <2>3, <2>4
<1>8. RootRuns'
  <2> SUFFICES ASSUME NEW w \in Workflow, Root(w) \in DOMAIN calls' PROVE status[w] = "running"
    BY DEF RootRuns
  <2>1. Root(w) \notin New(p, S)
    BY <1>1, <1>2, RootFacts
  <2> QED BY <1>0, <1>3, <2>1 DEF RootRuns
<1> QED BY <1>4, <1>5, <1>6, <1>7, <1>8

LEMMA BeginsTree ==
  ASSUME TreeInv, NEW w \in Workflow, Begins(w)
  PROVE  Asleep' /\ Rooted' /\ Fresh' /\ CalledFor' /\ RootRuns'
<1>0. TypeOK /\ Rooted /\ Fresh /\ CalledFor /\ RootRuns /\ Asleep
  BY DEF TreeInv
<1>1. /\ DOMAIN calls' = DOMAIN calls \cup {Root(w)}
      /\ calls'[Root(w)] = [phase |-> "called", round |-> 0]
      /\ \A q \in DOMAIN calls : q # Root(w) =>
           \/ calls'[q] = calls[q]
           \/ calls[q].phase = "begun" /\ calls'[q] = [phase |-> "sub", round |-> calls[q].round]
      /\ status[w] = "none" /\ status' = [status EXCEPT ![w] = "running"]
  BY <1>0, BeginsFacts
<1>2. \A p \in DOMAIN calls : p # Root(w) /\ Of(p) # w /\ Caller(p, 1) # Root(w)
  BY <1>0, <1>1, BeginsFresh
<1>3. \A q \in DOMAIN calls :
        /\ q \in DOMAIN calls' /\ calls'[q].round = calls[q].round
        /\ calls'[q].phase \in {"body", "next", "sleep"} => calls'[q] = calls[q]
  BY <1>1, <1>2
<1>4. /\ Root(w) \in Path /\ Len(Root(w)) = 1 /\ Root(w)[1] = <<Entry[w], 1>>
      /\ NodeOf(Root(w)) = Entry[w] /\ Of(Root(w)) = w
  BY RootFacts
<1>5. status \in [Workflow -> {"none", "running", "completed", "failed", "cancelled"}]
  BY <1>0 DEF TypeOK
<1>6. Asleep'
  BY <1>0, <1>1, <1>3 DEF Asleep
<1>7. Rooted'
  <2>1. ASSUME NEW p \in DOMAIN calls PROVE status'[Of(p)] # "none"
    BY <1>0, <1>1, <1>2, <1>5, <2>1 DEF Rooted
  <2>2. status'[w] # "none" /\ \A i \in 1 .. 1 : WorkflowOf[Root(w)[i][1]] = w
    BY <1>1, <1>4, <1>5, GraphAssumption
  <2> QED BY <1>0, <1>1, <1>4, <2>1, <2>2 DEF Rooted
<1>8. Fresh'
  <2> SUFFICES ASSUME NEW s \in DOMAIN calls', NEW i \in 1 .. Len(s) - 1, Caller(s, i) \in DOMAIN calls'
               PROVE  s[i + 1][2] <= calls'[Caller(s, i)].round
    BY DEF Fresh
  <2>1. s \in DOMAIN calls /\ s \in Path /\ Len(s) \in Nat
    <3>1. ASSUME s = Root(w) PROVE FALSE
      <4>1. Len(s) = 1
        BY <1>4, <3>1
      <4> QED BY <4>1
    <3>2. s \in DOMAIN calls
      BY <1>1, <3>1
    <3> QED BY <1>0, <3>2, DomainPaths
  <2>2. ASSUME Caller(s, i) = Root(w) PROVE FALSE
    <3>1. i = 1
      BY <1>4, <2>1, <2>2, CallerFacts
    <3> QED BY <1>2, <2>1, <2>2, <3>1
  <2>3. Caller(s, i) \in DOMAIN calls
    BY <1>1, <2>2
  <2> QED BY <1>0, <1>3, <2>1, <2>3 DEF Fresh
<1>9. CalledFor'
  <2> SUFFICES ASSUME NEW a \in DOMAIN calls', NEW q \in CalledBy(a)', calls'[a].phase \in {"body", "next"}
               PROVE  /\ calls'[a].phase = "body" => NodeOf(q) \in Inner[NodeOf(a)]
                      /\ calls'[a].phase = "next" => <<NodeOf(a), NodeOf(q)>> \in Edge
    BY DEF CalledFor
  <2>1. a \in DOMAIN calls /\ calls'[a] = calls[a]
    BY <1>1, <1>3
  <2>2. q \in DOMAIN calls
    <3>1. Len(q) = Len(a) + 1 /\ Len(a) \in Nat /\ Len(a) >= 1
      BY <1>0, <2>1, DomainPaths DEF CalledBy
    <3>2. q # Root(w)
      <4>1. ASSUME q = Root(w) PROVE FALSE
        <5>1. Len(q) = 1
          BY <1>4, <4>1
        <5>2. \A n \in Nat : n >= 1 => n + 1 # 1
          OBVIOUS
        <5> QED BY ONLY <3>1, <5>1, <5>2
      <4> QED BY <4>1
    <3>3. q \in DOMAIN calls'
      BY DEF CalledBy
    <3> QED BY <1>1, <3>2, <3>3
  <2>3. q \in CalledBy(a)
    BY <2>1, <2>2 DEF CalledBy
  <2> QED BY <1>0, <2>1, <2>3 DEF CalledFor
<1>10. RootRuns'
  <2> SUFFICES ASSUME NEW v \in Workflow, Root(v) \in DOMAIN calls' PROVE status'[v] = "running"
    BY DEF RootRuns
  <2>1. CASE Root(v) = Root(w)
    <3>1. v = w
      BY <1>4, <2>1, RootFacts
    <3> QED BY <1>1, <1>5, <3>1
  <2>2. CASE Root(v) # Root(w)
    <3>1. status[v] = "running"
      BY <1>0, <1>1, <2>2 DEF RootRuns
    <3> QED BY <1>1, <1>5, <3>1
  <2> QED BY <2>1, <2>2
<1> QED BY <1>6, <1>7, <1>8, <1>9, <1>10

LEMMA FinalizeTree ==
  ASSUME TreeInv, NEW w \in Workflow, Finalize(w)
  PROVE  Asleep' /\ Rooted' /\ Fresh' /\ CalledFor' /\ RootRuns'
<1>0. TypeOK /\ Rooted /\ Fresh /\ CalledFor /\ RootRuns /\ Asleep
  BY DEF TreeInv
<1>1. /\ DOMAIN calls' = DOMAIN calls \ {Root(w)}
      /\ \A q \in DOMAIN calls' : calls'[q] = calls[q]
      /\ status' = [status EXCEPT ![w] = Outcome(w)]
      /\ Outcome(w) \in {"completed", "failed", "cancelled"}
  BY FinalizeFacts
<1>2. status \in [Workflow -> {"none", "running", "completed", "failed", "cancelled"}]
  BY <1>0 DEF TypeOK
<1>3. Asleep' /\ Fresh'
  BY <1>0, <1>1 DEF Asleep, Fresh
<1>4. Rooted'
  <2>1. \A v : status[v] # "none" => status'[v] # "none"
    BY <1>1, <1>2
  <2> QED BY <1>0, <1>1, <2>1 DEF Rooted
<1>5. CalledFor'
  <2>1. ASSUME NEW a \in DOMAIN calls', NEW q \in CalledBy(a)'
        PROVE  q \in CalledBy(a)
    BY <1>1, <2>1 DEF CalledBy
  <2> QED BY <1>0, <1>1, <2>1 DEF CalledFor
<1>6. RootRuns'
  BY <1>0, <1>1, <1>2 DEF RootRuns
<1> QED BY <1>3, <1>4, <1>5, <1>6

LEMMA CallsEdges ==
  ASSUME NEW p, NEW phase, NEW S, NEW ns, Calls(p, phase, S, ns)
  PROVE  /\ phase = "body" => S \subseteq Inner[NodeOf(p)]
         /\ phase = "next" => /\ ns = [nodes EXCEPT ![NodeOf(p)] = "completed"]
                              /\ S = Successors(NodeOf(p), ns)
                              /\ \A n \in S : <<NodeOf(p), n>> \in Edge
BY DEF Calls, Successors

LEMMA TreeInvInit == Init => TreeInv
<1> SUFFICES ASSUME Init PROVE TreeInv
  OBVIOUS
<1>1. DOMAIN calls = {}
  BY DEF Init
<1>2. TypeOK
  BY <1>1, WorkflowAssumption DEF Init, TypeOK
<1> QED BY <1>1, <1>2, RootFacts DEF TreeInv, Asleep, Rooted, Fresh, CalledFor, RootRuns

LEMMA TreeStepInv == TreeInv /\ (TreeStep \/ UNCHANGED vars) => TreeInv'
<1> SUFFICES ASSUME TreeInv, TreeStep \/ UNCHANGED vars PROVE TreeInv'
  OBVIOUS
<1>0. TypeOK /\ Rooted /\ Fresh /\ Asleep
  BY DEF TreeInv
<1>1. TreeStep \/ UNCHANGED vars
  OBVIOUS
<1>2. TypeOK'
  BY <1>0, <1>1, TypeStep
<1> SUFFICES Asleep' /\ Rooted' /\ Fresh' /\ CalledFor' /\ RootRuns'
  BY <1>2 DEF TreeInv
<1>3. ASSUME NEW p \in DOMAIN calls, NEW how \in {"ok", "error"}, Settles(p, how)
      PROVE  Asleep' /\ Rooted' /\ Fresh' /\ CalledFor' /\ RootRuns'
  BY <1>0, <1>3, SettlesShrinks, ShrinksTree DEF Settles
<1>4. ASSUME NEW p \in DOMAIN calls, NEW phase \in {"agent", "sleep"}, Waits(p, phase)
      PROVE  Asleep' /\ Rooted' /\ Fresh' /\ CalledFor' /\ RootRuns'
  BY <1>0, <1>4, WaitsShrinks, ShrinksTree DEF Waits
<1>5. ASSUME NEW p \in DOMAIN calls, NEW phase \in {"body", "next"}, NEW S \in SUBSET Node,
             NEW ns \in [Node -> NodeStatus], Calls(p, phase, S, ns)
      PROVE  Asleep' /\ Rooted' /\ Fresh' /\ CalledFor' /\ RootRuns'
  <2>1. Call(p, phase, S, ns) /\ status' = status
    BY <1>5 DEF Calls
  <2>2. Grows(p, phase, S)
    BY <1>0, <2>1, CallsGrows
  <2>3. /\ phase = "body" => S \subseteq Inner[NodeOf(p)]
        /\ phase = "next" => \A n \in S : <<NodeOf(p), n>> \in Edge
    BY <1>5, CallsEdges
  <2> QED BY <2>1, <2>2, <2>3, GrowsTree
<1>6. ASSUME NEW w \in Workflow, CancelWorkflow(w)
      PROVE  Asleep' /\ Rooted' /\ Fresh' /\ CalledFor' /\ RootRuns'
  BY <1>6 DEF CancelWorkflow, TreeInv, Asleep, Rooted, Fresh, CalledFor, CalledBy, RootRuns
<1>7. CASE UNCHANGED vars
  BY <1>7 DEF vars, TreeInv, Asleep, Rooted, Fresh, CalledFor, CalledBy, RootRuns
<1>8. ASSUME NEW p \in DOMAIN calls, Enters(p)
      PROVE  Asleep' /\ Rooted' /\ Fresh' /\ CalledFor' /\ RootRuns'
  BY <1>0, <1>8, EntersShrinks, ShrinksTree DEF Enters
<1> QED BY <1>1, <1>3, <1>4, <1>5, <1>6, <1>7, <1>8, BeginsTree, FinalizeTree DEF TreeStep

LEMMA TreeInvStep == TreeInv /\ [Next]_vars => TreeInv'
BY TreeStepInv, StepCases DEF TreeInv

LEMMA TreeInductive == Spec => []TreeInv
BY TreeInvInit, TreeInvStep, PTL DEF Spec

(* The records, the counters and the activations keep their types, for any *)
(* graphs.                                                                 *)
THEOREM TypeCorrect == Spec => []TypeOK
<1>1. TreeInv => TypeOK
  BY DEF TreeInv
<1> QED BY <1>1, TreeInductive, PTL

------------------------------------------------------------------------------
(* What starts *)

(* A node reached over edges is called when its inputs are there. *)
CalledReady ==
  \A q \in DOMAIN calls : calls[q].phase = "called" /\ NodeOf(q) \in Chained =>
    Predecessors(NodeOf(q)) \subseteq outputs

(* A completed node has its output; a node reached over edges that is      *)
(* still pending was never started, and once it was, its inputs are there. *)
StartInv ==
  /\ \A n \in Node : nodes[n] = "completed" => n \in outputs
  /\ \A n \in Chained : nodes[n] = "pending" => starts[n] = 0
  /\ CalledReady
  /\ InputsReady

LEMMA StartInvStep == TreeInv /\ StartInv /\ [Next]_vars => StartInv'
<1> SUFFICES ASSUME TreeInv, StartInv, [Next]_vars PROVE StartInv'
  OBVIOUS
<1>0. TypeOK /\ Rooted /\ Fresh /\ Asleep
  BY DEF TreeInv
<1>1. TreeStep \/ UNCHANGED vars
  BY <1>0, StepCases
<1>2. /\ nodes \in [Node -> NodeStatus] /\ starts \in [Node -> Nat] /\ outputs \subseteq Node
      /\ Chained \subseteq Node
  BY <1>0 DEF TypeOK, NodeStatus, Chained
<1>3. ASSUME starts' = starts, outputs \subseteq outputs',
             \A n \in Chained : nodes'[n] = "pending" => nodes[n] = "pending",
             \A n \in Node : nodes'[n] = "completed" => n \in outputs',
             CalledReady'
      PROVE  StartInv'
  BY <1>3 DEF StartInv, InputsReady
<1>4. ASSUME NEW p \in DOMAIN calls, NEW phase, Shrinks(p, phase), phase # "called", outputs \subseteq outputs'
      PROVE  CalledReady'
  BY <1>4 DEF StartInv, CalledReady, Shrinks
<1>5. ASSUME NEW p \in DOMAIN calls, NEW how \in {"ok", "error"}, Settles(p, how) PROVE StartInv'
  <2>1. NodeOf(p) \in Node /\ Shrinks(p, how) /\ outputs \subseteq outputs'
    BY <1>0, <1>5, DomainPaths, SettlesShrinks DEF Settles
  <2>2. CalledReady'
    BY <1>4, <2>1
  <2> QED BY <1>2, <1>3, <1>5, <2>1, <2>2 DEF Settles, StartInv
<1>6. ASSUME NEW p \in DOMAIN calls, NEW phase \in {"agent", "sleep"}, Waits(p, phase) PROVE StartInv'
  <2>1. CalledReady'
    BY <1>0, <1>4, <1>6, WaitsShrinks DEF Waits
  <2> QED BY <1>3, <1>6, <2>1 DEF Waits, StartInv
<1>7. ASSUME NEW p \in DOMAIN calls, Enters(p) PROVE StartInv'
  <2>1. NodeOf(p) \in Node /\ calls[p].phase = "called" /\ outputs' = outputs
    BY <1>0, <1>7, DomainPaths DEF Enters
  <2>2. /\ nodes' = [nodes EXCEPT ![NodeOf(p)] = "running"]
        /\ starts' = [starts EXCEPT ![NodeOf(p)] = @ + 1]
    BY <1>7 DEF Enters
  <2>3. CalledReady'
    BY <1>0, <1>4, <1>7, <2>1, EntersShrinks
  <2>4. NodeOf(p) \in Chained => Predecessors(NodeOf(p)) \subseteq outputs
    BY <2>1 DEF StartInv, CalledReady
  <2>5. InputsReady'
    BY <1>2, <2>1, <2>2, <2>4 DEF StartInv, InputsReady
  <2> QED BY <1>2, <2>1, <2>2, <2>3, <2>5 DEF StartInv
<1>8. ASSUME NEW p \in DOMAIN calls, NEW phase \in {"body", "next"}, NEW S \in SUBSET Node,
             NEW ns \in [Node -> NodeStatus], Calls(p, phase, S, ns)
      PROVE  StartInv'
  <2>1. NodeOf(p) \in Node /\ Grows(p, phase, S)
    BY <1>0, <1>8, DomainPaths, CallsGrows DEF Calls
  <2>2. nodes' = ns /\ starts' = starts
    BY <1>8 DEF Calls, Call
  <2>3. outputs \subseteq outputs' /\ (phase = "next" => NodeOf(p) \in outputs')
    BY <1>8 DEF Calls
  <2>4. ASSUME \A n \in S : n \in Chained => Predecessors(n) \subseteq outputs' PROVE CalledReady'
    <3> SUFFICES ASSUME NEW q \in DOMAIN calls', calls'[q].phase = "called", NodeOf(q) \in Chained
                 PROVE  Predecessors(NodeOf(q)) \subseteq outputs'
      BY DEF CalledReady
    <3>1. CASE q \in New(p, S)
      BY <1>0, <2>4, <3>1, NewFacts
    <3>2. CASE q \notin New(p, S)
      <4>1. q # p
        BY <2>1 DEF Grows
      <4>2. q \in DOMAIN calls /\ calls'[q] = calls[q]
        BY <2>1, <3>2, <4>1 DEF Grows
      <4> QED BY <2>3, <4>2 DEF StartInv, CalledReady
    <3> QED BY <3>1, <3>2
  <2>5. CASE phase = "body"
    <3>1. S \cap Chained = {} /\ (ns = nodes \/ ns = [n \in Node |-> IF n \in S THEN "pending" ELSE nodes[n]])
      BY <1>8, <2>1, <2>5 DEF Calls, Chained, Contained
    <3>2. \A n \in Chained : nodes'[n] = nodes[n]
      BY <1>2, <2>2, <3>1
    <3>3. \A n \in Node : nodes'[n] = "completed" => nodes[n] = "completed"
      BY <2>2, <3>1
    <3>4. CalledReady'
      BY <2>4, <3>1
    <3> QED BY <1>2, <1>3, <2>2, <2>3, <3>2, <3>3, <3>4 DEF StartInv
  <2>6. CASE phase = "next"
    <3>1. /\ ns = [nodes EXCEPT ![NodeOf(p)] = "completed"] /\ S = Successors(NodeOf(p), ns)
      BY <1>8, <2>6, CallsEdges
    <3>2. \A n \in Node : ns[n] = "completed" => n \in outputs'
      BY <1>2, <2>1, <2>3, <2>6, <3>1 DEF StartInv
    <3>3. \A n \in S : Predecessors(n) \subseteq outputs'
      <4>1. \A n \in S : \A pred \in Predecessors(n) : ns[pred] = "completed"
        BY <3>1 DEF Successors
      <4> QED BY <3>2, <4>1 DEF Predecessors
    <3>4. CalledReady'
      BY <2>4, <3>3
    <3> QED BY <1>2, <1>3, <2>1, <2>2, <2>3, <3>1, <3>2, <3>4
  <2> QED BY <2>5, <2>6
<1>9. ASSUME NEW w \in Workflow, Begins(w) PROVE StartInv'
  <2>1. /\ DOMAIN calls' = DOMAIN calls \cup {Root(w)}
        /\ \A q \in DOMAIN calls : q # Root(w) =>
             \/ calls'[q] = calls[q]
             \/ calls[q].phase = "begun" /\ calls'[q] = [phase |-> "sub", round |-> calls[q].round]
        /\ UNCHANGED <<nodes, outputs, starts>>
    BY <1>0, <1>9, BeginsFacts
  <2>2. NodeOf(Root(w)) \notin Chained
    BY RootFacts DEF Chained
  <2>3. CalledReady'
    BY <2>1, <2>2 DEF StartInv, CalledReady
  <2> QED BY <1>3, <2>1, <2>3 DEF StartInv
<1>10. ASSUME NEW w \in Workflow, Finalize(w) PROVE StartInv'
  <2>1. CalledReady'
    BY <1>10, FinalizeFacts DEF StartInv, CalledReady
  <2> QED BY <1>3, <1>10, <2>1 DEF Finalize, StartInv
<1>11. CASE UNCHANGED <<calls, nodes, outputs, starts>>
  BY <1>3, <1>11 DEF StartInv, CalledReady
<1>12. UNCHANGED vars => UNCHANGED <<calls, nodes, outputs, starts>>
  BY DEF vars
<1> QED BY <1>1, <1>5, <1>6, <1>7, <1>8, <1>9, <1>10, <1>11, <1>12 DEF TreeStep, CancelWorkflow

LEMMA StartInductive == Spec => []StartInv
<1>1. Init => StartInv
  BY DEF Init, StartInv, CalledReady, InputsReady, Chained
<1> QED BY <1>1, StartInvStep, TreeInductive, PTL DEF Spec

(* A node reached over edges starts when the outputs of all its            *)
(* predecessors are there, in any graph.                                   *)
THEOREM InputsAreReady == Spec => []InputsReady
<1>1. StartInv => InputsReady
  BY DEF StartInv
<1> QED BY <1>1, StartInductive, PTL

------------------------------------------------------------------------------
(* What runs *)

LEMMA ActiveIs == Active = {p \in DOMAIN calls : calls[p].phase \in ActivePhase}
BY DEF Active, ActivePhase

(* Who is active and entered *)
Entered == {q \in Active : calls[q].phase # "called"}

LEMMA RunningStep == TreeInv /\ RunningIsActive /\ [Next]_vars => RunningIsActive'
<1> SUFFICES ASSUME TreeInv, RunningIsActive, [Next]_vars,
                    NEW n \in Node, nodes'[n] = "running"
             PROVE  \E q \in Entered' : NodeOf(q) = n
  BY DEF RunningIsActive, Entered
<1>0. TypeOK /\ Rooted /\ Fresh /\ Asleep /\ nodes \in [Node -> NodeStatus]
  BY DEF TreeInv, TypeOK, NodeStatus
<1>1. TreeStep \/ UNCHANGED vars
  BY <1>0, StepCases
<1>2. /\ Entered = {p \in DOMAIN calls : calls[p].phase \in ActivePhase \ {"called"}}
      /\ Entered' = {p \in DOMAIN calls' : calls'[p].phase \in ActivePhase \ {"called"}}
  BY DEF Entered, Active, ActivePhase
<1>3. \A p \in DOMAIN calls : \A q \in Entered : q \notin Settled(p)
  BY DEF Entered, Active, Settled
<1>4. nodes[n] = "running" => \E q \in Entered : NodeOf(q) = n
  BY DEF RunningIsActive, Entered
<1> DEFINE Stays == \E q \in Entered' : NodeOf(q) = n
<1>5. ASSUME NEW p \in DOMAIN calls, NEW how \in {"ok", "error"}, Settles(p, how) PROVE Stays
  <2>1. Shrinks(p, how) /\ NodeOf(p) \in Node
    BY <1>0, <1>5, SettlesShrinks, DomainPaths
  <2>2. /\ nodes[n] = "running"
        /\ calls[p].phase \notin {"called", "next"} => n # NodeOf(p)
    BY <1>0, <1>5, <2>1 DEF Settles
  <2>3. PICK q \in Entered : NodeOf(q) = n
    BY <1>4, <2>2
  <2>4. q # p
    BY <1>2, <2>2, <2>3 DEF ActivePhase
  <2>5. q \in DOMAIN calls' /\ calls'[q] = calls[q]
    BY <1>2, <1>3, <2>1, <2>4 DEF Shrinks
  <2> QED BY <1>2, <2>3, <2>5
<1>6. ASSUME NEW p \in DOMAIN calls, NEW phase \in {"agent", "sleep"}, Waits(p, phase) PROVE Stays
  <2>1. Shrinks(p, phase) /\ p \in DOMAIN calls' /\ nodes' = nodes
    BY <1>0, <1>6, WaitsShrinks DEF Waits
  <2>2. PICK q \in Entered : NodeOf(q) = n
    BY <1>4, <2>1
  <2>3. q \in DOMAIN calls' /\ (q # p => calls'[q] = calls[q]) /\ (q = p => calls'[q].phase = phase)
    BY <1>2, <1>3, <2>1 DEF Shrinks
  <2> QED BY <1>2, <2>2, <2>3 DEF ActivePhase
<1>7. ASSUME NEW p \in DOMAIN calls, Enters(p) PROVE Stays
  <2>1. Shrinks(p, "begun") /\ p \in DOMAIN calls' /\ NodeOf(p) \in Node
    BY <1>0, <1>7, EntersShrinks, DomainPaths
  <2>2. p \in Entered'
    BY <1>2, <2>1 DEF Shrinks, ActivePhase
  <2>3. CASE n = NodeOf(p)
    BY <2>2, <2>3
  <2>4. CASE n # NodeOf(p)
    <3>1. nodes[n] = "running"
      BY <1>0, <1>7, <2>1, <2>4 DEF Enters
    <3>2. PICK q \in Entered : NodeOf(q) = n
      BY <1>4, <3>1
    <3>3. q # p /\ q \in DOMAIN calls' /\ calls'[q] = calls[q]
      BY <1>2, <1>3, <2>1, <2>4, <3>2 DEF Shrinks
    <3> QED BY <1>2, <3>2, <3>3
  <2> QED BY <2>3, <2>4
<1>8. ASSUME NEW p \in DOMAIN calls, NEW phase \in {"body", "next"}, NEW S \in SUBSET Node,
             NEW ns \in [Node -> NodeStatus], Calls(p, phase, S, ns)
      PROVE  Stays
  <2>1. Grows(p, phase, S) /\ nodes' = ns /\ NodeOf(p) \in Node
    BY <1>0, <1>8, CallsGrows, DomainPaths DEF Calls, Call
  <2>2. nodes[n] = "running" /\ (phase = "next" => n # NodeOf(p))
    BY <1>0, <1>8, <2>1 DEF Calls
  <2>3. PICK q \in Entered : NodeOf(q) = n
    BY <1>4, <2>2
  <2>4. q \in DOMAIN calls' /\ (q # p => calls'[q] = calls[q]) /\ (q = p => calls'[q].phase = phase)
    BY <1>2, <1>3, <2>1, <2>3 DEF Grows
  <2> QED BY <1>2, <2>2, <2>3, <2>4 DEF ActivePhase
<1>9. ASSUME NEW w \in Workflow, Begins(w) PROVE Stays
  <2>1. /\ DOMAIN calls' = DOMAIN calls \cup {Root(w)}
        /\ \A q \in DOMAIN calls : q # Root(w) =>
             \/ calls'[q] = calls[q]
             \/ calls[q].phase = "begun" /\ calls'[q] = [phase |-> "sub", round |-> calls[q].round]
        /\ nodes' = nodes /\ status[w] = "none"
    BY <1>0, <1>9, BeginsFacts
  <2>2. PICK q \in Entered : NodeOf(q) = n
    BY <1>4, <2>1
  <2>3. q \in DOMAIN calls /\ q # Root(w)
    BY <1>0, <1>2, <2>1, BeginsFresh
  <2> QED BY <1>2, <2>1, <2>2, <2>3 DEF ActivePhase
<1>10. ASSUME NEW w \in Workflow, Finalize(w) PROVE Stays
  <2>1. /\ calls[Root(w)].phase \in {"ok", "error"} /\ DOMAIN calls' = DOMAIN calls \ {Root(w)}
        /\ \A q \in DOMAIN calls' : calls'[q] = calls[q]
        /\ nodes' = nodes
    BY <1>10, FinalizeFacts
  <2>2. PICK q \in Entered : NodeOf(q) = n
    BY <1>4, <2>1
  <2>3. q # Root(w)
    BY <1>2, <2>1, <2>2 DEF ActivePhase
  <2> QED BY <1>2, <2>1, <2>2, <2>3
<1>11. CASE UNCHANGED <<nodes, calls>>
  BY <1>2, <1>4, <1>11
<1>12. ASSUME NEW w \in Workflow, CancelWorkflow(w) PROVE UNCHANGED <<nodes, calls>>
  BY <1>12 DEF CancelWorkflow
<1>13. UNCHANGED vars => UNCHANGED <<nodes, calls>>
  BY DEF vars
<1> QED BY <1>1, <1>5, <1>6, <1>7, <1>8, <1>9, <1>10, <1>11, <1>12, <1>13 DEF TreeStep

------------------------------------------------------------------------------
(* What is given up *)

(* The attempt a makes in that round is under way. *)
Stands(a, round) == a \in DOMAIN calls /\ calls[a].phase = "body" /\ calls[a].round = round

LEMMA GivenUpIs ==
  ASSUME NEW p
  PROVE  GivenUp(p) <=> \E i \in 1 .. Len(p) - 1 :
           /\ Kind[NodeOf(Caller(p, i))] = "retry"
           /\ p[i + 1][1] \in Inner[NodeOf(Caller(p, i))]
           /\ ~Stands(Caller(p, i), p[i + 1][2])
BY DEF GivenUp, Stands

(* What is called anew calls nothing that there is. *)
LEMMA NewIsNoCaller ==
  ASSUME TypeOK, Fresh, NEW p \in DOMAIN calls, NEW S \in SUBSET Node,
         NEW s \in DOMAIN calls, NEW i \in 1 .. Len(s)
  PROVE  Caller(s, i) \notin New(p, S)
<1> SUFFICES ASSUME Caller(s, i) \in New(p, S) PROVE FALSE
  OBVIOUS
<1> DEFINE a == Caller(s, i)
<1>1. /\ s \in Path /\ Len(s) \in Nat /\ i \in Nat /\ Len(p) \in Nat /\ Len(p) >= 1
      /\ calls[p].round \in Nat
  BY DomainPaths
<1>2. Len(a) = i /\ \A j \in 1 .. i : a[j] = s[j] /\ Caller(a, j) = Caller(s, j)
  BY <1>1, CallerFacts
<1>3. /\ Len(a) = Len(p) + 1 /\ a[Len(a)] = <<NodeOf(a), calls[p].round + 1>>
      /\ Caller(a, Len(p)) = p
  BY NewFacts
<1> HIDE DEF a
<1>4. i = Len(p) + 1 /\ Len(p) \in 1 .. i /\ Len(p) \in 1 .. Len(s) - 1
  BY <1>1, <1>2, <1>3
<1>5. Caller(s, Len(p)) = p /\ s[Len(p) + 1][2] = calls[p].round + 1
  BY <1>1, <1>2, <1>3, <1>4
<1>6. s[Len(p) + 1][2] <= calls[p].round
  BY <1>4, <1>5 DEF Fresh
<1> QED BY <1>1, <1>5, <1>6

(* The root of a workflow that begins calls nothing that there is. *)
LEMMA RootIsNoCaller ==
  ASSUME TypeOK, Rooted, NEW w \in Workflow, status[w] = "none",
         NEW s \in DOMAIN calls, NEW i \in 1 .. Len(s)
  PROVE  Caller(s, i) # Root(w)
<1>1. s \in Path /\ Len(s) \in Nat
  BY DomainPaths
<1>2. Len(Caller(s, i)) = i
  BY <1>1, CallerFacts
<1>3. Caller(s, 1) # Root(w) /\ Len(Root(w)) = 1
  BY BeginsFresh, RootFacts
<1> QED BY <1>2, <1>3

(* An attempt that is not under way never is again. *)
LEMMA StandsStays ==
  ASSUME TreeInv, TreeStep \/ UNCHANGED vars, NEW s \in DOMAIN calls, NEW i \in 1 .. Len(s) - 1,
         Stands(Caller(s, i), s[i + 1][2])'
  PROVE  Stands(Caller(s, i), s[i + 1][2])
<1> DEFINE a == Caller(s, i)
           r == s[i + 1][2]
<1>0. TypeOK /\ Rooted /\ Fresh
  BY DEF TreeInv
<1>1. a \in DOMAIN calls' /\ calls'[a].phase = "body" /\ calls'[a].round = r
  BY DEF Stands
<1>2. i \in 1 .. Len(s) /\ i + 1 \in 1 .. Len(s) /\ s \in Path /\ r \in Nat
  <2>1. s \in Path /\ Len(s) \in Nat
    BY <1>0, DomainPaths
  <2>2. i \in 1 .. Len(s) /\ i + 1 \in 1 .. Len(s)
    BY <2>1
  <2> QED BY <2>1, <2>2, PathFacts
<1>3. a \in DOMAIN calls => r <= calls[a].round
  BY <1>0 DEF Fresh
<1> HIDE DEF a, r
<1>4. ASSUME NEW p \in DOMAIN calls, NEW phase, Shrinks(p, phase), phase # "body"
      PROVE  a \in DOMAIN calls /\ calls[a].phase = "body" /\ calls[a].round = r
  BY <1>1, <1>4 DEF Shrinks
<1>5. ASSUME NEW p \in DOMAIN calls, NEW phase, NEW S \in SUBSET Node, Grows(p, phase, S)
      PROVE  a \in DOMAIN calls /\ calls[a].phase = "body" /\ calls[a].round = r
  <2>1. a \notin New(p, S)
    BY <1>0, <1>2, NewIsNoCaller DEF a
  <2>2. a \in DOMAIN calls /\ calls[p].round \in Nat
    BY <1>0, <1>1, <1>5, <2>1, DomainPaths DEF Grows
  <2>3. a # p
    BY <1>1, <1>2, <1>3, <1>5, <2>2 DEF Grows
  <2> QED BY <1>1, <1>5, <2>1, <2>2, <2>3 DEF Grows
<1>6. ASSUME NEW w \in Workflow, Begins(w)
      PROVE  a \in DOMAIN calls /\ calls[a].phase = "body" /\ calls[a].round = r
  <2>1. /\ DOMAIN calls' = DOMAIN calls \cup {Root(w)} /\ status[w] = "none"
        /\ \A q \in DOMAIN calls : q # Root(w) =>
             \/ calls'[q] = calls[q]
             \/ calls[q].phase = "begun" /\ calls'[q] = [phase |-> "sub", round |-> calls[q].round]
    BY <1>0, <1>6, BeginsFacts
  <2>2. a # Root(w)
    BY <1>0, <1>2, <2>1, RootIsNoCaller DEF a
  <2> QED BY <1>1, <2>1, <2>2
<1>7. ASSUME NEW w \in Workflow, Finalize(w)
      PROVE  a \in DOMAIN calls /\ calls[a].phase = "body" /\ calls[a].round = r
  BY <1>1, <1>7, FinalizeFacts
<1>8. ASSUME NEW w \in Workflow, CancelWorkflow(w)
      PROVE  a \in DOMAIN calls /\ calls[a].phase = "body" /\ calls[a].round = r
  BY <1>1, <1>8 DEF CancelWorkflow
<1>9. ASSUME NEW p \in DOMAIN calls, NEW phase \in {"body", "next"}, NEW S \in SUBSET Node,
             NEW ns \in [Node -> NodeStatus], Calls(p, phase, S, ns)
      PROVE  Grows(p, phase, S)
  BY <1>0, <1>9, CallsGrows DEF Calls
<1>10. ASSUME NEW p \in DOMAIN calls, NEW how \in {"ok", "error"}, Settles(p, how)
       PROVE  Shrinks(p, how)
  BY <1>0, <1>10, SettlesShrinks
<1>11. ASSUME NEW p \in DOMAIN calls, NEW phase \in {"agent", "sleep"}, Waits(p, phase)
       PROVE  Shrinks(p, phase)
  BY <1>0, <1>11, WaitsShrinks
<1>12. ASSUME NEW p \in DOMAIN calls, Enters(p)
       PROVE  Shrinks(p, "begun")
  BY <1>0, <1>12, EntersShrinks
<1>13. UNCHANGED vars => a \in DOMAIN calls /\ calls[a].phase = "body" /\ calls[a].round = r
  BY <1>1 DEF vars
<1>14. a \in DOMAIN calls /\ calls[a].phase = "body" /\ calls[a].round = r
  BY <1>4, <1>5, <1>6, <1>7, <1>8, <1>9, <1>10, <1>11, <1>12, <1>13 DEF TreeStep
<1> QED BY <1>14 DEF Stands, a, r

LEMMA StaysGivenUp ==
  ASSUME TreeInv, TreeStep \/ UNCHANGED vars, NEW s \in DOMAIN calls, GivenUp(s)
  PROVE  GivenUp(s)'
<1>1. PICK i \in 1 .. Len(s) - 1 :
        /\ Kind[NodeOf(Caller(s, i))] = "retry"
        /\ s[i + 1][1] \in Inner[NodeOf(Caller(s, i))]
        /\ ~Stands(Caller(s, i), s[i + 1][2])
  BY GivenUpIs
<1>2. ~Stands(Caller(s, i), s[i + 1][2])'
  BY <1>1, StandsStays
<1> QED BY <1>1, <1>2 DEF GivenUp, Stands

(* What a given-up activation calls is given up with it. *)
LEMMA NewGivenUp ==
  ASSUME TreeInv, TreeStep, NEW p \in DOMAIN calls, NEW S \in SUBSET Node, NEW q \in New(p, S),
         GivenUp(p)
  PROVE  GivenUp(q)'
<1>0. TypeOK
  BY DEF TreeInv
<1>1. PICK i \in 1 .. Len(p) - 1 :
        /\ Kind[NodeOf(Caller(p, i))] = "retry"
        /\ p[i + 1][1] \in Inner[NodeOf(Caller(p, i))]
        /\ ~Stands(Caller(p, i), p[i + 1][2])
  BY GivenUpIs
<1>2. ~Stands(Caller(p, i), p[i + 1][2])'
  BY <1>1, StandsStays
<1>3. /\ Len(p) \in Nat /\ Len(q) = Len(p) + 1
      /\ \A j \in 1 .. Len(p) : q[j] = p[j] /\ Caller(q, j) = Caller(p, j)
  BY <1>0, NewFacts, DomainPaths
<1>4. i \in 1 .. Len(q) - 1 /\ i \in 1 .. Len(p) /\ i + 1 \in 1 .. Len(p)
  BY <1>3
<1>5. Caller(q, i) = Caller(p, i) /\ q[i + 1] = p[i + 1]
  BY <1>3, <1>4
<1> QED BY <1>1, <1>2, <1>4, <1>5 DEF GivenUp, Stands

------------------------------------------------------------------------------
(* Who is still awaited *)

(* The i-th call of s still awaits the next one, or has thrown. *)
LinkedAt(s, i) ==
  LET a == Caller(s, i)
      c == Caller(s, i + 1)
  IN  a \in DOMAIN calls =>
        /\ calls[a].round = s[i + 1][2]
        /\ \/ calls[a].phase = "error"
           \/ calls[a].phase \in {"body", "next"} /\ c \in DOMAIN calls /\ calls[c].phase # "ok"

(* No call returns while something under it goes on, but what a retry gave *)
(* up.                                                                     *)
Linked == \A s \in Active : ~GivenUp(s) => \A i \in 1 .. Len(s) - 1 : LinkedAt(s, i)

LEMMA CallerOnPath ==
  ASSUME TypeOK, NEW s \in DOMAIN calls, NEW i \in 1 .. Len(s) - 1
  PROVE  /\ s \in Path /\ Len(s) \in Nat /\ i \in 1 .. Len(s) /\ i + 1 \in 1 .. Len(s) /\ i \in Nat
         /\ Caller(s, i) \in Path /\ Caller(s, i + 1) \in Path
         /\ Len(Caller(s, i)) = i /\ Len(Caller(s, i + 1)) = i + 1
         /\ Caller(Caller(s, i + 1), i) = Caller(s, i) /\ Caller(s, i + 1)[i + 1] = s[i + 1]
         /\ Front(Caller(s, i + 1)) = Caller(s, i) /\ Last(Caller(s, i + 1)) = s[i + 1]
         /\ NodeOf(Caller(s, i + 1)) = s[i + 1][1] /\ NodeOf(Caller(s, i)) = s[i][1]
<1>1. s \in Path /\ Len(s) \in Nat
  BY DomainPaths
<1>2. i \in 1 .. Len(s) /\ i + 1 \in 1 .. Len(s) /\ i \in 1 .. i + 1 /\ i + 1 \in 1 .. i + 1 /\ i \in Nat
  BY <1>1
<1>3. /\ Caller(s, i) \in Path /\ Len(Caller(s, i)) = i /\ NodeOf(Caller(s, i)) = s[i][1]
      /\ Caller(s, i + 1) \in Path /\ Len(Caller(s, i + 1)) = i + 1
      /\ NodeOf(Caller(s, i + 1)) = s[i + 1][1]
      /\ Caller(Caller(s, i + 1), i) = Caller(s, i) /\ Caller(s, i + 1)[i + 1] = s[i + 1]
  BY <1>1, <1>2, CallerFacts
<1>4. Front(Caller(s, i + 1)) = Caller(Caller(s, i + 1), i)
  BY <1>2, <1>3 DEF Front, Caller
<1> QED BY <1>1, <1>2, <1>3, <1>4 DEF Last

(* A call that others are still under waits for one of them. *)
LEMMA LinkedAwaits ==
  ASSUME TreeInv, Linked, NEW p \in DOMAIN calls, calls[p].phase \in ActivePhase \cup {"next"},
         NEW s \in Active, ~GivenUp(s), NEW i \in 1 .. Len(s) - 1, Caller(s, i) = p
  PROVE  /\ calls[p].phase \in {"body", "next"} /\ calls[p].round = s[i + 1][2]
         /\ Caller(s, i + 1) \in CalledBy(p) /\ calls[Caller(s, i + 1)].phase # "ok"
         /\ ~AllReturned(p)
<1> DEFINE c == Caller(s, i + 1)
<1>0. TypeOK /\ s \in DOMAIN calls
  BY DEF TreeInv, Active
<1>1. LinkedAt(s, i)
  BY DEF Linked
<1>2. /\ calls[p].round = s[i + 1][2] /\ calls[p].phase \in {"body", "next"}
      /\ c \in DOMAIN calls /\ calls[c].phase # "ok"
  BY <1>1 DEF LinkedAt, ActivePhase
<1>3. Len(c) = Len(p) + 1 /\ Front(c) = p /\ Last(c) = s[i + 1]
  BY <1>0, CallerOnPath
<1>4. c \in CalledBy(p)
  BY <1>2, <1>3 DEF CalledBy
<1> QED BY <1>2, <1>4 DEF AllReturned

LEMMA ShrinksLinked ==
  ASSUME TreeInv, Linked, TreeStep, NEW p \in DOMAIN calls, NEW phase, Shrinks(p, phase),
         calls[p].phase \in ActivePhase \cup {"next"},
         \/ phase = "ok" /\ (calls[p].phase \in {"body", "next"} => AllReturned(p))
         \/ phase = "error"
         \/ phase = "begun" /\ calls[p].phase = "called"
         \/ phase = "agent" /\ calls[p].phase = "begun"
         \/ phase = "sleep" /\ calls[p].phase = "body" /\ Kind[NodeOf(p)] = "retry"
  PROVE  Linked'
<1>0. TypeOK /\ CalledFor
  BY DEF TreeInv
<1>1. /\ DOMAIN calls' \subseteq DOMAIN calls
      /\ \A q \in DOMAIN calls' : /\ calls'[q].round = calls[q].round
                                  /\ q # p => calls'[q] = calls[q]
                                  /\ q = p => calls'[q].phase = phase
      /\ \A q \in DOMAIN calls \ DOMAIN calls' : q \in Settled(p) \/ (q = p /\ ~Awaited(p))
  BY DEF Shrinks
<1> SUFFICES ASSUME NEW s \in Active', ~GivenUp(s)', NEW i \in 1 .. Len(s) - 1, Caller(s, i) \in DOMAIN calls'
             PROVE  /\ calls'[Caller(s, i)].round = s[i + 1][2]
                    /\ \/ calls'[Caller(s, i)].phase = "error"
                       \/ /\ calls'[Caller(s, i)].phase \in {"body", "next"}
                          /\ Caller(s, i + 1) \in DOMAIN calls' /\ calls'[Caller(s, i + 1)].phase # "ok"
  BY DEF Linked, LinkedAt
<1> DEFINE a == Caller(s, i)
           c == Caller(s, i + 1)
<1>2. s \in Active /\ s \in DOMAIN calls /\ s \in DOMAIN calls' /\ calls'[s].phase \in ActivePhase
  BY <1>1 DEF Active, ActivePhase
<1>3. ~GivenUp(s)
  BY <1>2, StaysGivenUp
<1>4. /\ a \in DOMAIN calls
      /\ calls[a].round = s[i + 1][2]
      /\ \/ calls[a].phase = "error"
         \/ calls[a].phase \in {"body", "next"} /\ c \in DOMAIN calls /\ calls[c].phase # "ok"
  BY <1>1, <1>2, <1>3 DEF Linked, LinkedAt
<1>5. /\ Len(a) = i /\ Len(c) = i + 1 /\ Front(c) = a /\ Last(c) = s[i + 1] /\ i + 1 \in 1 .. Len(s)
      /\ s \in Path /\ Len(s) \in Nat /\ i \in Nat /\ i >= 1 /\ NodeOf(a) = s[i][1] /\ NodeOf(c) = s[i + 1][1]
  BY <1>0, <1>2, CallerOnPath
<1>6. CASE a = p
  <2>1. /\ calls[p].phase \in {"body", "next"} /\ c \in CalledBy(p) /\ ~AllReturned(p)
    BY <1>2, <1>3, <1>6, LinkedAwaits
  <2>2. phase # "sleep"
    <3> SUFFICES ASSUME calls[p].phase = "body", Kind[NodeOf(p)] = "retry", phase = "sleep" PROVE FALSE
      OBVIOUS
    <3>1. s[i + 1][1] \in Inner[NodeOf(p)]
      BY <1>0, <1>5, <2>1 DEF CalledFor
    <3>2. ~Stands(a, s[i + 1][2])'
      BY <1>1, <1>4, <1>6 DEF Stands
    <3>3. GivenUp(s)'
      BY <1>6, <3>1, <3>2 DEF GivenUp, Stands
    <3> QED BY <3>3
  <2> QED BY <1>1, <1>4, <1>6, <2>1, <2>2
<1>7. CASE a # p
  <2>1. calls'[a] = calls[a]
    BY <1>1, <1>7
  <2>2. CASE calls[a].phase = "error"
    BY <1>4, <2>1, <2>2
  <2>3. CASE calls[a].phase \in {"body", "next"} /\ c \in DOMAIN calls /\ calls[c].phase # "ok"
    <3>1. c \notin Settled(p)
      BY <1>5, <1>7 DEF Settled, CalledBy
    <3>2. c = p => Awaited(p)
      BY <1>4, <1>5, <2>3 DEF Awaited
    <3>3. c \in DOMAIN calls'
      BY <1>1, <2>3, <3>1, <3>2
    <3>4. ASSUME c = p, phase = "ok" PROVE FALSE
      <4>1. s # p
        BY <1>1, <1>2, <3>4 DEF ActivePhase
      <4>2. Len(s) # i + 1
        <5>1. ASSUME Len(s) = i + 1 PROVE s = c
          <6>1. /\ c \in Path /\ \A j \in 1 .. i + 1 : c[j] = s[j]
            BY <1>5, CallerFacts
          <6> QED BY <1>5, <3>4, <5>1, <6>1, PathEqual
        <5> QED BY <3>4, <4>1, <5>1
      <4>3. i + 1 \in 1 .. Len(s) - 1
        BY <1>5, <4>2
      <4>4. calls[p].phase \in {"body", "next"} /\ ~AllReturned(p)
        BY <1>2, <1>3, <3>4, <4>3, LinkedAwaits
      <4> QED BY <3>4, <4>4
    <3>5. calls'[c].phase # "ok"
      BY <1>1, <2>3, <3>3, <3>4
    <3> QED BY <1>4, <2>1, <2>3, <3>3, <3>5
  <2> QED BY <1>4, <2>2, <2>3
<1> QED BY <1>6, <1>7

LEMMA CallerSelf ==
  ASSUME NEW p \in Path
  PROVE  Caller(p, Len(p)) = p
<1>1. Len(p) \in Nat /\ Len(p) >= 1
  BY PathFacts
<1>2. /\ Caller(p, Len(p)) \in Path /\ Len(Caller(p, Len(p))) = Len(p)
      /\ \A j \in 1 .. Len(p) : Caller(p, Len(p))[j] = p[j]
  BY <1>1, CallerFacts
<1> QED BY <1>2, PathEqual

LEMMA GrowsLinked ==
  ASSUME TreeInv, Linked, TreeStep, NEW p \in DOMAIN calls, NEW phase \in {"body", "next"},
         NEW S \in SUBSET Node, Grows(p, phase, S), calls[p].phase \in ActivePhase,
         calls[p].phase = "body" => AllReturned(p) \/ (Kind[NodeOf(p)] = "retry" /\ phase = "body")
  PROVE  Linked'
<1>0. TypeOK /\ CalledFor /\ Fresh
  BY DEF TreeInv
<1>1. /\ DOMAIN calls' = (DOMAIN calls \ Settled(p)) \cup New(p, S)
      /\ New(p, S) \cap DOMAIN calls = {} /\ p \in DOMAIN calls'
      /\ calls'[p].phase = phase /\ calls'[p].round = calls[p].round + 1
      /\ \A q \in New(p, S) : calls'[q].phase = "called"
      /\ \A q \in DOMAIN calls \ Settled(p) : q # p => calls'[q] = calls[q]
  BY DEF Grows
<1>2. p \in Active /\ calls[p].round \in Nat /\ p \in Path /\ Len(p) \in Nat /\ Len(p) >= 1
  BY <1>0, ActiveIs, DomainPaths
<1> SUFFICES ASSUME NEW s \in Active', ~GivenUp(s)', NEW i \in 1 .. Len(s) - 1, Caller(s, i) \in DOMAIN calls'
             PROVE  /\ calls'[Caller(s, i)].round = s[i + 1][2]
                    /\ \/ calls'[Caller(s, i)].phase = "error"
                       \/ /\ calls'[Caller(s, i)].phase \in {"body", "next"}
                          /\ Caller(s, i + 1) \in DOMAIN calls' /\ calls'[Caller(s, i + 1)].phase # "ok"
  BY DEF Linked, LinkedAt
<1>3. s \in DOMAIN calls' /\ calls'[s].phase \in ActivePhase
  BY DEF Active, ActivePhase
<1>4. ASSUME NEW t \in Active, ~GivenUp(t), NEW j \in 1 .. Len(t) - 1,
             Caller(t, j) \in DOMAIN calls', Caller(t, j) # p
      PROVE  /\ calls'[Caller(t, j)].round = t[j + 1][2]
             /\ \/ calls'[Caller(t, j)].phase = "error"
                \/ /\ calls'[Caller(t, j)].phase \in {"body", "next"}
                   /\ Caller(t, j + 1) \in DOMAIN calls' /\ calls'[Caller(t, j + 1)].phase # "ok"
  <2> DEFINE a == Caller(t, j)
             c == Caller(t, j + 1)
  <2>1. t \in DOMAIN calls
    BY DEF Active
  <2>2. j \in 1 .. Len(t) /\ Front(c) = a
    BY <1>0, <2>1, CallerOnPath
  <2>3. a \notin New(p, S)
    BY <1>0, <2>1, <2>2, NewIsNoCaller
  <2>4. a \in DOMAIN calls /\ calls'[a] = calls[a]
    BY <1>1, <1>4, <2>3
  <2>5. /\ calls[a].round = t[j + 1][2]
        /\ \/ calls[a].phase = "error"
           \/ calls[a].phase \in {"body", "next"} /\ c \in DOMAIN calls /\ calls[c].phase # "ok"
    BY <1>4, <2>4 DEF Linked, LinkedAt
  <2>6. c \notin Settled(p)
    BY <1>4, <2>2 DEF Settled, CalledBy
  <2> HIDE DEF a, c
  <2>7. c \in DOMAIN calls => c \in DOMAIN calls' /\ (c = p \/ calls'[c] = calls[c])
    BY <1>1, <2>6
  <2> QED BY <1>1, <2>4, <2>5, <2>7 DEF a, c
<1>5. CASE s \in New(p, S)
  <2>1. ~GivenUp(p)
    BY <1>5, NewGivenUp
  <2>2. /\ s \in Path /\ Len(s) = Len(p) + 1 /\ s[Len(s)][2] = calls[p].round + 1 /\ Caller(s, Len(p)) = p
        /\ \A j \in 1 .. Len(p) : s[j] = p[j] /\ Caller(s, j) = Caller(p, j)
    BY <1>0, <1>5, NewFacts
  <2>3. CASE i = Len(p)
    <3>1. Caller(s, i) = p /\ Caller(s, i + 1) = s /\ s[i + 1][2] = calls[p].round + 1
      BY <2>2, <2>3, CallerSelf
    <3> QED BY <1>1, <1>3, <3>1 DEF ActivePhase
  <2>4. CASE i # Len(p)
    <3>1. i \in 1 .. Len(p) - 1 /\ i \in 1 .. Len(p) /\ i + 1 \in 1 .. Len(p)
      BY <1>2, <2>2, <2>4
    <3>2. Caller(s, i) = Caller(p, i) /\ Caller(s, i + 1) = Caller(p, i + 1) /\ s[i + 1] = p[i + 1]
      BY <2>2, <3>1
    <3>3. Caller(p, i) # p
      BY <1>2, <2>4, <3>1, CallerFacts
    <3> QED BY <1>2, <1>4, <2>1, <3>1, <3>2, <3>3
  <2> QED BY <2>3, <2>4
<1>6. CASE s \notin New(p, S)
  <2>1. s \in DOMAIN calls /\ s \in Active
    BY <1>1, <1>2, <1>3, <1>6, ActiveIs
  <2>2. ~GivenUp(s)
    BY <2>1, StaysGivenUp
  <2>3. ASSUME Caller(s, i) = p PROVE FALSE
    <3>1. /\ calls[p].phase \in {"body", "next"} /\ calls[p].round = s[i + 1][2]
          /\ Caller(s, i + 1) \in CalledBy(p) /\ ~AllReturned(p)
      BY <2>1, <2>2, <2>3, LinkedAwaits
    <3>2. calls[p].phase = "body" /\ Kind[NodeOf(p)] = "retry"
      BY <3>1 DEF ActivePhase
    <3>3. s[i + 1][1] \in Inner[NodeOf(p)]
      <4>1. NodeOf(Caller(s, i + 1)) = s[i + 1][1]
        BY <1>0, <2>1, CallerOnPath
      <4> QED BY <1>0, <3>1, <3>2, <4>1 DEF CalledFor
    <3>4. calls'[p].round # s[i + 1][2]
      BY <1>1, <1>2, <3>1
    <3>5. GivenUp(s)'
      BY <2>3, <3>2, <3>3, <3>4 DEF GivenUp
    <3> QED BY <3>5
  <2> QED BY <1>4, <2>1, <2>2, <2>3
<1> QED BY <1>5, <1>6

LEMMA BeginsLinked ==
  ASSUME TreeInv, Linked, TreeStep, NEW w \in Workflow, Begins(w)
  PROVE  Linked'
<1>0. TypeOK /\ Rooted
  BY DEF TreeInv
<1>1. /\ DOMAIN calls' = DOMAIN calls \cup {Root(w)} /\ status[w] = "none"
      /\ \A q \in DOMAIN calls : q # Root(w) =>
           \/ calls'[q] = calls[q]
           \/ calls[q].phase = "begun" /\ calls'[q] = [phase |-> "sub", round |-> calls[q].round]
  BY <1>0, BeginsFacts
<1> SUFFICES ASSUME NEW s \in Active', ~GivenUp(s)', NEW i \in 1 .. Len(s) - 1, Caller(s, i) \in DOMAIN calls'
             PROVE  /\ calls'[Caller(s, i)].round = s[i + 1][2]
                    /\ \/ calls'[Caller(s, i)].phase = "error"
                       \/ /\ calls'[Caller(s, i)].phase \in {"body", "next"}
                          /\ Caller(s, i + 1) \in DOMAIN calls' /\ calls'[Caller(s, i + 1)].phase # "ok"
  BY DEF Linked, LinkedAt
<1> DEFINE a == Caller(s, i)
           c == Caller(s, i + 1)
<1>2. s # Root(w)
  <2>1. ASSUME s = Root(w) PROVE FALSE
    <3>1. Len(s) = 1
      BY <2>1, RootFacts
    <3> QED BY <3>1
  <2> QED BY <2>1
<1>3. s \in DOMAIN calls /\ s \in Active
  BY <1>1, <1>2 DEF Active
<1>4. ~GivenUp(s)
  BY <1>3, StaysGivenUp
<1>5. a # Root(w) /\ c # Root(w)
  <2>1. i \in 1 .. Len(s) /\ i + 1 \in 1 .. Len(s)
    BY <1>0, <1>3, CallerOnPath
  <2> QED BY <1>0, <1>1, <1>3, <2>1, RootIsNoCaller
<1>6. /\ a \in DOMAIN calls /\ calls[a].round = s[i + 1][2]
      /\ \/ calls[a].phase = "error"
         \/ calls[a].phase \in {"body", "next"} /\ c \in DOMAIN calls /\ calls[c].phase # "ok"
  BY <1>1, <1>3, <1>4, <1>5 DEF Linked, LinkedAt
<1> HIDE DEF a, c
<1>7. calls'[a] = calls[a]
  BY <1>1, <1>5, <1>6
<1>8. c \in DOMAIN calls => c \in DOMAIN calls' /\ (calls'[c] = calls[c] \/ calls'[c].phase = "sub")
  BY <1>1, <1>5
<1> QED BY <1>6, <1>7, <1>8 DEF a, c

LEMMA FinalizeLinked ==
  ASSUME TreeInv, Linked, TreeStep, NEW w \in Workflow, Finalize(w)
  PROVE  Linked'
<1>0. TypeOK
  BY DEF TreeInv
<1>1. DOMAIN calls' = DOMAIN calls \ {Root(w)} /\ \A q \in DOMAIN calls' : calls'[q] = calls[q]
  BY FinalizeFacts
<1> SUFFICES ASSUME NEW s \in Active', ~GivenUp(s)', NEW i \in 1 .. Len(s) - 1, Caller(s, i) \in DOMAIN calls'
             PROVE  /\ calls'[Caller(s, i)].round = s[i + 1][2]
                    /\ \/ calls'[Caller(s, i)].phase = "error"
                       \/ /\ calls'[Caller(s, i)].phase \in {"body", "next"}
                          /\ Caller(s, i + 1) \in DOMAIN calls' /\ calls'[Caller(s, i + 1)].phase # "ok"
  BY DEF Linked, LinkedAt
<1>2. s \in DOMAIN calls /\ s \in Active
  BY <1>1 DEF Active
<1>3. ~GivenUp(s)
  BY <1>2, StaysGivenUp
<1>4. Caller(s, i + 1) # Root(w)
  <2>1. Len(Caller(s, i + 1)) = i + 1 /\ i \in Nat /\ Len(s) \in Nat
    BY <1>0, <1>2, CallerOnPath
  <2>2. Len(Root(w)) = 1
    BY RootFacts
  <2>3. ASSUME Caller(s, i + 1) = Root(w) PROVE FALSE
    <3>1. i + 1 = 1
      BY <2>1, <2>2, <2>3
    <3> QED BY <2>1, <3>1
  <2> QED BY <2>3
<1> QED BY <1>1, <1>2, <1>3, <1>4 DEF Linked, LinkedAt

LEMMA LinkedStep == TreeInv /\ Linked /\ [Next]_vars => Linked'
<1> SUFFICES ASSUME TreeInv, Linked, [Next]_vars PROVE Linked'
  OBVIOUS
<1>0. TypeOK /\ Fresh /\ Asleep
  BY DEF TreeInv
<1>1. CASE UNCHANGED calls
  BY <1>1 DEF Linked, LinkedAt, Active, GivenUp
<1>2. CASE TreeStep
  <2>1. ASSUME NEW p \in DOMAIN calls, NEW how \in {"ok", "error"}, Settles(p, how) PROVE Linked'
    <3>1. Shrinks(p, how)
      BY <1>0, <2>1, SettlesShrinks
    <3> QED BY <1>2, <2>1, <3>1, ShrinksLinked DEF Settles
  <2>2. ASSUME NEW p \in DOMAIN calls, NEW phase \in {"agent", "sleep"}, Waits(p, phase) PROVE Linked'
    <3>1. Shrinks(p, phase) /\ calls[p].phase \in ActivePhase
      BY <1>0, <2>2, WaitsShrinks DEF Waits, ActivePhase
    <3> QED BY <1>2, <2>2, <3>1, ShrinksLinked DEF Waits
  <2>6. ASSUME NEW p \in DOMAIN calls, Enters(p) PROVE Linked'
    <3>1. Shrinks(p, "begun") /\ calls[p].phase = "called" /\ calls[p].phase \in ActivePhase
      BY <1>0, <2>6, EntersShrinks DEF Enters, ActivePhase
    <3> QED BY <1>2, <3>1, ShrinksLinked
  <2>3. ASSUME NEW p \in DOMAIN calls, NEW phase \in {"body", "next"}, NEW S \in SUBSET Node,
               NEW ns \in [Node -> NodeStatus], Calls(p, phase, S, ns)
        PROVE  Linked'
    <3>1. Grows(p, phase, S)
      BY <1>0, <2>3, CallsGrows DEF Calls
    <3>2. /\ calls[p].phase \in ActivePhase
          /\ calls[p].phase = "body" => AllReturned(p) \/ (Kind[NodeOf(p)] = "retry" /\ phase = "body")
      BY <2>3 DEF Calls
    <3> QED BY <1>2, <3>1, <3>2, GrowsLinked
  <2>4. ASSUME NEW w \in Workflow, Begins(w) \/ Finalize(w) PROVE Linked'
    BY <1>2, <2>4, BeginsLinked, FinalizeLinked
  <2>5. ASSUME NEW w \in Workflow, CancelWorkflow(w) PROVE Linked'
    BY <1>1, <2>5 DEF CancelWorkflow
  <2> QED BY <1>2, <2>1, <2>2, <2>3, <2>4, <2>5, <2>6 DEF TreeStep
<1> QED BY <1>0, <1>1, <1>2, StepCases DEF vars

------------------------------------------------------------------------------
(* What a step lets go on *)

(* Whoever is active after a step was so before, was called by an          *)
(* activation that was, or is a root; and what was not given up was not    *)
(* given up before.                                                        *)
LEMMA ActiveBefore ==
  ASSUME TreeInv, TreeStep, NEW s \in Active'
  PROVE  \/ s \in Active
         \/ /\ s \notin DOMAIN calls
            /\ \E p \in Active, S \in SUBSET Node, phase \in {"body", "next"}, ns \in [Node -> NodeStatus] :
                 s \in New(p, S) /\ Calls(p, phase, S, ns) /\ Grows(p, phase, S)
         \/ \E w \in Workflow : Begins(w) /\ s = Root(w)
<1>0. TypeOK /\ Fresh
  BY DEF TreeInv
<1>1. s \in DOMAIN calls' /\ calls'[s].phase \in ActivePhase
  BY DEF Active, ActivePhase
<1>2. ASSUME NEW p \in DOMAIN calls, NEW how \in {"ok", "error"}, Settles(p, how) PROVE s \in Active
  <2>1. Shrinks(p, how)
    BY <1>0, <1>2, SettlesShrinks
  <2> QED BY <1>1, <2>1, ActiveIs DEF Shrinks, ActivePhase
<1>3. ASSUME NEW p \in DOMAIN calls, NEW phase \in {"agent", "sleep"}, Waits(p, phase) PROVE s \in Active
  <2>1. Shrinks(p, phase) /\ calls[p].phase \in ActivePhase
    BY <1>0, <1>3, WaitsShrinks DEF Waits, ActivePhase
  <2> QED BY <1>1, <2>1, ActiveIs DEF Shrinks
<1>4. ASSUME NEW p \in DOMAIN calls, NEW phase \in {"body", "next"}, NEW S \in SUBSET Node,
             NEW ns \in [Node -> NodeStatus], Calls(p, phase, S, ns)
      PROVE  \/ s \in Active
             \/ /\ s \notin DOMAIN calls /\ p \in Active
                /\ s \in New(p, S) /\ Calls(p, phase, S, ns) /\ Grows(p, phase, S)
  <2>1. Grows(p, phase, S) /\ p \in Active
    BY <1>0, <1>4, CallsGrows, ActiveIs DEF Calls
  <2>2. CASE s \in New(p, S)
    BY <1>1, <1>4, <2>1, <2>2 DEF Grows, ActivePhase
  <2>3. CASE s \notin New(p, S)
    BY <1>1, <2>1, <2>3, ActiveIs DEF Grows
  <2> QED BY <2>2, <2>3
<1>5. ASSUME NEW w \in Workflow, Begins(w) PROVE s \in Active \/ s = Root(w)
  <2>1. /\ DOMAIN calls' = DOMAIN calls \cup {Root(w)}
        /\ \A q \in DOMAIN calls : q # Root(w) =>
             \/ calls'[q] = calls[q]
             \/ calls[q].phase = "begun" /\ calls'[q] = [phase |-> "sub", round |-> calls[q].round]
    BY <1>0, <1>5, BeginsFacts
  <2> QED BY <1>1, <2>1, ActiveIs DEF ActivePhase
<1>6. ASSUME NEW w \in Workflow, Finalize(w) PROVE s \in Active
  BY <1>1, <1>6, FinalizeFacts, ActiveIs
<1>7. ASSUME NEW w \in Workflow, CancelWorkflow(w) PROVE s \in Active
  BY <1>1, <1>7, ActiveIs DEF CancelWorkflow
<1>8. ASSUME NEW p \in DOMAIN calls, Enters(p) PROVE s \in Active
  <2>1. Shrinks(p, "begun") /\ calls[p].phase \in ActivePhase
    BY <1>0, <1>8, EntersShrinks DEF Enters, ActivePhase
  <2> QED BY <1>1, <2>1, ActiveIs DEF Shrinks
<1> QED BY <1>2, <1>3, <1>4, <1>5, <1>6, <1>7, <1>8 DEF TreeStep

(* The root stays until the workflow is finalized. *)
LEMMA RootStays ==
  ASSUME TreeInv, TreeStep, NEW w \in Workflow, Root(w) \in DOMAIN calls, ~Finalize(w)
  PROVE  Root(w) \in DOMAIN calls'
<1>0. TypeOK /\ Fresh
  BY DEF TreeInv
<1>1. Len(Root(w)) = 1
  BY RootFacts
<1>2. ASSUME NEW p \in DOMAIN calls PROVE Root(w) \notin Settled(p)
  <2>1. Len(p) \in Nat /\ Len(p) >= 1
    BY <1>0, DomainPaths
  <2>2. ASSUME Root(w) \in Settled(p) PROVE FALSE
    <3>1. Len(Root(w)) = Len(p) + 1
      BY <2>2 DEF Settled, CalledBy
    <3> QED BY <1>1, <2>1, <3>1
  <2> QED BY <2>2
<1>3. ASSUME NEW p \in DOMAIN calls, NEW phase, Shrinks(p, phase) PROVE Root(w) \in DOMAIN calls'
  BY <1>1, <1>2, <1>3 DEF Shrinks, Awaited
<1>4. ASSUME NEW v \in Workflow, Finalize(v) PROVE Root(w) \in DOMAIN calls'
  <2>1. v # w
    BY <1>4
  <2>2. Root(v) # Root(w)
    <3>1. ASSUME Root(v) = Root(w) PROVE FALSE
      <4>1. Of(Root(v)) = v /\ Of(Root(w)) = w
        BY RootFacts
      <4> QED BY <2>1, <3>1, <4>1
    <3> QED BY <3>1
  <2> QED BY <1>4, <2>2, FinalizeFacts
<1>5. ASSUME NEW p \in DOMAIN calls, NEW phase \in {"body", "next"}, NEW S \in SUBSET Node,
             NEW ns \in [Node -> NodeStatus], Calls(p, phase, S, ns)
      PROVE  Root(w) \in DOMAIN calls'
  <2>1. Grows(p, phase, S)
    BY <1>0, <1>5, CallsGrows DEF Calls
  <2> QED BY <1>2, <2>1 DEF Grows
<1>6. ASSUME NEW v \in Workflow, Begins(v) \/ CancelWorkflow(v) PROVE Root(w) \in DOMAIN calls'
  BY <1>0, <1>6, BeginsFacts DEF CancelWorkflow
<1>7. ASSUME NEW p \in DOMAIN calls, NEW how \in {"ok", "error"}, Settles(p, how)
      PROVE  Root(w) \in DOMAIN calls'
  BY <1>0, <1>3, <1>7, SettlesShrinks
<1>8. ASSUME NEW p \in DOMAIN calls, NEW phase \in {"agent", "sleep"}, Waits(p, phase)
      PROVE  Root(w) \in DOMAIN calls'
  BY <1>0, <1>3, <1>8, WaitsShrinks
<1>9. ASSUME NEW p \in DOMAIN calls, Enters(p)
      PROVE  Root(w) \in DOMAIN calls'
  BY <1>0, <1>3, <1>9, EntersShrinks
<1> QED BY <1>4, <1>5, <1>6, <1>7, <1>8, <1>9 DEF TreeStep

LEMMA EndedStays ==
  ASSUME TreeInv, TreeStep, NEW w \in Workflow, status[w] \in {"completed", "failed", "cancelled"}
  PROVE  status'[w] = status[w]
<1>0. TypeOK /\ RootRuns /\ status \in [Workflow -> {"none", "running", "completed", "failed", "cancelled"}]
  BY DEF TreeInv, TypeOK
<1>1. ASSUME NEW v \in Workflow, Finalize(v) PROVE status'[w] = status[w]
  <2>1. status[v] = "running" /\ status' = [status EXCEPT ![v] = Outcome(v)]
    BY <1>0, <1>1, FinalizeFacts DEF RootRuns
  <2>2. v # w
    BY <2>1
  <2> QED BY <1>0, <2>1, <2>2
<1>2. ASSUME NEW v \in Workflow, Begins(v) PROVE status'[w] = status[w]
  <2>1. status[v] = "none" /\ status' = [status EXCEPT ![v] = "running"]
    BY <1>0, <1>2, BeginsFacts
  <2>2. v # w
    BY <2>1
  <2> QED BY <1>0, <2>1, <2>2
<1> QED BY <1>1, <1>2 DEF TreeStep, Settles, Enters, Waits, Calls, CancelWorkflow

LEMMA CallsNotFinalize ==
  ASSUME TreeInv, status' = status, NEW w \in Workflow
  PROVE  ~Finalize(w)
<1> SUFFICES ASSUME Finalize(w) PROVE FALSE
  OBVIOUS
<1>1. status[w] = "running" /\ status \in [Workflow -> {"none", "running", "completed", "failed", "cancelled"}]
  BY FinalizeFacts DEF TreeInv, RootRuns, TypeOK
<1>2. status'[w] \in {"completed", "failed", "cancelled"}
  BY <1>1, FinalizeFacts
<1> QED BY <1>1, <1>2

LEMMA PathRoot ==
  ASSUME TypeOK, Rooted, NEW s \in DOMAIN calls
  PROVE  Of(s) \in Workflow /\ Caller(s, 1) = Root(Of(s)) /\ (s # Root(Of(s)) => 1 \in 1 .. Len(s) - 1)
<1>1. s \in Path /\ Len(s) \in Nat /\ Len(s) >= 1 /\ NodeOf(s) \in Node
  BY DomainPaths
<1>2. Of(s) \in Workflow
  BY <1>1, WorkflowAssumption DEF Of
<1>3. Caller(s, 1) = Root(Of(s))
  BY <1>1, <1>2, RootOfPath DEF Rooted
<1>4. Len(s) = 1 => s = Root(Of(s))
  BY <1>1, <1>3, CallerSelf
<1>5. Len(s) # 1 => 1 \in 1 .. Len(s) - 1
  <2>1. \A n \in Nat : n >= 1 /\ n # 1 => 1 \in 1 .. n - 1
    OBVIOUS
  <2> QED BY <1>1, <2>1
<1> QED BY <1>2, <1>3, <1>4, <1>5

LEMMA NewOf ==
  ASSUME TypeOK, Rooted, NEW p \in DOMAIN calls, NEW S \in SUBSET Node, NEW s \in New(p, S),
         s \in DOMAIN calls', Rooted'
  PROVE  Of(s) = Of(p)
<1>1. 1 \in 1 .. Len(p) /\ 1 \in 1 .. Len(s) /\ s[1] = p[1]
  <2>1. Len(p) \in Nat /\ Len(p) >= 1 /\ Len(s) = Len(p) + 1 /\ \A i \in 1 .. Len(p) : s[i] = p[i]
    BY DomainPaths, NewFacts
  <2> QED BY <2>1
<1>2. WorkflowOf[p[1][1]] = Of(p) /\ WorkflowOf[s[1][1]] = Of(s)
  BY <1>1 DEF Rooted
<1> QED BY <1>1, <1>2

(* When the root of an activation that was not given up is gone, the       *)
(* workflow has failed: Promise.all() went on without it.                  *)
RootLost ==
  \A s \in Active : ~GivenUp(s) /\ Root(Of(s)) \notin DOMAIN calls => status[Of(s)] = "failed"

LEMMA RootLostStep == TreeInv /\ Linked /\ RootLost /\ [Next]_vars => RootLost'
<1> SUFFICES ASSUME TreeInv, Linked, RootLost, [Next]_vars PROVE RootLost'
  OBVIOUS
<1>0. TypeOK /\ Rooted /\ Fresh /\ Asleep /\ RootRuns /\ Rooted'
  BY TreeInvStep DEF TreeInv
<1>1. CASE UNCHANGED vars
  BY <1>1 DEF vars, RootLost, Active, GivenUp
<1>2. CASE TreeStep
  <2> SUFFICES ASSUME NEW s \in Active', ~GivenUp(s)', Root(Of(s)) \notin DOMAIN calls'
               PROVE  status'[Of(s)] = "failed"
    BY DEF RootLost
  <2>1. CASE s \in Active
    <3>1. s \in DOMAIN calls /\ calls[s].phase \in ActivePhase /\ ~GivenUp(s)
      BY <1>2, <2>1, StaysGivenUp, ActiveIs
    <3>2. Of(s) \in Workflow /\ Caller(s, 1) = Root(Of(s)) /\ (s # Root(Of(s)) => 1 \in 1 .. Len(s) - 1)
      BY <1>0, <3>1, PathRoot
    <3>3. CASE Root(Of(s)) \notin DOMAIN calls
      <4>1. status[Of(s)] = "failed"
        BY <2>1, <3>1, <3>3 DEF RootLost
      <4> QED BY <1>2, <3>2, <4>1, EndedStays
    <3>4. CASE Root(Of(s)) \in DOMAIN calls
      <4>1. Finalize(Of(s))
        BY <1>2, <3>2, <3>4, RootStays
      <4>2. /\ calls[Root(Of(s))].phase \in {"ok", "error"}
            /\ status' = [status EXCEPT ![Of(s)] = Outcome(Of(s))]
        BY <3>2, <4>1, FinalizeFacts
      <4>3. s # Root(Of(s))
        BY <3>1, <4>2 DEF ActivePhase
      <4>4. LinkedAt(s, 1)
        BY <2>1, <3>1, <3>2, <4>3 DEF Linked
      <4>5. calls[Root(Of(s))].phase = "error"
        BY <3>2, <3>4, <4>2, <4>4 DEF LinkedAt
      <4>6. Outcome(Of(s)) = "failed"
        BY <4>5 DEF Outcome
      <4> QED BY <1>0, <3>2, <4>2, <4>6 DEF TypeOK
    <3> QED BY <3>3, <3>4
  <2>2. ASSUME NEW p \in Active, NEW S \in SUBSET Node, NEW phase \in {"body", "next"},
               NEW ns \in [Node -> NodeStatus], s \in New(p, S), Calls(p, phase, S, ns)
        PROVE  status'[Of(s)] = "failed"
    <3>1. p \in DOMAIN calls /\ s \in DOMAIN calls' /\ status' = status
      BY <2>2 DEF Active, Calls
    <3>2. ~GivenUp(p)
      BY <1>2, <2>2, <3>1, NewGivenUp
    <3>3. Of(s) = Of(p) /\ Of(p) \in Workflow
      BY <1>0, <2>2, <3>1, NewOf, PathRoot
    <3>4. Root(Of(p)) \notin DOMAIN calls
      BY <1>2, <3>1, <3>3, RootStays, CallsNotFinalize
    <3> QED BY <2>2, <3>1, <3>2, <3>3, <3>4 DEF RootLost
  <2>3. ASSUME NEW w \in Workflow, s = Root(w) PROVE FALSE
    BY <2>3, RootFacts DEF Active
  <2> QED BY <1>2, <2>1, <2>2, <2>3, ActiveBefore
<1> QED BY <1>0, <1>1, <1>2, StepCases

------------------------------------------------------------------------------
(* Nothing is left behind: records and walks, in any graphs *)

QuietInv == RunningIsActive /\ Linked /\ RootLost

LEMMA QuietInductive == Spec => []QuietInv
<1>1. Init => QuietInv
  <2> SUFFICES ASSUME Init PROVE QuietInv
    OBVIOUS
  <2>1. DOMAIN calls = {} /\ Active = {}
    BY DEF Init, Active
  <2>2. \A n \in Node : nodes[n] # "running"
    BY DEF Init
  <2> QED BY <2>1, <2>2 DEF QuietInv, RunningIsActive, Linked, RootLost
<1>2. TreeInv /\ QuietInv /\ [Next]_vars => QuietInv'
  BY RunningStep, LinkedStep, RootLostStep DEF QuietInv
<1> QED BY <1>1, <1>2, TreeInductive, PTL DEF Spec

(* A node shown as running is being executed: no rejected Promise.all(),   *)
(* retry or cancellation leaves a record behind, in any graph.             *)
THEOREM RecordsAreTrue == Spec => []RunningIsActive
<1>1. QuietInv => RunningIsActive
  BY DEF QuietInv
<1> QED BY <1>1, QuietInductive, PTL

(* When a workflow completed or ended cancelled, nothing of it still runs  *)
(* but what a retry gave up, in any graph.                                 *)
THEOREM WalksAreAwaited == Spec => []CompletedIsQuiet
<1>1. TreeInv /\ QuietInv => CompletedIsQuiet
  <2> SUFFICES ASSUME TreeInv, QuietInv, NEW w \in Workflow, status[w] \in {"completed", "cancelled"},
                      NEW p \in Active, Of(p) = w
               PROVE  GivenUp(p)
    BY DEF CompletedIsQuiet
  <2>1. Root(w) \notin DOMAIN calls
    BY DEF TreeInv, RootRuns
  <2> QED BY <2>1 DEF QuietInv, RootLost
<1> QED BY <1>1, TreeInductive, QuietInductive, PTL

------------------------------------------------------------------------------
(* What is active twice *)

(* Who is active was started when it was entered, and so was every call    *)
(* above it.                                                               *)
StartedPaths ==
  \A s \in Active : \A i \in 1 .. Len(s) :
    starts[s[i][1]] > 0 \/ (i = Len(s) /\ calls[s].phase = "called")

(* What has completed was started, and what was started is in a box that   *)
(* was.                                                                    *)
DoneStarted == \A n \in Node : nodes[n] = "completed" => starts[n] > 0
BoxStarted == \A n, k \in Node : n \in Inner[k] /\ starts[n] > 0 => starts[k] > 0

(* A node reached over edges stands at one place of the tree. *)
ChainedOnce ==
  \A s, t \in Active : \A i \in 1 .. Len(s), j \in 1 .. Len(t) :
    s[i][1] = t[j][1] /\ s[i][1] \in Chained => Caller(s, i) = Caller(t, j)

(* One round of a call is all that goes on under it, but for retries. *)
SameRound ==
  \A s, t \in Active : ~GivenUp(s) /\ ~GivenUp(t) =>
    \A i \in 1 .. Len(s) - 1 :
      i \in 1 .. Len(t) - 1 /\ Caller(s, i) = Caller(t, i) => s[i + 1][2] = t[i + 1][2]

OnStack(q) == calls[q].phase \in {"called", "begun"}

(* The call that was entered last is the top of the stack. *)
Stack ==
  \A c, q \in DOMAIN calls : calls[c].phase = "begun" /\ OnStack(q) /\ Of(c) = Of(q) /\ c # q =>
    calls[q].phase = "called" /\ Len(q) <= Len(c)

(* U is a part of the graph that was walked before p was called, with all  *)
(* predecessors of p's node, and that nothing called since then is in: it  *)
(* holds the boxes of its nodes, so that no way leads into it.             *)
Apart(p, U) ==
  /\ Predecessors(NodeOf(p)) \subseteq U
  /\ \A n \in U : starts[n] > 0
  /\ \A n \in U, k \in Node : n \in Inner[k] => k \in U
  /\ \A q \in DOMAIN calls : OnStack(q) /\ Of(q) = Of(p) /\ Len(q) >= Len(p) =>
       \A i \in Len(p) .. Len(q) : q[i][1] \notin U

(* A node reached over edges that is called was not started, and while it  *)
(* waits for its turn no predecessor of it is executed again.              *)
CalledApart ==
  \A p \in DOMAIN calls : calls[p].phase = "called" /\ NodeOf(p) \in Chained =>
    /\ starts[NodeOf(p)] = 0
    /\ \E U \in SUBSET Node : Apart(p, U)

PlaceInv ==
  /\ StartedPaths /\ DoneStarted /\ BoxStarted
  /\ ChainedOnce /\ SameRound /\ Stack /\ CalledApart
  /\ ConvergesOnce

LEMMA OneGrows ==
  ASSUME TypeOK, NEW p \in DOMAIN calls, NEW q \in DOMAIN calls,
         NEW S \in SUBSET Node, NEW T \in SUBSET Node, NEW phase, NEW other,
         Grows(p, phase, S), Grows(q, other, T)
  PROVE  p = q
<1> SUFFICES ASSUME p # q PROVE FALSE
  OBVIOUS
<1>1. p \in DOMAIN calls' /\ calls'[p].round = calls[p].round + 1
  BY DEF Grows
<1>2. p \in DOMAIN calls \ Settled(q)
  BY <1>1 DEF Grows
<1>3. calls'[p] = calls[p]
  BY <1>2 DEF Grows
<1>4. calls[p].round \in Nat
  BY DomainPaths
<1> QED BY <1>1, <1>3, <1>4

LEMMA StartsChange ==
  ASSUME TypeOK, TreeStep, NEW n \in Node, starts'[n] # starts[n]
  PROVE  \E p \in DOMAIN calls : Enters(p) /\ NodeOf(p) = n /\ starts'[n] = starts[n] + 1
<1>0. starts \in [Node -> Nat]
  BY DEF TypeOK
<1>1. ASSUME NEW p \in DOMAIN calls, Enters(p)
      PROVE  NodeOf(p) = n /\ starts'[n] = starts[n] + 1
  BY <1>0, <1>1 DEF Enters
<1>2. ASSUME NEW p \in DOMAIN calls, NEW phase \in {"body", "next"}, NEW S \in SUBSET Node,
             NEW ns \in [Node -> NodeStatus], Calls(p, phase, S, ns)
      PROVE  FALSE
  BY <1>2 DEF Calls, Call
<1>3. ASSUME NEW w \in Workflow, Begins(w) PROVE FALSE
  BY <1>3, BeginsFacts
<1> QED BY <1>1, <1>2, <1>3 DEF TreeStep, Settles, Waits, Finalize, CancelWorkflow

LEMMA StartsStay ==
  ASSUME TypeOK, TreeStep, NEW n \in Node, starts[n] > 0
  PROVE  starts'[n] > 0
BY StartsChange DEF TypeOK

(* What is called anew over an edge was not started, and its caller is a   *)
(* predecessor of it that is completed.                                    *)
LEMMA NewStarts ==
  ASSUME TreeInv, StartInv, NEW p \in Active, NEW S \in SUBSET Node, NEW phase \in {"body", "next"},
         NEW ns \in [Node -> NodeStatus], NEW s \in New(p, S), Calls(p, phase, S, ns),
         NodeOf(s) \in Chained
  PROVE  /\ phase = "next" /\ starts[NodeOf(s)] = 0 /\ nodes[NodeOf(s)] = "pending"
         /\ NodeOf(p) \in Predecessors(NodeOf(s))
         /\ \A pred \in Predecessors(NodeOf(s)) : pred = NodeOf(p) \/ nodes[pred] = "completed"
<1>0. TypeOK /\ starts \in [Node -> Nat] /\ nodes \in [Node -> NodeStatus] /\ p \in DOMAIN calls
  BY DEF TreeInv, TypeOK, NodeStatus, Active
<1>1. NodeOf(s) \in S /\ NodeOf(s) \in Node /\ NodeOf(p) \in Node
  BY <1>0, NewFacts, DomainPaths
<1>2. phase = "next"
  BY <1>1 DEF Calls, Chained, Contained
<1>3. ns = [nodes EXCEPT ![NodeOf(p)] = "completed"] /\ S = Successors(NodeOf(p), ns)
  BY <1>2, CallsEdges
<1>4. /\ ns[NodeOf(s)] = "pending" /\ <<NodeOf(p), NodeOf(s)>> \in Edge
      /\ \A pred \in Predecessors(NodeOf(s)) : ns[pred] = "completed"
  BY <1>1, <1>3 DEF Successors
<1>5. nodes[NodeOf(s)] = "pending"
  BY <1>0, <1>1, <1>3, <1>4
<1>6. \A pred \in Predecessors(NodeOf(s)) : pred = NodeOf(p) \/ nodes[pred] = "completed"
  BY <1>0, <1>3, <1>4 DEF Predecessors
<1>7. NodeOf(p) \in Predecessors(NodeOf(s))
  BY <1>1, <1>4 DEF Predecessors
<1> QED BY <1>2, <1>5, <1>6, <1>7 DEF StartInv

(* Who is on the stack after a step: it was there before, and entered only *)
(* by a step of its own, or it has just been called.                       *)
LEMMA StackBefore ==
  ASSUME TreeInv, TreeStep, NEW s \in DOMAIN calls'
  PROVE  /\ s \in DOMAIN calls =>
              /\ calls'[s].phase = "called" => calls[s].phase = "called"
              /\ calls'[s].phase = "begun" => calls[s].phase = "begun" \/ Enters(s)
              /\ calls[s].phase = "called" =>
                   calls'[s].phase \in {"called", "ok"} \/ (Enters(s) /\ calls'[s].phase = "begun")
         /\ s \notin DOMAIN calls =>
              /\ calls'[s].phase = "called"
              /\ \/ \E p \in Active, S \in SUBSET Node, phase \in {"body", "next"}, ns \in [Node -> NodeStatus] :
                      /\ s \in New(p, S) /\ Calls(p, phase, S, ns) /\ Grows(p, phase, S)
                      /\ Of(s) = Of(p) /\ calls[p].phase # "called"
                 \/ \E w \in Workflow : Begins(w) /\ s = Root(w)
<1>0. TypeOK /\ Fresh /\ Rooted /\ Asleep /\ Rooted'
  <2>1. TypeOK' /\ Rooted'
    BY TreeStepInv DEF TreeInv
  <2> QED BY <2>1 DEF TreeInv
<1> DEFINE Old == /\ calls'[s].phase = "called" => calls[s].phase = "called"
                  /\ calls'[s].phase = "begun" => calls[s].phase = "begun" \/ Enters(s)
                  /\ calls[s].phase = "called" =>
                       calls'[s].phase \in {"called", "ok"} \/ (Enters(s) /\ calls'[s].phase = "begun")
<1>1. ASSUME NEW p \in DOMAIN calls, NEW how \in {"ok", "error"}, Settles(p, how)
      PROVE  s \in DOMAIN calls /\ Old
  <2>1. Shrinks(p, how) /\ (calls[p].phase = "called" => how = "ok")
    BY <1>0, <1>1, SettlesShrinks DEF Settles
  <2> QED BY <2>1 DEF Shrinks
<1>2. ASSUME NEW p \in DOMAIN calls, NEW phase \in {"agent", "sleep"}, Waits(p, phase)
      PROVE  s \in DOMAIN calls /\ Old
  <2>1. Shrinks(p, phase) /\ calls[p].phase # "called"
    BY <1>0, <1>2, WaitsShrinks DEF Waits
  <2> QED BY <2>1 DEF Shrinks
<1>3. ASSUME NEW p \in DOMAIN calls, Enters(p)
      PROVE  s \in DOMAIN calls /\ Old
  <2>1. Shrinks(p, "begun")
    BY <1>0, <1>3, EntersShrinks
  <2> QED BY <1>3, <2>1 DEF Shrinks
<1>4. ASSUME NEW p \in DOMAIN calls, NEW phase \in {"body", "next"}, NEW S \in SUBSET Node,
             NEW ns \in [Node -> NodeStatus], Calls(p, phase, S, ns)
      PROVE  /\ s \in DOMAIN calls => Old
             /\ s \notin DOMAIN calls =>
                  /\ calls'[s].phase = "called" /\ p \in Active
                  /\ s \in New(p, S) /\ Grows(p, phase, S)
                  /\ Of(s) = Of(p) /\ calls[p].phase # "called"
  <2>1. Grows(p, phase, S) /\ p \in Active /\ calls[p].phase # "called"
    BY <1>0, <1>4, CallsGrows, ActiveIs DEF Calls
  <2>2. s \in DOMAIN calls => Old
    BY <2>1 DEF Grows
  <2>3. ASSUME s \notin DOMAIN calls PROVE s \in New(p, S) /\ calls'[s].phase = "called"
    BY <2>1, <2>3 DEF Grows
  <2>4. s \in New(p, S) => Of(s) = Of(p)
    BY <1>0, NewOf
  <2> QED BY <2>1, <2>2, <2>3, <2>4
<1>5. ASSUME NEW w \in Workflow, Begins(w)
      PROVE  /\ s \in DOMAIN calls => Old
             /\ s \notin DOMAIN calls => s = Root(w) /\ calls'[s].phase = "called"
  <2>1. /\ DOMAIN calls' = DOMAIN calls \cup {Root(w)}
        /\ calls'[Root(w)] = [phase |-> "called", round |-> 0]
        /\ \A q \in DOMAIN calls : q # Root(w) =>
             \/ calls'[q] = calls[q]
             \/ calls[q].phase = "begun" /\ calls'[q] = [phase |-> "sub", round |-> calls[q].round]
        /\ status[w] = "none"
    BY <1>0, <1>5, BeginsFacts
  <2>2. s \in DOMAIN calls => s # Root(w)
    BY <1>0, <2>1, BeginsFresh
  <2> QED BY <2>1, <2>2
<1>6. ASSUME NEW w \in Workflow, Finalize(w) PROVE s \in DOMAIN calls /\ Old
  BY <1>6, FinalizeFacts
<1>7. ASSUME NEW w \in Workflow, CancelWorkflow(w) PROVE s \in DOMAIN calls /\ Old
  BY <1>7 DEF CancelWorkflow
<1> QED BY <1>1, <1>2, <1>3, <1>4, <1>5, <1>6, <1>7 DEF TreeStep

(* A place on the path of an active one was there before, or is the end of *)
(* a path called anew, or is a root.                                       *)
LEMMA PlaceBefore ==
  ASSUME TreeInv, TreeStep, NEW s \in Active', NEW i \in 1 .. Len(s)
  PROVE  \/ \E p \in Active : i \in 1 .. Len(p) /\ s[i] = p[i] /\ Caller(s, i) = Caller(p, i)
         \/ /\ i = Len(s)
            /\ \E p \in Active, S \in SUBSET Node, phase \in {"body", "next"}, ns \in [Node -> NodeStatus] :
                 s \in New(p, S) /\ Calls(p, phase, S, ns) /\ Grows(p, phase, S)
         \/ \E w \in Workflow : Begins(w) /\ s = Root(w)
<1>1. ASSUME NEW p \in Active, NEW S \in SUBSET Node, s \in New(p, S), i # Len(s)
      PROVE  i \in 1 .. Len(p) /\ s[i] = p[i] /\ Caller(s, i) = Caller(p, i)
  <2>1. p \in DOMAIN calls /\ TypeOK
    BY DEF Active, TreeInv
  <2>2. Len(s) = Len(p) + 1 /\ Len(p) \in Nat /\ \A j \in 1 .. Len(p) : s[j] = p[j] /\ Caller(s, j) = Caller(p, j)
    BY <1>1, <2>1, NewFacts, DomainPaths
  <2>3. i \in 1 .. Len(p)
    BY <1>1, <2>2
  <2> QED BY <2>2, <2>3
<1> QED BY <1>1, ActiveBefore

(* Whoever is active after a step, and was there, was active.              *)
LEMMA ActiveStays ==
  ASSUME TreeInv, TreeStep, NEW s \in Active', s \in DOMAIN calls
  PROVE  s \in Active
<1>0. TypeOK /\ Fresh /\ Rooted
  BY DEF TreeInv
<1>1. ASSUME NEW p \in Active, NEW S \in SUBSET Node, NEW phase, s \in New(p, S), Grows(p, phase, S)
      PROVE  FALSE
  BY <1>1 DEF Grows
<1>2. ASSUME NEW w \in Workflow, Begins(w), s = Root(w) PROVE FALSE
  BY <1>0, <1>2, BeginsFacts, BeginsFresh
<1> QED BY <1>1, <1>2, ActiveBefore

LEMMA StartedPathsStep == TreeInv /\ StartInv /\ StartedPaths /\ TreeStep => StartedPaths'
<1> SUFFICES ASSUME TreeInv, StartInv, StartedPaths, TreeStep, NEW s \in Active', NEW i \in 1 .. Len(s)
             PROVE  starts'[s[i][1]] > 0 \/ (i = Len(s) /\ calls'[s].phase = "called")
  BY DEF StartedPaths
<1>0. TypeOK /\ Asleep /\ Rooted /\ starts \in [Node -> Nat] /\ s \in DOMAIN calls'
  BY DEF TreeInv, TypeOK, Active
<1>1. ASSUME NEW p \in Active, i \in 1 .. Len(p), s[i] = p[i], starts[p[i][1]] > 0
      PROVE  starts'[s[i][1]] > 0
  <2>1. p[i][1] \in Node
    <3>1. p \in Path
      BY <1>0, DomainPaths DEF Active
    <3> QED BY <1>1, <3>1, PathFacts
  <2> QED BY <1>0, <1>1, <2>1, StartsStay
<1>2. CASE s \notin DOMAIN calls
  <2>1. calls'[s].phase = "called"
    BY <1>0, <1>2, StackBefore
  <2>2. CASE i = Len(s)
    BY <2>1, <2>2
  <2>3. ASSUME NEW p \in Active, NEW S \in SUBSET Node, s \in New(p, S), calls[p].phase # "called",
               i # Len(s)
        PROVE  starts'[s[i][1]] > 0
    <3>1. p \in DOMAIN calls
      BY DEF Active
    <3>2. Len(s) = Len(p) + 1 /\ Len(p) \in Nat /\ \A j \in 1 .. Len(p) : s[j] = p[j]
      BY <1>0, <2>3, <3>1, NewFacts, DomainPaths
    <3>3. i \in 1 .. Len(p)
      BY <2>3, <3>2
    <3>4. starts[p[i][1]] > 0
      BY <2>3, <3>3 DEF StartedPaths
    <3> QED BY <1>1, <3>2, <3>3, <3>4
  <2>4. ASSUME NEW w \in Workflow, s = Root(w) PROVE i = Len(s)
    <3>1. Len(s) = 1
      BY <2>4, RootFacts
    <3> QED BY <3>1
  <2> QED BY <1>0, <1>2, <2>2, <2>3, <2>4, StackBefore
<1>3. CASE s \in DOMAIN calls
  <2>1. s \in Active
    BY <1>3, ActiveStays
  <2>2. CASE starts[s[i][1]] > 0
    BY <1>1, <2>1, <2>2
  <2>3. CASE i = Len(s) /\ calls[s].phase = "called"
    <3>1. calls'[s].phase \in {"called", "ok"} \/ Enters(s)
      BY <1>0, <1>3, <2>3, StackBefore
    <3>2. calls'[s].phase # "ok"
      BY DEF Active
    <3>3. CASE Enters(s)
      <4>1. s[i][1] = NodeOf(s) /\ NodeOf(s) \in Node
        <5>1. s \in Path
          BY <1>0, <1>3, DomainPaths
        <5> QED BY <2>3, <5>1, PathFacts
      <4>2. starts'[NodeOf(s)] = starts[NodeOf(s)] + 1
        BY <1>0, <3>3, <4>1 DEF Enters
      <4> QED BY <1>0, <4>1, <4>2
    <3> QED BY <2>3, <3>1, <3>2, <3>3
  <2> QED BY <2>1, <2>2, <2>3 DEF StartedPaths
<1> QED BY <1>2, <1>3

LEMMA ChainedOnceStep ==
  ASSUME TreeInv, StartInv, PlaceInv, TreeStep
  PROVE  ChainedOnce'
<1>0. TypeOK /\ Asleep /\ Rooted /\ Rooted' /\ StartedPaths /\ ChainedOnce /\ Stack /\ CalledApart
  BY TreeStepInv DEF TreeInv, PlaceInv
<1>2. TreeStep
  OBVIOUS
<1>3. ChainedOnce'
  <2> DEFINE Anew(s) == \E p \in Active, S \in SUBSET Node, phase \in {"body", "next"}, ns \in [Node -> NodeStatus] :
                          s \in New(p, S) /\ Calls(p, phase, S, ns) /\ Grows(p, phase, S)
  <2>1. ASSUME NEW s \in Active', NEW i \in 1 .. Len(s), s[i][1] \in Chained
        PROVE  \/ \E p \in Active : i \in 1 .. Len(p) /\ s[i] = p[i] /\ Caller(s, i) = Caller(p, i)
               \/ i = Len(s) /\ Anew(s)
    <3>1. ASSUME NEW w \in Workflow, s = Root(w) PROVE FALSE
      <4>1. i = 1
        <5>1. Len(s) = 1
          BY <3>1, RootFacts
        <5> QED BY <5>1
      <4>2. s[i][1] = Entry[w]
        BY <3>1, <4>1, RootFacts
      <4> QED BY <2>1, <4>2 DEF Chained
    <3> QED BY <1>2, <3>1, PlaceBefore
  <2>2. ASSUME NEW s \in Active', Anew(s), NEW p \in Active, NEW j \in 1 .. Len(p), p[j][1] = NodeOf(s),
               NodeOf(s) \in Chained
        PROVE  FALSE
    <3>1. PICK c \in Active, S \in SUBSET Node, phase \in {"body", "next"}, ns \in [Node -> NodeStatus] :
            s \in New(c, S) /\ Calls(c, phase, S, ns)
      BY <2>2
    <3>2. starts[NodeOf(s)] = 0 /\ NodeOf(c) \in Predecessors(NodeOf(s))
      BY <2>2, <3>1, NewStarts
    <3>3. j = Len(p) /\ calls[p].phase = "called" /\ p \in DOMAIN calls /\ c \in DOMAIN calls
      BY <1>0, <2>2, <3>2 DEF StartedPaths, Active
    <3>4. p \in Path /\ c \in Path
      BY <1>0, <3>3, DomainPaths
    <3>5. NodeOf(p) = NodeOf(s)
      BY <2>2, <3>3, <3>4, PathFacts
    <3>6. calls[c].phase = "begun"
      BY <3>1, <3>3 DEF Calls, Unwound
    <3>7. Of(c) = Of(p)
      <4>1. Of(s) = Of(c)
        <5>1. s \in DOMAIN calls'
          BY <2>2 DEF Active
        <5> QED BY <1>0, <3>1, <3>3, <5>1, NewOf
      <4> QED BY <3>5, <4>1 DEF Of
    <3>8. Len(p) <= Len(c)
      <4>1. c # p
        BY <3>3, <3>6
      <4> QED BY <1>0, <3>3, <3>6, <3>7, <4>1 DEF Stack, OnStack
    <3>9. PICK U \in SUBSET Node : Apart(p, U)
      BY <1>0, <2>2, <3>3, <3>5 DEF CalledApart
    <3>10. c[Len(c)][1] = NodeOf(c) /\ Len(c) \in Len(p) .. Len(c)
      <4>1. c[Len(c)][1] = NodeOf(c) /\ Len(c) \in Nat /\ Len(p) \in Nat
        BY <3>4, PathFacts
      <4> QED BY <3>8, <4>1
    <3>11. NodeOf(c) \notin U
      BY <3>3, <3>6, <3>7, <3>8, <3>9, <3>10 DEF Apart, OnStack
    <3> QED BY <3>2, <3>5, <3>9, <3>11 DEF Apart
  <2>3. ASSUME NEW s, NEW t, Anew(s), Anew(t), NodeOf(s) = NodeOf(t)
        PROVE  s = t
    <3>1. PICK p \in Active, S \in SUBSET Node, phase \in {"body", "next"} :
            s \in New(p, S) /\ Grows(p, phase, S)
      BY <2>3
    <3>2. PICK q \in Active, T \in SUBSET Node, other \in {"body", "next"} :
            t \in New(q, T) /\ Grows(q, other, T)
      BY <2>3
    <3>3. p \in DOMAIN calls /\ q \in DOMAIN calls
      BY DEF Active
    <3>4. p = q
      BY <1>0, <3>1, <3>2, <3>3, OneGrows
    <3>5. /\ s \in Path /\ Len(s) = Len(p) + 1 /\ s[Len(s)] = <<NodeOf(s), calls[p].round + 1>>
          /\ \A i \in 1 .. Len(p) : s[i] = p[i]
      BY <1>0, <3>1, <3>3, NewFacts
    <3>6. /\ t \in Path /\ Len(t) = Len(p) + 1 /\ t[Len(t)] = <<NodeOf(t), calls[p].round + 1>>
          /\ \A i \in 1 .. Len(p) : t[i] = p[i]
      BY <1>0, <3>2, <3>3, <3>4, NewFacts
    <3>7. \A i \in 1 .. Len(s) : i \in 1 .. Len(p) \/ i = Len(s)
      BY <1>0, <3>3, <3>5, DomainPaths
    <3> QED BY <2>3, <3>5, <3>6, <3>7, PathEqual
  <2>4. ASSUME NEW s, Anew(s) PROVE s \in Path /\ s[Len(s)][1] = NodeOf(s)
    <3>1. s \in Path
      BY <1>0, <2>4, NewFacts DEF Active
    <3> QED BY <3>1, PathFacts
  <2> SUFFICES ASSUME NEW s \in Active', NEW t \in Active', NEW i \in 1 .. Len(s), NEW j \in 1 .. Len(t),
                      s[i][1] = t[j][1], s[i][1] \in Chained
               PROVE  Caller(s, i) = Caller(t, j)
    BY DEF ChainedOnce
  <2> HIDE DEF Anew
  <2>5. CASE i = Len(s) /\ Anew(s) /\ j = Len(t) /\ Anew(t)
    BY <2>3, <2>4, <2>5
  <2>6. ASSUME NEW p \in Active, i \in 1 .. Len(p), s[i] = p[i], Caller(s, i) = Caller(p, i)
        PROVE  Caller(s, i) = Caller(t, j)
    <3>1. ASSUME NEW q \in Active, j \in 1 .. Len(q), t[j] = q[j], Caller(t, j) = Caller(q, j)
          PROVE  Caller(s, i) = Caller(t, j)
      BY <1>0, <2>6, <3>1 DEF ChainedOnce
    <3>2. CASE j = Len(t) /\ Anew(t)
      BY <2>2, <2>4, <2>6, <3>2
    <3> QED BY <2>1, <3>1, <3>2
  <2>7. ASSUME NEW q \in Active, j \in 1 .. Len(q), t[j] = q[j], i = Len(s), Anew(s)
        PROVE  FALSE
    BY <2>2, <2>4, <2>7
  <2> QED BY <2>1, <2>5, <2>6, <2>7
<1> QED BY <1>3

LEMMA SameRoundStep == TreeInv /\ Linked /\ SameRound /\ [Next]_vars => SameRound'
<1> SUFFICES ASSUME TreeInv, Linked, SameRound, [Next]_vars PROVE SameRound'
  OBVIOUS
<1>0. TypeOK /\ Asleep /\ Linked'
  BY LinkedStep DEF TreeInv
<1>1. CASE UNCHANGED vars
  BY <1>1 DEF vars, SameRound, Active, GivenUp
<1>2. CASE TreeStep
  <2>1. ASSUME NEW s \in Active', ~GivenUp(s)', NEW i \in 1 .. Len(s) - 1, Caller(s, i) \notin DOMAIN calls'
        PROVE  \E p \in Active : /\ ~GivenUp(p) /\ i \in 1 .. Len(p) - 1
                                 /\ Caller(p, i) = Caller(s, i) /\ p[i + 1] = s[i + 1]
    <3>1. CASE s \in Active
      <4>1. ~GivenUp(s)
        BY <1>2, <2>1, <3>1, StaysGivenUp DEF Active
      <4> QED BY <3>1, <4>1
    <3>2. ASSUME NEW p \in Active, NEW S \in SUBSET Node, NEW phase, s \in New(p, S), Grows(p, phase, S)
          PROVE  /\ ~GivenUp(p) /\ i \in 1 .. Len(p) - 1
                 /\ Caller(p, i) = Caller(s, i) /\ p[i + 1] = s[i + 1]
      <4>1. p \in DOMAIN calls
        BY DEF Active
      <4>2. /\ Len(p) \in Nat /\ Len(s) = Len(p) + 1 /\ Caller(s, Len(p)) = p
            /\ \A j \in 1 .. Len(p) : s[j] = p[j] /\ Caller(s, j) = Caller(p, j)
        BY <1>0, <3>2, <4>1, NewFacts, DomainPaths
      <4>3. p \in DOMAIN calls'
        BY <3>2, <4>1 DEF Grows
      <4>4. i # Len(p)
        BY <2>1, <4>2, <4>3
      <4>5. i \in 1 .. Len(p) - 1 /\ i \in 1 .. Len(p) /\ i + 1 \in 1 .. Len(p)
        BY <4>2, <4>4
      <4>6. ~GivenUp(p)
        BY <1>2, <2>1, <3>2, <4>1, NewGivenUp
      <4> QED BY <4>2, <4>5, <4>6
    <3>3. ASSUME NEW w \in Workflow, s = Root(w) PROVE FALSE
      <4>1. Len(s) = 1
        BY <3>3, RootFacts
      <4> QED BY <4>1
    <3> QED BY <1>2, <3>1, <3>2, <3>3, ActiveBefore
  <2> SUFFICES ASSUME NEW s \in Active', NEW t \in Active', ~GivenUp(s)', ~GivenUp(t)',
                      NEW i \in 1 .. Len(s) - 1, i \in 1 .. Len(t) - 1, Caller(s, i) = Caller(t, i)
               PROVE  s[i + 1][2] = t[i + 1][2]
    BY DEF SameRound
  <2>2. CASE Caller(s, i) \in DOMAIN calls'
    BY <1>0, <2>2 DEF Linked, LinkedAt
  <2>3. CASE Caller(s, i) \notin DOMAIN calls'
    <3>1. PICK p \in Active : /\ ~GivenUp(p) /\ i \in 1 .. Len(p) - 1
                              /\ Caller(p, i) = Caller(s, i) /\ p[i + 1] = s[i + 1]
      BY <2>1, <2>3
    <3>2. PICK q \in Active : /\ ~GivenUp(q) /\ i \in 1 .. Len(q) - 1
                              /\ Caller(q, i) = Caller(t, i) /\ q[i + 1] = t[i + 1]
      BY <2>1, <2>3
    <3>3. p[i + 1][2] = q[i + 1][2]
      BY <3>1, <3>2 DEF SameRound
    <3> QED BY <3>1, <3>2, <3>3
  <2> QED BY <2>2, <2>3
<1> QED BY <1>0, <1>1, <1>2, StepCases

LEMMA StackStep ==
  ASSUME TreeInv, PlaceInv, TreeStep
  PROVE  Stack'
<1>0. TypeOK /\ Rooted /\ Stack
  BY DEF TreeInv, PlaceInv
<1> SUFFICES ASSUME NEW c \in DOMAIN calls', NEW q \in DOMAIN calls', calls'[c].phase = "begun",
                    OnStack(q)', Of(c) = Of(q), c # q
             PROVE  calls'[q].phase = "called" /\ Len(q) <= Len(c)
  BY DEF Stack, Of, NodeOf
<1>1. c \in DOMAIN calls
  BY StackBefore
<1>2. ASSUME q \in DOMAIN calls, OnStack(q)
      PROVE  calls'[q].phase = "called" /\ Len(q) <= Len(c)
  <2>1. calls[c].phase = "begun" \/ Enters(c)
    BY <1>1, StackBefore
  <2>2. calls[q].phase = "called" /\ Len(q) <= Len(c)
    BY <1>0, <1>1, <1>2, <2>1 DEF Stack, Enters, Turn, OnStack
  <2>3. ASSUME Enters(q) PROVE FALSE
    <3>1. calls[c].phase = "begun"
      <4>1. ASSUME Enters(c) PROVE FALSE
        <5>1. Shrinks(q, "begun") /\ calls[c].phase = "called"
          BY <1>0, <1>2, <2>3, <4>1, EntersShrinks DEF Enters
        <5> QED BY <1>1, <5>1 DEF Shrinks
      <4> QED BY <2>1, <4>1
    <3> QED BY <1>1, <2>3, <3>1 DEF Enters, Turn
  <2> QED BY <1>2, <2>2, <2>3, StackBefore DEF OnStack
<1>3. ASSUME q \in DOMAIN calls, ~OnStack(q) PROVE FALSE
  BY <1>3, StackBefore DEF OnStack, Enters
<1>4. ASSUME q \notin DOMAIN calls PROVE FALSE
  <2>1. ASSUME NEW p \in Active, NEW S \in SUBSET Node, NEW phase \in {"body", "next"},
               NEW ns \in [Node -> NodeStatus], q \in New(p, S), Calls(p, phase, S, ns),
               Grows(p, phase, S), Of(q) = Of(p)
        PROVE  FALSE
    <3>1. c # p
      BY <2>1 DEF Grows
    <3>2. calls[c].phase = "begun"
      <4>1. c \notin New(p, S)
        BY <1>1, <2>1 DEF Grows
      <4> QED BY <1>1, <2>1, <3>1, <4>1 DEF Grows
    <3>3. p \in DOMAIN calls /\ calls[p].phase = "begun"
      BY <1>1, <2>1, <3>2 DEF Calls, Unwound, Active
    <3> QED BY <1>0, <1>1, <2>1, <3>1, <3>2, <3>3 DEF Stack, OnStack
  <2>2. ASSUME NEW w \in Workflow, Begins(w), q = Root(w) PROVE FALSE
    <3>1. status[w] = "none" /\ Of(q) = w
      BY <1>0, <2>2, BeginsFacts, RootFacts
    <3> QED BY <1>0, <1>1, <3>1, BeginsFresh
  <2> QED BY <1>4, <2>1, <2>2, StackBefore
<1> QED BY <1>2, <1>3, <1>4

LEMMA DoneStartedStep ==
  ASSUME TreeInv, PlaceInv, TreeStep
  PROVE  DoneStarted'
<1>0. TypeOK /\ DoneStarted /\ StartedPaths /\ nodes \in [Node -> NodeStatus]
  BY DEF TreeInv, PlaceInv, TypeOK, NodeStatus
<1> SUFFICES ASSUME NEW n \in Node, nodes'[n] = "completed" PROVE starts'[n] > 0
  BY DEF DoneStarted
<1> SUFFICES ASSUME nodes[n] # "completed" PROVE starts[n] > 0
  BY <1>0, StartsStay DEF DoneStarted
<1>1. ASSUME NEW p \in DOMAIN calls, calls[p].phase \in ActivePhase \ {"called"}
      PROVE  starts[NodeOf(p)] > 0
  <2>1. p \in Active
    BY <1>1 DEF Active, ActivePhase
  <2>2. Len(p) \in 1 .. Len(p) /\ p[Len(p)][1] = NodeOf(p)
    <3>1. p \in Path
      BY <1>0, DomainPaths
    <3> QED BY <3>1, PathFacts
  <2>3. starts[p[Len(p)][1]] > 0
    BY <1>0, <1>1, <2>1, <2>2 DEF StartedPaths
  <2> QED BY <2>2, <2>3
<1>2. ASSUME NEW p \in DOMAIN calls, NEW how \in {"ok", "error"}, Settles(p, how)
      PROVE  starts[n] > 0
  <2>1. calls[p].phase \in ActivePhase \ {"called"} /\ n = NodeOf(p)
    BY <1>0, <1>2 DEF Settles
  <2> QED BY <1>1, <2>1
<1>3. ASSUME NEW p \in DOMAIN calls, NEW phase \in {"body", "next"}, NEW S \in SUBSET Node,
             NEW ns \in [Node -> NodeStatus], Calls(p, phase, S, ns)
      PROVE  starts[n] > 0
  <2>1. nodes' = ns
    BY <1>3 DEF Calls, Call
  <2>2. calls[p].phase \in ActivePhase \ {"called"} /\ n = NodeOf(p)
    BY <1>0, <1>3, <2>1 DEF Calls
  <2> QED BY <1>1, <2>2
<1>4. ASSUME NEW p \in DOMAIN calls, Enters(p) PROVE FALSE
  BY <1>0, <1>4 DEF Enters
<1>5. ASSUME NEW w \in Workflow, Begins(w) PROVE FALSE
  BY <1>0, <1>5, BeginsFacts
<1> QED BY <1>2, <1>3, <1>4, <1>5 DEF TreeStep, Waits, Finalize, CancelWorkflow

(* Below the entry, a node is reached over an edge or is in a box.         *)
LEMMA BelowEntry ==
  ASSUME Nested, TypeOK, Rooted, NEW p \in DOMAIN calls, NEW k \in 1 .. Len(p), k # 1
  PROVE  /\ p[k][1] \notin {Entry[w] : w \in Workflow}
         /\ p[k][1] \in Chained \/ (k - 1 \in 1 .. Len(p) - 1 /\ p[k][1] \in Inner[p[k - 1][1]])
<1>1. k - 1 \in 1 .. Len(p) - 1 /\ (k - 1) + 1 = k /\ p[k - 1][1] \in Node
  <2>1. p \in Path /\ Len(p) \in Nat
    BY DomainPaths
  <2>2. k - 1 \in 1 .. Len(p) - 1 /\ (k - 1) + 1 = k /\ k - 1 \in 1 .. Len(p)
    BY <2>1
  <2> QED BY <2>1, <2>2, PathFacts
<1>2. p[k][1] \in Inner[p[k - 1][1]] \/ <<p[k - 1][1], p[k][1]>> \in Edge
  BY <1>1 DEF Rooted
<1>3. CASE p[k][1] \in Inner[p[k - 1][1]]
  BY <1>1, <1>3 DEF Nested, Contained
<1>4. CASE <<p[k - 1][1], p[k][1]>> \in Edge
  <2> DEFINE e == <<p[k - 1][1], p[k][1]>>
  <2>1. e[2] \in Chained
    BY <1>4 DEF Nested
  <2>2. p[k][1] \in Chained
    BY <2>1
  <2> QED BY <2>2 DEF Chained
<1> QED BY <1>2, <1>3, <1>4

LEMMA BoxStartedStep ==
  ASSUME Nested, TreeInv, PlaceInv, TreeStep
  PROVE  BoxStarted'
<1>0. TypeOK /\ Rooted /\ BoxStarted /\ StartedPaths /\ starts \in [Node -> Nat]
  BY DEF TreeInv, PlaceInv, TypeOK
<1> SUFFICES ASSUME NEW n \in Node, NEW k \in Node, n \in Inner[k], starts'[n] > 0 PROVE starts'[k] > 0
  BY DEF BoxStarted
<1>1. CASE starts[n] > 0
  BY <1>0, <1>1, StartsStay DEF BoxStarted
<1>2. CASE ~(starts[n] > 0)
  <2>1. PICK p \in DOMAIN calls : Enters(p) /\ NodeOf(p) = n
    BY <1>0, <1>2, StartsChange
  <2>2. p \in Active
    BY <2>1 DEF Enters, Active
  <2>3. p \in Path /\ Len(p) \in Nat /\ Len(p) >= 1 /\ Len(p) \in 1 .. Len(p) /\ p[Len(p)][1] = n
    <3>1. p \in Path
      BY <1>0, DomainPaths
    <3> QED BY <2>1, <3>1, PathFacts
  <2>4. Len(p) # 1
    <3>1. ASSUME Len(p) = 1 PROVE FALSE
      <4>1. p[1][1] \in {Entry[w] : w \in Workflow}
        <5>1. p[1] = <<Entry[Of(p)], 1>> /\ Of(p) \in Workflow
          BY <1>0, DomainPaths, WorkflowAssumption DEF Rooted, Of
        <5> QED BY <5>1
      <4> QED BY <2>3, <3>1, <4>1 DEF Nested, Contained
    <3> QED BY <3>1
  <2>5. Len(p) - 1 \in 1 .. Len(p) - 1 /\ n \in Inner[p[Len(p) - 1][1]]
    <3>1. n \notin Chained
      BY DEF Chained, Contained
    <3> QED BY <1>0, <2>3, <2>4, <3>1, BelowEntry
  <2>6. Len(p) - 1 \in 1 .. Len(p) /\ Len(p) - 1 # Len(p)
    BY <2>3, <2>5
  <2>7. p[Len(p) - 1][1] \in Node
    BY <2>3, <2>6, PathFacts
  <2>8. p[Len(p) - 1][1] = k
    BY <2>5, <2>7 DEF Nested
  <2>9. starts[p[Len(p) - 1][1]] > 0
    BY <1>0, <2>2, <2>6 DEF StartedPaths
  <2> QED BY <1>0, <2>8, <2>9, StartsStay
<1> QED BY <1>1, <1>2

LEMMA CalledApartStep ==
  ASSUME Nested, TreeInv, StartInv, PlaceInv, TreeStep
  PROVE  CalledApart'
<1>0. /\ TypeOK /\ Rooted /\ Rooted' /\ StartedPaths /\ DoneStarted /\ BoxStarted /\ ChainedOnce
      /\ Stack /\ CalledApart /\ starts \in [Node -> Nat]
  BY TreeStepInv DEF TreeInv, PlaceInv, TypeOK
<1> SUFFICES ASSUME NEW p \in DOMAIN calls', calls'[p].phase = "called", NodeOf(p) \in Chained
             PROVE  starts'[NodeOf(p)] = 0 /\ \E U \in SUBSET Node : Apart(p, U)'
  BY DEF CalledApart, NodeOf
<1> DEFINE Place(q, k) == q[k][1]
<1>1. NodeOf(p) \in Node
  BY DEF Chained
<1>2. ASSUME NEW q \in DOMAIN calls', q \notin DOMAIN calls, NEW c \in Active, NEW S \in SUBSET Node,
             NEW phase \in {"body", "next"}, NEW ns \in [Node -> NodeStatus], q \in New(c, S),
             Calls(c, phase, S, ns)
      PROVE  /\ NodeOf(q) \in Node /\ NodeOf(c) \in Node /\ c \in DOMAIN calls /\ starts' = starts
             /\ Len(c) \in Nat /\ Len(q) = Len(c) + 1 /\ Place(q, Len(q)) = NodeOf(q)
             /\ \A i \in 1 .. Len(c) : Place(q, i) = Place(c, i)
             /\ starts[NodeOf(q)] = 0 \/ (phase = "body" /\ NodeOf(q) \in Inner[NodeOf(c)])
  <2>1. c \in DOMAIN calls
    BY DEF Active
  <2>2. /\ q \in Path /\ Len(q) = Len(c) + 1 /\ NodeOf(q) \in S
        /\ \A i \in 1 .. Len(c) : q[i] = c[i]
    BY <1>0, <1>2, <2>1, NewFacts
  <2>3. NodeOf(q) \in Node /\ q[Len(q)][1] = NodeOf(q) /\ NodeOf(c) \in Node /\ Len(c) \in Nat
    BY <1>0, <2>1, <2>2, PathFacts, DomainPaths
  <2>4. starts[NodeOf(q)] = 0 \/ (phase = "body" /\ NodeOf(q) \in Inner[NodeOf(c)])
    <3>1. CASE phase = "body"
      BY <1>2, <2>2, <3>1 DEF Calls
    <3>2. CASE phase = "next"
      <4>1. S = Successors(NodeOf(c), ns)
        BY <1>2, <3>2, CallsEdges
      <4>2. <<NodeOf(c), NodeOf(q)>> \in Edge
        BY <2>2, <4>1 DEF Successors
      <4>3. NodeOf(q) \in Chained
        <5> DEFINE e == <<NodeOf(c), NodeOf(q)>>
        <5>1. e[2] \in Chained
          BY <4>2 DEF Nested
        <5> QED BY <5>1
      <4> QED BY <1>2, <4>3, NewStarts
    <3> QED BY <3>1, <3>2
  <2>5. starts' = starts
    BY <1>2 DEF Calls, Call
  <2> QED BY <2>1, <2>2, <2>3, <2>4, <2>5
<1>3. ASSUME NEW q \in DOMAIN calls', q \notin DOMAIN calls
      PROVE  \/ \E c \in Active, S \in SUBSET Node, phase \in {"body", "next"}, ns \in [Node -> NodeStatus] :
                  q \in New(c, S) /\ Calls(c, phase, S, ns) /\ Grows(c, phase, S) /\ Of(q) = Of(c)
             \/ \E w \in Workflow : status[w] = "none" /\ q = Root(w)
  <2>1. \A w \in Workflow : Begins(w) => status[w] = "none"
    BY <1>0, BeginsFacts
  <2> QED BY <1>3, <2>1, StackBefore
<1>4. CASE p \in DOMAIN calls
  <2>1. calls[p].phase = "called"
    BY <1>4, StackBefore
  <2>2. PICK U \in SUBSET Node : Apart(p, U)
    BY <1>0, <1>4, <2>1 DEF CalledApart
  <2>3. starts'[NodeOf(p)] = 0
    <3> SUFFICES ASSUME starts'[NodeOf(p)] # starts[NodeOf(p)] PROVE FALSE
      BY <1>0, <1>4, <2>1 DEF CalledApart
    <3>1. PICK c \in DOMAIN calls : Enters(c) /\ NodeOf(c) = NodeOf(p)
      BY <1>0, <1>1, StartsChange
    <3>2. c \in Active /\ p \in Active
      BY <1>4, <2>1, <3>1 DEF Enters, Active
    <3>3. /\ c \in Path /\ p \in Path /\ Len(c) \in 1 .. Len(c) /\ Len(p) \in 1 .. Len(p)
          /\ c[Len(c)][1] = NodeOf(p) /\ p[Len(p)][1] = NodeOf(p)
      <4>1. c \in Path /\ p \in Path
        BY <1>0, <1>4, DomainPaths
      <4> QED BY <3>1, <4>1, PathFacts
    <3>4. Caller(c, Len(c)) = Caller(p, Len(p))
      BY <1>0, <3>2, <3>3 DEF ChainedOnce
    <3>5. c = p
      BY <3>3, <3>4, CallerSelf
    <3>6. Shrinks(c, "begun")
      BY <1>0, <3>1, EntersShrinks
    <3> QED BY <3>5, <3>6 DEF Shrinks
  <2>4. ASSUME NEW n \in U PROVE starts'[n] > 0
    BY <1>0, <2>2, StartsStay DEF Apart
  <2>5. ASSUME NEW q \in DOMAIN calls', OnStack(q)', Of(q) = Of(p), Len(q) >= Len(p), NEW i \in Len(p) .. Len(q)
        PROVE  q[i][1] \notin U
    <3>1. CASE q \in DOMAIN calls
      <4>1. OnStack(q)
        BY <2>5, <3>1, StackBefore DEF OnStack, Enters
      <4> QED BY <2>2, <2>5, <3>1, <4>1 DEF Apart
    <3>2. ASSUME q \notin DOMAIN calls, NEW c \in Active, NEW S \in SUBSET Node, NEW phase \in {"body", "next"},
                 NEW ns \in [Node -> NodeStatus], q \in New(c, S), Calls(c, phase, S, ns), Of(q) = Of(c)
          PROVE  q[i][1] \notin U
      <4>1. /\ NodeOf(q) \in Node /\ NodeOf(c) \in Node /\ c \in DOMAIN calls
            /\ Len(c) \in Nat /\ Len(q) = Len(c) + 1 /\ q[Len(q)][1] = NodeOf(q)
            /\ \A k \in 1 .. Len(c) : q[k][1] = c[k][1]
            /\ starts[NodeOf(q)] = 0 \/ NodeOf(q) \in Inner[NodeOf(c)]
        BY <1>2, <3>2
      <4>2. calls[c].phase = "begun"
        BY <1>4, <2>1, <3>2 DEF Calls, Unwound
      <4>3. Len(p) <= Len(c) /\ Of(c) = Of(p)
        <5>1. c # p
          BY <2>1, <4>2
        <5> QED BY <1>0, <1>4, <2>1, <2>5, <3>2, <4>1, <4>2, <5>1 DEF Stack, OnStack
      <4>4. Len(p) \in Nat /\ Len(p) >= 1 /\ Len(c) \in Len(p) .. Len(c)
        BY <1>0, <1>4, <4>1, <4>3, DomainPaths
      <4>5. \A k \in Len(p) .. Len(c) : c[k][1] \notin U
        BY <2>2, <4>1, <4>2, <4>3, <4>4 DEF Apart, OnStack
      <4>6. CASE i = Len(q)
        <5>1. NodeOf(c) \notin U
          <6>1. c[Len(c)][1] = NodeOf(c)
            BY <1>0, <4>1, DomainPaths, PathFacts
          <6> QED BY <4>4, <4>5, <6>1
        <5>2. NodeOf(q) \notin U
          BY <1>0, <2>2, <4>1, <5>1 DEF Apart
        <5> QED BY <4>1, <4>6, <5>2
      <4>7. CASE i # Len(q)
        <5>1. i \in Len(p) .. Len(c) /\ i \in 1 .. Len(c)
          BY <2>5, <4>1, <4>4, <4>7
        <5> QED BY <4>1, <4>5, <5>1
      <4> QED BY <4>6, <4>7
    <3>3. ASSUME NEW w \in Workflow, status[w] = "none", q = Root(w) PROVE FALSE
      BY <1>0, <1>4, <2>5, <3>3, RootFacts, BeginsFresh
    <3> QED BY <1>3, <3>1, <3>2, <3>3
  <2>6. Apart(p, U)'
    <3>1. Predecessors(NodeOf(p)) \subseteq U /\ \A n \in U, k \in Node : n \in Inner[k] => k \in U
      BY <2>2 DEF Apart
    <3>2. \A n \in U : starts'[n] > 0
      BY <2>4
    <3>3. \A q \in DOMAIN calls' : OnStack(q)' /\ Of(q) = Of(p) /\ Len(q) >= Len(p) =>
            \A i \in Len(p) .. Len(q) : q[i][1] \notin U
      BY <2>5
    <3> QED BY <3>1, <3>2, <3>3 DEF Apart, Of, NodeOf, Predecessors
  <2> QED BY <2>3, <2>6
<1>5. ASSUME p \notin DOMAIN calls, NEW c \in Active, NEW S \in SUBSET Node, NEW phase \in {"body", "next"},
             NEW ns \in [Node -> NodeStatus], p \in New(c, S), Calls(c, phase, S, ns),
             Grows(c, phase, S), Of(p) = Of(c)
      PROVE  starts'[NodeOf(p)] = 0 /\ \E U \in SUBSET Node : Apart(p, U)'
  <2>1. /\ phase = "next" /\ starts[NodeOf(p)] = 0
        /\ \A pred \in Predecessors(NodeOf(p)) : pred = NodeOf(c) \/ nodes[pred] = "completed"
    BY <1>5, NewStarts
  <2>2. /\ NodeOf(c) \in Node /\ c \in DOMAIN calls /\ starts' = starts
        /\ Len(c) \in Nat /\ Len(p) = Len(c) + 1
    BY <1>2, <1>5
  <2> PICK U \in SUBSET Node : \A n \in Node : n \in U <=> starts[n] > 0
    <3>1. \A n \in Node : n \in {k \in Node : starts[k] > 0} <=> starts[n] > 0
      OBVIOUS
    <3> QED BY <3>1
  <2>3. starts[NodeOf(c)] > 0
    <3>1. calls[c].phase # "called"
      BY <1>5 DEF Calls
    <3>2. Len(c) \in 1 .. Len(c) /\ c[Len(c)][1] = NodeOf(c)
      <4>1. c \in Path
        BY <1>0, <2>2, DomainPaths
      <4> QED BY <4>1, PathFacts
    <3>3. starts[c[Len(c)][1]] > 0
      BY <1>0, <3>1, <3>2 DEF StartedPaths
    <3> QED BY <3>2, <3>3
  <2>4. Predecessors(NodeOf(p)) \subseteq U
    BY <1>0, <2>1, <2>3 DEF DoneStarted, Predecessors
  <2>5. \A n \in U, k \in Node : n \in Inner[k] => k \in U
    BY <1>0 DEF BoxStarted
  <2>6. ASSUME NEW q \in DOMAIN calls', OnStack(q)', Of(q) = Of(p), Len(q) >= Len(p), NEW i \in Len(p) .. Len(q)
        PROVE  q[i][1] \notin U
    <3>1. ASSUME q \in DOMAIN calls PROVE FALSE
      <4>1. OnStack(q)
        BY <2>6, <3>1, StackBefore DEF OnStack, Enters
      <4>2. calls[c].phase = "begun"
        BY <1>5, <3>1, <4>1 DEF Calls, Unwound, OnStack
      <4>3. q # c
        BY <1>5, <2>6 DEF Grows, OnStack
      <4>4. Len(q) <= Len(c)
        BY <1>0, <1>5, <2>2, <2>6, <3>1, <4>1, <4>2, <4>3 DEF Stack
      <4>5. Len(q) \in Nat
        BY <1>0, <3>1, DomainPaths
      <4> QED BY <2>2, <2>6, <4>4, <4>5
    <3>2. q \notin DOMAIN calls /\ q \in New(c, S)
      BY <1>5, <3>1 DEF Grows
    <3>3. Len(q) = Len(p) /\ q[Len(q)][1] = NodeOf(q) /\ starts[NodeOf(q)] = 0 /\ Len(q) \in Nat
      BY <1>2, <1>5, <2>1, <2>2, <3>2
    <3>4. i = Len(q)
      BY <3>3
    <3> QED BY <3>3, <3>4
  <2>7. Apart(p, U)'
    <3>1. \A n \in U : starts'[n] > 0
      BY <2>2
    <3> QED BY <2>4, <2>5, <2>6, <3>1 DEF Apart, Of, NodeOf, Predecessors
  <2> QED BY <2>1, <2>2, <2>7
<1>6. ASSUME NEW w \in Workflow, p = Root(w) PROVE FALSE
  BY <1>6, RootFacts DEF Chained
<1> QED BY <1>3, <1>4, <1>5, <1>6

LEMMA ConvergesOnceStep ==
  ASSUME TreeInv, PlaceInv, TreeStep
  PROVE  ConvergesOnce'
<1>0. TypeOK /\ ConvergesOnce /\ CalledApart /\ starts \in [Node -> Nat]
  BY DEF TreeInv, PlaceInv, TypeOK
<1> SUFFICES ASSUME NEW n \in Chained PROVE starts'[n] <= 1
  BY DEF ConvergesOnce
<1>1. n \in Node
  BY DEF Chained
<1>2. CASE starts'[n] = starts[n]
  BY <1>0, <1>2 DEF ConvergesOnce
<1>3. CASE starts'[n] # starts[n]
  <2>1. PICK p \in DOMAIN calls : Enters(p) /\ NodeOf(p) = n /\ starts'[n] = starts[n] + 1
    BY <1>0, <1>1, <1>3, StartsChange
  <2>2. starts[n] = 0
    BY <1>0, <2>1 DEF CalledApart, Enters
  <2> QED BY <2>1, <2>2
<1> QED BY <1>2, <1>3

LEMMA PlaceInductive ==
  ASSUME Nested
  PROVE  Spec => []PlaceInv
<1>1. Init => PlaceInv
  <2> SUFFICES ASSUME Init PROVE PlaceInv
    OBVIOUS
  <2>1. Active = {} /\ DOMAIN calls = {}
    BY DEF Init, Active
  <2>2. DoneStarted /\ BoxStarted /\ ConvergesOnce
    BY DEF Init, DoneStarted, BoxStarted, ConvergesOnce, Chained
  <2>3. Stack /\ CalledApart
    BY <2>1 DEF Stack, CalledApart
  <2> QED BY <2>1, <2>2, <2>3 DEF PlaceInv, StartedPaths, ChainedOnce, SameRound
<1>2. TreeInv /\ StartInv /\ QuietInv /\ PlaceInv /\ [Next]_vars => PlaceInv'
  <2> SUFFICES ASSUME TreeInv, StartInv, QuietInv, PlaceInv, [Next]_vars PROVE PlaceInv'
    OBVIOUS
  <2>1. CASE UNCHANGED vars
    <3>1. /\ Active' = Active /\ calls' = calls /\ starts' = starts /\ nodes' = nodes
          /\ \A s : GivenUp(s)' = GivenUp(s)
      BY <2>1 DEF vars, Active, GivenUp
    <3>2. StartedPaths' /\ DoneStarted' /\ BoxStarted' /\ ConvergesOnce'
      BY <3>1 DEF PlaceInv, StartedPaths, DoneStarted, BoxStarted, ConvergesOnce
    <3>3. ChainedOnce' /\ SameRound'
      BY <3>1 DEF PlaceInv, ChainedOnce, SameRound
    <3>4. Stack' /\ CalledApart'
      BY <3>1 DEF PlaceInv, Stack, OnStack, CalledApart, Apart
    <3> QED BY <3>2, <3>3, <3>4 DEF PlaceInv
  <2>2. CASE TreeStep
    <3>1. StartedPaths /\ SameRound /\ Linked
      BY DEF PlaceInv, QuietInv
    <3> QED BY <2>2, <3>1, StartedPathsStep, DoneStartedStep, BoxStartedStep, ChainedOnceStep,
               SameRoundStep, StackStep, CalledApartStep, ConvergesOnceStep DEF PlaceInv
  <2> QED BY <2>1, <2>2, StepCases DEF TreeInv
<1> QED BY <1>1, <1>2, TreeInductive, StartInductive, QuietInductive, PTL DEF Spec

(* A node reached over edges starts once, although several branches lead   *)
(* to it and a retry may complete its predecessor again, in any graph      *)
(* whose boxes are nested and that lists no edge and no branch twice.      *)
THEOREM ConvergesOnlyOnce ==
  ASSUME Nested
  PROVE  Spec => []ConvergesOnce
<1>1. PlaceInv => ConvergesOnce
  BY DEF PlaceInv
<1> QED BY <1>1, PlaceInductive, PTL

LEMMA LeastOf ==
  ASSUME NEW S \in SUBSET Nat, S # {}
  PROVE  \E m \in S : \A n \in S : ~(n < m)
<1> DEFINE R == OpToRel(<, Nat)
<1>1. PICK m \in S : \A n \in S : <<n, m>> \notin R
  <2>1. IsWellFoundedOn(R, Nat)
    BY NatLessThanWellFounded
  <2> HIDE DEF R
  <2> QED BY <2>1, WFMin
<1> QED BY <1>1 DEF OpToRel

(* In a graph of boxes in boxes a node on two paths stands at one place:   *)
(* by descent to the first place where the two would differ, since it is   *)
(* the entry, or is reached once, or both paths come from the one box.     *)
LEMMA OnePlace ==
  ASSUME Nested, TreeInv, PlaceInv, NEW s \in Active, NEW t \in Active, ~GivenUp(s), ~GivenUp(t)
  PROVE  \A i \in 1 .. Len(s), j \in 1 .. Len(t) : s[i][1] = t[j][1] => Caller(s, i) = Caller(t, j)
<1> DEFINE D == {i \in 1 .. Len(s) : \E j \in 1 .. Len(t) : s[i][1] = t[j][1] /\ Caller(s, i) # Caller(t, j)}
<1> SUFFICES ASSUME D # {} PROVE FALSE
  OBVIOUS
<1>0. TypeOK /\ Rooted /\ s \in DOMAIN calls /\ t \in DOMAIN calls
  BY DEF TreeInv, Active
<1>1. PICK i \in D : \A k \in D : ~(k < i)
  <2>1. D \in SUBSET Nat
    OBVIOUS
  <2> HIDE DEF D
  <2> QED BY <2>1, LeastOf
<1>2. PICK j \in 1 .. Len(t) : s[i][1] = t[j][1] /\ Caller(s, i) # Caller(t, j)
  OBVIOUS
<1>3. i \in 1 .. Len(s)
  OBVIOUS
<1>4. /\ s \in Path /\ t \in Path /\ Len(s) \in Nat /\ Len(t) \in Nat
      /\ \A k \in 1 .. Len(s) : s[k] \in Node \X Nat /\ s[k][1] \in Node
      /\ \A k \in 1 .. Len(t) : t[k] \in Node \X Nat /\ t[k][1] \in Node
  BY <1>0, DomainPaths, PathFacts
<1>5. ASSUME NEW p \in DOMAIN calls, NEW k \in 1 .. Len(p), k # 1
      PROVE  /\ p[k][1] \notin {Entry[w] : w \in Workflow}
             /\ p[k][1] \in Chained \/ (k - 1 \in 1 .. Len(p) - 1 /\ p[k][1] \in Inner[p[k - 1][1]])
  BY <1>0, <1>5, BelowEntry
<1>6. ASSUME NEW p \in DOMAIN calls, 1 \in 1 .. Len(p)
      PROVE  p[1][1] \in {Entry[w] : w \in Workflow}
  BY <1>0, PathRoot DEF Rooted
<1>7. CASE i = 1 /\ j = 1
  <2>1. Of(s) = Of(t)
    <3>1. WorkflowOf[s[1][1]] = Of(s) /\ WorkflowOf[t[1][1]] = Of(t)
      BY <1>0, <1>2, <1>3, <1>7 DEF Rooted
    <3> QED BY <1>2, <1>7, <3>1
  <2> QED BY <1>0, <1>2, <1>7, <2>1, PathRoot
<1>8. CASE i # 1 /\ j # 1
  <2>1. s[i][1] \notin Chained
    BY <1>2, <1>3 DEF PlaceInv, ChainedOnce
  <2>2. /\ i - 1 \in 1 .. Len(s) - 1 /\ s[i][1] \in Inner[s[i - 1][1]]
        /\ j - 1 \in 1 .. Len(t) - 1 /\ t[j][1] \in Inner[t[j - 1][1]]
    BY <1>0, <1>2, <1>3, <1>5, <1>8, <2>1
  <2>3. /\ i - 1 \in 1 .. Len(s) /\ (i - 1) + 1 = i /\ i - 1 < i
        /\ j - 1 \in 1 .. Len(t) /\ (j - 1) + 1 = j
    BY <1>3, <1>4, <2>2
  <2>4. s[i - 1][1] = t[j - 1][1]
    BY <1>2, <1>4, <2>2, <2>3 DEF Nested
  <2>5. Caller(s, i - 1) = Caller(t, j - 1)
    <3>1. i - 1 \notin D
      BY <1>1, <2>3
    <3> QED BY <2>3, <2>4, <3>1
  <2>6. i = j
    <3>1. Len(Caller(s, i - 1)) = i - 1 /\ Len(Caller(t, j - 1)) = j - 1
      BY <1>4, <2>3, CallerFacts
    <3> QED BY <1>3, <2>3, <2>5, <3>1
  <2>7. s[i][2] = t[i][2]
    <3> DEFINE k == i - 1
    <3>1. k \in 1 .. Len(s) - 1 /\ k \in 1 .. Len(t) - 1 /\ Caller(s, k) = Caller(t, k) /\ k + 1 = i
      BY <2>2, <2>3, <2>5, <2>6
    <3> HIDE DEF k
    <3>2. s[k + 1][2] = t[k + 1][2]
      BY <3>1 DEF PlaceInv, SameRound
    <3> QED BY <3>1, <3>2
  <2>8. s[i] = t[i]
    BY <1>2, <1>3, <1>4, <2>6, <2>7
  <2>9. ASSUME NEW k \in 1 .. i PROVE s[k] = t[k]
    <3>1. CASE k = i
      BY <2>8, <3>1
    <3>2. CASE k # i
      <4>1. k \in 1 .. i - 1
        BY <1>3, <2>3, <3>2
      <4>2. Caller(s, i - 1)[k] = s[k] /\ Caller(t, i - 1)[k] = t[k]
        BY <1>4, <2>3, <2>6, <4>1, CallerFacts
      <4> QED BY <2>5, <2>6, <4>2
    <3> QED BY <3>1, <3>2
  <2>10. /\ Caller(s, i) \in Path /\ Len(Caller(s, i)) = i /\ \A k \in 1 .. i : Caller(s, i)[k] = s[k]
         /\ Caller(t, i) \in Path /\ Len(Caller(t, i)) = i /\ \A k \in 1 .. i : Caller(t, i)[k] = t[k]
    BY <1>3, <1>4, <2>6, CallerFacts
  <2>11. Caller(s, i) = Caller(t, i)
    BY <2>9, <2>10, PathEqual
  <2> QED BY <1>2, <2>6, <2>11
<1>9. CASE i = 1 /\ j # 1
  BY <1>0, <1>2, <1>3, <1>5, <1>6, <1>9
<1>10. CASE i # 1 /\ j = 1
  BY <1>0, <1>2, <1>3, <1>5, <1>6, <1>10
<1> QED BY <1>7, <1>8, <1>9, <1>10

LEMMA OverlapOnlyRetry == Nested /\ TreeInv /\ PlaceInv => OverlapIsRetry
<1> SUFFICES ASSUME Nested, TreeInv, PlaceInv, NEW s \in Active, NEW t \in Active,
                    NodeOf(s) = NodeOf(t), ~GivenUp(s), ~GivenUp(t)
             PROVE  s = t
  BY DEF OverlapIsRetry
<1>1. s \in Path /\ t \in Path
  BY DomainPaths DEF TreeInv, Active
<1>2. Len(s) \in 1 .. Len(s) /\ Len(t) \in 1 .. Len(t) /\ s[Len(s)][1] = t[Len(t)][1]
  BY <1>1, PathFacts
<1>3. Caller(s, Len(s)) = Caller(t, Len(t))
  BY <1>2, OnePlace
<1> QED BY <1>1, <1>3, CallerSelf

(* However branches fail, retries repeat them and cancellations meet them, *)
(* nothing is left behind, in any graph whose boxes are nested.            *)
THEOREM LeavesNothingBehind ==
  ASSUME Nested
  PROVE  Spec => []NothingLeftBehind
<1>1. TreeInv /\ PlaceInv => OverlapIsRetry
  BY OverlapOnlyRetry
<1>2. RunningIsActive /\ OverlapIsRetry /\ CompletedIsQuiet => NothingLeftBehind
  BY DEF NothingLeftBehind
<1> QED BY <1>1, <1>2, TreeInductive, PlaceInductive, RecordsAreTrue, WalksAreAwaited, PTL

------------------------------------------------------------------------------
(* What is published is true *)

(* A node in no box is not repeated. *)
Solid == Node \ Contained

(* A request is not lost while the workflow runs, and ends it as it says. *)
Flagged ==
  /\ \A w \in requested : status[w] # "none" /\ (status[w] = "running" => w \in flags)
  /\ \A w \in Workflow : /\ status[w] = "completed" => w \notin requested
                         /\ status[w] = "cancelled" => w \in requested

EntryDone ==
  \A w \in Workflow :
    \/ Root(w) \in DOMAIN calls /\ calls[Root(w)].phase \in {"next", "ok"}
    \/ status[w] = "completed"
    => nodes[Entry[w]] = "completed"

(* An entry that is called is not cancelled before it is entered. *)
EntryAllowed ==
  \A w \in Workflow :
    Root(w) \in DOMAIN calls /\ calls[Root(w)].phase = "called" => w \notin flags

EntryPending == \A w \in Workflow : status[w] = "none" => nodes[Entry[w]] = "pending"

SolidRuns ==
  \A s \in Active : NodeOf(s) \in Solid =>
    nodes[NodeOf(s)] = IF calls[s].phase = "called" THEN "pending" ELSE "running"

FailedIn(w) == \E n \in Solid : WorkflowOf[n] = w /\ nodes[n] = "failed"

(* An error is that of a node that stays failed. *)
Culprit ==
  /\ \A s \in DOMAIN calls : NodeOf(s) \in Solid /\ calls[s].phase = "error" => FailedIn(Of(s))
  /\ \A w \in Workflow : status[w] = "failed" => FailedIn(w)

OutcomeInv == Flagged /\ EntryDone /\ EntryAllowed /\ EntryPending /\ SolidRuns /\ Culprit

LEMMA EntryIsRoot ==
  ASSUME Nested, TypeOK, Rooted, NEW p \in DOMAIN calls, NEW w \in Workflow, NodeOf(p) = Entry[w]
  PROVE  p = Root(w)
<1>1. p \in Path /\ Len(p) \in Nat /\ Len(p) >= 1 /\ NodeOf(p) = p[Len(p)][1]
  BY DomainPaths, PathFacts
<1>2. Len(p) \in 1 .. Len(p)
  BY <1>1
<1>3. Len(p) = 1
  BY <1>1, <1>2, BelowEntry
<1>4. Of(p) = w
  BY GraphAssumption DEF Of
<1> QED BY <1>1, <1>3, <1>4, CallerSelf, PathRoot

(* A node in no box is executed once at a time. *)
LEMMA SolidOnce ==
  ASSUME Nested, TreeInv, PlaceInv, NEW s \in Active, NEW t \in Active,
         NodeOf(s) = NodeOf(t), NodeOf(s) \in Solid
  PROVE  s = t
<1>1. TypeOK /\ Rooted /\ s \in DOMAIN calls /\ t \in DOMAIN calls
  BY DEF TreeInv, Active
<1>2. s \in Path /\ t \in Path
  BY <1>1, DomainPaths
<1>3. Len(s) \in 1 .. Len(s) /\ Len(t) \in 1 .. Len(t) /\ s[Len(s)][1] = NodeOf(s) /\ t[Len(t)][1] = NodeOf(t)
  BY <1>2, PathFacts
<1>4. CASE NodeOf(s) \in Chained
  <2>1. Caller(s, Len(s)) = Caller(t, Len(t))
    BY <1>3, <1>4 DEF PlaceInv, ChainedOnce
  <2> QED BY <1>2, <2>1, CallerSelf
<1>5. CASE \E w \in Workflow : NodeOf(s) = Entry[w]
  BY <1>1, <1>5, EntryIsRoot
<1> QED BY <1>4, <1>5 DEF Chained, Solid

(* What a step may do to the record of a node in no box: its execution     *)
(* ends, or it is entered.                                                 *)
LEMMA SolidChange ==
  ASSUME Nested, TreeInv, TreeStep, NEW n \in Solid, nodes'[n] # nodes[n]
  PROVE  \/ \E p \in Active : NodeOf(p) = n /\ calls[p].phase # "called" /\ p \notin Active'
         \/ \E p \in Active : NodeOf(p) = n /\ Enters(p)
<1>0. TypeOK /\ Fresh /\ nodes \in [Node -> NodeStatus] /\ n \in Node /\ n \notin Contained
  BY DEF TreeInv, TypeOK, NodeStatus, Solid
<1>1. Active' = {q \in DOMAIN calls' : calls'[q].phase \in ActivePhase}
  BY DEF Active, ActivePhase
<1>2. ASSUME NEW p \in DOMAIN calls, NEW how \in {"ok", "error"}, Settles(p, how)
      PROVE  p \in Active /\ NodeOf(p) = n /\ calls[p].phase # "called" /\ p \notin Active'
  <2>1. Shrinks(p, how) /\ NodeOf(p) \in Node
    BY <1>0, <1>2, SettlesShrinks, DomainPaths
  <2>2. calls[p].phase \notin {"called", "next"} /\ n = NodeOf(p)
    BY <1>0, <1>2, <2>1 DEF Settles
  <2>3. p \in Active
    BY <1>2, <2>2, ActiveIs DEF Settles
  <2>4. p \notin Active'
    BY <1>1, <1>2, <2>1 DEF Shrinks, ActivePhase
  <2> QED BY <2>2, <2>3, <2>4
<1>3. ASSUME NEW p \in DOMAIN calls, NEW phase \in {"body", "next"}, NEW S \in SUBSET Node,
             NEW ns \in [Node -> NodeStatus], Calls(p, phase, S, ns)
      PROVE  p \in Active /\ NodeOf(p) = n /\ calls[p].phase # "called" /\ p \notin Active'
  <2>1. Grows(p, phase, S) /\ NodeOf(p) \in Node /\ p \in Active /\ calls[p].phase # "called"
    BY <1>0, <1>3, CallsGrows, DomainPaths, ActiveIs DEF Calls
  <2>2. nodes'[n] = ns[n]
    BY <1>3 DEF Calls, Call
  <2>3. ASSUME phase = "body" PROVE FALSE
    <3>1. n \notin S
      BY <1>0, <1>3, <2>1, <2>3, CallsEdges DEF Contained
    <3>2. ns[n] = nodes[n]
      BY <1>0, <1>3, <2>3, <3>1 DEF Calls
    <3> QED BY <2>2, <3>1, <3>2
  <2>4. phase = "next" /\ ns = [nodes EXCEPT ![NodeOf(p)] = "completed"]
    BY <1>3, <2>3, CallsEdges
  <2>5. n = NodeOf(p)
    BY <1>0, <2>1, <2>2, <2>4
  <2>6. p \notin Active'
    BY <1>1, <2>1, <2>4 DEF Grows, ActivePhase
  <2> QED BY <2>1, <2>5, <2>6
<1>4. ASSUME NEW w \in Workflow, Begins(w) PROVE FALSE
  BY <1>0, <1>4, BeginsFacts
<1>5. ASSUME NEW p \in DOMAIN calls, Enters(p) PROVE p \in Active /\ NodeOf(p) = n
  BY <1>0, <1>5 DEF Enters, Active
<1> QED BY <1>2, <1>3, <1>4, <1>5 DEF TreeStep, Waits, Finalize, CancelWorkflow

LEMMA FlaggedStep == TreeInv /\ Flagged /\ TreeStep => Flagged'
<1> SUFFICES ASSUME TreeInv, Flagged, TreeStep PROVE Flagged'
  OBVIOUS
<1>0. /\ TypeOK /\ RootRuns /\ flags \subseteq requested
      /\ status \in [Workflow -> {"none", "running", "completed", "failed", "cancelled"}]
  BY DEF TreeInv, TypeOK
<1>1. ASSUME UNCHANGED <<status, flags, requested>> PROVE Flagged'
  BY <1>1 DEF Flagged
<1>2. ASSUME NEW w \in Workflow, Begins(w) PROVE Flagged'
  <2>1. status[w] = "none" /\ status' = [status EXCEPT ![w] = "running"] /\ UNCHANGED <<flags, requested>>
    BY <1>0, <1>2, BeginsFacts
  <2>2. w \notin requested
    BY <2>1 DEF Flagged
  <2> QED BY <1>0, <2>1, <2>2 DEF Flagged
<1>3. ASSUME NEW w \in Workflow, Finalize(w) PROVE Flagged'
  <2>1. /\ status[w] = "running" /\ status' = [status EXCEPT ![w] = Outcome(w)]
        /\ flags' = flags \ {w} /\ requested' = requested
        /\ Outcome(w) \in {"completed", "failed", "cancelled"}
    BY <1>0, <1>3, FinalizeFacts DEF RootRuns
  <2>2. /\ Outcome(w) = "completed" => w \notin flags
        /\ Outcome(w) = "cancelled" => w \in flags
    BY DEF Outcome
  <2>3. w \in requested <=> w \in flags
    BY <1>0, <2>1 DEF Flagged
  <2> QED BY <1>0, <2>1, <2>2, <2>3 DEF Flagged
<1>4. ASSUME NEW w \in Workflow, CancelWorkflow(w) PROVE Flagged'
  BY <1>0, <1>4 DEF CancelWorkflow, Flagged
<1> QED BY <1>1, <1>2, <1>3, <1>4 DEF TreeStep, Settles, Enters, Waits, Calls

LEMMA EntryDoneStep == Nested /\ TreeInv /\ EntryDone /\ EntryAllowed /\ TreeStep => EntryDone'
<1> SUFFICES ASSUME Nested, TreeInv, EntryDone, EntryAllowed, TreeStep, NEW w \in Workflow,
                    \/ Root(w) \in DOMAIN calls' /\ calls'[Root(w)].phase \in {"next", "ok"}
                    \/ status'[w] = "completed"
             PROVE  nodes'[Entry[w]] = "completed"
  BY DEF EntryDone
<1> DEFINE r == Root(w)
           n == Entry[w]
<1>0. /\ TypeOK /\ Rooted /\ Fresh /\ RootRuns /\ nodes \in [Node -> NodeStatus] /\ n \in Node
      /\ status \in [Workflow -> {"none", "running", "completed", "failed", "cancelled"}]
  BY WorkflowAssumption DEF TreeInv, TypeOK, NodeStatus
<1>1. n \in Solid /\ n \notin Chained
  BY <1>0 DEF Nested, Solid, Chained
<1>2. ASSUME \/ r \in DOMAIN calls /\ calls[r].phase \in {"next", "ok"}
             \/ status[w] = "completed"
      PROVE  nodes'[n] = "completed"
  <2> SUFFICES ASSUME nodes'[n] # nodes[n] PROVE FALSE
    BY <1>2 DEF EntryDone
  <2>1. ASSUME NEW p \in Active, NodeOf(p) = n PROVE FALSE
    <3>1. p = r /\ r \in DOMAIN calls /\ calls[r].phase \in ActivePhase
      BY <1>0, <2>1, EntryIsRoot, ActiveIs
    <3> QED BY <1>0, <1>2, <3>1 DEF RootRuns, ActivePhase
  <2> QED BY <1>1, <2>1, SolidChange
<1>3. ASSUME ~(r \in DOMAIN calls /\ calls[r].phase \in {"next", "ok"}),
             r \in DOMAIN calls' /\ calls'[r].phase \in {"next", "ok"}
      PROVE  nodes'[n] = "completed"
  <2>0. r \in Path /\ Len(r) = 1 /\ NodeOf(r) = n
    BY RootFacts
  <2>1. ASSUME NEW p \in DOMAIN calls, NEW how \in {"ok", "error"}, Settles(p, how)
        PROVE  nodes'[n] = "completed"
    <3>1. Shrinks(p, how)
      BY <1>0, <2>1, SettlesShrinks
    <3>2. p = r /\ how = "ok"
      BY <1>3, <3>1 DEF Shrinks
    <3>3. calls[p].phase \notin {"called", "next"}
      <4>1. Of(p) = w
        BY <3>2, RootFacts
      <4> QED BY <1>3, <2>1, <3>2, <4>1 DEF Settles, Stopped, EntryAllowed
    <3> QED BY <1>0, <2>0, <2>1, <3>2, <3>3 DEF Settles
  <2>2. ASSUME NEW p \in DOMAIN calls, NEW phase \in {"agent", "sleep"}, Waits(p, phase) PROVE FALSE
    <3>1. Shrinks(p, phase)
      BY <1>0, <2>2, WaitsShrinks
    <3> QED BY <1>3, <3>1 DEF Shrinks
  <2>3. ASSUME NEW p \in DOMAIN calls, NEW phase \in {"body", "next"}, NEW S \in SUBSET Node,
               NEW ns \in [Node -> NodeStatus], Calls(p, phase, S, ns)
        PROVE  nodes'[n] = "completed"
    <3>1. Grows(p, phase, S) /\ Len(p) \in Nat /\ Len(p) >= 1
      BY <1>0, <2>3, CallsGrows, DomainPaths DEF Calls
    <3>2. r \notin New(p, S)
      <4>1. ASSUME r \in New(p, S) PROVE FALSE
        <5>1. Len(r) = Len(p) + 1
          BY <1>0, <4>1, NewFacts
        <5> QED BY <2>0, <3>1, <5>1
      <4> QED BY <4>1
    <3>3. p = r /\ phase = "next"
      BY <1>3, <3>1, <3>2 DEF Grows
    <3>4. ns = [nodes EXCEPT ![n] = "completed"] /\ S = Successors(n, ns)
      BY <2>0, <2>3, <3>3, CallsEdges
    <3> QED BY <1>0, <2>3, <3>4 DEF Calls, Call
  <2>4. ASSUME NEW v \in Workflow, Begins(v) PROVE FALSE
    <3>1. /\ DOMAIN calls' = DOMAIN calls \cup {Root(v)}
          /\ calls'[Root(v)] = [phase |-> "called", round |-> 0]
          /\ \A q \in DOMAIN calls : q # Root(v) =>
               \/ calls'[q] = calls[q]
               \/ calls[q].phase = "begun" /\ calls'[q] = [phase |-> "sub", round |-> calls[q].round]
      BY <1>0, <2>4, BeginsFacts
    <3> QED BY <1>3, <3>1
  <2>5. ASSUME NEW v \in Workflow, Finalize(v) PROVE FALSE
    BY <1>3, <2>5, FinalizeFacts
  <2>6. ASSUME NEW v \in Workflow, CancelWorkflow(v) PROVE FALSE
    BY <1>3, <2>6 DEF CancelWorkflow
  <2>7. ASSUME NEW p \in DOMAIN calls, Enters(p) PROVE FALSE
    <3>1. Shrinks(p, "begun")
      BY <1>0, <2>7, EntersShrinks
    <3> QED BY <1>3, <3>1 DEF Shrinks
  <2> QED BY <2>1, <2>2, <2>3, <2>4, <2>5, <2>6, <2>7 DEF TreeStep
<1>4. ASSUME status[w] # "completed", status'[w] = "completed"
      PROVE  r \in DOMAIN calls /\ calls[r].phase \in {"next", "ok"}
  <2>1. ASSUME NEW v \in Workflow, Begins(v) PROVE FALSE
    <3>1. status' = [status EXCEPT ![v] = "running"]
      BY <1>0, <2>1, BeginsFacts
    <3> QED BY <1>0, <1>4, <3>1
  <2>2. ASSUME NEW v \in Workflow, Finalize(v)
        PROVE  r \in DOMAIN calls /\ calls[r].phase \in {"next", "ok"}
    <3>1. /\ Root(v) \in DOMAIN calls /\ calls[Root(v)].phase \in {"ok", "error"}
          /\ status' = [status EXCEPT ![v] = Outcome(v)]
      BY <2>2, FinalizeFacts
    <3>2. v = w /\ Outcome(v) = "completed"
      BY <1>0, <1>4, <3>1
    <3>3. calls[Root(v)].phase # "error"
      BY <3>2 DEF Outcome
    <3> QED BY <3>1, <3>2, <3>3
  <2> QED BY <1>4, <2>1, <2>2 DEF TreeStep, Settles, Enters, Waits, Calls, CancelWorkflow
<1> QED BY <1>2, <1>3, <1>4

LEMMA EntryAllowedStep == TreeInv /\ Flagged /\ EntryAllowed /\ TreeStep => EntryAllowed'
<1> SUFFICES ASSUME TreeInv, Flagged, EntryAllowed, TreeStep, NEW w \in Workflow,
                    Root(w) \in DOMAIN calls', calls'[Root(w)].phase = "called"
             PROVE  w \notin flags'
  BY DEF EntryAllowed
<1>0. TypeOK
  BY DEF TreeInv
<1>1. CASE Root(w) \in DOMAIN calls
  <2>1. calls[Root(w)].phase = "called"
    BY <1>1, StackBefore
  <2>2. w \notin flags
    BY <1>1, <2>1 DEF EntryAllowed
  <2>3. ASSUME NEW v \in Workflow, CancelWorkflow(v) PROVE FALSE
    BY <1>1, <2>1, <2>3 DEF CancelWorkflow, Quiet, Unwound
  <2>4. ASSUME NEW v \in Workflow, Begins(v) PROVE flags' = flags
    BY <1>0, <2>4, BeginsFacts
  <2>5. ASSUME NEW v \in Workflow, Finalize(v) PROVE w \notin flags'
    BY <2>2, <2>5 DEF Finalize
  <2> QED BY <2>2, <2>3, <2>4, <2>5 DEF TreeStep, Settles, Enters, Waits, Calls
<1>2. CASE Root(w) \notin DOMAIN calls
  <2>1. ASSUME NEW p \in Active, NEW S \in SUBSET Node, Root(w) \in New(p, S) PROVE FALSE
    <3>1. Len(Root(w)) = Len(p) + 1 /\ Len(p) \in Nat /\ Len(p) >= 1
      BY <1>0, <2>1, NewFacts, DomainPaths DEF Active
    <3>2. Len(Root(w)) = 1
      BY RootFacts
    <3>3. \A n \in Nat : n >= 1 => n + 1 # 1
      OBVIOUS
    <3> QED BY ONLY <3>1, <3>2, <3>3
  <2>2. PICK v \in Workflow : Begins(v) /\ Root(w) = Root(v)
    BY <1>2, <2>1, StackBefore
  <2>3. v = w
    BY <2>2, RootFacts
  <2>4. status[w] = "none" /\ flags' = flags
    BY <1>0, <2>2, <2>3, BeginsFacts
  <2> QED BY <1>0, <2>4 DEF Flagged, TypeOK
<1> QED BY <1>1, <1>2

LEMMA EntryPendingStep == Nested /\ TreeInv /\ EntryPending /\ TreeStep => EntryPending'
<1> SUFFICES ASSUME Nested, TreeInv, EntryPending, TreeStep, NEW w \in Workflow, status'[w] = "none"
             PROVE  nodes'[Entry[w]] = "pending"
  BY DEF EntryPending
<1>0. /\ TypeOK /\ Rooted /\ RootRuns /\ Entry[w] \in Node
      /\ status \in [Workflow -> {"none", "running", "completed", "failed", "cancelled"}]
  BY WorkflowAssumption DEF TreeInv, TypeOK
<1>1. status[w] = "none"
  <2>1. ASSUME NEW v \in Workflow, Begins(v) PROVE status[w] = "none"
    <3>1. status' = [status EXCEPT ![v] = "running"]
      BY <1>0, <2>1, BeginsFacts
    <3> QED BY <1>0, <3>1
  <2>2. ASSUME NEW v \in Workflow, Finalize(v) PROVE status[w] = "none"
    <3>1. status' = [status EXCEPT ![v] = Outcome(v)] /\ Outcome(v) # "none"
      BY <2>2, FinalizeFacts DEF Outcome
    <3> QED BY <1>0, <3>1
  <2> QED BY <2>1, <2>2 DEF TreeStep, Settles, Enters, Waits, Calls, CancelWorkflow
<1> SUFFICES ASSUME nodes'[Entry[w]] # nodes[Entry[w]] PROVE FALSE
  BY <1>1 DEF EntryPending
<1>2. Entry[w] \in Solid
  BY <1>0 DEF Nested, Solid
<1>3. PICK p \in Active : NodeOf(p) = Entry[w]
  BY <1>2, SolidChange
<1>4. p = Root(w) /\ p \in DOMAIN calls
  BY <1>0, <1>3, EntryIsRoot DEF Active
<1> QED BY <1>0, <1>1, <1>4 DEF RootRuns

LEMMA SolidRunsStep ==
  ASSUME Nested, TreeInv, PlaceInv, EntryPending, SolidRuns, TreeStep
  PROVE  SolidRuns'
<1> SUFFICES ASSUME NEW s \in Active', NodeOf(s) \in Solid
             PROVE  nodes'[NodeOf(s)] = IF calls'[s].phase = "called" THEN "pending" ELSE "running"
  BY DEF SolidRuns, NodeOf
<1>0. TypeOK /\ nodes \in [Node -> NodeStatus] /\ s \in DOMAIN calls'
  BY DEF TreeInv, TypeOK, NodeStatus, Active
<1>1. CASE s \in DOMAIN calls
  <2>1. s \in Active
    BY <1>1, ActiveStays
  <2>2. CASE Enters(s)
    <3>1. Shrinks(s, "begun") /\ NodeOf(s) \in Node
      BY <1>0, <1>1, <2>2, EntersShrinks, DomainPaths
    <3>2. nodes'[NodeOf(s)] = "running"
      BY <1>0, <2>2, <3>1 DEF Enters
    <3> QED BY <1>0, <3>1, <3>2 DEF Shrinks
  <2>3. CASE ~Enters(s)
    <3>1. calls'[s].phase = "called" <=> calls[s].phase = "called"
      <4>1. calls'[s].phase # "ok"
        BY DEF Active
      <4> QED BY <1>0, <1>1, <2>3, <4>1, StackBefore
    <3>2. nodes'[NodeOf(s)] = nodes[NodeOf(s)]
      <4>1. ASSUME NEW p \in Active, NodeOf(p) = NodeOf(s), p \notin Active' \/ Enters(p) PROVE FALSE
        <5>1. p = s
          BY <2>1, <4>1, SolidOnce
        <5> QED BY <2>3, <4>1, <5>1
      <4> QED BY <4>1, SolidChange
    <3> QED BY <2>1, <3>1, <3>2 DEF SolidRuns
  <2> QED BY <2>2, <2>3
<1>2. CASE s \notin DOMAIN calls
  <2>1. calls'[s].phase = "called"
    BY <1>0, <1>2, StackBefore
  <2>2. ASSUME NEW p \in Active, NEW S \in SUBSET Node, NEW phase \in {"body", "next"},
               NEW ns \in [Node -> NodeStatus], s \in New(p, S), Calls(p, phase, S, ns)
        PROVE  nodes'[NodeOf(s)] = "pending"
    <3>1. p \in DOMAIN calls
      BY DEF Active
    <3>2. NodeOf(s) \in S /\ NodeOf(p) \in Node
      BY <1>0, <2>2, <3>1, NewFacts, DomainPaths
    <3>3. phase = "next"
      <4>1. ASSUME phase = "body" PROVE FALSE
        <5>1. NodeOf(s) \in Inner[NodeOf(p)]
          BY <2>2, <3>2, <4>1 DEF Calls
        <5> QED BY <3>2, <5>1 DEF Solid, Contained
      <4> QED BY <4>1
    <3>4. S = Successors(NodeOf(p), ns)
      BY <2>2, <3>3, CallsEdges
    <3>5. ns[NodeOf(s)] = "pending"
      BY <3>2, <3>4 DEF Successors
    <3> QED BY <2>2, <3>5 DEF Calls, Call
  <2>3. ASSUME NEW w \in Workflow, Begins(w), s = Root(w) PROVE nodes'[NodeOf(s)] = "pending"
    <3>1. status[w] = "none" /\ nodes' = nodes /\ NodeOf(s) = Entry[w]
      BY <1>0, <2>3, BeginsFacts, RootFacts
    <3> QED BY <3>1 DEF EntryPending
  <2> QED BY <1>0, <1>2, <2>1, <2>2, <2>3, StackBefore
<1> QED BY <1>1, <1>2

(* The record of a failed node in no box stays. *)
LEMMA FailedStays ==
  ASSUME Nested, TreeInv, SolidRuns, TreeStep, NEW w \in Workflow, FailedIn(w)
  PROVE  FailedIn(w)'
<1>1. PICK n \in Solid : WorkflowOf[n] = w /\ nodes[n] = "failed"
  BY DEF FailedIn
<1>2. nodes'[n] = "failed"
  <2> SUFFICES ASSUME nodes'[n] # nodes[n] PROVE FALSE
    BY <1>1
  <2>1. ASSUME NEW p \in Active, NodeOf(p) = n PROVE FALSE
    BY <1>1, <2>1 DEF SolidRuns
  <2> QED BY <1>1, <2>1, SolidChange
<1> QED BY <1>1, <1>2 DEF FailedIn

LEMMA CulpritStep == Nested /\ TreeInv /\ SolidRuns /\ Culprit /\ TreeStep => Culprit'
<1> SUFFICES ASSUME Nested, TreeInv, SolidRuns, Culprit, TreeStep PROVE Culprit'
  OBVIOUS
<1>0. /\ TypeOK /\ Rooted /\ Fresh /\ CalledFor /\ nodes \in [Node -> NodeStatus]
      /\ status \in [Workflow -> {"none", "running", "completed", "failed", "cancelled"}]
  BY DEF TreeInv, TypeOK, NodeStatus
<1>1. ASSUME NEW s \in DOMAIN calls PROVE Of(s) \in Workflow /\ status[Of(s)] # "none"
  BY <1>0, PathRoot DEF Rooted
<1>2. ASSUME NEW s \in DOMAIN calls', calls'[s].phase = "error", NodeOf(s) \in Solid
      PROVE  FailedIn(Of(s))'
  <2>1. CASE s \in DOMAIN calls /\ calls[s].phase = "error"
    BY <1>1, <1>2, <2>1, FailedStays DEF Culprit
  <2>2. CASE ~(s \in DOMAIN calls /\ calls[s].phase = "error")
    <3>1. ASSUME NEW p \in DOMAIN calls, NEW how \in {"ok", "error"}, Settles(p, how)
          PROVE  FailedIn(Of(s))'
      <4>1. Shrinks(p, how) /\ NodeOf(p) \in Node
        BY <1>0, <3>1, SettlesShrinks, DomainPaths
      <4>2. s = p /\ how = "error"
        BY <1>2, <2>2, <4>1 DEF Shrinks
      <4>3. CASE calls[p].phase = "next"
        <5>1. PICK q \in CalledBy(p) : calls[q].phase = "error"
          BY <3>1, <4>2, <4>3 DEF Settles, SomeThrew
        <5>2. q \in DOMAIN calls /\ <<NodeOf(p), NodeOf(q)>> \in Edge
          BY <1>0, <4>3, <5>1 DEF CalledFor, CalledBy
        <5>3. NodeOf(q) \in Solid /\ Of(q) = Of(p)
          <6> DEFINE e == <<NodeOf(p), NodeOf(q)>>
          <6>1. e[2] \in Chained /\ WorkflowOf[e[1]] = WorkflowOf[e[2]]
            BY <5>2, GraphAssumption DEF Nested
          <6> QED BY <6>1 DEF Solid, Chained, Of
        <5>4. FailedIn(Of(p))
          BY <5>1, <5>2, <5>3 DEF Culprit
        <5> QED BY <1>1, <4>2, <5>4, FailedStays
      <4>4. CASE calls[p].phase # "next"
        <5>1. nodes'[NodeOf(s)] = "failed"
          <6>1. calls[p].phase # "called"
            BY <3>1, <4>2 DEF Settles
          <6> QED BY <1>0, <3>1, <4>1, <4>2, <4>4, <6>1 DEF Settles
        <5> QED BY <1>2, <5>1 DEF FailedIn, Of
      <4> QED BY <4>3, <4>4
    <3>2. ASSUME NEW p \in DOMAIN calls, NEW phase \in {"agent", "sleep"}, Waits(p, phase) PROVE FALSE
      <4>1. Shrinks(p, phase)
        BY <1>0, <3>2, WaitsShrinks
      <4> QED BY <1>2, <2>2, <3>2, <4>1 DEF Shrinks
    <3>3. ASSUME NEW p \in DOMAIN calls, NEW phase \in {"body", "next"}, NEW S \in SUBSET Node,
                 NEW ns \in [Node -> NodeStatus], Calls(p, phase, S, ns)
          PROVE  FALSE
      <4>1. Grows(p, phase, S)
        BY <1>0, <3>3, CallsGrows DEF Calls
      <4>2. s = p \/ s \in New(p, S)
        BY <1>2, <2>2, <4>1 DEF Grows
      <4> QED BY <1>2, <4>1, <4>2 DEF Grows
    <3>4. ASSUME NEW v \in Workflow, Begins(v) PROVE FALSE
      <4>1. /\ DOMAIN calls' = DOMAIN calls \cup {Root(v)}
            /\ calls'[Root(v)] = [phase |-> "called", round |-> 0]
            /\ \A q \in DOMAIN calls : q # Root(v) =>
                 \/ calls'[q] = calls[q]
                 \/ calls[q].phase = "begun" /\ calls'[q] = [phase |-> "sub", round |-> calls[q].round]
        BY <1>0, <3>4, BeginsFacts
      <4> QED BY <1>2, <2>2, <4>1
    <3>5. ASSUME NEW v \in Workflow, Finalize(v) PROVE FALSE
      BY <1>2, <2>2, <3>5, FinalizeFacts
    <3>6. ASSUME NEW v \in Workflow, CancelWorkflow(v) PROVE FALSE
      BY <1>2, <2>2, <3>6 DEF CancelWorkflow
    <3>7. ASSUME NEW p \in DOMAIN calls, Enters(p) PROVE FALSE
      <4>1. Shrinks(p, "begun")
        BY <1>0, <3>7, EntersShrinks
      <4> QED BY <1>2, <2>2, <4>1 DEF Shrinks
    <3> QED BY <3>1, <3>2, <3>3, <3>4, <3>5, <3>6, <3>7 DEF TreeStep
  <2> QED BY <2>1, <2>2
<1>3. ASSUME NEW w \in Workflow, status'[w] = "failed" PROVE FailedIn(w)'
  <2>1. CASE status[w] = "failed"
    BY <2>1, FailedStays DEF Culprit
  <2>2. CASE status[w] # "failed"
    <3>1. ASSUME NEW v \in Workflow, Begins(v) PROVE FALSE
      <4>1. status' = [status EXCEPT ![v] = "running"]
        BY <1>0, <3>1, BeginsFacts
      <4> QED BY <1>0, <1>3, <2>2, <4>1
    <3>2. ASSUME NEW v \in Workflow, Finalize(v) PROVE FailedIn(w)'
      <4>1. /\ Root(v) \in DOMAIN calls /\ calls[Root(v)].phase \in {"ok", "error"}
            /\ status' = [status EXCEPT ![v] = Outcome(v)]
        BY <3>2, FinalizeFacts
      <4>2. v = w /\ Outcome(v) = "failed"
        BY <1>0, <1>3, <2>2, <4>1
      <4>3. calls[Root(w)].phase = "error"
        BY <4>1, <4>2 DEF Outcome
      <4>4. NodeOf(Root(w)) \in Solid /\ Of(Root(w)) = w
        BY RootFacts, WorkflowAssumption DEF Nested, Solid
      <4>5. FailedIn(w)
        BY <4>1, <4>2, <4>3, <4>4 DEF Culprit
      <4> QED BY <4>5, FailedStays
    <3> QED BY <1>3, <2>2, <3>1, <3>2 DEF TreeStep, Settles, Enters, Waits, Calls, CancelWorkflow
  <2> QED BY <2>1, <2>2
<1>4. Culprit' <=> /\ \A s \in DOMAIN calls' : NodeOf(s) \in Solid /\ calls'[s].phase = "error" => FailedIn(Of(s))'
                   /\ \A w \in Workflow : status'[w] = "failed" => FailedIn(w)'
  BY DEF Culprit
<1> QED BY <1>2, <1>3, <1>4

LEMMA OutcomeInductive ==
  ASSUME Nested
  PROVE  Spec => []OutcomeInv
<1>1. Init => OutcomeInv
  <2> SUFFICES ASSUME Init PROVE OutcomeInv
    OBVIOUS
  <2>1. DOMAIN calls = {} /\ Active = {}
    BY DEF Init, Active
  <2>2. requested = {} /\ \A w \in Workflow : status[w] = "none"
    BY DEF Init
  <2>3. EntryPending
    BY WorkflowAssumption DEF Init, EntryPending
  <2> QED BY <2>1, <2>2, <2>3 DEF OutcomeInv, Flagged, EntryDone, EntryAllowed, SolidRuns, Culprit
<1>2. TreeInv /\ PlaceInv /\ OutcomeInv /\ [Next]_vars => OutcomeInv'
  <2> SUFFICES ASSUME TreeInv, PlaceInv, OutcomeInv, [Next]_vars PROVE OutcomeInv'
    OBVIOUS
  <2>1. TreeStep \/ UNCHANGED vars
    BY StepCases DEF TreeInv
  <2>2. CASE TreeStep
    BY <2>2, FlaggedStep, EntryDoneStep, EntryAllowedStep, EntryPendingStep, SolidRunsStep,
       CulpritStep DEF OutcomeInv
  <2>3. CASE UNCHANGED vars
    BY <2>3 DEF vars, OutcomeInv, Flagged, EntryDone, EntryAllowed, EntryPending, SolidRuns, Active,
                Culprit, FailedIn
  <2> QED BY <2>1, <2>2, <2>3
<1> QED BY <1>1, <1>2, TreeInductive, PlaceInductive, PTL DEF Spec

(* What is published of a workflow is true: completed only unasked and     *)
(* with its entry completed, cancelled only on request, failed only with a *)
(* failed node, in any graph whose boxes are nested.                       *)
THEOREM OutcomesAreHonest ==
  ASSUME Nested
  PROVE  Spec => []OutcomeHonest
<1>1. OutcomeInv => OutcomeHonest
  BY DEF OutcomeInv, OutcomeHonest, Flagged, EntryDone, Culprit, FailedIn, Solid
<1> QED BY <1>1, OutcomeInductive, PTL
==============================================================================
