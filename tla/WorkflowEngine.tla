----------------------------- MODULE WorkflowEngine -----------------------------
(***************************************************************************)
(* browser/workflow/workflowEngine.ts: the walk of workflow graphs.        *)
(*                                                                         *)
(* executeNode() is a recursive asynchronous function: a node's strategy   *)
(* calls it for the nodes it contains, and after the node completed it is  *)
(* called for the successors.  A call under way is an activation, named by *)
(* the path of calls that leads to it: <<node, round>> pairs, the round    *)
(* counting the times the caller has called anything.  Promise.all() goes  *)
(* on at the first rejection and leaves the other activations running:     *)
(* nobody awaits those any more.                                           *)
(*                                                                         *)
(* A call runs at once, up to its first await, and so does what it calls   *)
(* there, before the next call beside it begins: Enter and Begin go down   *)
(* the stack.  What was awaited goes on once the stack is empty            *)
(* (Unwound).  An agent's answer, the end of a retry's delay and the calls *)
(* of clients are tasks of their own: they run when no activation can go   *)
(* on (Quiet).                                                             *)
(***************************************************************************)
EXTENDS Naturals, FiniteSets, Sequences, SequencesExt

CONSTANTS
  Workflow,     \* registered graphs, the sub-workflows among them
  Node,         \* nodes of all graphs
  WorkflowOf,   \* node -> the workflow whose graph it is in
  Entry,        \* workflow -> entryNodeId
  Kind,         \* node -> WorkflowNodeKind
  Inner,        \* node -> the nodes its strategy calls: parallelBranches,
                \* trueBranch and falseBranch, loopBody or retryTarget
  Edge,         \* <<from, to>> pairs
  Limit,        \* node -> maxIterations or retryMaxAttempts
  Sub           \* subWorkflow nodes -> the workflow they embed

ASSUME WorkflowAssumption ==
  /\ WorkflowOf \in [Node -> Workflow]
  /\ Entry \in [Workflow -> Node]
  /\ Kind \in [Node -> {"agent", "parallel", "conditional", "loop", "retry", "subWorkflow", "noop"}]
  /\ Inner \in [Node -> SUBSET Node]
  /\ Edge \subseteq Node \X Node
  /\ \A n \in Node : Kind[n] \in {"loop", "retry"} => \E m \in Node : Inner[n] = {m}
  /\ Limit \in [Node -> Nat \ {0}]
  /\ Sub \in [{n \in Node : Kind[n] = "subWorkflow"} -> Workflow]

\* A graph names its own nodes only.  It lists no edge and no branch twice:
\* registerGraph() does not look, and a node listed twice is called twice.
ASSUME GraphAssumption ==
  /\ \A w \in Workflow : WorkflowOf[Entry[w]] = w
  /\ \A n \in Node : \A m \in Inner[n] : WorkflowOf[m] = WorkflowOf[n]
  /\ \A e \in Edge : WorkflowOf[e[1]] = WorkflowOf[e[2]]

VARIABLES
  status,     \* workflow -> status of its execution, "none" before it
  flags,      \* cancellationFlags
  nodes,      \* node -> status in nodeExecutions
  outputs,    \* nodes with an entry in outputs
  calls,      \* activation -> where it is and its round, see Phase
  starts,     \* history: node -> how often it was set to running
  requested   \* history: workflows whose cancellation was requested

vars == <<status, flags, nodes, outputs, calls, starts, requested>>

\* called: not entered yet; begun: node set to running; agent, sub, sleep:
\* awaiting the agent, the embedded workflow, the retry's delay; body, next:
\* awaiting the strategy, the successors; ok, error: settled, the caller not
\* yet told.
Phase == {"called", "begun", "agent", "sub", "sleep", "body", "next", "ok", "error"}

Init ==
  /\ status = [w \in Workflow |-> "none"]
  /\ flags = {}
  /\ nodes = [n \in Node |-> "pending"]
  /\ outputs = {}
  /\ calls = << >>
  /\ starts = [n \in Node |-> 0]
  /\ requested = {}

------------------------------------------------------------------------------
NodeOf(p) == Last(p)[1]
Of(p) == WorkflowOf[NodeOf(p)]
Root(w) == << <<Entry[w], 1>> >>

(* The i-th of the calls that lead to p *)
Caller(p, i) == SubSeq(p, 1, i)

(* The calls p awaits. *)
CalledBy(p) ==
  {q \in DOMAIN calls : Len(q) = Len(p) + 1 /\ Front(q) = p /\ Last(q)[2] = calls[p].round}

Settled(p) == {q \in CalledBy(p) : calls[q].phase \in {"ok", "error"}}

(* Whoever called p still awaits it: a workflow awaits its entry. *)
Awaited(p) ==
  \/ Len(p) = 1
  \/ /\ Front(p) \in DOMAIN calls
     /\ calls[Front(p)].phase \in {"body", "next"}
     /\ calls[Front(p)].round = Last(p)[2]

(* p goes on from the calls it awaited, which are over for it. *)
GoesTo(p, phase) ==
  calls' = [q \in DOMAIN calls \ Settled(p) |->
              IF q = p THEN [calls[p] EXCEPT !.phase = phase] ELSE calls[q]]

(* executeNode() of p resolves or rejects. *)
Settle(p, outcome) ==
  IF Awaited(p) THEN GoesTo(p, outcome)
  ELSE calls' = [q \in DOMAIN calls \ (Settled(p) \cup {p}) |-> calls[q]]

(* The check at the start of executeNode() *)
Stopped(w) == w \in flags

(* p calls executeNode() for every node of S, ns being the node statuses   *)
(* it leaves.                                                              *)
Call(p, phase, S, ns) ==
  LET round == calls[p].round + 1
      called == {Append(p, <<n, round>>) : n \in S}
  IN  /\ calls' = [q \in (DOMAIN calls \ Settled(p)) \cup called |->
                     IF q = p THEN [phase |-> phase, round |-> round]
                     ELSE IF q \in called THEN [phase |-> "called", round |-> 0]
                     ELSE calls[q]]
      /\ nodes' = ns
      /\ UNCHANGED starts

------------------------------------------------------------------------------
Predecessors(n) == {m \in Node : <<m, n>> \in Edge}

\* Mutant: one completed predecessor is enough.
Successors_AnyCompleted(n, ns) ==
  {m \in Node : /\ <<n, m>> \in Edge
                /\ \E pred \in Predecessors(m) : ns[pred] = "completed"
                /\ ns[m] = "pending"}

\* Mutant: nodes that have failed or completed are not skipped.
Successors_RunAgain(n, ns) ==
  {m \in Node : /\ <<n, m>> \in Edge
                /\ \A pred \in Predecessors(m) : ns[pred] = "completed"
                /\ ns[m] # "running"}

(* The successors advanceToSuccessors() runs *)
Successors(n, ns) ==
  {m \in Node : /\ <<n, m>> \in Edge
                /\ \A pred \in Predecessors(m) : ns[pred] = "completed"
                /\ ns[m] = "pending"}

(* The strategy of p's node returned: the node is completed, its output    *)
(* stored, and its successors are called.                                  *)
Complete(p) ==
  LET ns == [nodes EXCEPT ![NodeOf(p)] = "completed"]
      next == Successors(NodeOf(p), ns)
  IN  /\ outputs' = outputs \cup {NodeOf(p)}
      /\ IF next = {}
         THEN Settle(p, "ok") /\ nodes' = ns /\ UNCHANGED starts
         ELSE Call(p, "next", next, ns)
      /\ UNCHANGED <<status, flags, requested>>

(* The strategy threw. *)
Fail(p) ==
  /\ nodes' = [nodes EXCEPT ![NodeOf(p)] = "failed"]
  /\ Settle(p, "error")
  /\ UNCHANGED <<status, flags, outputs, starts, requested>>

(* The strategy of p's node calls the nodes of S. *)
Run(p, S, ns) ==
  /\ Call(p, "body", S, ns)
  /\ UNCHANGED <<status, flags, outputs, requested>>

(* An execution of w begins: executeWorkflow() calls its entry. *)
Started(w, others) ==
  /\ status' = [status EXCEPT ![w] = "running"]
  /\ calls' = [q \in DOMAIN others \cup {Root(w)} |->
                 IF q = Root(w) THEN [phase |-> "called", round |-> 0] ELSE others[q]]
  /\ UNCHANGED <<flags, nodes, outputs, starts, requested>>

------------------------------------------------------------------------------

RoundsLeft(p) == calls[p].round < Limit[NodeOf(p)]

(* executeLoopNode: one more iteration, conditions being up to outputs. *)
Iterate(p) ==
  /\ RoundsLeft(p)
  /\ Of(p) \notin flags
  /\ Run(p, Inner[NodeOf(p)], nodes)

(* executeRetryNode: an attempt, the target's record being reset first. *)
Attempt(p) ==
  LET target == Inner[NodeOf(p)]
  IN  Run(p, target, [n \in Node |-> IF n \in target THEN "pending" ELSE nodes[n]])

(* p is next on the stack: of the calls of its walk not entered, none is   *)
(* deeper, and none that was entered is still before its await.            *)
Turn(p) ==
  \A q \in DOMAIN calls : q # p /\ Of(q) = Of(p) =>
    calls[q].phase # "begun" /\ (calls[q].phase = "called" => Len(q) <= Len(p))

(* executeNode() checks for a cancellation, and sets the record. *)
Enter(p) ==
  /\ calls[p].phase = "called"
  /\ Turn(p)
  /\ IF Stopped(Of(p)) THEN Settle(p, "ok") /\ UNCHANGED <<nodes, starts>>
     ELSE /\ GoesTo(p, "begun")
          /\ nodes' = [nodes EXCEPT ![NodeOf(p)] = "running"]
          /\ starts' = [starts EXCEPT ![NodeOf(p)] = @ + 1]
  /\ UNCHANGED <<status, flags, outputs, requested>>

(* The strategy of the node begins, up to its await.  Only a noop has none *)
(* and completes here; a strategy that calls nothing returns after one.    *)
BeginAgent(p) ==
  /\ Kind[NodeOf(p)] = "agent"
  /\ GoesTo(p, "agent")
  /\ UNCHANGED <<status, flags, nodes, outputs, starts, requested>>

BeginNoop(p) == Kind[NodeOf(p)] = "noop" /\ Complete(p)

BeginParallel(p) == Kind[NodeOf(p)] = "parallel" /\ Run(p, Inner[NodeOf(p)], nodes)

BeginConditional(p) ==
  /\ Kind[NodeOf(p)] = "conditional"
  /\ \/ \E branch \in Inner[NodeOf(p)] : Run(p, {branch}, nodes)
     \/ Cardinality(Inner[NodeOf(p)]) < 2 /\ Run(p, {}, nodes)

BeginLoop(p) == Kind[NodeOf(p)] = "loop" /\ (Iterate(p) \/ Run(p, {}, nodes))

BeginRetry(p) == Kind[NodeOf(p)] = "retry" /\ Attempt(p)

(* Bound: a graph is executed once. *)
BeginSubWorkflow(p) ==
  /\ Kind[NodeOf(p)] = "subWorkflow"
  /\ status[Sub[NodeOf(p)]] = "none"
  /\ Started(Sub[NodeOf(p)], [calls EXCEPT ![p].phase = "sub"])

Begin(p) ==
  /\ calls[p].phase = "begun"
  /\ \/ BeginAgent(p)
     \/ BeginNoop(p)
     \/ BeginParallel(p)
     \/ BeginConditional(p)
     \/ BeginLoop(p)
     \/ BeginRetry(p)
     \/ BeginSubWorkflow(p)

------------------------------------------------------------------------------
(* The stack is empty: awaited promises go on. *)
Unwound == \A p \in DOMAIN calls : calls[p].phase \notin {"called", "begun"}

\* Mutant: Promise.any(), the first branch to return decides.
AllReturned_First(p) == \E q \in CalledBy(p) : calls[q].phase = "ok"

AllReturned(p) == \A q \in CalledBy(p) : calls[q].phase = "ok"

SomeThrew(p) == \E q \in CalledBy(p) : calls[q].phase = "error"

(* The calls of the strategy returned. *)
BodyReturns(p) ==
  /\ Unwound
  /\ calls[p].phase = "body"
  /\ AllReturned(p)
  /\ \/ Kind[NodeOf(p)] = "loop" /\ CalledBy(p) # {} /\ Iterate(p)
     \/ Complete(p)

(* One of them threw: a retry waits for its next attempt, or makes it at   *)
(* once when the workflow was cancelled.                                   *)
BodyThrows(p) ==
  /\ Unwound
  /\ calls[p].phase = "body"
  /\ SomeThrew(p)
  /\ IF Kind[NodeOf(p)] = "retry" /\ RoundsLeft(p)
     THEN IF Of(p) \in flags THEN Attempt(p)
          ELSE GoesTo(p, "sleep") /\ UNCHANGED <<status, flags, nodes, outputs, starts, requested>>
     ELSE Fail(p)

(* advanceToSuccessors() returned or threw: the node's record stays. *)
NextReturns(p) ==
  /\ Unwound
  /\ calls[p].phase = "next"
  /\ \/ AllReturned(p) /\ Settle(p, "ok")
     \/ SomeThrew(p) /\ Settle(p, "error")
  /\ UNCHANGED <<status, flags, nodes, outputs, starts, requested>>

Ended(w) == status[w] \in {"completed", "failed", "cancelled"}

SubWorkflowReturns(p) ==
  /\ Unwound
  /\ calls[p].phase = "sub"
  /\ Ended(Sub[NodeOf(p)])
  /\ IF status[Sub[NodeOf(p)]] = "completed" THEN Complete(p) ELSE Fail(p)

\* Mutant: how the walk settled is taken for the status.
Outcome_Phase(w) == IF w \in flags THEN "cancelled" ELSE calls[Root(w)].phase

\* Mutant: a cancelled walk that returns counts as completed.
Outcome_IgnoresFlag(w) ==
  IF calls[Root(w)].phase = "error" THEN "failed" ELSE "completed"

(* What executeWorkflow() finalizes with *)
Outcome(w) ==
  IF calls[Root(w)].phase = "error" THEN "failed"
  ELSE IF w \in flags THEN "cancelled" ELSE "completed"

\* Mutant: the exception of the walk is not caught.
Finalize_Uncaught(w) ==
  /\ Unwound
  /\ Root(w) \in DOMAIN calls
  /\ calls[Root(w)].phase = "ok"
  /\ status' = [status EXCEPT ![w] = Outcome(w)]
  /\ flags' = flags \ {w}
  /\ calls' = [q \in DOMAIN calls \ {Root(w)} |-> calls[q]]
  /\ UNCHANGED <<nodes, outputs, starts, requested>>

(* finalize: the flag is deleted, activations nobody awaits go on. *)
Finalize(w) ==
  /\ Unwound
  /\ Root(w) \in DOMAIN calls
  /\ calls[Root(w)].phase \in {"ok", "error"}
  /\ status' = [status EXCEPT ![w] = Outcome(w)]
  /\ flags' = flags \ {w}
  /\ calls' = [q \in DOMAIN calls \ {Root(w)} |-> calls[q]]
  /\ UNCHANGED <<nodes, outputs, starts, requested>>

------------------------------------------------------------------------------
(* Tasks of their own. *)
Quiet ==
  /\ Unwound
  /\ \A p \in DOMAIN calls :
    /\ calls[p].phase \in {"body", "next"} => ~AllReturned(p) /\ ~SomeThrew(p)
    /\ calls[p].phase = "sub" => ~Ended(Sub[NodeOf(p)])
    /\ calls[p].phase \in {"ok", "error"} => Len(p) > 1

(* The agent coordinator answers, with a failure at a timeout or error. *)
AgentAnswers(p) ==
  /\ Quiet
  /\ calls[p].phase = "agent"
  /\ Complete(p) \/ Fail(p)

DelayEnds(p) == Quiet /\ calls[p].phase = "sleep" /\ Attempt(p)

Embedded == {Sub[n] : n \in DOMAIN Sub}

ExecuteWorkflow(w) ==
  /\ Quiet
  /\ w \notin Embedded
  /\ status[w] = "none"
  /\ Started(w, calls)

CancelWorkflow(w) ==
  /\ Quiet
  /\ status[w] = "running"
  /\ flags' = flags \cup {w}
  /\ requested' = requested \cup {w}
  /\ UNCHANGED <<status, nodes, outputs, calls, starts>>

Next ==
  \/ \E p \in DOMAIN calls :
       \/ Enter(p)
       \/ Begin(p)
       \/ BodyReturns(p)
       \/ BodyThrows(p)
       \/ NextReturns(p)
       \/ SubWorkflowReturns(p)
       \/ AgentAnswers(p)
       \/ DelayEnds(p)
  \/ \E w \in Workflow :
       \/ Finalize(w)
       \/ ExecuteWorkflow(w)
       \/ CancelWorkflow(w)

Spec == Init /\ [][Next]_vars

(* Promises go on, timers fire, and every agent node has a timeout: *)
(* clients need not do anything.                                    *)
Progress ==
  \/ \E p \in DOMAIN calls :
       \/ Enter(p) \/ Begin(p) \/ BodyReturns(p) \/ BodyThrows(p)
       \/ NextReturns(p) \/ SubWorkflowReturns(p) \/ AgentAnswers(p) \/ DelayEnds(p)
  \/ \E w \in Workflow : Finalize(w)

FairSpec == Spec /\ WF_vars(Progress)

------------------------------------------------------------------------------
Active == {p \in DOMAIN calls : calls[p].phase \in {"called", "begun", "agent", "sub", "sleep", "body"}}

TypeOK ==
  /\ status \in [Workflow -> {"none", "running", "completed", "failed", "cancelled"}]
  /\ flags \subseteq requested /\ requested \subseteq Workflow
  /\ nodes \in [Node -> {"pending", "running", "completed", "failed"}]
  /\ outputs \subseteq Node
  /\ starts \in [Node -> Nat]
  /\ \A p \in DOMAIN calls : /\ p \in Seq(Node \X Nat) /\ p # << >>
                             /\ calls[p] \in [phase : Phase, round : Nat]

(* A node shown as running is being executed: no rejected Promise.all(),   *)
(* retry or cancellation leaves a record behind that stays 'running'.      *)
RunningIsActive ==
  \A n \in Node : nodes[n] = "running" =>
    \E p \in Active : NodeOf(p) = n /\ calls[p].phase # "called"

(* Nodes that strategies call *)
Contained == UNION {Inner[n] : n \in Node}

(* Nodes that are only reached over edges *)
Chained == Node \ (Contained \cup {Entry[w] : w \in Workflow})

(* A graph of boxes in boxes: a node is in one other at most, and only the *)
(* nodes that are in none and are no entry are reached over edges.         *)
Nested ==
  /\ \A m, n \in Node : Inner[m] \cap Inner[n] # {} => m = n
  /\ \A w \in Workflow : Entry[w] \notin Contained
  /\ \A e \in Edge : e[2] \in Chained

(* A node reached over edges starts when the outputs of all its            *)
(* predecessors are there for ${outputs.x}: the join waits for every       *)
(* branch, in whatever order they end and however often one is retried.    *)
InputsReady == \A n \in Chained : starts[n] > 0 => Predecessors(n) \subseteq outputs

(* A node reached over edges starts once in an execution, although several *)
(* branches lead to it and a retry may complete its predecessor again.     *)
ConvergesOnce == \A n \in Chained : starts[n] <= 1

(* p belongs to an attempt that a retry node has given up. *)
GivenUp(p) ==
  \E i \in 1 .. Len(p) - 1 :
    LET retry == Caller(p, i)
    IN  /\ Kind[NodeOf(retry)] = "retry"
        /\ p[i + 1][1] \in Inner[NodeOf(retry)]
        /\ ~(/\ retry \in DOMAIN calls
             /\ calls[retry].phase = "body"
             /\ calls[retry].round = p[i + 1][2])

(* A node is executed once at a time, but for attempts that were given up  *)
(* with a branch still running.                                            *)
OverlapIsRetry ==
  \A p, q \in Active :
    NodeOf(p) = NodeOf(q) /\ p # q => GivenUp(p) \/ GivenUp(q)

(* A workflow is completed only when its cancellation was not requested    *)
(* and its entry completed, cancelled only on request, failed only with a  *)
(* failed node.                                                            *)
OutcomeHonest ==
  \A w \in Workflow :
    /\ status[w] = "completed" => w \notin requested /\ nodes[Entry[w]] = "completed"
    /\ status[w] = "cancelled" => w \in requested
    /\ status[w] = "failed" => \E n \in Node : WorkflowOf[n] = w /\ nodes[n] = "failed"

(* When a workflow completed or ended cancelled, nothing of it is still    *)
(* running but what a retry gave up: Promise.all() and nested walks are    *)
(* all awaited.                                                            *)
CompletedIsQuiet ==
  \A w \in Workflow : status[w] \in {"completed", "cancelled"} =>
    \A p \in Active : Of(p) = w => GivenUp(p)

(* However branches fail, retries repeat them and cancellations meet them, *)
(* nothing is left behind: no record without an execution, no execution    *)
(* beside another one but in a retry, and none in a completed workflow.    *)
NothingLeftBehind == RunningIsActive /\ OverlapIsRetry /\ CompletedIsQuiet

(* A workflow that runs ends, if every agent answers or times out.         *)
WorkflowsEnd == \A w \in Workflow : status[w] = "running" ~> Ended(w)

------------------------------------------------------------------------------
(* What comments of the code say and the code does not do.                 *)

(* "On full completion publish WorkflowCompleted; on any unrecovered       *)
(* failure publish WorkflowFailed." (class comment)                        *)
CompletedHasNoFailure ==
  \A w \in Workflow : status[w] = "completed" =>
    \A n \in Node : WorkflowOf[n] = w => nodes[n] # "failed"

==============================================================================
