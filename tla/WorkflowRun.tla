----------------------------- MODULE WorkflowRun -----------------------------
(***************************************************************************)
(* The runtime's workflows: workflows/workflow_runner.py with the executor *)
(* that walks the graph layer by layer (workflow_executor.py) and the      *)
(* rollback manager (workflow_rollback.py).                                *)
(*                                                                         *)
(* run() and execute_step() may be called while others are under way; each *)
(* holds on to the state object that was in place when it was called,      *)
(* whereas rollback() puts a new one in place.  An action runs from one    *)
(* await to the next: the condition and the action of a node are awaited,  *)
(* gather() is awaited for a layer.  A runner has no event bus unless its  *)
(* caller gives it one, and none is modelled.  Of a state's outputs only   *)
(* whose they are is kept, which is completed_nodes; failed_nodes, which   *)
(* nothing reads, is left out.                                             *)
(***************************************************************************)
EXTENDS Naturals, Sequences, FiniteSets

CONSTANTS
  Node,
  Deps,          \* node -> its dependencies
  Conditional,   \* nodes that have a condition
  MaxAttempts,   \* retry_policy.max_attempts
  MaxCalls,      \* bound: calls of run() and execute_step()
  StepNode,      \* bound: nodes execute_step() is called for
  Payload,       \* bound: states saved earlier that are loaded
  MaxOrders      \* bound: calls of pause(), resume(), cancel(), rollback(), restore()

Status == {"idle", "running", "paused", "cancelled", "completed", "failed", "rolled_back"}

(* The graph is one that validate() accepts: without a cycle, which is to  *)
(* say that every set of nodes has one that waits for no other of the set. *)
ASSUME GraphAssumption ==
  /\ Node # {}
  /\ Deps \in [Node -> SUBSET Node]
  /\ \A S \in SUBSET Node : S # {} => \E n \in S : Deps[n] \cap S = {}
  /\ Conditional \subseteq Node
  /\ StepNode \subseteq Node
  /\ Payload \subseteq [status : Status, completed : SUBSET Node]
  /\ MaxAttempts \in Nat
  /\ MaxCalls \in Nat
  /\ MaxOrders \in Nat

VARIABLES
  states,       \* the WorkflowExecutionState objects; the last is in place
  checkpoints,  \* the runner's list of snapshots: what was completed
  cancelSet,    \* _cancel_event
  calls,        \* call -> the locals of run() or execute_step()
  work,         \* call -> node -> where its execution is
  attempts,     \* call -> node -> attempts begun, while it executes
  orders,       \* how many of MaxOrders have been given
  undone        \* history: calls that were under way at a rollback()

vars == <<states, checkpoints, cancelSet, calls, work, attempts, orders, undone>>

\* "created": its condition is awaited; "attempting": its action is, or the
\* delay before the next attempt.
Work == {"none", "created", "attempting", "done", "skipped", "raised"}
Ended == {"done", "skipped", "raised"}

\* Calls are numbered in the order in which they are made: each makes a
\* checkpoint.
Call == 1 .. MaxCalls
NewCall(c) == c = Len(checkpoints) + 1

InPlace == Len(states)
Begun(kind, layer) == [kind |-> kind, own |-> InPlace, layer |-> layer, visited |-> layer,
                       results |-> {}, outcome |-> "none"]
Returned(kind, outcome) == [kind |-> kind, own |-> 1, layer |-> {}, visited |-> {},
                            results |-> {}, outcome |-> outcome]
NoCall == Returned("none", "none")
UnderWay(c) == calls[c].kind # "none" /\ calls[c].outcome = "none"
Open(c) == {n \in Node : work[c][n] \in {"created", "attempting"}}

Init ==
  /\ states = <<[status |-> "idle", completed |-> {}]>>
  /\ checkpoints = << >>
  /\ cancelSet = FALSE
  /\ calls = [c \in Call |-> NoCall]
  /\ work = [c \in Call |-> [n \in Node |-> "none"]]
  /\ attempts = [c \in Call |-> [n \in Node |-> 0]]
  /\ orders = 0
  /\ undone = {}

------------------------------------------------------------------------------
(* A layer of topological_layers(): the nodes whose last dependency was in *)
(* the layers before.                                                      *)
NextLayer(visited) == {n \in Node \ visited : Deps[n] \subseteq visited}

Starts(layer, was) == [n \in Node |-> IF n \in layer THEN "created" ELSE was[n]]

(* run(), and execute() up to the first gather() *)
Run(c) ==
  /\ NewCall(c)
  /\ cancelSet' = FALSE
  /\ checkpoints' = Append(checkpoints, states[InPlace].completed)
  /\ states' = [states EXCEPT ![InPlace].status = "running"]
  /\ LET layer == NextLayer({})
     IN  /\ calls' = [calls EXCEPT ![c] = Begun("run", layer)]
         /\ work' = [work EXCEPT ![c] = Starts(layer, @)]
  /\ UNCHANGED <<attempts, orders, undone>>

(* execute_step(), whatever its dependencies have come to *)
ExecuteStep(c, n) ==
  /\ NewCall(c)
  /\ checkpoints' = Append(checkpoints, states[InPlace].completed)
  /\ calls' = [calls EXCEPT ![c] = Begun("step", {n})]
  /\ \/ /\ n \in Conditional
        /\ work' = [work EXCEPT ![c][n] = "created"]
        /\ UNCHANGED <<states, attempts>>
     \/ /\ n \notin Conditional
        /\ work' = [work EXCEPT ![c][n] = "attempting"]
        /\ attempts' = [attempts EXCEPT ![c][n] = 1]
        /\ states' = [states EXCEPT ![InPlace].status = "running"]
  /\ UNCHANGED <<cancelSet, orders, undone>>

(* execute_node() passes its condition and begins its first attempt. *)
Enters(c, n) ==
  /\ work[c][n] = "created"
  /\ work' = [work EXCEPT ![c][n] = "attempting"]
  /\ attempts' = [attempts EXCEPT ![c][n] = 1]
  /\ states' = [states EXCEPT ![calls[c].own].status = "running"]
  /\ UNCHANGED <<checkpoints, cancelSet, calls, orders, undone>>

(* The call returns or raises: its locals and those of its nodes that have *)
(* ended are gone.                                                         *)
Ends(c, outcome) ==
  /\ calls' = [calls EXCEPT ![c] = Returned(calls[c].kind, outcome)]
  /\ work' = [work EXCEPT ![c] = [n \in Node |-> IF @[n] \in Ended THEN "none" ELSE @[n]]]

(* n ends: so does a step's call, a run's goes on waiting. *)
NodeEnds(c, n, how, outcome) ==
  /\ attempts' = [attempts EXCEPT ![c][n] = 0]
  /\ \/ /\ calls[c].kind = "run"
        /\ work' = [work EXCEPT ![c][n] = how]
        /\ UNCHANGED calls
     \/ /\ calls[c].kind = "step"
        /\ calls' = [calls EXCEPT ![c] = Returned("step", outcome)]
        /\ work' = [work EXCEPT ![c][n] = "none"]

(* The condition says no: None is the result, for the layer to record. *)
Skips(c, n) ==
  /\ work[c][n] = "created"
  /\ n \in Conditional
  /\ NodeEnds(c, n, "skipped", "completed")
  /\ UNCHANGED <<states, checkpoints, cancelSet, orders, undone>>

(* The condition raises, outside of the attempts: the state is not told. *)
ConditionRaises(c, n) ==
  /\ work[c][n] = "created"
  /\ n \in Conditional
  /\ NodeEnds(c, n, "raised", "failed")
  /\ UNCHANGED <<states, checkpoints, cancelSet, orders, undone>>

Succeeds(c, n) ==
  /\ work[c][n] = "attempting"
  /\ NodeEnds(c, n, "done", "completed")
  /\ states' = [states EXCEPT ![calls[c].own].completed = @ \cup {n}]
  /\ UNCHANGED <<checkpoints, cancelSet, orders, undone>>

(* An attempt raises: the last one fails the node, after another the next  *)
(* follows, with its delay.                                                *)
Fails(c, n) ==
  /\ work[c][n] = "attempting"
  /\ \/ /\ attempts[c][n] >= MaxAttempts
        /\ NodeEnds(c, n, "raised", "failed")
        /\ states' = [states EXCEPT ![calls[c].own].status = "failed"]
     \/ /\ attempts[c][n] < MaxAttempts
        /\ attempts' = [attempts EXCEPT ![c][n] = @ + 1]
        /\ UNCHANGED <<work, states, calls>>
  /\ UNCHANGED <<checkpoints, cancelSet, orders, undone>>

------------------------------------------------------------------------------
\* Mutant: a node that is skipped is never gathered.
Gathered_NotSkipped(c) ==
  /\ calls[c].kind = "run"
  /\ calls[c].outcome = "none"
  /\ \A n \in calls[c].layer : work[c][n] \in {"done", "raised"}

(* execute() goes on after gather(): every node of the layer has ended. *)
Gathered(c) ==
  /\ calls[c].kind = "run"
  /\ calls[c].outcome = "none"
  /\ \A n \in calls[c].layer : work[c][n] \in Ended

Raised(c) == {n \in calls[c].layer : work[c][n] = "raised"}

\* Mutant: gather() without return_exceptions.
LayerFails_AtOnce(c) ==
  /\ UnderWay(c)
  /\ calls[c].kind = "run"
  /\ Raised(c) # {}
  /\ states' = [states EXCEPT ![calls[c].own].status = "failed"]
  /\ Ends(c, "failed")
  /\ UNCHANGED <<checkpoints, cancelSet, attempts, orders, undone>>

(* A node of the layer raised: the run fails.  The others that come before *)
(* it in the layer have been recorded, those done once more, which tells   *)
(* when a payload was loaded meanwhile; the order is left open.            *)
LayerFails(c) ==
  /\ Gathered(c)
  /\ Raised(c) # {}
  /\ \E before \in SUBSET (calls[c].layer \ Raised(c)) :
       states' = [states EXCEPT ![calls[c].own].completed = @ \cup before,
                                ![calls[c].own].status = "failed"]
  /\ Ends(c, "failed")
  /\ UNCHANGED <<checkpoints, cancelSet, attempts, orders, undone>>

(* What becomes of c's own state when its layer is recorded and the run    *)
(* ends with the status that holds then.                                   *)
Recorded(c) == [states[calls[c].own] EXCEPT !.completed = @ \cup calls[c].layer]

\* Mutant: exceptions among the results are recorded like values.
LayerEnds_Blind(c) ==
  /\ Gathered(c)
  /\ LET next == NextLayer(calls[c].visited)
     IN  /\ next # {}
         /\ calls' = [calls EXCEPT ![c].layer = next, ![c].visited = @ \cup next,
                                   ![c].results = @ \cup (calls[c].layer \ Raised(c))]
         /\ work' = [work EXCEPT ![c] = Starts(next, @)]
  /\ UNCHANGED <<states, checkpoints, cancelSet, attempts, orders, undone>>

(* The results are recorded and the next layer begins, ... *)
LayerEnds(c) ==
  LET next == NextLayer(calls[c].visited)
  IN  /\ Gathered(c)
      /\ Raised(c) = {}
      /\ next # {}
      /\ ~cancelSet
      /\ states' = [states EXCEPT ![calls[c].own] = Recorded(c)]
      /\ calls' = [calls EXCEPT ![c].layer = next, ![c].visited = @ \cup next,
                                ![c].results = @ \cup calls[c].layer]
      /\ work' = [work EXCEPT ![c] = Starts(next, @)]
      /\ UNCHANGED <<checkpoints, cancelSet, attempts, orders, undone>>

\* Mutant: the cancelled run leaves the loop without a word.
RunEnds_Unmarked(c) ==
  LET status == Recorded(c).status
      last == IF status # "cancelled" THEN "completed" ELSE status
  IN  /\ Gathered(c)
      /\ Raised(c) = {}
      /\ NextLayer(calls[c].visited) = {} \/ cancelSet
      /\ states' = [states EXCEPT ![calls[c].own] = [Recorded(c) EXCEPT !.status = last]]
      /\ Ends(c, last)
      /\ UNCHANGED <<checkpoints, cancelSet, attempts, orders, undone>>

(* ... or there is none, or the cancel event is set: the run returns the   *)
(* status of its state.                                                    *)
RunEnds(c) ==
  LET next == NextLayer(calls[c].visited)
      status == IF next # {} THEN "cancelled" ELSE Recorded(c).status
      last == IF status # "cancelled" THEN "completed" ELSE status
  IN  /\ Gathered(c)
      /\ Raised(c) = {}
      /\ next = {} \/ cancelSet
      /\ states' = [states EXCEPT ![calls[c].own] = [Recorded(c) EXCEPT !.status = last]]
      /\ Ends(c, last)
      /\ UNCHANGED <<checkpoints, cancelSet, attempts, orders, undone>>

------------------------------------------------------------------------------
(* pause, resume: only the status is written *)
Marks(status) ==
  /\ states' = [states EXCEPT ![InPlace].status = status]
  /\ UNCHANGED <<checkpoints, cancelSet, calls, work, attempts, undone>>

Cancel ==
  /\ cancelSet' = TRUE
  /\ states' = [states EXCEPT ![InPlace].status = "cancelled"]
  /\ UNCHANGED <<checkpoints, calls, work, attempts, undone>>

RolledBack == [status |-> "rolled_back", completed |-> checkpoints[Len(checkpoints)]]

\* Mutant: the state in place is overwritten, as by deserialise_state().
Rollback_InPlace ==
  /\ checkpoints # << >>
  /\ states' = [states EXCEPT ![InPlace] = RolledBack]
  /\ undone' = undone \cup {c \in Call : UnderWay(c)}
  /\ UNCHANGED <<checkpoints, cancelSet, calls, work, attempts>>

(* rollback: a new state object with what the last checkpoint holds *)
Rollback ==
  \/ /\ checkpoints = << >>
     /\ Marks("rolled_back")
  \/ /\ checkpoints # << >>
     /\ states' = Append(states, RolledBack)
     /\ undone' = undone \cup {c \in Call : UnderWay(c)}
     /\ UNCHANGED <<checkpoints, cancelSet, calls, work, attempts>>

(* deserialise_state, for load_state() and for the restore() of the        *)
(* rollback manager: the object in place is overwritten.                   *)
DeserialiseState(payload) ==
  /\ states' = [states EXCEPT ![InPlace] = payload]
  /\ UNCHANGED <<checkpoints, cancelSet, calls, work, attempts, undone>>

Order ==
  /\ orders < MaxOrders
  /\ orders' = orders + 1
  /\ \/ \E status \in {"paused", "running"} : Marks(status)
     \/ Cancel
     \/ Rollback
     \/ \E payload \in Payload : DeserialiseState(payload)

NodeStep(c, n) ==
  Enters(c, n) \/ Skips(c, n) \/ ConditionRaises(c, n) \/ Succeeds(c, n) \/ Fails(c, n)
LayerStep(c) == LayerFails(c) \/ LayerEnds(c) \/ RunEnds(c)

Next ==
  \/ \E c \in Call :
       \/ Run(c)
       \/ \E n \in StepNode : ExecuteStep(c, n)
       \/ \E n \in Node : NodeStep(c, n)
       \/ LayerStep(c)
  \/ Order

Spec == Init /\ [][Next]_vars

(* Conditions and actions of nodes come to an end, and what awaits them is *)
(* resumed.                                                                *)
FairSpec ==
  /\ Spec
  /\ \A c \in Call : WF_vars(LayerStep(c) \/ \E n \in Node : NodeStep(c, n))

------------------------------------------------------------------------------
TypeOK ==
  /\ states \in Seq([status : Status, completed : SUBSET Node]) /\ states # << >>
  /\ checkpoints \in Seq(SUBSET Node)
  /\ cancelSet \in BOOLEAN
  /\ calls \in [Call -> [kind : {"none", "run", "step"}, own : Nat \ {0}, layer : SUBSET Node,
                         visited : SUBSET Node, results : SUBSET Node,
                         outcome : {"none", "completed", "cancelled", "failed"}]]
  /\ \A c \in Call : calls[c].own <= Len(states)
  /\ work \in [Call -> [Node -> Work]]
  /\ attempts \in [Call -> [Node -> Nat]]
  /\ orders \in 0 .. MaxOrders
  /\ undone \subseteq Call

(* A node of a run is asked, and executed, with the result of each of its  *)
(* dependencies: whatever fails, is skipped, cancelled, rolled back or run *)
(* a second time meanwhile, a layer begins with all that it needs.         *)
InputsComplete ==
  \A c \in Call : calls[c].kind = "run" =>
    \A n \in Open(c) : Deps[n] \subseteq calls[c].results

(* When run() or execute_step() returns or raises nothing of it goes on:   *)
(* the siblings of a node that failed are waited for.                      *)
EndedIsQuiet == \A c \in Call : ~UnderWay(c) => Open(c) = {}

(* A run returns 'completed' only with every node of the graph executed or *)
(* skipped, and raises exactly when the condition or the last attempt of   *)
(* one of them raised: what other calls write into the shared state and    *)
(* the cancel event does not blur it.                                      *)
OutcomeHonest ==
  [][\A c \in Call : calls[c].kind = "run" /\ UnderWay(c) /\ ~UnderWay(c)' =>
       /\ calls'[c].outcome = "completed" =>
            Node = calls[c].results \cup {n \in Node : work[c][n] \in {"done", "skipped"}}
       /\ calls'[c].outcome = "failed" <=> \E n \in Node : work[c][n] = "raised"]_vars

(* What a call does after a rollback() that found it under way does not    *)
(* reach the state that rollback() put in place.                           *)
UndoneIsInert ==
  [][\A c \in undone : work'[c] # work[c] \/ calls'[c] # calls[c]
                         => states'[Len(states')] = states[InPlace]]_vars

(* A call comes to its end, whatever fails, is cancelled or rolled back. *)
CallsEnd == \A c \in Call : UnderWay(c) ~> ~UnderWay(c)
==============================================================================
