---------------------------- MODULE AgentCoordinator ----------------------------
(***************************************************************************)
(* common/agents/agentCoordinator.ts with the dispatcher wired into it     *)
(* (browser/agents/agentDispatcher.ts): one slot per registered agent, a   *)
(* queue of requests, and the executions under way.                        *)
(*                                                                         *)
(* An action runs from one await to the next.  executeAgent() up to its    *)
(* await includes dispatch() up to its own: the runtime is asked at once.  *)
(* unregisterAgent() and restartAgent() await cancelAgent() and go on in a *)
(* later microtask: such a call is suspended in between.                   *)
(***************************************************************************)
EXTENDS PriorityQueue

CONSTANTS
  Agent, Request,
  NoRequest,   \* activeExecutionId and lastRequest undefined
  AgentOf,     \* request -> its agent
  Weight,      \* request -> its priorityWeight
  Timed,       \* requests with timeoutMs > 0
  Direct,      \* requests their makers hand to executeAgent(), as often as
               \* they like: the others are made by queueAgent()
  Execution,   \* bound: the calls of executeAgent() that reach the dispatcher
  NoExecution, \* no controller in cancellationMap
  Call,        \* bound: suspended unregisterAgent() and restartAgent() calls
  InitWired    \* whether setDispatcher() has been called at the start

ASSUME CoordinatorAssumption ==
  /\ NoRequest \notin Request
  /\ AgentOf \in [Request -> Agent]
  /\ Weight \in [Request -> 1 .. 4]
  /\ Timed \subseteq Request
  /\ Direct \subseteq Request
  /\ NoExecution \notin Execution
  /\ InitWired \in BOOLEAN

VARIABLES
  slots,        \* agent -> its IAgentSlot
  pending,      \* pendingQueue
  controllers,  \* cancellationMap: request -> execution whose controller it has
  wired,        \* dispatchFn is set
  stage,        \* request of queueAgent() -> where it is
  runs,         \* execution -> its request and where it is, see RunStage
  answer,       \* request -> status of the last response for it, or "none"
  work,         \* executions the runtime is still working on
  suspended,    \* call -> the asynchronous call suspended there
  shown,        \* request -> the state of its task in the state service
  aborted,      \* history: executions whose controller was aborted
  overlapped    \* history: requests executed again during an execution

vars == <<slots, pending, controllers, wired, stage, runs, answer, work, suspended, shown,
          aborted, overlapped>>

\* "taken": shifted from the queue by drainQueue.
Stage == {"new", "queued", "dropped", "taken"}

\* "success", "failed": dispatch() has resolved so, executeAgent() has not
\* gone on yet.
RunStage == {"unused", "executing", "success", "failed", "returned"}
Unused == [request |-> NoRequest, stage |-> "unused"]

Executing(r) == {e \in Execution : runs[e] = [request |-> r, stage |-> "executing"]}
Live(r) ==
  {e \in Execution : runs[e].request = r /\ runs[e].stage \in {"executing", "success", "failed"}}

NoSlot == [state |-> "absent", active |-> NoRequest]
NoCall == [kind |-> "none"]
Of(agent) == {r \in Request : AgentOf[r] = agent}

Init ==
  /\ slots = [agent \in Agent |-> NoSlot]
  /\ pending = << >>
  /\ controllers = [r \in Request |-> NoExecution]
  /\ wired = InitWired
  /\ stage = [r \in Request |-> "new"]
  /\ runs = [e \in Execution |-> Unused]
  /\ answer = [r \in Request |-> "none"]
  /\ work = {}
  /\ suspended = [call \in Call |-> NoCall]
  /\ shown = [r \in Request |-> "absent"]
  /\ aborted = {}
  /\ overlapped = {}

------------------------------------------------------------------------------
(* transitionSlot: nothing for an agent without a slot. *)
Transition(s, agent, state, request) ==
  IF s[agent] = NoSlot THEN s
  ELSE [s EXCEPT ![agent] = [state |-> state, active |-> request]]

(* executeAgent and dispatch of r up to their awaits, s the slots before:  *)
(* the controller and the task shown are keyed by the request, whatever    *)
(* earlier execution of it is under way or still worked on.                *)
Begin(s, r, e) ==
  /\ runs[e] = Unused
  /\ runs' = [runs EXCEPT ![e] = [request |-> r, stage |-> "executing"]]
  /\ slots' = Transition(s, AgentOf[r], "running", r)
  /\ controllers' = [controllers EXCEPT ![r] = e]
  /\ work' = work \cup {e}
  /\ shown' = [shown EXCEPT ![r] = "running"]
  /\ overlapped' = IF Live(r) = {} THEN overlapped ELSE overlapped \cup {r}

(* drainQueue of a non-empty queue: the head is executed, one per call and *)
(* none before the dispatcher is wired.                                    *)
DrainQueue(s, queue, newStage) ==
  IF wired
  THEN /\ pending' = Tail(queue)
       /\ stage' = [newStage EXCEPT ![Head(queue)] = "taken"]
       /\ \E e \in Execution : Begin(s, Head(queue), e)
  ELSE /\ pending' = queue /\ stage' = newStage /\ slots' = s
       /\ UNCHANGED <<controllers, runs, work, shown, overlapped>>

(* queueAgent: every call makes a request of its own. *)
QueueAgent(r) ==
  /\ r \notin Direct
  /\ stage[r] = "new"
  /\ DrainQueue(Transition(slots, AgentOf[r], "queued", NoRequest),
                InsertByPriority(pending, r, Weight),
                [stage EXCEPT ![r] = "queued"])
  /\ UNCHANGED <<wired, answer, suspended, aborted>>

(* executeAgent, called by the task scheduler, a first time and for every  *)
(* retry, by the workflow engine or the chat.  Before the dispatcher is    *)
(* wired it only throws.                                                   *)
ExecuteAgent(r) ==
  /\ r \in Direct
  /\ wired
  /\ \E e \in Execution : Begin(slots, r, e)
  /\ UNCHANGED <<pending, wired, stage, answer, suspended, aborted>>

(* dispatch() resolves, publishing the outcome: the runtime answered, or   *)
(* its own timeout won.                                                    *)
DispatchEnds(e, status) ==
  LET r == runs[e].request
  IN  /\ runs[e].stage = "executing"
      /\ \/ /\ e \in work
            /\ work' = work \ {e}
         \/ /\ r \in Timed
            /\ status = "failed"
            /\ UNCHANGED work
      /\ runs' = [runs EXCEPT ![e].stage = status]
      /\ answer' = [answer EXCEPT ![r] = status]
      /\ shown' = [shown EXCEPT ![r] = IF status = "success" THEN "completed" ELSE "failed"]
      /\ UNCHANGED <<slots, pending, controllers, wired, stage, suspended, aborted, overlapped>>

\* Mutant: the late answer is published like one in time.
LateAnswer_Published(e) ==
  /\ e \in work
  /\ runs[e].stage # "executing"
  /\ work' = work \ {e}
  /\ shown' = [shown EXCEPT ![runs[e].request] = "completed"]
  /\ UNCHANGED <<slots, pending, controllers, wired, stage, runs, answer, suspended, aborted,
                 overlapped>>

(* The runtime answers after the timeout: the race is over. *)
LateAnswer(e) ==
  /\ e \in work
  /\ runs[e].stage # "executing"
  /\ work' = work \ {e}
  /\ UNCHANGED <<slots, pending, controllers, wired, stage, runs, answer, suspended, shown,
                 aborted, overlapped>>

(* The slot when an execution of r returns with status *)
Freed(r, status) ==
  Transition(slots, AgentOf[r], IF status = "success" THEN "completed" ELSE "failed", NoRequest)

\* Mutant: the controller is only deleted on success.
Returns_KeepsController(e) ==
  LET r == runs[e].request
  IN  /\ runs[e].stage \in {"success", "failed"}
      /\ runs' = [runs EXCEPT ![e].stage = "returned"]
      /\ controllers' = [controllers EXCEPT ![r] =
                           IF runs[e].stage = "success" THEN NoExecution ELSE @]
      /\ slots' = Freed(r, runs[e].stage)
      /\ UNCHANGED <<pending, wired, stage, answer, work, suspended, shown, aborted, overlapped>>

\* Mutant: only a success ends the slot's run.
Returns_KeepsSlot(e) ==
  LET r == runs[e].request
  IN  /\ runs[e].stage \in {"success", "failed"}
      /\ runs' = [runs EXCEPT ![e].stage = "returned"]
      /\ controllers' = [controllers EXCEPT ![r] = NoExecution]
      /\ slots' = IF runs[e].stage = "success" THEN Freed(r, "success") ELSE slots
      /\ UNCHANGED <<pending, wired, stage, answer, work, suspended, shown, aborted, overlapped>>

(* executeAgent() goes on after the await: whichever execution of the      *)
(* request put the controller there, it is deleted.                        *)
Returns(e) ==
  LET r == runs[e].request
  IN  /\ runs[e].stage \in {"success", "failed"}
      /\ runs' = [runs EXCEPT ![e].stage = "returned"]
      /\ controllers' = [controllers EXCEPT ![r] = NoExecution]
      /\ slots' = Freed(r, runs[e].stage)
      /\ UNCHANGED <<pending, wired, stage, answer, work, suspended, shown, aborted, overlapped>>

------------------------------------------------------------------------------
Registered(agent) == slots[agent] # NoSlot

(* registerAgent: an agent that has a slot keeps it. *)
RegisterAgent(agent) ==
  /\ ~Registered(agent)
  /\ slots' = [slots EXCEPT ![agent] = [state |-> "idle", active |-> NoRequest]]
  /\ UNCHANGED <<pending, controllers, wired, stage, runs, answer, work, suspended, shown,
                 aborted, overlapped>>

Dropped(agent) == [r \in Request |->
  IF r \in ToSet(pending) /\ AgentOf[r] = agent THEN "dropped" ELSE stage[r]]

(* The controller of the execution in agent's slot is aborted and          *)
(* forgotten, which stops nothing.                                         *)
AbortActive(agent) ==
  LET active == {slots[agent].active} \cap Request
  IN  /\ controllers' = [r \in Request |-> IF r \in active THEN NoExecution ELSE controllers[r]]
      /\ aborted' = aborted \cup ({controllers[r] : r \in active} \ {NoExecution})

\* Mutant: the agent's pending requests stay in the queue.
Cancelled_KeepsPending(agent) ==
  /\ AbortActive(agent)
  /\ UNCHANGED <<pending, stage>>
  /\ slots' = Transition(slots, agent, "cancelled", NoRequest)

(* cancelAgent of an agent with a slot: its pending requests go too. *)
Cancelled(agent) ==
  /\ AbortActive(agent)
  /\ pending' = Without(pending, Of(agent))
  /\ stage' = Dropped(agent)
  /\ slots' = Transition(slots, agent, "cancelled", NoRequest)

CancelAgent(agent) ==
  /\ Registered(agent)
  /\ Cancelled(agent)
  /\ UNCHANGED <<wired, runs, answer, work, suspended, shown, overlapped>>

(* unregisterAgent, first half: await cancelAgent *)
UnregisterAgent(agent, call) ==
  /\ suspended[call] = NoCall
  /\ suspended' = [suspended EXCEPT ![call] = [kind |-> "unregister", agent |-> agent]]
  /\ \/ Registered(agent) /\ Cancelled(agent)
     \/ ~Registered(agent) /\ UNCHANGED <<controllers, aborted, pending, stage, slots>>
  /\ UNCHANGED <<wired, runs, answer, work, shown, overlapped>>

(* unregisterAgent, second half *)
UnregisterResumes(call) ==
  /\ suspended[call].kind = "unregister"
  /\ LET agent == suspended[call].agent
     IN  /\ slots' = [slots EXCEPT ![agent] = NoSlot]
         /\ pending' = Without(pending, Of(agent))
         /\ stage' = Dropped(agent)
  /\ suspended' = [suspended EXCEPT ![call] = NoCall]
  /\ UNCHANGED <<controllers, wired, runs, answer, work, shown, aborted, overlapped>>

\* Mutant: the request that is being executed is kept.
LastRequest_Active(agent) == slots[agent].active

(* The request restartAgent() keeps for re-queueing. *)
LastRequest(agent) ==
  LET mine == {i \in DOMAIN pending : AgentOf[pending[i]] = agent}
  IN  IF mine = {} THEN NoRequest
      ELSE pending[CHOOSE i \in mine : \A j \in mine : i <= j]

(* restartAgent, first half *)
RestartAgent(agent, call) ==
  /\ Registered(agent)
  /\ suspended[call] = NoCall
  /\ suspended' = [suspended EXCEPT ![call] =
                     [kind |-> "restart", agent |-> agent, last |-> LastRequest(agent)]]
  /\ Cancelled(agent)
  /\ UNCHANGED <<wired, runs, answer, work, shown, overlapped>>

(* restartAgent, second half *)
RestartResumes(call) ==
  /\ suspended[call].kind = "restart"
  /\ LET agent == suspended[call].agent
         last == suspended[call].last
     IN  \/ /\ last # NoRequest
            /\ DrainQueue(Transition(slots, agent, "queued", NoRequest),
                          InsertByPriority(pending, last, Weight),
                          [stage EXCEPT ![last] = "queued"])
         \/ /\ last = NoRequest
            /\ slots' = Transition(slots, agent, "idle", NoRequest)
            /\ UNCHANGED <<pending, stage, controllers, runs, work, shown, overlapped>>
  /\ suspended' = [suspended EXCEPT ![call] = NoCall]
  /\ UNCHANGED <<wired, answer, aborted>>

(* setDispatcher does not drain what was queued before. *)
SetDispatcher ==
  /\ ~wired
  /\ wired' = TRUE
  /\ UNCHANGED <<slots, pending, controllers, stage, runs, answer, work, suspended, shown,
                 aborted, overlapped>>

Next ==
  \/ \E r \in Request :
       \/ QueueAgent(r)
       \/ ExecuteAgent(r)
  \/ \E e \in Execution :
       \/ \E status \in {"success", "failed"} : DispatchEnds(e, status)
       \/ LateAnswer(e)
       \/ Returns(e)
  \/ \E agent \in Agent :
       \/ RegisterAgent(agent)
       \/ CancelAgent(agent)
       \/ \E call \in Call : UnregisterAgent(agent, call) \/ RestartAgent(agent, call)
  \/ \E call \in Call : UnregisterResumes(call) \/ RestartResumes(call)
  \/ SetDispatcher

Spec == Init /\ [][Next]_vars

------------------------------------------------------------------------------
TypeOK ==
  /\ slots \in [Agent -> [state : {"absent", "idle", "queued", "running", "completed",
                                   "failed", "cancelled"},
                          active : Request \cup {NoRequest}]]
  /\ pending \in Seq(Request)
  /\ controllers \in [Request -> Execution \cup {NoExecution}]
  /\ wired \in BOOLEAN
  /\ stage \in [Request -> Stage]
  /\ runs \in [Execution -> [request : Request \cup {NoRequest}, stage : RunStage]]
  /\ answer \in [Request -> {"none", "success", "failed"}]
  /\ work \subseteq Execution
  /\ suspended \in [Call -> {NoCall} \cup [kind : {"unregister"}, agent : Agent]
                              \cup [kind : {"restart"}, agent : Agent,
                                    last : Request \cup {NoRequest}]]
  /\ shown \in [Request -> {"absent", "running", "completed", "failed"}]
  /\ aborted \subseteq Execution
  /\ overlapped \subseteq Request

(* A controller in cancellationMap is that of an execution that has not    *)
(* returned and was not aborted: none leaks and none is stale, through     *)
(* retries, cancellations and late returns.  And every such execution has  *)
(* its own there, unless its request was executed again meanwhile.         *)
ControllersMatch ==
  \A r \in Request :
    /\ controllers[r] # NoExecution => controllers[r] \in Live(r) \ aborted
    /\ r \notin overlapped => Live(r) \ aborted \subseteq {controllers[r]}

(* A slot that says 'running' names a request of its agent with an         *)
(* execution that has not returned, and only such a slot names one:        *)
(* through overlapping executions, retries, cancellations,                 *)
(* re-registrations and late answers.                                      *)
RunningSlotIsLive ==
  \A agent \in Agent :
    LET slot == slots[agent]
    IN  IF slot.state = "running" THEN slot.active \in Of(agent) /\ Live(slot.active) # {}
        ELSE slot.active = NoRequest

(* A request is in the queue exactly when it was queued and neither taken  *)
(* nor dropped, and it is there once: cancelAgent(), unregisterAgent() and *)
(* restartAgent() interleaved at their awaits neither duplicate a request  *)
(* nor leave one behind.                                                   *)
QueuedOnce ==
  /\ IsInjective(pending)
  /\ ToSet(pending) = {r \in Request : stage[r] = "queued"}

(* The state service shows a request as running while it is executed, and  *)
(* then as its caller was last answered: an answer that comes after the    *)
(* timeout changes nothing, not even during a retry.                       *)
ShownAsAnswered ==
  \A r \in Request :
    /\ Executing(r) # {} /\ r \notin overlapped => shown[r] = "running"
    /\ Executing(r) = {} => shown[r] = CASE answer[r] = "success" -> "completed"
                                         [] answer[r] = "failed" -> "failed"
                                         [] answer[r] = "none" -> "absent"

(* A request of queueAgent(), which its caller cannot hand over again, is  *)
(* handed to the dispatcher once at most: restartAgent(), which drops it   *)
(* and puts it back after an await, never revives one that was taken.      *)
HandedOverOnce ==
  \A d, e \in Execution :
    runs[d].request = runs[e].request /\ runs[d].request \in Request \ Direct => d = e
==============================================================================
