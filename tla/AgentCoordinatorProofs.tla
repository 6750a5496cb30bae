------------------------ MODULE AgentCoordinatorProofs ------------------------
(***************************************************************************)
(* Proofs about AgentCoordinator, for any agents, requests, executions and *)
(* suspended calls: its invariants.  A request of queueAgent() is tied to  *)
(* its stage, a request that is executed again to its executions: while it *)
(* has not overlapped itself, one of them is live at most.                 *)
(***************************************************************************)
EXTENDS AgentCoordinator, PriorityQueueProofs

SlotState == {"absent", "idle", "queued", "running", "completed", "failed", "cancelled"}
Slots == [Agent -> [state : SlotState, active : Request \cup {NoRequest}]]
SuspendedCall == {NoCall} \cup [kind : {"unregister"}, agent : Agent]
                   \cup [kind : {"restart"}, agent : Agent, last : Request \cup {NoRequest}]
Runs == [Execution -> [request : Request \cup {NoRequest}, stage : RunStage]]

(* Requests with an execution that has not returned *)
Busy == {r \in Request : Live(r) # {}}

(* RunningSlotIsLive of the slots s, for the requests in live. *)
SlotsOK(s, live) ==
  \A agent \in Agent :
    IF s[agent].state = "running" THEN s[agent].active \in live \cap Of(agent)
    ELSE s[agent].active = NoRequest

Keeps(call, r) == call.kind = "restart" /\ call.last = r

(* A request that a suspended restartAgent() keeps has been dropped from   *)
(* the queue, and no other call keeps it.                                  *)
KeptOnce(calls, st) ==
  \A r \in Request, c \in Call :
    Keeps(calls[c], r) => st[r] = "dropped" /\ \A d \in Call : Keeps(calls[d], r) => c = d

(* Only the requests of queueAgent() have a stage, and those that are      *)
(* executed have been taken.                                               *)
StageKnown ==
  /\ \A r \in Direct : stage[r] = "new"
  /\ \A e \in Execution : runs[e].request \in Request \ Direct => stage[runs[e].request] = "taken"

(* An execution has a request when it has begun, and is not aborted before. *)
RunsKnown ==
  \A e \in Execution :
    IF runs[e].stage = "unused" THEN runs[e] = Unused /\ e \notin aborted
    ELSE runs[e].request \in Request

(* Executions overlap only of requests that were executed again. *)
AloneUnlessOverlapped ==
  \A r \in Request \ overlapped : \A d, e \in Live(r) : d = e

IInv ==
  /\ TypeOK
  /\ StageKnown
  /\ RunsKnown
  /\ AloneUnlessOverlapped
  /\ ControllersMatch
  /\ SlotsOK(slots, Busy)
  /\ QueuedOnce
  /\ ShownAsAnswered
  /\ HandedOverOnce
  /\ KeptOnce(suspended, stage)

------------------------------------------------------------------------------
(* Slots and queue. *)

LEMMA ConstantFacts ==
  /\ NoRequest \notin Request
  /\ \A r \in Request : AgentOf[r] \in Agent /\ r \in Of(AgentOf[r])
  /\ \A agent \in Agent : \A r \in Of(agent) : r \in Request /\ AgentOf[r] = agent
  /\ Weight \in [Request -> Nat]
BY CoordinatorAssumption DEF Of

(* A slot that stops: what ran there may have come to its end. *)
LEMMA StopFacts ==
  ASSUME NEW s \in Slots, NEW live, NEW live2, SlotsOK(s, live), NEW agent \in Agent,
         NEW state \in SlotState \ {"running"},
         \A other \in Agent : other # agent => live \cap Of(other) \subseteq live2
  PROVE  /\ Transition(s, agent, state, NoRequest) \in Slots
         /\ SlotsOK(Transition(s, agent, state, NoRequest), live2)
<1> DEFINE t == Transition(s, agent, state, NoRequest)
<1>1. CASE s[agent] = NoSlot
  <2>1. t = s /\ s[agent].state # "running" /\ s[agent].active = NoRequest
    BY <1>1 DEF Transition, NoSlot
  <2> QED BY <2>1 DEF SlotsOK
<1>2. CASE s[agent] # NoSlot
  <2>1. t = [s EXCEPT ![agent] = [state |-> state, active |-> NoRequest]]
    BY <1>2 DEF Transition
  <2> HIDE DEF t
  <2>2. t \in Slots
    BY <2>1 DEF Slots
  <2>3. t[agent] = [state |-> state, active |-> NoRequest]
    BY <2>1 DEF Slots
  <2>4. \A other \in Agent : other # agent => t[other] = s[other]
    BY <2>1 DEF Slots
  <2>5. SlotsOK(t, live2)
    BY <2>3, <2>4 DEF SlotsOK
  <2> QED BY <2>2, <2>5 DEF t
<1> QED BY <1>1, <1>2

(* A slot that starts to run r. *)
LEMMA RunFacts ==
  ASSUME NEW s \in Slots, NEW live, NEW live2, SlotsOK(s, live), NEW r \in Request,
         live \cup {r} \subseteq live2
  PROVE  /\ Transition(s, AgentOf[r], "running", r) \in Slots
         /\ SlotsOK(Transition(s, AgentOf[r], "running", r), live2)
<1> DEFINE t == Transition(s, AgentOf[r], "running", r)
           agent == AgentOf[r]
<1>0. agent \in Agent /\ r \in Of(agent)
  BY ConstantFacts
<1>1. CASE s[agent] = NoSlot
  BY <1>1 DEF Transition, SlotsOK
<1>2. CASE s[agent] # NoSlot
  <2>1. t = [s EXCEPT ![agent] = [state |-> "running", active |-> r]]
    BY <1>2 DEF Transition
  <2> HIDE DEF t, agent
  <2>2. t \in Slots
    BY <1>0, <2>1 DEF Slots, SlotState
  <2>3. t[agent] = [state |-> "running", active |-> r]
    BY <1>0, <2>1 DEF Slots
  <2>4. \A other \in Agent : other # agent => t[other] = s[other]
    BY <1>0, <2>1 DEF Slots
  <2>5. SlotsOK(t, live2)
    BY <1>0, <2>3, <2>4 DEF SlotsOK
  <2> QED BY <2>2, <2>5 DEF t, agent
<1> QED BY <1>1, <1>2

(* What is left of an injective queue without its head. *)
LEMMA TailEntries ==
  ASSUME NEW q \in Seq(Request), q # << >>, IsInjective(q)
  PROVE  /\ Head(q) \in ToSet(q) /\ Head(q) \in Request
         /\ Tail(q) \in Seq(Request)
         /\ IsInjective(Tail(q))
         /\ ToSet(Tail(q)) = ToSet(q) \ {Head(q)}
<1> DEFINE r == Tail(q)
<1>1. /\ r \in Seq(Request) /\ Len(r) = Len(q) - 1 /\ Head(q) \in Request
      /\ \A i \in 1 .. Len(r) : r[i] = q[i + 1]
  BY HeadTailProperties
<1>2. /\ Len(q) \in Nat \ {0} /\ DOMAIN q = 1 .. Len(q) /\ DOMAIN r = 1 .. Len(r)
      /\ Head(q) = q[1]
  BY <1>1, EmptySeq, LenProperties
<1> HIDE DEF r
<1>3. \A i \in 1 .. Len(r) : i + 1 \in DOMAIN q /\ i + 1 # 1 /\ i \in Nat
  BY <1>1, <1>2
<1>4. IsInjective(r)
  <2>1. ASSUME NEW i \in DOMAIN r, NEW j \in DOMAIN r, r[i] = r[j] PROVE i = j
    <3>1. i + 1 = j + 1
      BY <1>1, <1>2, <1>3, <2>1 DEF IsInjective
    <3> QED BY <1>2, <1>3, <3>1
  <2> QED BY <2>1 DEF IsInjective
<1>5. ASSUME NEW x \in ToSet(r) PROVE x \in ToSet(q) \ {q[1]}
  <2>1. PICK i \in 1 .. Len(r) : x = q[i + 1]
    BY <1>1, <1>2 DEF ToSet
  <2>2. q[i + 1] # q[1]
    BY <1>2, <1>3 DEF IsInjective
  <2> QED BY <1>3, <2>1, <2>2 DEF ToSet
<1>6. ASSUME NEW x \in ToSet(q) \ {q[1]} PROVE x \in ToSet(r)
  <2>1. PICK i \in 1 .. Len(q) : x = q[i] /\ i # 1
    BY <1>2 DEF ToSet
  <2>2. i - 1 \in 1 .. Len(r) /\ r[i - 1] = q[(i - 1) + 1] /\ (i - 1) + 1 = i
    BY <1>1, <1>2, <2>1
  <2> QED BY <1>2, <2>1, <2>2 DEF ToSet
<1>7. ToSet(r) = ToSet(q) \ {q[1]}
  BY <1>5, <1>6
<1>8. q[1] \in ToSet(q)
  BY <1>2 DEF ToSet
<1> QED BY <1>1, <1>2, <1>4, <1>7, <1>8 DEF r

LEMMA EmptyQueue == << >> \in Seq(Request) /\ ToSet(<< >>) = {} /\ IsInjective(<< >>)
BY EmptySeq DEF ToSet, IsInjective

------------------------------------------------------------------------------
(* The invariant, for the ways in which executions and requests move. *)

LEMMA RunTypes ==
  ASSUME IInv
  PROVE  runs \in Runs /\ slots \in Slots /\ SlotsOK(slots, Busy) /\ wired \in BOOLEAN
BY DEF IInv, TypeOK, Runs, Slots, SlotState

(* e's record changes to one of r: what that does to the executions of the *)
(* requests.                                                               *)
LEMMA RunChanges ==
  ASSUME runs \in Runs, NEW e \in Execution, NEW r \in Request,
         NEW st \in RunStage \ {"unused"},
         runs[e] = Unused \/ runs[e].request = r,
         runs' = [runs EXCEPT ![e] = [request |-> r, stage |-> st]]
  PROVE  /\ runs' \in Runs
         /\ runs'[e].request = r /\ runs'[e].stage = st
         /\ \A d \in Execution : d # e => runs'[d] = runs[d]
         /\ \A q \in Request : q # r => Live(q)' = Live(q) /\ Executing(q)' = Executing(q)
         /\ Live(r)' = IF st = "returned" THEN Live(r) \ {e} ELSE Live(r) \cup {e}
         /\ Executing(r)' = IF st = "executing" THEN Executing(r) \cup {e} ELSE Executing(r) \ {e}
<1>1. /\ runs' \in Runs /\ runs'[e] = [request |-> r, stage |-> st]
      /\ \A d \in Execution : d # e => runs'[d] = runs[d]
  BY DEF Runs
<1>2. runs'[e].request = r /\ runs'[e].stage = st
  BY <1>1
<1>3. \A q \in Request : q # r => runs[e].request # q
  BY ConstantFacts DEF Unused
<1>4. ASSUME NEW q \in Request, q # r PROVE Live(q)' = Live(q) /\ Executing(q)' = Executing(q)
  <2>1. \A d \in Execution : /\ d \in Live(q)' <=> d \in Live(q)
                             /\ d \in Executing(q)' <=> d \in Executing(q)
    <3>1. e \notin Live(q) /\ e \notin Executing(q) /\ e \notin Live(q)' /\ e \notin Executing(q)'
      BY <1>2, <1>3, <1>4 DEF Live, Executing
    <3>2. \A d \in Execution : d # e => /\ d \in Live(q)' <=> d \in Live(q)
                                        /\ d \in Executing(q)' <=> d \in Executing(q)
      BY <1>1 DEF Live, Executing
    <3> QED BY <3>1, <3>2
  <2> QED BY <2>1 DEF Live, Executing
<1>5. /\ e \in Live(r)' <=> st # "returned"
      /\ e \in Executing(r)' <=> st = "executing"
      /\ \A d \in Execution : d # e => /\ d \in Live(r)' <=> d \in Live(r)
                                       /\ d \in Executing(r)' <=> d \in Executing(r)
  <2>1. e \in Live(r)' <=> st # "returned"
    BY <1>2 DEF Live, RunStage
  <2>2. e \in Executing(r)' <=> st = "executing"
    BY <1>1 DEF Executing
  <2>3. \A d \in Execution : d # e => /\ d \in Live(r)' <=> d \in Live(r)
                                      /\ d \in Executing(r)' <=> d \in Executing(r)
    BY <1>1 DEF Live, Executing
  <2> QED BY <2>1, <2>2, <2>3
<1>6. Live(r) \cup Live(r)' \cup Executing(r) \cup Executing(r)' \subseteq Execution
  BY DEF Live, Executing
<1>7. Live(r)' = IF st = "returned" THEN Live(r) \ {e} ELSE Live(r) \cup {e}
  BY <1>5, <1>6
<1>8. Executing(r)' = IF st = "executing" THEN Executing(r) \cup {e} ELSE Executing(r) \ {e}
  BY <1>5, <1>6
<1> QED BY <1>1, <1>2, <1>4, <1>7, <1>8

(* An execution belongs to one request. *)
LEMMA LiveApart ==
  \A q, r \in Request : \A e \in Live(q) : e \in Live(r) => q = r
BY DEF Live

LEMMA ExecutingIsLive == \A r \in Request : Executing(r) \subseteq Live(r)
BY DEF Live, Executing

(* executeAgent: r begins, taken from the queue or handed over by its      *)
(* maker, perhaps beside an earlier execution of it.                       *)
LEMMA BeginStep ==
  ASSUME IInv, NEW s \in Slots, SlotsOK(s, Busy), NEW r \in Request, NEW e \in Execution,
         Begin(s, r, e),
         stage' \in [Request -> Stage],
         \A q \in Direct : stage'[q] = "new",
         \A q \in Request : stage[q] = "taken" => stage'[q] = "taken",
         r \in Direct \/ (stage[r] # "taken" /\ stage'[r] = "taken"),
         pending' \in Seq(Request), IsInjective(pending'),
         ToSet(pending') = {q \in Request : stage'[q] = "queued"},
         suspended' \in [Call -> SuspendedCall], KeptOnce(suspended', stage'),
         UNCHANGED <<wired, answer, aborted>>
  PROVE  IInv'
<1>1. /\ runs[e] = Unused
      /\ runs' = [runs EXCEPT ![e] = [request |-> r, stage |-> "executing"]]
      /\ slots' = Transition(s, AgentOf[r], "running", r)
      /\ controllers' = [controllers EXCEPT ![r] = e]
      /\ work' = work \cup {e}
      /\ shown' = [shown EXCEPT ![r] = "running"]
      /\ overlapped' = IF Live(r) = {} THEN overlapped ELSE overlapped \cup {r}
  BY DEF Begin
<1>2. runs \in Runs /\ "executing" \in RunStage \ {"unused"}
  BY RunTypes DEF RunStage
<1>3. /\ runs' \in Runs
      /\ runs'[e].request = r /\ runs'[e].stage = "executing"
      /\ \A d \in Execution : d # e => runs'[d] = runs[d]
      /\ \A q \in Request : q # r => Live(q)' = Live(q) /\ Executing(q)' = Executing(q)
      /\ Live(r)' = Live(r) \cup {e}
      /\ Executing(r)' = Executing(r) \cup {e}
  BY <1>1, <1>2, RunChanges
<1>4. e \notin aborted /\ overlapped \subseteq overlapped' /\ overlapped' \subseteq Request
  BY <1>1 DEF IInv, TypeOK, RunsKnown, Unused
<1>5. /\ controllers' \in [Request -> Execution \cup {NoExecution}] /\ controllers'[r] = e
      /\ \A q \in Request : q # r => controllers'[q] = controllers[q]
      /\ shown' \in [Request -> {"absent", "running", "completed", "failed"}]
      /\ shown'[r] = "running" /\ \A q \in Request : q # r => shown'[q] = shown[q]
  BY <1>1 DEF IInv, TypeOK
<1>6. slots' \in Slots /\ SlotsOK(slots', Busy')
  <2>1. Busy \cup {r} \subseteq Busy'
    BY <1>3 DEF Busy
  <2> QED BY <1>1, <2>1, RunFacts
<1>7. TypeOK'
  BY <1>1, <1>3, <1>4, <1>5, <1>6 DEF IInv, TypeOK, Slots, SlotState, SuspendedCall, Runs
<1>8. StageKnown'
  BY <1>3 DEF IInv, StageKnown
<1>9. RunsKnown'
  BY <1>3, <1>4 DEF IInv, RunsKnown
<1>10. AloneUnlessOverlapped'
  <2> SUFFICES ASSUME NEW q \in Request \ overlapped', NEW d \in Live(q)', NEW f \in Live(q)'
               PROVE  d = f
    BY DEF AloneUnlessOverlapped
  <2>1. CASE q = r
    <3>1. Live(r) = {}
      BY <1>1, <2>1
    <3> QED BY <1>3, <2>1, <3>1
  <2>2. CASE q # r
    BY <1>3, <1>4, <2>2 DEF IInv, AloneUnlessOverlapped
  <2> QED BY <2>1, <2>2
<1>11. ControllersMatch'
  <2> SUFFICES ASSUME NEW q \in Request
               PROVE  /\ controllers'[q] # NoExecution => controllers'[q] \in Live(q)' \ aborted'
                      /\ q \notin overlapped' => Live(q)' \ aborted' \subseteq {controllers'[q]}
    BY DEF ControllersMatch
  <2>1. CASE q = r
    <3>1. q \notin overlapped' => Live(r) = {}
      BY <1>1, <2>1
    <3> QED BY <1>3, <1>4, <1>5, <2>1, <3>1
  <2>2. CASE q # r
    BY <1>3, <1>4, <1>5, <2>2 DEF IInv, ControllersMatch
  <2> QED BY <2>1, <2>2
<1>12. QueuedOnce'
  BY DEF QueuedOnce
<1>13. ShownAsAnswered'
  <2>0. answer' = answer
    OBVIOUS
  <2> SUFFICES ASSUME NEW q \in Request
               PROVE  /\ Executing(q)' # {} /\ q \notin overlapped' => shown'[q] = "running"
                      /\ Executing(q)' = {} =>
                           shown'[q] = CASE answer'[q] = "success" -> "completed"
                                         [] answer'[q] = "failed" -> "failed"
                                         [] answer'[q] = "none" -> "absent"
    BY DEF ShownAsAnswered
  <2>1. CASE q = r
    BY <1>3, <1>5, <2>1
  <2>2. CASE q # r
    <3>1. /\ Executing(q)' = Executing(q) /\ shown'[q] = shown[q] /\ answer'[q] = answer[q]
          /\ q \notin overlapped' => q \notin overlapped
      BY <1>3, <1>4, <1>5, <2>0, <2>2
    <3> QED BY <3>1 DEF IInv, ShownAsAnswered
  <2> QED BY <2>1, <2>2
<1>14. HandedOverOnce'
  <2> SUFFICES ASSUME NEW d \in Execution, NEW f \in Execution,
                      runs'[d].request = runs'[f].request, runs'[d].request \in Request \ Direct
               PROVE  d = f
    BY DEF HandedOverOnce
  <2>1. ASSUME NEW g \in Execution, g # e, runs[g].request = r PROVE r \in Direct
    BY <2>1 DEF IInv, StageKnown
  <2>2. CASE d # e /\ f # e
    BY <1>3, <2>2 DEF IInv, HandedOverOnce
  <2> QED BY <1>3, <2>1, <2>2
<1> QED BY <1>6, <1>7, <1>8, <1>9, <1>10, <1>11, <1>12, <1>13, <1>14 DEF IInv

(* Requests enter or leave the queue, slots stop, controllers go, and no   *)
(* execution begins, ends or returns.                                      *)
LEMMA QuietStep ==
  ASSUME IInv, slots' \in Slots, SlotsOK(slots', Busy),
         pending' \in Seq(Request), IsInjective(pending'), stage' \in [Request -> Stage],
         \A q \in Direct : stage'[q] = "new",
         \A q \in Request : stage[q] = "taken" => stage'[q] = "taken",
         ToSet(pending') = {q \in Request : stage'[q] = "queued"},
         suspended' \in [Call -> SuspendedCall], KeptOnce(suspended', stage'),
         \E gone \in SUBSET Request :
            /\ controllers' = [q \in Request |-> IF q \in gone THEN NoExecution ELSE controllers[q]]
            /\ aborted' = aborted \cup ({controllers[q] : q \in gone} \ {NoExecution}),
         wired' \in BOOLEAN,
         work' \subseteq work,
         UNCHANGED <<runs, answer, shown, overlapped>>
  PROVE  IInv'
<1>1. PICK gone \in SUBSET Request :
        /\ controllers' = [q \in Request |-> IF q \in gone THEN NoExecution ELSE controllers[q]]
        /\ aborted' = aborted \cup ({controllers[q] : q \in gone} \ {NoExecution})
  OBVIOUS
<1>2. \A q \in Request : Live(q)' = Live(q) /\ Executing(q)' = Executing(q)
  BY DEF Live, Executing
<1>3. Busy' = Busy
  BY <1>2 DEF Busy
<1>4. \A d \in aborted' \ aborted : \E q \in gone : d = controllers[q] /\ d \in Live(q)
  <2> SUFFICES ASSUME NEW d \in aborted' \ aborted
               PROVE  \E q \in gone : d = controllers[q] /\ d \in Live(q)
    OBVIOUS
  <2>1. PICK q \in gone : d = controllers[q] /\ d # NoExecution
    BY <1>1
  <2> QED BY <2>1 DEF IInv, ControllersMatch
<1>5. TypeOK'
  <2>1. controllers' \in [Request -> Execution \cup {NoExecution}]
    BY <1>1 DEF IInv, TypeOK
  <2>2. aborted' \subseteq Execution
    BY <1>4 DEF IInv, TypeOK, Live
  <2> QED BY <2>1, <2>2 DEF IInv, TypeOK, Slots, SlotState, SuspendedCall
<1>6. StageKnown'
  BY DEF IInv, StageKnown
<1>7. RunsKnown'
  <2>1. \A d \in aborted' \ aborted : runs[d].stage # "unused"
    BY <1>4 DEF Live
  <2> QED BY <2>1 DEF IInv, RunsKnown
<1>8. AloneUnlessOverlapped'
  BY <1>2 DEF IInv, AloneUnlessOverlapped
<1>9. ControllersMatch'
  <2> SUFFICES ASSUME NEW q \in Request
               PROVE  /\ controllers'[q] # NoExecution => controllers'[q] \in Live(q)' \ aborted'
                      /\ q \notin overlapped' => Live(q)' \ aborted' \subseteq {controllers'[q]}
    BY DEF ControllersMatch
  <2>0. /\ controllers[q] # NoExecution => controllers[q] \in Live(q) \ aborted
        /\ q \notin overlapped => Live(q) \ aborted \subseteq {controllers[q]}
    BY DEF IInv, ControllersMatch
  <2>1. CASE q \in gone
    <3>1. controllers'[q] = NoExecution
      BY <1>1, <2>1
    <3>2. controllers[q] # NoExecution => controllers[q] \in aborted'
      BY <1>1, <2>1
    <3>3. NoExecution \notin Live(q)
      BY CoordinatorAssumption DEF Live
    <3>4. aborted \subseteq aborted'
      BY <1>1
    <3> QED BY <1>2, <2>0, <3>1, <3>2, <3>3, <3>4
  <2>2. CASE q \notin gone
    <3>1. controllers'[q] = controllers[q] /\ aborted \subseteq aborted'
      BY <1>1, <2>2
    <3>2. controllers[q] # NoExecution => controllers[q] \notin aborted'
      BY <1>4, <2>0, <2>2, LiveApart
    <3> QED BY <1>2, <2>0, <3>1, <3>2
  <2> QED BY <2>1, <2>2
<1>10. ShownAsAnswered'
  BY <1>2 DEF IInv, ShownAsAnswered
<1>11. HandedOverOnce'
  BY DEF IInv, HandedOverOnce
<1> QED BY <1>3, <1>5, <1>6, <1>7, <1>8, <1>9, <1>10, <1>11 DEF IInv, QueuedOnce

LEMMA NobodyAborted ==
  ASSUME IInv, UNCHANGED <<controllers, aborted>>
  PROVE  \E gone \in SUBSET Request :
            /\ controllers' = [q \in Request |-> IF q \in gone THEN NoExecution ELSE controllers[q]]
            /\ aborted' = aborted \cup ({controllers[q] : q \in gone} \ {NoExecution})
<1>1. controllers = [q \in Request |-> controllers[q]]
  BY DEF IInv, TypeOK
<1>2. /\ controllers' = [q \in Request |-> IF q \in {} THEN NoExecution ELSE controllers[q]]
      /\ aborted' = aborted \cup ({controllers[q] : q \in {}} \ {NoExecution})
  BY <1>1
<1> QED BY <1>2

(* drainQueue of a queue with newStage's queued requests. *)
LEMMA DrainStep ==
  ASSUME IInv, NEW s \in Slots, SlotsOK(s, Busy), NEW queue \in Seq(Request), queue # << >>,
         IsInjective(queue), NEW newStage \in [Request -> Stage],
         ToSet(queue) = {q \in Request : newStage[q] = "queued"},
         \A q \in Request : \/ newStage[q] = stage[q]
                            \/ newStage[q] = "queued" /\ stage[q] # "taken" /\ q \notin Direct,
         suspended' \in [Call -> SuspendedCall], KeptOnce(suspended', newStage),
         DrainQueue(s, queue, newStage), UNCHANGED <<wired, answer, aborted>>
  PROVE  IInv'
<1>0. /\ \A q \in Direct : q \in Request /\ newStage[q] = "new"
      /\ \A q \in Request : stage[q] = "taken" => newStage[q] = "taken"
  BY CoordinatorAssumption DEF IInv, StageKnown
<1>1. CASE wired
  <2> DEFINE r == Head(queue)
  <2>1. PICK e \in Execution :
          pending' = Tail(queue) /\ stage' = [newStage EXCEPT ![r] = "taken"] /\ Begin(s, r, e)
    BY <1>1 DEF DrainQueue
  <2>2. /\ r \in ToSet(queue) /\ r \in Request /\ pending' \in Seq(Request)
        /\ IsInjective(pending') /\ ToSet(pending') = ToSet(queue) \ {r}
    BY <2>1, TailEntries
  <2> HIDE DEF r
  <2>3. newStage[r] = "queued"
    BY <2>2
  <2>4. /\ stage' \in [Request -> Stage] /\ stage'[r] = "taken"
        /\ \A q \in Request : q # r => stage'[q] = newStage[q]
    BY <2>1, <2>2 DEF Stage
  <2>5. r \notin Direct /\ stage[r] # "taken"
    BY <1>0, <2>2, <2>3
  <2>6. /\ \A q \in Direct : stage'[q] = "new"
        /\ \A q \in Request : stage[q] = "taken" => stage'[q] = "taken"
    BY <1>0, <2>4, <2>5
  <2>7. ToSet(pending') = {q \in Request : stage'[q] = "queued"}
    BY <2>2, <2>4
  <2>8. KeptOnce(suspended', stage')
    BY <2>3, <2>4 DEF KeptOnce
  <2> QED BY <2>1, <2>2, <2>4, <2>5, <2>6, <2>7, <2>8, BeginStep
<1>2. CASE ~wired
  <2>1. /\ pending' = queue /\ stage' = newStage /\ slots' = s
        /\ UNCHANGED <<controllers, runs, work, shown, overlapped>>
    BY <1>2 DEF DrainQueue
  <2>2. wired' \in BOOLEAN
    BY DEF IInv, TypeOK
  <2> QED BY <1>0, <2>1, <2>2, NobodyAborted, QuietStep
<1> QED BY <1>1, <1>2

(* A request that enters the queue. *)
LEMMA EntersQueue ==
  ASSUME IInv, NEW r \in Request, stage[r] # "queued",
         NEW queue, queue = InsertByPriority(pending, r, Weight),
         NEW newStage, newStage = [stage EXCEPT ![r] = "queued"]
  PROVE  /\ queue \in Seq(Request) /\ queue # << >> /\ IsInjective(queue)
         /\ newStage \in [Request -> Stage]
         /\ newStage[r] = "queued" /\ \A q \in Request : q # r => newStage[q] = stage[q]
         /\ ToSet(queue) = {q \in Request : newStage[q] = "queued"}
<1>1. /\ pending \in Seq(Request) /\ IsInjective(pending)
      /\ ToSet(pending) = {q \in Request : stage[q] = "queued"}
      /\ stage \in [Request -> Stage] /\ r \notin ToSet(pending)
  BY DEF IInv, TypeOK, QueuedOnce
<1>2. queue \in Seq(Request) /\ ToSet(queue) = ToSet(pending) \cup {r}
  BY <1>1, ConstantFacts, InsertByPriorityEntries
<1>3. IsInjective(queue)
  BY <1>1, ConstantFacts, InsertByPriorityInjective
<1>4. queue # << >>
  BY <1>2, EmptyQueue
<1>5. /\ newStage[r] = "queued" /\ \A q \in Request : q # r => newStage[q] = stage[q]
      /\ newStage \in [Request -> Stage]
  BY <1>1 DEF Stage
<1> QED BY <1>1, <1>2, <1>3, <1>4, <1>5

(* An agent's requests leave the queue. *)
LEMMA LeaveQueue ==
  ASSUME IInv, NEW agent \in Agent
  PROVE  /\ Without(pending, Of(agent)) \in Seq(Request)
         /\ IsInjective(Without(pending, Of(agent)))
         /\ Dropped(agent) \in [Request -> Stage]
         /\ \A q \in Request : \/ Dropped(agent)[q] = stage[q]
                               \/ stage[q] = "queued" /\ Dropped(agent)[q] = "dropped"
         /\ \A q \in ToSet(pending) \cap Of(agent) : Dropped(agent)[q] = "dropped"
         /\ \A q \in Direct : Dropped(agent)[q] = "new"
         /\ \A q \in Request : stage[q] = "taken" => Dropped(agent)[q] = "taken"
         /\ ToSet(Without(pending, Of(agent))) = {q \in Request : Dropped(agent)[q] = "queued"}
         /\ KeptOnce(suspended, Dropped(agent))
<1>1. /\ pending \in Seq(Request) /\ IsInjective(pending)
      /\ ToSet(pending) = {q \in Request : stage[q] = "queued"}
      /\ stage \in [Request -> Stage]
  BY DEF IInv, TypeOK, QueuedOnce
<1>2. /\ Without(pending, Of(agent)) \in Seq(Request)
      /\ KeepsOrder(Without(pending, Of(agent)), pending)
      /\ ToSet(Without(pending, Of(agent))) = ToSet(pending) \ Of(agent)
  BY <1>1, WithoutEntries
<1>3. IsInjective(Without(pending, Of(agent)))
  BY <1>1, <1>2, KeepsOrderKeeps
<1>4. /\ Dropped(agent) \in [Request -> Stage]
      /\ \A q \in Request : Dropped(agent)[q] =
           IF q \in ToSet(pending) /\ q \in Of(agent) THEN "dropped" ELSE stage[q]
  BY <1>1 DEF Dropped, Stage, Of
<1>5. KeptOnce(suspended, Dropped(agent))
  BY <1>4 DEF IInv, KeptOnce
<1>6. \A q \in Direct : q \in Request /\ stage[q] = "new"
  BY CoordinatorAssumption DEF IInv, StageKnown
<1>7. /\ \A q \in Direct : Dropped(agent)[q] = "new"
      /\ \A q \in Request : stage[q] = "taken" => Dropped(agent)[q] = "taken"
  BY <1>1, <1>4, <1>6
<1> QED BY <1>1, <1>2, <1>3, <1>4, <1>5, <1>7 DEF Of

(* cancelAgent, for whatever call goes on with it. *)
LEMMA CancelledStep ==
  ASSUME IInv, NEW agent \in Agent, Cancelled(agent),
         suspended' \in [Call -> SuspendedCall], KeptOnce(suspended', stage'),
         UNCHANGED <<wired, runs, answer, work, shown, overlapped>>
  PROVE  IInv'
<1>1. slots' \in Slots /\ SlotsOK(slots', Busy)
  <2>1. slots \in Slots /\ "cancelled" \in SlotState \ {"running"} /\ SlotsOK(slots, Busy)
    BY RunTypes DEF SlotState
  <2>2. slots' = Transition(slots, agent, "cancelled", NoRequest)
    BY DEF Cancelled
  <2> QED BY <2>1, <2>2, StopFacts
<1>2. \E gone \in SUBSET Request :
         /\ controllers' = [q \in Request |-> IF q \in gone THEN NoExecution ELSE controllers[q]]
         /\ aborted' = aborted \cup ({controllers[q] : q \in gone} \ {NoExecution})
  <2>1. {slots[agent].active} \cap Request \in SUBSET Request
    OBVIOUS
  <2> QED BY <2>1 DEF Cancelled, AbortActive
<1>3. pending' = Without(pending, Of(agent)) /\ stage' = Dropped(agent)
  BY DEF Cancelled
<1>4. wired' \in BOOLEAN /\ work' \subseteq work
  BY DEF IInv, TypeOK
<1> QED BY <1>1, <1>2, <1>3, <1>4, LeaveQueue, QuietStep

(* What restartAgent() keeps is the first queued request of its agent. *)
LEMMA LastRequestFacts ==
  ASSUME IInv, NEW agent \in Agent
  PROVE  LastRequest(agent) \in {NoRequest} \cup (ToSet(pending) \cap Of(agent))
<1> DEFINE mine == {i \in DOMAIN pending : AgentOf[pending[i]] = agent}
<1>1. CASE mine = {}
  BY <1>1 DEF LastRequest
<1>2. CASE mine # {}
  <2>1. /\ DOMAIN pending = 1 .. Len(pending) /\ Len(pending) \in Nat
        /\ \A i \in 1 .. Len(pending) : pending[i] \in Request
    BY LenProperties, ElementOfSeq DEF IInv, TypeOK
  <2>2. \E m \in mine : \A n \in mine : m <= n
    <3>1. mine \in SUBSET Nat
      BY <2>1
    <3> HIDE DEF mine
    <3> QED BY <1>2, <3>1, LeastExists
  <2>3. PICK m \in mine : LastRequest(agent) = pending[m]
    BY <1>2, <2>2 DEF LastRequest
  <2> QED BY <2>1, <2>3 DEF ToSet, Of
<1> QED BY <1>1, <1>2

LEMMA InitInv == Init => IInv
<1> SUFFICES ASSUME Init PROVE IInv
  OBVIOUS
<1>1. TypeOK
  BY CoordinatorAssumption, EmptyQueue DEF Init, TypeOK, NoSlot, NoCall, Stage, Unused, RunStage
<1>2. \A e \in Execution : runs[e] = Unused /\ runs[e].request = NoRequest /\ runs[e].stage = "unused"
  BY DEF Init, Unused
<1>3. \A r \in Request : Live(r) = {} /\ Executing(r) = {}
  BY <1>2 DEF Live, Executing
<1>4. StageKnown /\ RunsKnown /\ HandedOverOnce
  BY <1>2, CoordinatorAssumption DEF Init, StageKnown, RunsKnown, HandedOverOnce
<1>5. AloneUnlessOverlapped /\ ControllersMatch /\ SlotsOK(slots, Busy)
  BY <1>3 DEF Init, AloneUnlessOverlapped, ControllersMatch, SlotsOK, NoSlot
<1>6. QueuedOnce
  BY EmptyQueue DEF Init, QueuedOnce
<1>7. ShownAsAnswered
  BY <1>3 DEF Init, ShownAsAnswered
<1>8. KeptOnce(suspended, stage)
  BY DEF Init, KeptOnce, Keeps, NoCall
<1> QED BY <1>1, <1>4, <1>5, <1>6, <1>7, <1>8 DEF IInv

------------------------------------------------------------------------------
(* The actions. *)

LEMMA QueueAgentStep ==
  ASSUME IInv, NEW r \in Request, QueueAgent(r)
  PROVE  IInv'
<1> DEFINE queue == InsertByPriority(pending, r, Weight)
           newStage == [stage EXCEPT ![r] = "queued"]
           s == Transition(slots, AgentOf[r], "queued", NoRequest)
<1>1. /\ stage[r] = "new" /\ r \notin Direct /\ DrainQueue(s, queue, newStage)
      /\ UNCHANGED <<wired, answer, suspended, aborted>>
  BY DEF QueueAgent
<1>2. /\ queue \in Seq(Request) /\ queue # << >> /\ IsInjective(queue)
      /\ newStage \in [Request -> Stage]
      /\ newStage[r] = "queued" /\ \A q \in Request : q # r => newStage[q] = stage[q]
      /\ ToSet(queue) = {q \in Request : newStage[q] = "queued"}
  BY <1>1, EntersQueue
<1>3. s \in Slots /\ SlotsOK(s, Busy)
  <2>1. /\ slots \in Slots /\ SlotsOK(slots, Busy) /\ AgentOf[r] \in Agent
        /\ "queued" \in SlotState \ {"running"}
    BY ConstantFacts, RunTypes DEF SlotState
  <2> QED BY <2>1, StopFacts
<1> HIDE DEF queue, newStage, s
<1>4. suspended' \in [Call -> SuspendedCall]
  BY <1>1 DEF IInv, TypeOK, SuspendedCall
<1>5. KeptOnce(suspended', newStage)
  BY <1>1, <1>2 DEF IInv, KeptOnce
<1>6. \A q \in Request : \/ newStage[q] = stage[q]
                         \/ newStage[q] = "queued" /\ stage[q] # "taken" /\ q \notin Direct
  BY <1>1, <1>2
<1> QED BY <1>1, <1>2, <1>3, <1>4, <1>5, <1>6, DrainStep

LEMMA ExecuteAgentStep ==
  ASSUME IInv, NEW r \in Request, ExecuteAgent(r)
  PROVE  IInv'
<1>1. PICK e \in Execution : Begin(slots, r, e)
  BY DEF ExecuteAgent
<1>2. /\ r \in Direct /\ UNCHANGED <<pending, wired, stage, answer, suspended, aborted>>
      /\ slots \in Slots /\ SlotsOK(slots, Busy)
  BY RunTypes DEF ExecuteAgent
<1>3. /\ pending' \in Seq(Request) /\ IsInjective(pending') /\ stage' \in [Request -> Stage]
      /\ ToSet(pending') = {q \in Request : stage'[q] = "queued"}
      /\ suspended' \in [Call -> SuspendedCall] /\ KeptOnce(suspended', stage')
      /\ \A q \in Direct : stage'[q] = "new"
      /\ \A q \in Request : stage[q] = "taken" => stage'[q] = "taken"
  BY <1>2 DEF IInv, TypeOK, QueuedOnce, StageKnown, SuspendedCall
<1> QED BY <1>1, <1>2, <1>3, BeginStep

LEMMA DispatchEndsStep ==
  ASSUME IInv, NEW e \in Execution, NEW status \in {"success", "failed"}, DispatchEnds(e, status)
  PROVE  IInv'
<1>0. runs[e].stage = "executing" /\ runs[e].request \in Request /\ runs \in Runs
  BY RunTypes DEF DispatchEnds, IInv, RunsKnown
<1> PICK r \in Request : r = runs[e].request
  BY <1>0
<1>1. /\ runs[e].stage = "executing" /\ runs' = [runs EXCEPT ![e].stage = status]
      /\ answer' = [answer EXCEPT ![r] = status]
      /\ shown' = [shown EXCEPT ![r] = IF status = "success" THEN "completed" ELSE "failed"]
      /\ work' \subseteq work
      /\ UNCHANGED <<slots, pending, controllers, wired, stage, suspended, aborted, overlapped>>
  BY DEF DispatchEnds
<1>2. runs[e] = [request |-> r, stage |-> "executing"]
  BY <1>0 DEF Runs
<1>3. runs' = [runs EXCEPT ![e] = [request |-> r, stage |-> status]]
  <2>1. [runs[e] EXCEPT !.stage = status] = [request |-> r, stage |-> status]
    BY <1>2
  <2> QED BY <1>1, <2>1
<1>4. status \in RunStage \ {"unused"} /\ status # "returned" /\ status # "executing"
  BY DEF RunStage
<1>5. runs[e].request = r /\ e \in Live(r) /\ e \in Executing(r)
  <2>1. runs[e].request = r /\ runs[e].stage = "executing"
    BY <1>2
  <2> QED BY <1>2, <2>1 DEF Live, Executing
<1>6. /\ runs' \in Runs
      /\ runs'[e].request = r /\ runs'[e].stage = status
      /\ \A d \in Execution : d # e => runs'[d] = runs[d]
      /\ \A q \in Request : q # r => Live(q)' = Live(q) /\ Executing(q)' = Executing(q)
      /\ Live(r)' = Live(r)
      /\ Executing(r)' = Executing(r) \ {e}
  <2>1. runs[e] = Unused \/ runs[e].request = r
    BY <1>5
  <2>2. /\ runs' \in Runs
        /\ runs'[e].request = r /\ runs'[e].stage = status
        /\ \A d \in Execution : d # e => runs'[d] = runs[d]
        /\ \A q \in Request : q # r => Live(q)' = Live(q) /\ Executing(q)' = Executing(q)
        /\ Live(r)' = IF status = "returned" THEN Live(r) \ {e} ELSE Live(r) \cup {e}
        /\ Executing(r)' = IF status = "executing" THEN Executing(r) \cup {e} ELSE Executing(r) \ {e}
    BY <1>0, <1>3, <1>4, <2>1, RunChanges
  <2> QED BY <1>4, <1>5, <2>2
<1>7. \A q \in Request : Live(q)' = Live(q)
  BY <1>6
<1>8. Busy' = Busy
  BY <1>7 DEF Busy
<1>9. /\ answer' \in [Request -> {"none", "success", "failed"}] /\ answer'[r] = status
      /\ \A q \in Request : q # r => answer'[q] = answer[q]
      /\ shown' \in [Request -> {"absent", "running", "completed", "failed"}]
      /\ shown'[r] = (IF status = "success" THEN "completed" ELSE "failed")
      /\ \A q \in Request : q # r => shown'[q] = shown[q]
  BY <1>1, <1>2 DEF IInv, TypeOK
<1>10. TypeOK'
  BY <1>1, <1>6, <1>9 DEF IInv, TypeOK, Runs
<1>11. StageKnown' /\ HandedOverOnce'
  <2>1. \A d \in Execution : runs'[d].request = runs[d].request
    BY <1>5, <1>6
  <2> QED BY <1>1, <2>1 DEF IInv, StageKnown, HandedOverOnce
<1>12. RunsKnown'
  BY <1>1, <1>2, <1>4, <1>6 DEF IInv, RunsKnown
<1>13. AloneUnlessOverlapped' /\ ControllersMatch' /\ SlotsOK(slots', Busy')
  BY <1>1, <1>7, <1>8 DEF IInv, AloneUnlessOverlapped, ControllersMatch
<1>14. QueuedOnce' /\ KeptOnce(suspended', stage')
  BY <1>1 DEF IInv, QueuedOnce
<1>15. ShownAsAnswered'
  <2> SUFFICES ASSUME NEW q \in Request
               PROVE  /\ Executing(q)' # {} /\ q \notin overlapped' => shown'[q] = "running"
                      /\ Executing(q)' = {} =>
                           shown'[q] = CASE answer'[q] = "success" -> "completed"
                                         [] answer'[q] = "failed" -> "failed"
                                         [] answer'[q] = "none" -> "absent"
    BY DEF ShownAsAnswered
  <2>1. CASE q = r
    <3>1. q \notin overlapped => Executing(r)' = {}
      BY <1>2, <1>5, <1>6, <2>1, ExecutingIsLive DEF IInv, AloneUnlessOverlapped
    <3> QED BY <1>1, <1>9, <2>1, <3>1
  <2>2. CASE q # r
    BY <1>1, <1>6, <1>9, <2>2 DEF IInv, ShownAsAnswered
  <2> QED BY <2>1, <2>2
<1> QED BY <1>10, <1>11, <1>12, <1>13, <1>14, <1>15 DEF IInv

LEMMA ReturnsStep ==
  ASSUME IInv, NEW e \in Execution, Returns(e)
  PROVE  IInv'
<1>0. /\ runs[e].stage \in {"success", "failed"} /\ runs[e].request \in Request
      /\ runs \in Runs
  BY RunTypes DEF Returns, IInv, RunsKnown
<1> PICK r \in Request : r = runs[e].request
  BY <1>0
<1> DEFINE state == IF runs[e].stage = "success" THEN "completed" ELSE "failed"
<1>1. /\ runs[e].stage \in {"success", "failed"} /\ runs' = [runs EXCEPT ![e].stage = "returned"]
      /\ controllers' = [controllers EXCEPT ![r] = NoExecution]
      /\ slots' = Transition(slots, AgentOf[r], state, NoRequest)
      /\ UNCHANGED <<pending, wired, stage, answer, work, suspended, shown, aborted, overlapped>>
  BY DEF Returns, Freed
<1>2. runs[e].request = r /\ state \in SlotState \ {"running"}
  BY <1>1 DEF SlotState
<1> HIDE DEF state
<1>3. runs' = [runs EXCEPT ![e] = [request |-> r, stage |-> "returned"]]
  <2>1. runs[e] = [request |-> r, stage |-> runs[e].stage]
    BY <1>0 DEF Runs
  <2>2. [runs[e] EXCEPT !.stage = "returned"] = [request |-> r, stage |-> "returned"]
    BY <2>1
  <2> QED BY <1>1, <2>2
<1>4. "returned" \in RunStage \ {"unused"}
  BY DEF RunStage
<1>5. e \in Live(r) /\ e \notin Executing(r)
  BY <1>1, <1>2 DEF Live, Executing
<1>6. /\ runs' \in Runs
      /\ runs'[e].request = r /\ runs'[e].stage = "returned"
      /\ \A d \in Execution : d # e => runs'[d] = runs[d]
      /\ \A q \in Request : q # r => Live(q)' = Live(q) /\ Executing(q)' = Executing(q)
      /\ Live(r)' = Live(r) \ {e}
      /\ Executing(r)' = Executing(r)
  <2>1. runs[e] = Unused \/ runs[e].request = r
    BY <1>2
  <2>2. /\ runs' \in Runs
        /\ runs'[e].request = r /\ runs'[e].stage = "returned"
        /\ \A d \in Execution : d # e => runs'[d] = runs[d]
        /\ \A q \in Request : q # r => Live(q)' = Live(q) /\ Executing(q)' = Executing(q)
        /\ Live(r)' = IF "returned" = "returned" THEN Live(r) \ {e} ELSE Live(r) \cup {e}
        /\ Executing(r)' = IF "returned" = "executing" THEN Executing(r) \cup {e} ELSE Executing(r) \ {e}
    BY <1>0, <1>3, <1>4, <2>1, RunChanges
  <2> QED BY <1>4, <1>5, <2>2
<1>7. slots' \in Slots /\ SlotsOK(slots', Busy')
  <2>1. slots \in Slots /\ SlotsOK(slots, Busy) /\ AgentOf[r] \in Agent
    BY <1>2, RunTypes, ConstantFacts
  <2>2. \A q \in Busy : q # r => q \in Busy'
    BY <1>6 DEF Busy
  <2>3. \A other \in Agent : other # AgentOf[r] => Busy \cap Of(other) \subseteq Busy'
    BY <2>2, ConstantFacts
  <2> QED BY <1>1, <1>2, <2>1, <2>3, StopFacts
<1>8. /\ controllers' \in [Request -> Execution \cup {NoExecution}] /\ controllers'[r] = NoExecution
      /\ \A q \in Request : q # r => controllers'[q] = controllers[q]
  BY <1>1, <1>2 DEF IInv, TypeOK
<1>9. TypeOK'
  BY <1>1, <1>6, <1>7, <1>8 DEF IInv, TypeOK, Slots, SlotState, Runs
<1>10. StageKnown' /\ HandedOverOnce'
  <2>1. \A d \in Execution : runs'[d].request = runs[d].request
    BY <1>2, <1>6
  <2> QED BY <1>1, <2>1 DEF IInv, StageKnown, HandedOverOnce
<1>11. RunsKnown'
  BY <1>1, <1>2, <1>6 DEF IInv, RunsKnown
<1>12. AloneUnlessOverlapped'
  <2>1. overlapped' = overlapped /\ \A q \in Request : Live(q)' \subseteq Live(q)
    BY <1>1, <1>6
  <2> QED BY <2>1 DEF IInv, AloneUnlessOverlapped
<1>13. ControllersMatch'
  <2> SUFFICES ASSUME NEW q \in Request
               PROVE  /\ controllers'[q] # NoExecution => controllers'[q] \in Live(q)' \ aborted'
                      /\ q \notin overlapped' => Live(q)' \ aborted' \subseteq {controllers'[q]}
    BY DEF ControllersMatch
  <2>1. CASE q = r
    <3>1. q \notin overlapped => Live(r) \ {e} = {}
      BY <1>2, <1>5, <2>1 DEF IInv, AloneUnlessOverlapped
    <3> QED BY <1>1, <1>6, <1>8, <2>1, <3>1
  <2>2. CASE q # r
    BY <1>1, <1>6, <1>8, <2>2 DEF IInv, ControllersMatch
  <2> QED BY <2>1, <2>2
<1>14. QueuedOnce' /\ KeptOnce(suspended', stage')
  BY <1>1 DEF IInv, QueuedOnce
<1>15. ShownAsAnswered'
  <2>1. \A q \in Request : Executing(q)' = Executing(q)
    BY <1>6
  <2> QED BY <1>1, <2>1 DEF IInv, ShownAsAnswered
<1> QED BY <1>7, <1>9, <1>10, <1>11, <1>12, <1>13, <1>14, <1>15 DEF IInv

(* A step in which no request or execution moves and nothing is shown,     *)
(* aborted or answered.                                                    *)
LEMMA StillStep ==
  ASSUME IInv, slots' \in Slots, SlotsOK(slots', Busy), wired' \in BOOLEAN, work' \subseteq work,
         UNCHANGED <<pending, controllers, stage, runs, answer, suspended, shown, aborted, overlapped>>
  PROVE  IInv'
<1>1. /\ pending' \in Seq(Request) /\ IsInjective(pending') /\ stage' \in [Request -> Stage]
      /\ ToSet(pending') = {q \in Request : stage'[q] = "queued"}
      /\ suspended' \in [Call -> SuspendedCall] /\ KeptOnce(suspended', stage')
      /\ \A q \in Direct : stage'[q] = "new"
      /\ \A q \in Request : stage[q] = "taken" => stage'[q] = "taken"
  BY DEF IInv, TypeOK, QueuedOnce, StageKnown, SuspendedCall
<1> QED BY <1>1, NobodyAborted, QuietStep

LEMMA RegisterAgentStep ==
  ASSUME IInv, NEW agent \in Agent, RegisterAgent(agent)
  PROVE  IInv'
<1>1. /\ slots' = [slots EXCEPT ![agent] = [state |-> "idle", active |-> NoRequest]]
      /\ UNCHANGED <<pending, controllers, wired, stage, runs, answer, work, suspended, shown,
                     aborted, overlapped>>
      /\ slots \in Slots /\ SlotsOK(slots, Busy) /\ wired' \in BOOLEAN
  BY DEF RegisterAgent, IInv, TypeOK, Slots, SlotState
<1>2. slots' \in Slots
  BY <1>1 DEF Slots, SlotState
<1>3. /\ slots'[agent] = [state |-> "idle", active |-> NoRequest]
      /\ \A other \in Agent : other # agent => slots'[other] = slots[other]
  BY <1>1 DEF Slots
<1>4. SlotsOK(slots', Busy)
  BY <1>1, <1>3 DEF SlotsOK
<1> QED BY <1>1, <1>2, <1>4, StillStep

(* What a suspended call knows. *)
LEMMA SuspendedFacts ==
  ASSUME IInv, NEW call \in Call
  PROVE  /\ suspended[call].kind = "unregister" => suspended[call].agent \in Agent
         /\ suspended[call].kind = "restart" =>
              suspended[call].agent \in Agent /\ suspended[call].last \in Request \cup {NoRequest}
<1>1. suspended[call] \in SuspendedCall
  BY DEF IInv, TypeOK, SuspendedCall
<1> QED BY <1>1 DEF SuspendedCall, NoCall

(* A call that is suspended or goes on, for any stage in between. *)
LEMMA CallFacts ==
  ASSUME NEW calls \in [Call -> SuspendedCall], NEW st, KeptOnce(calls, st),
         NEW call \in Call, NEW new \in SuspendedCall, new.kind # "restart"
  PROVE  /\ [calls EXCEPT ![call] = new] \in [Call -> SuspendedCall]
         /\ KeptOnce([calls EXCEPT ![call] = new], st)
         /\ \A r \in Request, c \in Call : Keeps([calls EXCEPT ![call] = new][c], r)
                                             => c # call /\ Keeps(calls[c], r)
<1> DEFINE next == [calls EXCEPT ![call] = new]
<1>1. next \in [Call -> SuspendedCall] /\ next[call] = new
  OBVIOUS
<1>2. \A c \in Call : c # call => next[c] = calls[c]
  OBVIOUS
<1> HIDE DEF next
<1>3. ASSUME NEW r \in Request, NEW c \in Call, Keeps(next[c], r) PROVE c # call /\ Keeps(calls[c], r)
  BY <1>1, <1>2, <1>3 DEF Keeps
<1>4. KeptOnce(next, st)
  BY <1>3 DEF KeptOnce
<1> QED BY <1>1, <1>3, <1>4 DEF next

LEMMA CancelAgentStep ==
  ASSUME IInv, NEW agent \in Agent, CancelAgent(agent)
  PROVE  IInv'
<1>1. Cancelled(agent) /\ UNCHANGED <<wired, runs, answer, work, suspended, shown, overlapped>>
  BY DEF CancelAgent
<1>2. suspended' \in [Call -> SuspendedCall]
  BY <1>1 DEF IInv, TypeOK, SuspendedCall
<1>3. KeptOnce(suspended', stage')
  BY <1>1, LeaveQueue DEF Cancelled
<1> QED BY <1>1, <1>2, <1>3, CancelledStep

LEMMA UnregisterAgentStep ==
  ASSUME IInv, NEW agent \in Agent, NEW call \in Call, UnregisterAgent(agent, call)
  PROVE  IInv'
<1> DEFINE new == [kind |-> "unregister", agent |-> agent]
<1>1. suspended' = [suspended EXCEPT ![call] = new] /\ UNCHANGED <<wired, runs, answer, work, shown, overlapped>>
  BY DEF UnregisterAgent
<1>2. /\ new \in SuspendedCall /\ new.kind # "restart" /\ suspended \in [Call -> SuspendedCall]
      /\ wired' \in BOOLEAN
  BY <1>1 DEF IInv, TypeOK, SuspendedCall
<1>3. KeptOnce(suspended, stage) /\ KeptOnce(suspended, Dropped(agent))
  BY LeaveQueue DEF IInv
<1> HIDE DEF new
<1>4. suspended' \in [Call -> SuspendedCall]
  BY <1>1, <1>2, <1>3, CallFacts
<1>5. CASE Cancelled(agent)
  <2>1. stage' = Dropped(agent)
    BY <1>5 DEF Cancelled
  <2>2. KeptOnce(suspended', stage')
    BY <1>1, <1>2, <1>3, <2>1, CallFacts
  <2> QED BY <1>1, <1>4, <1>5, <2>2, CancelledStep
<1>6. CASE UNCHANGED <<controllers, aborted, pending, stage, slots>>
  <2>1. KeptOnce(suspended', stage')
    BY <1>1, <1>2, <1>3, <1>6, CallFacts
  <2>2. slots' \in Slots /\ SlotsOK(slots', Busy)
    BY <1>6, RunTypes
  <2>3. /\ pending' \in Seq(Request) /\ IsInjective(pending') /\ stage' \in [Request -> Stage]
        /\ ToSet(pending') = {q \in Request : stage'[q] = "queued"}
        /\ \A q \in Direct : stage'[q] = "new"
        /\ \A q \in Request : stage[q] = "taken" => stage'[q] = "taken"
    BY <1>6 DEF IInv, TypeOK, QueuedOnce, StageKnown
  <2>4. controllers' = controllers /\ aborted' = aborted /\ work' \subseteq work
    BY <1>1, <1>6
  <2> QED BY <1>1, <1>2, <1>4, <2>1, <2>2, <2>3, <2>4, NobodyAborted, QuietStep
<1> QED BY <1>5, <1>6 DEF UnregisterAgent

LEMMA UnregisterResumesStep ==
  ASSUME IInv, NEW call \in Call, UnregisterResumes(call)
  PROVE  IInv'
<1> DEFINE agent == suspended[call].agent
<1>1. /\ slots' = [slots EXCEPT ![agent] = NoSlot] /\ pending' = Without(pending, Of(agent))
      /\ stage' = Dropped(agent) /\ suspended' = [suspended EXCEPT ![call] = NoCall]
      /\ UNCHANGED <<controllers, wired, runs, answer, work, shown, aborted, overlapped>>
  BY DEF UnregisterResumes
<1>2. agent \in Agent
  BY SuspendedFacts DEF UnregisterResumes
<1> HIDE DEF agent
<1>3. /\ NoCall \in SuspendedCall /\ NoCall.kind # "restart" /\ suspended \in [Call -> SuspendedCall]
      /\ wired' \in BOOLEAN
  BY <1>1 DEF IInv, TypeOK, SuspendedCall, NoCall
<1>4. suspended' \in [Call -> SuspendedCall] /\ KeptOnce(suspended', stage')
  BY <1>1, <1>2, <1>3, LeaveQueue, CallFacts
<1>5. slots' \in Slots /\ SlotsOK(slots', Busy)
  <2>1. slots \in Slots /\ SlotsOK(slots, Busy)
    BY DEF IInv, TypeOK, Slots, SlotState
  <2>2. slots' \in Slots
    BY <1>1, <2>1 DEF Slots, SlotState, NoSlot
  <2>3. slots'[agent] = NoSlot /\ \A other \in Agent : other # agent => slots'[other] = slots[other]
    BY <1>1, <1>2, <2>1 DEF Slots
  <2> QED BY <2>1, <2>2, <2>3 DEF SlotsOK, NoSlot
<1>6. controllers' = controllers /\ aborted' = aborted /\ work' \subseteq work
  BY <1>1
<1> QED BY <1>1, <1>2, <1>3, <1>4, <1>5, <1>6, LeaveQueue, NobodyAborted, QuietStep

LEMMA RestartAgentStep ==
  ASSUME IInv, NEW agent \in Agent, NEW call \in Call, RestartAgent(agent, call)
  PROVE  IInv'
<1> DEFINE last == LastRequest(agent)
           new == [kind |-> "restart", agent |-> agent, last |-> last]
<1>1. /\ suspended' = [suspended EXCEPT ![call] = new] /\ Cancelled(agent)
      /\ UNCHANGED <<wired, runs, answer, work, shown, overlapped>>
  BY DEF RestartAgent
<1>2. last \in {NoRequest} \cup (ToSet(pending) \cap Of(agent))
  BY LastRequestFacts
<1>3. /\ suspended \in [Call -> SuspendedCall] /\ last \in Request \cup {NoRequest}
      /\ ToSet(pending) = {q \in Request : stage[q] = "queued"}
  BY <1>2 DEF IInv, TypeOK, SuspendedCall, QueuedOnce
<1> HIDE DEF last
<1>4. new \in SuspendedCall
  BY <1>3 DEF SuspendedCall
<1>5. suspended' \in [Call -> SuspendedCall]
  BY <1>1, <1>3, <1>4
<1>6. stage' = Dropped(agent) /\ KeptOnce(suspended, Dropped(agent)) /\ KeptOnce(suspended, stage)
  BY <1>1, LeaveQueue DEF Cancelled, IInv
<1>7. last \in Request => stage'[last] = "dropped" /\ stage[last] = "queued"
  BY <1>2, <1>3, <1>6, LeaveQueue, ConstantFacts
<1>8. /\ \A c \in Call : c # call => suspended'[c] = suspended[c]
      /\ suspended'[call] = new
  BY <1>1, <1>3
<1>9. \A c \in Call : c # call => ~(last \in Request /\ Keeps(suspended'[c], last))
  BY <1>6, <1>7, <1>8 DEF KeptOnce
<1>10. \A r \in Request : Keeps(suspended'[call], r) => r = last
  BY <1>8 DEF Keeps
<1>11. KeptOnce(suspended', stage')
  <2> SUFFICES ASSUME NEW r \in Request, NEW c \in Call, Keeps(suspended'[c], r)
               PROVE  stage'[r] = "dropped" /\ \A d \in Call : Keeps(suspended'[d], r) => c = d
    BY DEF KeptOnce
  <2>1. CASE c = call
    BY <1>7, <1>9, <1>10, <2>1
  <2>2. CASE c # call
    <3>1. Keeps(suspended[c], r) /\ r # last
      BY <1>8, <1>9, <2>2
    <3>2. stage'[r] = "dropped" /\ \A d \in Call : Keeps(suspended[d], r) => c = d
      BY <1>6, <3>1 DEF KeptOnce
    <3> QED BY <1>8, <1>10, <3>1, <3>2
  <2> QED BY <2>1, <2>2
<1> QED BY <1>1, <1>5, <1>11, CancelledStep

LEMMA RestartResumesStep ==
  ASSUME IInv, NEW call \in Call, RestartResumes(call)
  PROVE  IInv'
<1> DEFINE agent == suspended[call].agent
           last == suspended[call].last
<1>1. /\ suspended[call].kind = "restart" /\ suspended' = [suspended EXCEPT ![call] = NoCall]
      /\ UNCHANGED <<wired, answer, aborted>>
  BY DEF RestartResumes
<1>2. agent \in Agent /\ last \in Request \cup {NoRequest}
  BY <1>1, SuspendedFacts
<1>3. /\ NoCall \in SuspendedCall /\ NoCall.kind # "restart" /\ suspended \in [Call -> SuspendedCall]
      /\ KeptOnce(suspended, stage) /\ wired' \in BOOLEAN
      /\ slots \in Slots /\ SlotsOK(slots, Busy)
      /\ {"queued", "idle"} \subseteq SlotState \ {"running"}
  BY <1>1 DEF IInv, TypeOK, SuspendedCall, NoCall, Slots, SlotState
<1>4. /\ suspended' \in [Call -> SuspendedCall] /\ KeptOnce(suspended', stage)
      /\ \A r \in Request, c \in Call : Keeps(suspended'[c], r) => c # call /\ Keeps(suspended[c], r)
  BY <1>1, <1>3, CallFacts
<1>5. CASE last # NoRequest
  <2> DEFINE queue == InsertByPriority(pending, last, Weight)
             newStage == [stage EXCEPT ![last] = "queued"]
             s == Transition(slots, agent, "queued", NoRequest)
  <2>1. DrainQueue(s, queue, newStage)
    BY <1>5 DEF RestartResumes
  <2>2. last \in Request /\ Keeps(suspended[call], last)
    BY <1>1, <1>2, <1>5 DEF Keeps
  <2>3. stage[last] = "dropped" /\ \A c \in Call : Keeps(suspended[c], last) => c = call
    BY <1>3, <2>2 DEF KeptOnce
  <2> HIDE DEF last, agent
  <2>4. /\ queue \in Seq(Request) /\ queue # << >> /\ IsInjective(queue)
        /\ newStage \in [Request -> Stage]
        /\ newStage[last] = "queued" /\ \A q \in Request : q # last => newStage[q] = stage[q]
        /\ ToSet(queue) = {q \in Request : newStage[q] = "queued"}
    <3>1. last \in Request /\ stage[last] # "queued"
      BY <2>2, <2>3
    <3> QED BY <3>1, EntersQueue
  <2>5. s \in Slots /\ SlotsOK(s, Busy)
    BY <1>2, <1>3, StopFacts
  <2> HIDE DEF queue, newStage, s
  <2>6. KeptOnce(suspended', newStage)
    BY <1>4, <2>2, <2>3, <2>4 DEF KeptOnce
  <2>7. \A q \in Request : \/ newStage[q] = stage[q]
                           \/ newStage[q] = "queued" /\ stage[q] # "taken" /\ q \notin Direct
    BY <2>3, <2>4 DEF IInv, StageKnown
  <2> QED BY <1>1, <1>4, <2>1, <2>4, <2>5, <2>6, <2>7, DrainStep
<1>6. CASE last = NoRequest
  <2>1. /\ slots' = Transition(slots, agent, "idle", NoRequest)
        /\ UNCHANGED <<pending, stage, controllers, runs, work, shown, overlapped>>
    BY <1>6 DEF RestartResumes, DrainQueue
  <2> HIDE DEF last, agent
  <2>2. slots' \in Slots /\ SlotsOK(slots', Busy)
    BY <1>2, <1>3, <2>1, StopFacts
  <2>3. /\ pending' \in Seq(Request) /\ IsInjective(pending') /\ stage' \in [Request -> Stage]
        /\ ToSet(pending') = {q \in Request : stage'[q] = "queued"}
        /\ \A q \in Direct : stage'[q] = "new"
        /\ \A q \in Request : stage[q] = "taken" => stage'[q] = "taken"
    BY <2>1 DEF IInv, TypeOK, QueuedOnce, StageKnown
  <2>4. controllers' = controllers /\ aborted' = aborted /\ work' \subseteq work
    BY <1>1, <2>1
  <2> QED BY <1>1, <1>3, <1>4, <2>1, <2>2, <2>3, <2>4, NobodyAborted, QuietStep
<1> QED BY <1>5, <1>6

------------------------------------------------------------------------------
LEMMA NextInv ==
  ASSUME IInv, [Next]_vars
  PROVE  IInv'
<1>1. ASSUME slots' = slots, wired' \in BOOLEAN, work' \subseteq work,
             UNCHANGED <<pending, controllers, stage, runs, answer, suspended, shown, aborted, overlapped>>
      PROVE  IInv'
  <2>1. slots' \in Slots /\ SlotsOK(slots', Busy)
    BY <1>1, RunTypes
  <2> QED BY <1>1, <2>1, StillStep
<1>2. CASE UNCHANGED vars
  BY <1>1, <1>2 DEF vars, IInv, TypeOK
<1>3. ASSUME NEW e \in Execution, LateAnswer(e) PROVE IInv'
  BY <1>1, <1>3 DEF LateAnswer, IInv, TypeOK
<1>4. CASE SetDispatcher
  BY <1>1, <1>4 DEF SetDispatcher
<1>5. ASSUME NEW r \in Request, QueueAgent(r) \/ ExecuteAgent(r) PROVE IInv'
  BY <1>5, QueueAgentStep, ExecuteAgentStep
<1>8. ASSUME NEW e \in Execution,
             \/ \E status \in {"success", "failed"} : DispatchEnds(e, status)
             \/ Returns(e)
      PROVE  IInv'
  BY <1>8, DispatchEndsStep, ReturnsStep
<1>6. ASSUME NEW agent \in Agent,
             \/ RegisterAgent(agent)
             \/ CancelAgent(agent)
             \/ \E call \in Call : UnregisterAgent(agent, call) \/ RestartAgent(agent, call)
      PROVE  IInv'
  BY <1>6, RegisterAgentStep, CancelAgentStep, UnregisterAgentStep, RestartAgentStep
<1>7. ASSUME NEW call \in Call, UnregisterResumes(call) \/ RestartResumes(call)
      PROVE  IInv'
  BY <1>7, UnregisterResumesStep, RestartResumesStep
<1> QED BY <1>2, <1>3, <1>4, <1>5, <1>6, <1>7, <1>8 DEF Next

LEMMA Inductive == Spec => []IInv
<1>1. IInv /\ [Next]_vars => IInv'
  BY NextInv
<1> QED BY InitInv, <1>1, PTL DEF Spec

(* Slots, requests and calls only hold what the code writes there. *)
THEOREM TypeCorrect == Spec => []TypeOK
<1>1. IInv => TypeOK
  BY DEF IInv
<1> QED BY <1>1, Inductive, PTL

(* No controller leaks or is stale, and none is lost but to a repeated     *)
(* execution.                                                              *)
THEOREM ControllersExact == Spec => []ControllersMatch
<1>1. IInv => ControllersMatch
  BY DEF IInv
<1> QED BY <1>1, Inductive, PTL

(* A slot says 'running' only of an execution of its agent that goes on. *)
THEOREM RunningSlotHonest == Spec => []RunningSlotIsLive
<1>1. ASSUME IInv PROVE RunningSlotIsLive
  <2>1. SlotsOK(slots, Busy)
    BY <1>1 DEF IInv
  <2> QED BY <2>1 DEF SlotsOK, RunningSlotIsLive, Busy
<1> QED BY <1>1, Inductive, PTL

(* The queue holds each queued request once, through suspended calls. *)
THEOREM QueueExact == Spec => []QueuedOnce
<1>1. IInv => QueuedOnce
  BY DEF IInv
<1> QED BY <1>1, Inductive, PTL

(* What the state service shows is what the caller was last answered. *)
THEOREM ShownHonest == Spec => []ShownAsAnswered
<1>1. IInv => ShownAsAnswered
  BY DEF IInv
<1> QED BY <1>1, Inductive, PTL

(* A request that came through the queue is handed over once. *)
THEOREM QueueHandsOverOnce == Spec => []HandedOverOnce
<1>1. IInv => HandedOverOnce
  BY DEF IInv
<1> QED BY <1>1, Inductive, PTL
=============================================================================
