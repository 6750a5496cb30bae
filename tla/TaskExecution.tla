--------------------------- MODULE TaskExecution ---------------------------
(***************************************************************************)
(* runtime/tasks/task_execution_engine.py on top of ProviderManager: each   *)
(* request is executed by one coroutine, attempt after attempt, every       *)
(* attempt under asyncio.wait_for() when the request has a timeout.         *)
(*                                                                         *)
(* stage[r] is the await at which execute() of request r is suspended.      *)
(* Listeners of the event bus do not raise.                                 *)
(***************************************************************************)
EXTENDS ProviderManager

CONSTANTS
  MaxAttempts,  \* max_attempts of a request
  Timed,        \* the requests with timeout_seconds
  AgentPlan     \* what planning may come to: an agent that is registered with
                \* the agent manager, one that is missing there, none at all
                \* (when the default planner is replaced: it always names one),
                \* or a request that the planner refuses

ASSUME EngineAssumption ==
  /\ MaxAttempts \in [Request -> Nat \ {0}]
  /\ Timed \subseteq Request
  /\ AgentPlan \in [Request -> SUBSET {"registered", "missing", "none", "refused"}]
  /\ \A r \in Request : AgentPlan[r] # {}

VARIABLES
  stage,      \* the await at which execute() is suspended
  attempt,    \* state.attempts
  expired,    \* the timer of this attempt has fired
  cancelled,  \* the cancel event is set
  shown,      \* the status in the state store
  outcome,    \* what execute() returned or raised
  answered,   \* history: the requests somebody answered successfully
  owed        \* history: the records the last call of ProviderManager.execute()
              \* still has to fall back to: those registered when it began and
              \* neither asked nor found without tokens since, or none after an
              \* error that is not transient

engineVars ==
  <<stage, attempt, expired, cancelled, shown, outcome, answered, owed>>
vars == <<providerVars, engineVars>>

Stage == {"new", "between", "planning", "agent", "provider", "ended"}

Init ==
  /\ ProvidersInit
  /\ stage = [r \in Request |-> "new"]
  /\ attempt = [r \in Request |-> 0]
  /\ expired = [r \in Request |-> FALSE]
  /\ cancelled = [r \in Request |-> FALSE]
  /\ shown = [r \in Request |-> "none"]
  /\ outcome = [r \in Request |-> "none"]
  /\ answered = {}
  /\ owed = [r \in Request |-> {}]

-----------------------------------------------------------------------------
(* How an attempt ends *)

End(r, how, status) ==
  /\ stage' = [stage EXCEPT ![r] = "ended"]
  /\ outcome' = [outcome EXCEPT ![r] = how]
  /\ shown' = [shown EXCEPT ![r] = status]

Completes(r) == End(r, "completed", "completed")

\* mutant: the state is not published
TimesOut_Unpublished(r) == End(r, "timed out", shown[r])

\* except asyncio.TimeoutError
TimesOut(r) == End(r, "timed out", "failed")

\* except TaskCancelledError
Cancels(r) == End(r, "cancelled", "cancelled")

\* except Exception, in the n-th attempt: the failure is published, and the
\* next attempt follows after a delay.
FailsIn(r, n) ==
  IF n >= MaxAttempts[r]
  THEN End(r, "failed", "failed")
  ELSE /\ stage' = [stage EXCEPT ![r] = "between"]
       /\ shown' = [shown EXCEPT ![r] = "failed"]
       /\ UNCHANGED outcome

Fails(r) == FailsIn(r, attempt[r])

\* mutant: response.success is not looked at
AfterCall_AnyResponse(r, pc) ==
  CASE pc \in {"calling", "backoff"} ->
         /\ stage' = [stage EXCEPT ![r] = "provider"]
         /\ UNCHANGED <<shown, outcome>>
    [] pc \in {"answered", "refused"} -> Completes(r)
    [] pc = "exhausted" -> Fails(r)
    [] pc = "aborted" -> TimesOut(r)

\* _execute_request(): what becomes of the attempt when the call of
\* ProviderManager.execute() is in state pc.
AfterCall(r, pc) ==
  CASE pc \in {"calling", "backoff"} ->
         /\ stage' = [stage EXCEPT ![r] = "provider"]
         /\ UNCHANGED <<shown, outcome>>
    [] pc = "answered" -> Completes(r)
    [] pc \in {"refused", "exhausted"} -> Fails(r)
    [] pc = "aborted" -> TimesOut(r)

\* The records this step asks or marks as failing.
Touched(r) ==
  {rec \in Record : failures'[rec] # failures[rec]}
    \cup IF call'[r].pc = "calling" THEN {Head(call'[r].todo)} ELSE {}

-----------------------------------------------------------------------------
(* execute() *)

\* execute() publishes the state and awaits the listeners of STARTED.
Start(r) ==
  /\ stage[r] = "new"
  /\ stage' = [stage EXCEPT ![r] = "between"]
  /\ shown' = [shown EXCEPT ![r] = "running"]
  /\ UNCHANGED <<attempt, expired, cancelled, outcome, answered, owed, providerVars>>

\* The next attempt: the pipeline checks the cancel event and plans, awaiting
\* the listeners of the planning events, unless the planner refuses the request
\* before.  The status of the failed attempt stays.
BeginAttempt(r) ==
  /\ stage[r] = "between"
  /\ attempt' = [attempt EXCEPT ![r] = @ + 1]
  /\ expired' = [expired EXCEPT ![r] = FALSE]
  /\ IF cancelled[r]
     THEN Cancels(r)
     ELSE \/ /\ AgentPlan[r] # {"refused"}
             /\ stage' = [stage EXCEPT ![r] = "planning"]
             /\ UNCHANGED <<shown, outcome>>
          \/ /\ "refused" \in AgentPlan[r]
             /\ FailsIn(r, attempt[r] + 1)
  /\ UNCHANGED <<cancelled, answered, owed, providerVars>>

Planning(r) == stage[r] = "planning" /\ ~cancelled[r]

PlanningCancelled(r) ==
  /\ stage[r] = "planning" /\ cancelled[r]
  /\ Cancels(r)
  /\ UNCHANGED <<attempt, expired, cancelled, answered, owed, providerVars>>

\* The agent is registered and executes the request.
PlannedAgent(r) ==
  /\ Planning(r)
  /\ "registered" \in AgentPlan[r]
  /\ stage' = [stage EXCEPT ![r] = "agent"]
  /\ UNCHANGED <<attempt, expired, cancelled, shown, outcome, answered, owed, providerVars>>

\* Calls ProviderManager.execute(), which may end without any await.
CallProviders(r) ==
  /\ Execute(r)
  /\ AfterCall(r, call'[r].pc)
  /\ owed' = [owed EXCEPT ![r] =
                   {RecordOf(p) : p \in Range(registered)} \ Touched(r)]
  /\ UNCHANGED <<attempt, expired, cancelled, answered>>

\* The agent is not registered: providers execute the request.
PlannedFallback(r) ==
  /\ Planning(r)
  /\ "missing" \in AgentPlan[r]
  /\ CallProviders(r)

\* There is no agent: either no provider can be selected, or _execute_request()
\* raises NameError, because its module does not import ProviderCapability.
PlannedProvider(r) ==
  /\ Planning(r)
  /\ "none" \in AgentPlan[r]
  /\ Fails(r)
  /\ UNCHANGED <<attempt, expired, cancelled, answered, owed, providerVars>>

AgentAnswers(r) ==
  /\ stage[r] = "agent"
  /\ answered' = answered \cup {r}
  /\ Completes(r)
  /\ UNCHANGED <<attempt, expired, cancelled, owed, providerVars>>

AgentRaises(r) ==
  /\ stage[r] = "agent"
  /\ Fails(r)
  /\ UNCHANGED <<attempt, expired, cancelled, answered, owed, providerVars>>

ProviderAnswers(r, how) ==
  /\ stage[r] = "provider"
  /\ Answered(r, how)
  /\ answered' = IF how = "answered" THEN answered \cup {r} ELSE answered
  /\ AfterCall(r, how)
  /\ UNCHANGED <<attempt, expired, cancelled, owed>>

ProviderRaises(r) ==
  /\ stage[r] = "provider"
  /\ \/ RaisesRetryable(r) /\ owed' = [owed EXCEPT ![r] = @ \ Touched(r)]
     \/ RaisesOther(r) /\ owed' = [owed EXCEPT ![r] = {}]
  /\ AfterCall(r, call'[r].pc)
  /\ UNCHANGED <<attempt, expired, cancelled, answered>>

RetryDelayEnds(r) ==
  /\ stage[r] = "provider"
  /\ BackoffEnds(r)
  /\ UNCHANGED engineVars

-----------------------------------------------------------------------------
(* Timeouts and cancellation *)

TimerFires(r) ==
  /\ r \in Timed /\ ~expired[r]
  /\ expired' = [expired EXCEPT ![r] = TRUE]
  /\ UNCHANGED <<attempt, cancelled, answered>>

\* wait_for() cancels the coroutine, and CancelledError comes back to it.
TimeoutEnds(r) ==
  /\ stage[r] \in {"planning", "agent"}
  /\ TimerFires(r)
  /\ TimesOut(r)
  /\ UNCHANGED <<owed, providerVars>>

\* An agent that catches CancelledError goes on: the chat-assistant does when
\* it waits for a provider.
TimeoutIgnored(r) ==
  /\ stage[r] = "agent"
  /\ TimerFires(r)
  /\ UNCHANGED <<stage, shown, outcome, owed, providerVars>>

\* A provider is cancelled, which is one more exception of it.
TimeoutInCall(r) ==
  /\ stage[r] = "provider"
  /\ TimerFires(r)
  /\ RaisesOther(r) \/ AbortedInBackoff(r)
  /\ AfterCall(r, call'[r].pc)
  /\ owed' = [owed EXCEPT ![r] = {}]

Cancel(r) ==
  /\ ~cancelled[r] /\ stage[r] # "ended"
  /\ cancelled' = [cancelled EXCEPT ![r] = TRUE]
  /\ UNCHANGED <<stage, attempt, expired, shown, outcome, answered, owed, providerVars>>

-----------------------------------------------------------------------------
Progress(r) ==
  \/ Start(r) \/ BeginAttempt(r)
  \/ PlanningCancelled(r) \/ PlannedAgent(r) \/ PlannedFallback(r)
  \/ PlannedProvider(r)
  \/ AgentAnswers(r) \/ AgentRaises(r)
  \/ \E how \in {"answered", "refused"} : ProviderAnswers(r, how)
  \/ ProviderRaises(r) \/ RetryDelayEnds(r)

Timeout(r) == TimeoutEnds(r) \/ TimeoutIgnored(r) \/ TimeoutInCall(r)

Next ==
  \/ \E r \in Request : Progress(r) \/ Timeout(r) \/ Cancel(r)
  \/ ProvidersChange /\ UNCHANGED engineVars

Spec == Init /\ [][Next]_vars

\* Agents, providers and listeners come to an end one way or another, and the
\* event loop resumes what they were awaited by.
FairSpec == Spec /\ \A r \in Request : WF_vars(Progress(r))

-----------------------------------------------------------------------------
(* Properties *)

TypeOK ==
  /\ cache \in [Key -> {"none", "answered", "refused"}]
  /\ stage \in [Request -> Stage]
  /\ attempt \in [Request -> Nat]
  /\ expired \in [Request -> BOOLEAN] /\ cancelled \in [Request -> BOOLEAN]
  /\ shown \in [Request -> {"none", "running", "completed", "failed", "cancelled"}]
  /\ outcome \in [Request -> {"none", "completed", "failed", "timed out", "cancelled"}]

\* A result is never made up: a request completes only with what an agent or a
\* provider answered successfully, to it or to a request with its cache key,
\* through every retry, fallback, cached failure and refused plan.
GenuineResult ==
  \A r \in Request : outcome[r] = "completed" =>
    \E q \in answered : q = r \/ (KeyOf[q] = KeyOf[r] /\ KeyOf[r] # NoKey)

\* The state store agrees with what execute() returned or raised; before that
\* it never shows an end, except for the failure of an earlier attempt.
StatusHonest ==
  \A r \in Request :
    /\ outcome[r] = "completed" <=> shown[r] = "completed"
    /\ outcome[r] = "cancelled" <=> shown[r] = "cancelled"
    /\ outcome[r] \in {"failed", "timed out"} => shown[r] = "failed"
    /\ shown[r] = "failed" /\ outcome[r] = "none" =>
         attempt[r] > 1 \/ (stage[r] = "between" /\ attempt[r] = 1)

\* execute() gives up only after max_attempts, reports a timeout only when the
\* timer of the attempt fired, and a cancellation only when one was asked for.
OutcomeEarned ==
  \A r \in Request :
    /\ outcome[r] = "failed" => attempt[r] = MaxAttempts[r]
    /\ outcome[r] = "timed out" => expired[r]
    /\ outcome[r] = "cancelled" => cancelled[r]

\* However attempts, timers and cancellations meet: what execute() returned or
\* raised is earned, and it is what the state store shows.
OutcomeHonest == OutcomeEarned /\ StatusHonest

\* As long as errors are transient (those RetryPolicy retries, and limits),
\* _invoke_with_fallback() gives up only after every provider that was registered
\* when it began was asked or had no token, whatever other requests and the
\* registry do in between.  It says nothing of a call that met another error.
FallbackExhaustive ==
  \A r \in Request : call[r].pc = "exhausted" => owed[r] = {}

\* Once the cancel event is set, nothing is handed to an agent or a provider
\* that was not yet: execute() goes on to its end only.
CancelStopsNewWork ==
  [][\A r \in Request :
       cancelled[r] /\ stage[r] = "planning" /\ stage'[r] # "planning"
       => outcome'[r] \in {"cancelled", "timed out"}]_vars

\* Every execution returns or raises, when whoever it awaits does.
RequestsEnd == \A r \in Request : <>(stage[r] = "ended")

\* What task_exceptions.py says of TaskTimeoutError: an execution whose time is
\* over raises it.  A provider call swallows the cancellation instead.
TimeoutIsRaised ==
  \A r \in Request : stage[r] = "ended" /\ expired[r] => outcome[r] = "timed out"

=============================================================================
