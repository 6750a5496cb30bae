---------------------------- MODULE TaskScheduler ----------------------------
(***************************************************************************)
(* browser/workflow/taskScheduler.ts: the editor's priority queue of agent *)
(* tasks.  JavaScript runs one callback at a time, so an action is one     *)
(* callback run to completion: an API call, a tick of the drain timer, the *)
(* continuation of a dispatch after its await.                             *)
(*                                                                         *)
(* A task id is <<client, n>>: n = 0 is the id a client submitted, n > 0   *)
(* the id `${taskId}_retry_${now}` that the n-th manual retry() made up.   *)
(* Clients submit an id once.  Date.now() is abstracted to one fact per    *)
(* queued task: whether its notBefore still lies in the future (waiting).  *)
(***************************************************************************)
EXTENDS PriorityQueue

CONSTANTS
  Client,        \* the task ids clients submit
  Agent,         \* ids of registered agents
  NoAgent,       \* the agentId '' of a rebuilt definition
  Definition,    \* client -> ITaskDefinition
  MaxManual,     \* bound on the manual retries of one client task
  DefaultLimit,  \* DEFAULT_MAX_CONCURRENCY
  Limits         \* the arguments of setMaxConcurrency()

ITaskDefinition ==
  [weight : 1 .. 4, agent : Agent \cup {NoAgent}, dependsOn : SUBSET Client,
   delayed : BOOLEAN, maxRetries : Nat, timed : BOOLEAN]

ASSUME SchedulerAssumption ==
  /\ IsFiniteSet(Client)
  /\ NoAgent \notin Agent
  /\ Definition \in [Client -> ITaskDefinition]
  /\ MaxManual \in Nat
  /\ DefaultLimit \in Nat \ {0}
  /\ Limits \subseteq Nat

Task == Client \X (0 .. MaxManual)
Id(client) == <<client, 0>>
RetryId(task) == <<task[1], task[2] + 1>>

(* buildRetryDefinition: what a manual retry submits. *)
RetryDefinition ==
  [weight |-> PriorityWeight.normal, agent |-> NoAgent, dependsOn |-> {},
   delayed |-> FALSE, maxRetries |-> 0, timed |-> FALSE]

Def(task) == IF task[2] = 0 THEN Definition[task[1]] ELSE RetryDefinition
Weight == [task \in Task |-> Def(task).weight]
DependsOn(task) == {Id(client) : client \in Def(task).dependsOn}

Status == {"completed", "failed", "cancelled", "timeout"}
ResponseStatus == {"success", "failed", "cancelled", "timeout"}

VARIABLES
  queue,       \* pendingQueue, as ids
  waiting,     \* queued tasks whose notBefore has not come
  running,     \* keys of runningMap
  state,       \* IScheduledTask.state; "absent" before submit()
  retryCount,  \* IScheduledTask.retryCount
  terminal,    \* terminalMap: id -> status; "none" = no entry
  outcome,     \* what the promise of submit() was last resolved with
  calls,       \* tasks with an executeAgent() call that has not returned
  attempts,    \* history: executeAgent() calls made
  shown,       \* the task's state in IRuntimeStateService
  paused,      \* _isPaused
  limit,       \* _maxConcurrency
  ticking      \* the drain timer is set

tasks == <<queue, waiting, running, state, retryCount, terminal, outcome,
           calls, attempts, shown>>
control == <<paused, limit, ticking>>
vars == <<tasks, control>>

Init ==
  /\ queue = << >>
  /\ waiting = {}
  /\ running = {}
  /\ state = [task \in Task |-> "absent"]
  /\ retryCount = [task \in Task |-> 0]
  /\ terminal = [task \in Task |-> "none"]
  /\ outcome = [task \in Task |-> "none"]
  /\ calls = {}
  /\ attempts = [task \in Task |-> 0]
  /\ shown = [task \in Task |-> "absent"]
  /\ paused = FALSE
  /\ limit = DefaultLimit
  /\ ticking = TRUE

------------------------------------------------------------------------------
(* toRuntimeTaskState: a timeout is shown as a failure. *)
ToRuntimeTaskState(status) == IF status = "timeout" THEN "failed" ELSE status

(* settle: record, publish, resolve the promise. *)
Settle(task, status) ==
  /\ state' = [state EXCEPT ![task] = IF status = "timeout" THEN "failed" ELSE status]
  /\ terminal' = [terminal EXCEPT ![task] = status]
  /\ outcome' = [outcome EXCEPT ![task] = status]
  /\ shown' = [shown EXCEPT ![task] = ToRuntimeTaskState(status)]

(* The body of submit(): a fresh pending entry, published as queued. *)
Enqueue(task) ==
  /\ state[task] = "absent"
  /\ queue' = InsertByPriority(queue, task, Weight)
  /\ waiting' = IF Def(task).delayed THEN waiting \cup {task} ELSE waiting
  /\ state' = [state EXCEPT ![task] = "pending"]
  /\ shown' = [shown EXCEPT ![task] = "queued"]

Submit(client) ==
  /\ Enqueue(Id(client))
  /\ UNCHANGED <<running, retryCount, terminal, outcome, calls, attempts, control>>

\* Mutant: the entry is settled but not spliced out of the queue.
CancelPending_KeepsEntry(task) ==
  /\ task \in ToSet(queue)
  /\ Settle(task, "cancelled")
  /\ UNCHANGED <<queue, waiting, running, retryCount, calls, attempts, control>>

(* cancel() of a pending task: spliced out and settled. *)
CancelPending(task) ==
  /\ task \in ToSet(queue)
  /\ queue' = RemoveFirst(queue, task)
  /\ waiting' = waiting \ {task}
  /\ Settle(task, "cancelled")
  /\ UNCHANGED <<running, retryCount, calls, attempts, control>>

(* cancel() of a running task: its entry is marked and the coordinator is  *)
(* told; the task keeps its slot until executeAgent() returns.             *)
CancelRunning(task) ==
  /\ task \notin ToSet(queue)
  /\ task \in running
  /\ state' = [state EXCEPT ![task] = "cancelled"]
  /\ UNCHANGED <<queue, waiting, running, retryCount, terminal, outcome, calls, attempts, shown, control>>

\* Mutant: any settled task can be retried.
Retryable_Settled(task) == terminal[task] # "none"

(* What retry() accepts. *)
Retryable(task) == terminal[task] = "failed"

(* retry(): only 'failed' tasks; the record goes, and a rebuilt definition *)
(* is submitted under a new id.                                            *)
Retry(task) ==
  /\ Retryable(task)
  /\ task[2] < MaxManual
  /\ terminal' = [terminal EXCEPT ![task] = "none"]
  /\ Enqueue(RetryId(task))
  /\ UNCHANGED <<running, retryCount, outcome, calls, attempts, control>>

Pause ==
  /\ ~paused
  /\ paused' = TRUE
  /\ UNCHANGED <<tasks, limit, ticking>>

Resume ==
  /\ paused
  /\ paused' = FALSE
  /\ UNCHANGED <<tasks, limit, ticking>>

(* Math.max(1, n) *)
AtLeastOne(n) == IF n < 1 THEN 1 ELSE n

SetMaxConcurrency(n) ==
  /\ limit' = AtLeastOne(n)
  /\ UNCHANGED <<tasks, paused, ticking>>

------------------------------------------------------------------------------
\* Mutant: a dependency only has to be over.
Eligible_AnyResult(task) ==
  /\ task \notin waiting
  /\ \A dep \in DependsOn(task) : terminal[dep] # "none"

(* peekEligible's test: the delay gate and the dependency gate. *)
Eligible(task) ==
  /\ task \notin waiting
  /\ \A dep \in DependsOn(task) : terminal[dep] = "completed"

(* How often the loop of drain() may go round: runningMap.size < limit. *)
Slots == IF Cardinality(running) < limit THEN limit - Cardinality(running) ELSE 0

\* Mutant: the loop takes any eligible entries.
IsDrained_AnyOrder(taken) ==
  LET eligible == {i \in DOMAIN queue : Eligible(queue[i])}
  IN  /\ taken \subseteq eligible
      /\ Cardinality(taken) <= Slots

\* Mutant: the loop only looks at the head of the queue.
IsDrained_HeadOnly(taken) ==
  /\ taken \subseteq {1}
  /\ \A i \in taken : Eligible(queue[i])
  /\ Cardinality(taken) <= Slots

(* Positions the loop of drain() takes: the first eligible ones, until the *)
(* slots or the eligible tasks run out (a dispatch changes no gate).       *)
IsDrained(taken) ==
  LET eligible == {i \in DOMAIN queue : Eligible(queue[i])}
  IN  /\ taken \subseteq eligible
      /\ \A i \in taken, j \in eligible \ taken : i < j
      /\ \/ taken = eligible /\ Cardinality(taken) <= Slots
         \/ Cardinality(taken) = Slots

(* The loop of drain() with taken the positions it takes, and the          *)
(* synchronous part of every dispatch() it starts, up to the await of      *)
(* executeAgent().                                                         *)
Dispatched(taken) ==
  LET started == {queue[i] : i \in taken}
  IN  /\ queue' = Without(queue, started)
      /\ running' = running \cup started
      /\ calls' = calls \cup started
      /\ state' = [task \in Task |->
                     IF task \in started THEN "running" ELSE state[task]]
      /\ shown' = [task \in Task |->
                     IF task \in started THEN "running" ELSE shown[task]]
      /\ attempts' = [task \in Task |->
                        IF task \in started THEN attempts[task] + 1 ELSE attempts[task]]

(* A tick of the drain timer. *)
Drain ==
  /\ ticking
  /\ ~paused
  /\ \E taken \in SUBSET DOMAIN queue :
       /\ taken # {}
       /\ IsDrained(taken)
       /\ Dispatched(taken)
  /\ UNCHANGED <<waiting, retryCount, terminal, outcome, control>>

(* Time passes the notBefore of a queued task. *)
DelayElapses(task) ==
  /\ task \in waiting
  /\ waiting' = waiting \ {task}
  /\ UNCHANGED <<queue, running, state, retryCount, terminal, outcome, calls, attempts, shown, control>>

\* Mutant: <= for <.
RetriesLeft_OneMore(task) == retryCount[task] <= Def(task).maxRetries

RetriesLeft(task) == retryCount[task] < Def(task).maxRetries

(* maybeRetry: back in the queue behind a back-off delay (nothing is       *)
(* published), or failed for good.                                         *)
MaybeRetry(task) ==
  \/ /\ RetriesLeft(task)
     /\ retryCount' = [retryCount EXCEPT ![task] = @ + 1]
     /\ state' = [state EXCEPT ![task] = "pending"]
     /\ queue' = InsertByPriority(queue, task, Weight)
     /\ waiting' = waiting \cup {task}
     /\ UNCHANGED <<terminal, outcome, shown>>
  \/ /\ ~RetriesLeft(task)
     /\ Settle(task, "failed")
     /\ UNCHANGED <<queue, waiting, retryCount>>

(* executeAgent() returns in time. *)
Respond(task, status) ==
  /\ task \in running
  /\ running' = running \ {task}
  /\ calls' = calls \ {task}
  /\ \/ /\ status = "success"
        /\ Settle(task, "completed")
        /\ UNCHANGED <<queue, waiting, retryCount>>
     \/ /\ status = "cancelled"
        /\ Settle(task, "cancelled")
        /\ UNCHANGED <<queue, waiting, retryCount>>
     \/ /\ status \notin {"success", "cancelled"}
        /\ MaybeRetry(task)
  /\ UNCHANGED <<attempts, control>>

(* executeAgent() rejects: the catch of dispatch(). *)
Throw(task) ==
  /\ task \in running
  /\ running' = running \ {task}
  /\ calls' = calls \ {task}
  /\ MaybeRetry(task)
  /\ UNCHANGED <<attempts, control>>

\* Mutant: runningMap.delete() comes after the check of the sentinel.
TimeoutFires_KeepsSlot(task) ==
  /\ task \in running
  /\ Def(task).timed
  /\ Settle(task, "timeout")
  /\ UNCHANGED <<queue, waiting, running, retryCount, calls, attempts, control>>

\* Mutant: a timeout is retried like a failure.
TimeoutFires_Retries(task) ==
  /\ task \in running
  /\ Def(task).timed
  /\ running' = running \ {task}
  /\ MaybeRetry(task)
  /\ UNCHANGED <<calls, attempts, control>>

(* The timeout wins the race: the slot is freed, the call goes on. *)
TimeoutFires(task) ==
  /\ task \in running
  /\ Def(task).timed
  /\ running' = running \ {task}
  /\ Settle(task, "timeout")
  /\ UNCHANGED <<queue, waiting, retryCount, calls, attempts, control>>

(* A call that lost the race returns: nobody looks at the result. *)
LateResponse(task) ==
  /\ task \in calls \ running
  /\ calls' = calls \ {task}
  /\ UNCHANGED <<queue, waiting, running, state, retryCount, terminal, outcome, attempts, shown, control>>

(* dispose() clears the drain timer and nothing else of the state. *)
Dispose ==
  /\ ticking
  /\ ticking' = FALSE
  /\ UNCHANGED <<tasks, paused, limit>>

Next ==
  \/ \E client \in Client : Submit(client)
  \/ \E task \in Task :
       \/ CancelPending(task)
       \/ CancelRunning(task)
       \/ Retry(task)
       \/ DelayElapses(task)
       \/ \E status \in ResponseStatus : Respond(task, status)
       \/ Throw(task)
       \/ TimeoutFires(task)
       \/ LateResponse(task)
  \/ Pause
  \/ Resume
  \/ \E n \in Limits : SetMaxConcurrency(n)
  \/ Drain
  \/ Dispose

Spec == Init /\ [][Next]_vars

(* The timers the scheduler sets itself are the only fairness: the drain   *)
(* interval, the clock reaching a notBefore, and the timeout of a race.    *)
Timers ==
  /\ WF_vars(Drain)
  /\ \A task \in Task : WF_vars(DelayElapses(task)) /\ WF_vars(TimeoutFires(task))

FairSpec == Spec /\ Timers

------------------------------------------------------------------------------
(* Safety invariants.                                                      *)

TypeOK ==
  /\ queue \in Seq(Task)
  /\ waiting \subseteq Task
  /\ running \subseteq Task
  /\ calls \subseteq Task
  /\ state \in [Task -> {"absent", "pending", "running", "completed", "failed", "cancelled"}]
  /\ retryCount \in [Task -> Nat]
  /\ attempts \in [Task -> Nat]
  /\ terminal \in [Task -> Status \cup {"none"}]
  /\ outcome \in [Task -> Status \cup {"none"}]
  /\ shown \in [Task -> {"absent", "queued", "running", "completed", "failed", "cancelled"}]
  /\ paused \in BOOLEAN
  /\ limit \in Nat \ {0}
  /\ ticking \in BOOLEAN

Submitted == {task \in Task : state[task] # "absent"}
Settled == {task \in Task : outcome[task] # "none"}

(* A submitted task is in exactly one place: once in the queue, or in a    *)
(* slot, or settled.  No path of dispatch(), maybeRetry(), settle() or     *)
(* cancel() loses a task or leaves it in two places.                       *)
OnePlace ==
  /\ IsInjective(queue)
  /\ ToSet(queue) \cap running = {}
  /\ Settled \cap (ToSet(queue) \cup running) = {}
  /\ Settled \cup ToSet(queue) \cup running = Submitted

(* The queue stays sorted by priority, whatever the mix of submissions,    *)
(* retries and removals: peekEligible() relies on it.                      *)
QueueSorted == SortedByPriority(queue, Weight)

(* A task is never started again while an earlier executeAgent() call of   *)
(* it is still out: a call that lost against its timeout belongs to a task *)
(* that is settled for good.                                               *)
NoOverlappingExecution ==
  /\ running \subseteq calls
  /\ \A task \in calls \ running : outcome[task] = "timeout"

(* Whatever a task depends on stays completed while it runs and after it   *)
(* completed; retry() of a finished dependency does not take that back.    *)
DependenciesCompleted ==
  \A task \in Task :
    (task \in running \/ outcome[task] = "completed")
      => \A dep \in DependsOn(task) : terminal[dep] = "completed"

(* maxRetries bounds the executions of a task over all its trips through   *)
(* the queue, and a task fails only when its retries are used up.          *)
RetryBudget ==
  \A task \in Task :
    /\ attempts[task] <= Def(task).maxRetries + 1
    /\ outcome[task] = "failed" => attempts[task] = Def(task).maxRetries + 1

(* The record getTask() returns agrees with what the caller of submit()    *)
(* got; it is only missing when a failed task was retried by hand, and     *)
(* then its successor has been submitted.                                  *)
RecordMatchesPromise ==
  \A task \in Task :
    IF terminal[task] # "none" THEN outcome[task] = terminal[task]
    ELSE outcome[task] # "none" =>
           outcome[task] = "failed" /\ RetryId(task) \in Submitted

(* The state service never shows a task as running that is neither running *)
(* nor on its way to a retry, and shows every settled task as settled.     *)
ShownMatches ==
  \A task \in Task :
    /\ shown[task] = "running" =>
         task \in running \/ (task \in ToSet(queue) /\ retryCount[task] > 0)
    /\ outcome[task] # "none" => shown[task] = ToRuntimeTaskState(outcome[task])

(* The record, the promise and the state service are written at different  *)
(* places of settle(), dispatch(), maybeRetry() and retry(): they agree.   *)
RecordsAgree == RecordMatchesPromise /\ ShownMatches

------------------------------------------------------------------------------
(* Action properties.                                                      *)

Started == running' \ running

(* No tick of the drain timer starts more than the limit in force allows,  *)
(* also when setMaxConcurrency() lowered it below what already runs.       *)
ConcurrencyRespected == [][Started # {} => Cardinality(running') <= limit]_vars

(* A task is not started while one of higher priority that could start     *)
(* stays in the queue.                                                     *)
NoPriorityInversion ==
  [][\A task \in Started, left \in ToSet(queue') :
       Weight[left] > Weight[task] => ~Eligible(left)]_vars

(* A task entering the queue goes behind every task of at least its own    *)
(* priority: first come, first served within a priority.                   *)
NoOvertaking ==
  [][\A i, j \in DOMAIN queue' :
       (i < j /\ queue'[i] \notin ToSet(queue) /\ queue'[j] \in ToSet(queue))
         => Weight[queue'[i]] > Weight[queue'[j]]]_vars

(* The promise of submit() is resolved once: no result follows a result,   *)
(* from a cancel, a timeout, a late answer or a retry.                     *)
SettledOnce ==
  [][\A task \in Task : outcome[task] # "none" => outcome'[task] = outcome[task]]_vars

------------------------------------------------------------------------------
(* Liveness.                                                               *)

(* A timed task whose dependencies have completed gets a result, through   *)
(* every retry and back-off, when the scheduler is neither paused nor      *)
(* disposed for good and nobody but timed tasks holds the slots: the       *)
(* timers alone bring it there, the agents need never answer.              *)
TimedTasksSettle ==
  (<>[](~paused /\ ticking) /\ []<>(\A task \in running : Def(task).timed))
    => \A task \in Task :
         (state[task] # "absent" /\ \A dep \in DependsOn(task) : terminal[dep] = "completed")
           ~> outcome[task] # "none"

------------------------------------------------------------------------------
(* TaskScheduler implements TaskLifecycle.                                 *)

Phase ==
  [task \in Task |->
     IF outcome[task] # "none" THEN "settled"
     ELSE IF task \in running THEN "running"
     ELSE IF task \in ToSet(queue) THEN "queued"
     ELSE "absent"]

Lifecycle == INSTANCE TaskLifecycle WITH
  Needs <- [task \in Task |-> DependsOn(task)],
  Budget <- [task \in Task |-> Def(task).maxRetries + 1],
  Result <- Status,
  Limit <- {AtLeastOne(n) : n \in Limits \cup {DefaultLimit}},
  phase <- Phase, result <- outcome, starts <- attempts, limit <- limit

(* Every step of the scheduler is a step of the life cycle or leaves it    *)
(* alone.                                                                  *)
ImplementsLifecycle == Lifecycle!Init /\ [][Lifecycle!Next]_(Lifecycle!vars)

------------------------------------------------------------------------------
(* What comments of the code say and the code does not do.                 *)

(* "Cancel a specific task. If it is running the execution is aborted."    *)
(* (cancel() in common/workflow/taskScheduler.ts): a cancelled task does   *)
(* not go back to the queue.                                               *)
CancelledIsNotRetried ==
  [][\A task \in running : state[task] = "cancelled" => state'[task] # "pending"]_vars
==============================================================================
