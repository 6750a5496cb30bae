------------------------ MODULE TaskSchedulerProofs ------------------------
(***************************************************************************)
(* TaskScheduler keeps its invariants for any finite set of clients, any   *)
(* task definitions and any limits, and implements TaskLifecycle.          *)
(***************************************************************************)
EXTENDS TaskScheduler, PriorityQueueProofs, FiniteSetTheorems

(* Ids and definitions are what the operators on them expect. *)
LEMMA TaskFacts ==
  /\ \A client \in Client : Id(client) \in Task
  /\ \A task \in Task : task[2] < MaxManual => RetryId(task) \in Task
  /\ \A task \in Task : Def(task) \in ITaskDefinition
  /\ Weight \in [Task -> Nat]
  /\ \A task \in Task : DependsOn(task) \subseteq Task
<1>1. \A client \in Client : Id(client) \in Task
  BY SchedulerAssumption DEF Id, Task
<1>2. \A task \in Task : task[2] < MaxManual => RetryId(task) \in Task
  BY SchedulerAssumption DEF RetryId, Task
<1>3. ASSUME NEW task \in Task PROVE Def(task) \in ITaskDefinition
  <2>1. task[1] \in Client
    BY DEF Task
  <2>2. RetryDefinition \in ITaskDefinition
    BY DEF RetryDefinition, ITaskDefinition, PriorityWeight
  <2> QED BY SchedulerAssumption, <2>1, <2>2 DEF Def
<1>4. Weight \in [Task -> Nat]
  BY <1>3 DEF Weight, ITaskDefinition
<1>5. ASSUME NEW task \in Task PROVE DependsOn(task) \subseteq Task
  BY <1>1, <1>3 DEF DependsOn, ITaskDefinition
<1> QED BY <1>1, <1>2, <1>3, <1>4, <1>5

(* settle() records one of the four results. *)
LEMMA SettleType ==
  ASSUME TypeOK, NEW task \in Task, NEW status \in Status, Settle(task, status)
  PROVE  /\ state' \in [Task -> {"absent", "pending", "running", "completed", "failed", "cancelled"}]
         /\ terminal' \in [Task -> Status \cup {"none"}]
         /\ outcome' \in [Task -> Status \cup {"none"}]
         /\ shown' \in [Task -> {"absent", "queued", "running", "completed", "failed", "cancelled"}]
BY DEF TypeOK, Settle, ToRuntimeTaskState, Status

(* A task enters the queue as a task. *)
LEMMA EnqueueType ==
  ASSUME TypeOK, NEW task \in Task, Enqueue(task)
  PROVE  /\ queue' \in Seq(Task)
         /\ waiting' \subseteq Task
         /\ state' \in [Task -> {"absent", "pending", "running", "completed", "failed", "cancelled"}]
         /\ shown' \in [Task -> {"absent", "queued", "running", "completed", "failed", "cancelled"}]
<1>1. queue' \in Seq(Task)
  BY TaskFacts, InsertByPriorityEntries DEF TypeOK, Enqueue
<1> QED BY <1>1 DEF TypeOK, Enqueue

LEMMA MaybeRetryType ==
  ASSUME TypeOK, NEW task \in Task, MaybeRetry(task)
  PROVE  /\ queue' \in Seq(Task)
         /\ waiting' \subseteq Task
         /\ retryCount' \in [Task -> Nat]
         /\ state' \in [Task -> {"absent", "pending", "running", "completed", "failed", "cancelled"}]
         /\ terminal' \in [Task -> Status \cup {"none"}]
         /\ outcome' \in [Task -> Status \cup {"none"}]
         /\ shown' \in [Task -> {"absent", "queued", "running", "completed", "failed", "cancelled"}]
<1>1. CASE RetriesLeft(task)
  <2>1. /\ retryCount' = [retryCount EXCEPT ![task] = @ + 1]
        /\ state' = [state EXCEPT ![task] = "pending"]
        /\ queue' = InsertByPriority(queue, task, Weight)
        /\ waiting' = waiting \cup {task}
        /\ UNCHANGED <<terminal, outcome, shown>>
    BY <1>1 DEF MaybeRetry
  <2>2. queue' \in Seq(Task)
    BY <2>1, TaskFacts, InsertByPriorityEntries DEF TypeOK
  <2> QED BY <2>1, <2>2 DEF TypeOK
<1>2. CASE ~RetriesLeft(task)
  <2>1. Settle(task, "failed") /\ UNCHANGED <<queue, waiting, retryCount>>
    BY <1>2 DEF MaybeRetry
  <2> QED BY <2>1, SettleType DEF TypeOK, Status
<1> QED BY <1>1, <1>2

LEMMA TypeStep == TypeOK /\ [Next]_vars => TypeOK'
<1> SUFFICES ASSUME TypeOK, [Next]_vars PROVE TypeOK'
  OBVIOUS
<1> USE SchedulerAssumption
<1>1. ASSUME NEW client \in Client, Submit(client) PROVE TypeOK'
  <2>1. Enqueue(Id(client)) /\ Id(client) \in Task
    BY <1>1, TaskFacts DEF Submit
  <2> QED BY <1>1, <2>1, EnqueueType DEF TypeOK, Submit, control
<1>2. ASSUME NEW task \in Task, CancelPending(task) PROVE TypeOK'
  <2>1. Settle(task, "cancelled")
    BY <1>2 DEF CancelPending
  <2>2. queue' \in Seq(Task)
    BY <1>2, RemoveFirstType DEF CancelPending, TypeOK
  <2> QED BY <1>2, <2>1, <2>2, SettleType DEF TypeOK, CancelPending, control, Status
<1>3. ASSUME NEW task \in Task, CancelRunning(task) PROVE TypeOK'
  BY <1>3 DEF TypeOK, CancelRunning, control
<1>4. ASSUME NEW task \in Task, Retry(task) PROVE TypeOK'
  <2>1. Enqueue(RetryId(task)) /\ RetryId(task) \in Task
    BY <1>4, TaskFacts DEF Retry
  <2>2. terminal' \in [Task -> Status \cup {"none"}]
    BY <1>4 DEF TypeOK, Retry
  <2> QED BY <1>4, <2>1, <2>2, EnqueueType DEF TypeOK, Retry, control
<1>5. ASSUME NEW task \in Task, DelayElapses(task) PROVE TypeOK'
  BY <1>5 DEF TypeOK, DelayElapses, control
<1>6. ASSUME NEW task \in Task, NEW status \in ResponseStatus, Respond(task, status)
      PROVE  TypeOK'
  <2>1. running' \subseteq Task /\ calls' \subseteq Task
    BY <1>6 DEF TypeOK, Respond
  <2>2. CASE MaybeRetry(task)
    BY <1>6, <2>1, <2>2, MaybeRetryType DEF TypeOK, Respond, control
  <2>3. ASSUME NEW s \in Status, Settle(task, s), UNCHANGED <<queue, waiting, retryCount>>
        PROVE  TypeOK'
    BY <1>6, <2>1, <2>3, SettleType DEF TypeOK, Respond, control
  <2> QED BY <1>6, <2>2, <2>3 DEF Respond, Status
<1>7. ASSUME NEW task \in Task, Throw(task) PROVE TypeOK'
  <2>1. MaybeRetry(task)
    BY <1>7 DEF Throw
  <2> QED BY <1>7, <2>1, MaybeRetryType DEF TypeOK, Throw, control
<1>8. ASSUME NEW task \in Task, TimeoutFires(task) PROVE TypeOK'
  <2>1. Settle(task, "timeout")
    BY <1>8 DEF TimeoutFires
  <2> QED BY <1>8, <2>1, SettleType DEF TypeOK, TimeoutFires, control, Status
<1>9. ASSUME NEW task \in Task, LateResponse(task) PROVE TypeOK'
  BY <1>9 DEF TypeOK, LateResponse, control
<1>10. CASE Pause
  BY <1>10 DEF TypeOK, Pause, tasks
<1>11. CASE Resume
  BY <1>11 DEF TypeOK, Resume, tasks
<1>12. ASSUME NEW n \in Limits, SetMaxConcurrency(n) PROVE TypeOK'
  BY <1>12 DEF TypeOK, SetMaxConcurrency, AtLeastOne, tasks
<1>13. CASE Drain
  <2>1. PICK taken \in SUBSET DOMAIN queue : Dispatched(taken)
    BY <1>13 DEF Drain
  <2> DEFINE started == {queue[i] : i \in taken}
  <2>2. started \subseteq Task
    BY ElementOfSeq, LenProperties DEF TypeOK
  <2>3. queue' \in Seq(Task)
    BY <2>1, WithoutEntries DEF TypeOK, Dispatched
  <2> QED BY <1>13, <2>1, <2>2, <2>3 DEF TypeOK, Drain, Dispatched, control
<1>14. CASE Dispose
  BY <1>14 DEF TypeOK, Dispose, tasks
<1>15. CASE UNCHANGED vars
  BY <1>15 DEF TypeOK, vars, tasks, control
<1> QED BY <1>1, <1>2, <1>3, <1>4, <1>5, <1>6, <1>7, <1>8, <1>9, <1>10,
           <1>11, <1>12, <1>13, <1>14, <1>15 DEF Next

(* Every variable keeps its type: submit(), cancel(), retry(), a tick and  *)
(* every end of a dispatch leave a well-formed scheduler.                  *)
THEOREM TypeCorrect == Spec => []TypeOK
<1>1. ASSUME Init PROVE TypeOK
  <2>1. queue \in Seq(Task) /\ limit \in Nat \ {0}
    BY <1>1, SchedulerAssumption DEF Init
  <2>2. 0 \in Nat
    OBVIOUS
  <2> QED BY <1>1, <2>1, <2>2 DEF Init, TypeOK
<1> QED BY <1>1, TypeStep, PTL DEF Spec

------------------------------------------------------------------------------
(* What an execution costs: one start per trip through the queue, counted  *)
(* by retryCount, and one more while it runs.                              *)
AttemptsCounted ==
  \A task \in Task :
    /\ retryCount[task] <= Def(task).maxRetries
    /\ task \in running => attempts[task] = retryCount[task] + 1
    /\ task \notin running \cup Settled => attempts[task] = retryCount[task]
    /\ task \in Settled => attempts[task] <= retryCount[task] + 1
    /\ outcome[task] = "failed" => attempts[task] = Def(task).maxRetries + 1

(* The parts of the invariant that do not mention calls. *)
QInv ==
  /\ OnePlace
  /\ QueueSorted
  /\ DependenciesCompleted
  /\ AttemptsCounted
  /\ RecordMatchesPromise
  /\ ShownMatches

IInv == TypeOK /\ QInv /\ NoOverlappingExecution

(* A step that touches neither the queue, nor the slots, nor a result. *)
LEMMA QuietStep ==
  ASSUME IInv, TypeOK', Submitted' = Submitted,
         UNCHANGED <<queue, running, retryCount, terminal, outcome, attempts, shown>>
  PROVE  QInv'
<1>1. Settled' = Settled
  BY DEF Settled
<1>2. OnePlace'
  BY <1>1 DEF IInv, QInv, OnePlace
<1>3. QueueSorted'
  BY DEF IInv, QInv, QueueSorted
<1>4. DependenciesCompleted'
  BY DEF IInv, QInv, DependenciesCompleted
<1>5. AttemptsCounted'
  BY <1>1 DEF IInv, QInv, AttemptsCounted
<1>6. RecordMatchesPromise'
  BY DEF IInv, QInv, RecordMatchesPromise
<1>7. ShownMatches'
  BY DEF IInv, QInv, ShownMatches
<1> QED BY <1>2, <1>3, <1>4, <1>5, <1>6, <1>7 DEF QInv

(* Where a task that enters the queue comes from and goes. *)
LEMMA EnqueueSets ==
  ASSUME IInv, TypeOK', NEW task \in Task, Enqueue(task)
  PROVE  /\ task \notin ToSet(queue) \cup running \cup Settled
         /\ ToSet(queue') = ToSet(queue) \cup {task}
         /\ IsInjective(queue')
         /\ SortedByPriority(queue', Weight)
         /\ Submitted' = Submitted \cup {task}
<1>1. task \notin ToSet(queue) \cup running \cup Settled
  BY DEF IInv, QInv, OnePlace, Enqueue, Submitted
<1>2. queue \in Seq(Task) /\ IsInjective(queue) /\ SortedByPriority(queue, Weight)
  BY DEF IInv, QInv, OnePlace, QueueSorted, TypeOK
<1>3. queue' = InsertByPriority(queue, task, Weight)
  BY DEF Enqueue
<1>4. ToSet(queue') = ToSet(queue) \cup {task}
  BY <1>2, <1>3, TaskFacts, InsertByPriorityEntries
<1>5. IsInjective(queue')
  BY <1>1, <1>2, <1>3, TaskFacts, InsertByPriorityInjective
<1>6. SortedByPriority(queue', Weight)
  BY <1>2, <1>3, TaskFacts, InsertByPrioritySorted
<1>7. Submitted' = Submitted \cup {task}
  BY DEF IInv, TypeOK, Enqueue, Submitted
<1> QED BY <1>1, <1>4, <1>5, <1>6, <1>7

(* submit(), by a client or by retry(). *)
LEMMA EntersStep ==
  ASSUME IInv, TypeOK', NEW task \in Task, Enqueue(task),
         UNCHANGED <<running, retryCount, outcome, attempts>>,
         \/ terminal' = terminal
         \/ \E old \in Task : /\ terminal[old] = "failed" /\ RetryId(old) = task
                              /\ terminal' = [terminal EXCEPT ![old] = "none"]
  PROVE  QInv'
<1>1. /\ task \notin ToSet(queue) \cup running \cup Settled
      /\ ToSet(queue') = ToSet(queue) \cup {task}
      /\ IsInjective(queue')
      /\ SortedByPriority(queue', Weight)
      /\ Submitted' = Submitted \cup {task}
  BY EnqueueSets
<1>2. Settled' = Settled
  BY DEF Settled
<1>3. OnePlace'
  BY <1>1, <1>2 DEF IInv, QInv, OnePlace
<1>4. QueueSorted'
  BY <1>1 DEF QueueSorted
<1>5. \A dep \in Task : terminal[dep] = "completed" => terminal'[dep] = "completed"
  BY DEF IInv, TypeOK
<1>6. DependenciesCompleted'
  BY <1>5, TaskFacts DEF IInv, QInv, DependenciesCompleted
<1>7. AttemptsCounted'
  BY <1>2 DEF IInv, QInv, AttemptsCounted
<1>8. RecordMatchesPromise'
  BY <1>1 DEF IInv, QInv, RecordMatchesPromise, TypeOK
<1>9. ShownMatches'
  <2>1. shown' = [shown EXCEPT ![task] = "queued"] /\ outcome[task] = "none"
    BY <1>1 DEF Enqueue, Settled
  <2> QED BY <1>1, <2>1 DEF IInv, QInv, ShownMatches, TypeOK
<1> QED BY <1>3, <1>4, <1>6, <1>7, <1>8, <1>9 DEF QInv

(* settle() of a task that was queued or running. *)
LEMMA LeavesStep ==
  ASSUME IInv, TypeOK', NEW task \in Task, NEW status \in Status,
         Settle(task, status),
         UNCHANGED <<retryCount, attempts>>,
         \/ /\ task \in ToSet(queue) /\ queue' = RemoveFirst(queue, task)
            /\ running' = running /\ status = "cancelled"
         \/ /\ task \in running /\ queue' = queue
            /\ running' = running \ {task}
            /\ status = "failed" => ~RetriesLeft(task)
  PROVE  QInv'
<1>1. /\ queue \in Seq(Task) /\ IsInjective(queue) /\ SortedByPriority(queue, Weight)
      /\ ToSet(queue) \cap running = {}
      /\ Settled \cap (ToSet(queue) \cup running) = {}
      /\ Settled \cup ToSet(queue) \cup running = Submitted
  BY DEF IInv, QInv, OnePlace, QueueSorted, TypeOK
<1>2. /\ ToSet(queue') \cup running' = (ToSet(queue) \cup running) \ {task}
      /\ ToSet(queue') \subseteq ToSet(queue) /\ running' \subseteq running
      /\ IsInjective(queue')
      /\ SortedByPriority(queue', Weight)
  <2>1. CASE task \in running /\ queue' = queue /\ running' = running \ {task}
    BY <1>1, <2>1
  <2>2. CASE task \in ToSet(queue) /\ queue' = RemoveFirst(queue, task) /\ running' = running
    <3>1. /\ queue' \in Seq(Task) /\ KeepsOrder(queue', queue)
          /\ ToSet(queue') = ToSet(queue) \ {task}
      BY <1>1, <2>2, RemoveFirstEntries
    <3>2. IsInjective(queue') /\ SortedByPriority(queue', Weight)
      BY <1>1, <3>1, KeepsOrderKeeps
    <3> QED BY <1>1, <2>2, <3>1, <3>2
  <2> QED BY <2>1, <2>2
<1>3. /\ task \in ToSet(queue) \cup running
      /\ task \notin Settled
      /\ task \notin ToSet(queue') \cup running'
  BY <1>1, <1>2
<1>4. Settled' = Settled \cup {task}
  BY DEF IInv, TypeOK, Settle, Settled, Status
<1>5. Submitted' = Submitted
  <2>1. task \in Submitted
    BY <1>1, <1>3
  <2> QED BY <2>1 DEF IInv, TypeOK, Settle, Submitted, Status
<1>6. OnePlace'
  BY <1>1, <1>2, <1>4, <1>5 DEF OnePlace
<1>7. QueueSorted'
  BY <1>2 DEF QueueSorted
<1>8. \A other \in Task : other # task =>
        /\ terminal'[other] = terminal[other]
        /\ outcome'[other] = outcome[other]
        /\ shown'[other] = shown[other]
  BY DEF IInv, TypeOK, Settle
<1>9. /\ terminal'[task] = status /\ outcome'[task] = status
      /\ shown'[task] = ToRuntimeTaskState(status)
  BY DEF IInv, TypeOK, Settle
<1>10. DependenciesCompleted'
  <2>1. terminal[task] # "completed"
    BY <1>3 DEF IInv, QInv, RecordMatchesPromise, Settled
  <2>2. \A dep \in Task : terminal[dep] = "completed" => terminal'[dep] = "completed"
    BY <1>8, <2>1
  <2>3. \A other \in Task : other \in running' \/ outcome'[other] = "completed"
                              => other \in running \/ outcome[other] = "completed"
    BY <1>2, <1>8, <1>9
  <2> QED BY <2>2, <2>3, TaskFacts DEF IInv, QInv, DependenciesCompleted
<1>11. AttemptsCounted'
  <2> SUFFICES ASSUME NEW other \in Task
               PROVE  AttemptsCounted!(other)'
    BY DEF AttemptsCounted
  <2>1. AttemptsCounted!(other)
    BY DEF IInv, QInv, AttemptsCounted
  <2>2. retryCount[other] \in Nat /\ attempts[other] \in Nat /\ Def(other).maxRetries \in Nat
    BY TaskFacts DEF IInv, TypeOK, ITaskDefinition
  <2>3. CASE other # task
    BY <1>2, <1>4, <1>8, <2>1, <2>3
  <2>4. CASE other = task
    BY <1>1, <1>3, <1>4, <1>9, <2>1, <2>2, <2>4 DEF RetriesLeft
  <2> QED BY <2>3, <2>4
<1>12. RecordMatchesPromise'
  <2> SUFFICES ASSUME NEW other \in Task
               PROVE  RecordMatchesPromise!(other)'
    BY DEF RecordMatchesPromise
  <2>1. RecordMatchesPromise!(other)
    BY DEF IInv, QInv, RecordMatchesPromise
  <2>2. CASE other # task
    BY <1>5, <1>8, <2>1, <2>2
  <2>3. CASE other = task
    BY <1>9, <2>3 DEF Status
  <2> QED BY <2>2, <2>3
<1>13. ShownMatches'
  <2> SUFFICES ASSUME NEW other \in Task
               PROVE  ShownMatches!(other)'
    BY DEF ShownMatches
  <2>1. ShownMatches!(other)
    BY DEF IInv, QInv, ShownMatches
  <2>2. CASE other # task
    <3>1. other \in running => other \in running'
      BY <1>2, <1>1, <2>2
    <3> QED BY <1>2, <1>8, <2>1, <2>2, <3>1
  <2>3. CASE other = task
    BY <1>9, <2>3 DEF ToRuntimeTaskState, Status
  <2> QED BY <2>2, <2>3
<1> QED BY <1>6, <1>7, <1>10, <1>11, <1>12, <1>13 DEF QInv

(* The branch of maybeRetry() that puts the task back in the queue. *)
LEMMA ReturnsStep ==
  ASSUME IInv, TypeOK', NEW task \in running,
         RetriesLeft(task),
         retryCount' = [retryCount EXCEPT ![task] = @ + 1],
         state' = [state EXCEPT ![task] = "pending"],
         queue' = InsertByPriority(queue, task, Weight),
         running' = running \ {task},
         UNCHANGED <<terminal, outcome, shown, attempts>>
  PROVE  QInv'
<1>1. /\ task \in Task
      /\ queue \in Seq(Task) /\ IsInjective(queue) /\ SortedByPriority(queue, Weight)
      /\ ToSet(queue) \cap running = {}
      /\ Settled \cap (ToSet(queue) \cup running) = {}
      /\ Settled \cup ToSet(queue) \cup running = Submitted
  BY DEF IInv, QInv, OnePlace, QueueSorted, TypeOK
<1>2. ToSet(queue') = ToSet(queue) \cup {task}
  BY <1>1, TaskFacts, InsertByPriorityEntries
<1>3. IsInjective(queue')
  BY <1>1, TaskFacts, InsertByPriorityInjective
<1>4. SortedByPriority(queue', Weight)
  BY <1>1, TaskFacts, InsertByPrioritySorted
<1>5. Settled' = Settled
  BY DEF Settled
<1>6. Submitted' = Submitted
  <2>1. task \in Submitted
    BY <1>1
  <2> QED BY <2>1 DEF IInv, TypeOK, Submitted
<1>7. OnePlace'
  BY <1>1, <1>2, <1>3, <1>5, <1>6 DEF OnePlace
<1>8. QueueSorted'
  BY <1>4 DEF QueueSorted
<1>9. DependenciesCompleted'
  BY DEF IInv, QInv, DependenciesCompleted
<1>10. AttemptsCounted'
  <2> SUFFICES ASSUME NEW other \in Task
               PROVE  AttemptsCounted!(other)'
    BY DEF AttemptsCounted
  <2>1. AttemptsCounted!(other)
    BY DEF IInv, QInv, AttemptsCounted
  <2>2. retryCount[other] \in Nat /\ attempts[other] \in Nat /\ Def(other).maxRetries \in Nat
    BY TaskFacts DEF IInv, TypeOK, ITaskDefinition
  <2>3. CASE other # task
    BY <1>5, <2>1, <2>3 DEF IInv, TypeOK
  <2>4. CASE other = task
    <3>1. retryCount'[task] = retryCount[task] + 1
      BY <1>1 DEF IInv, TypeOK
    <3>2. task \notin running' /\ task \notin Settled' /\ outcome'[task] = "none"
      BY <1>1, <1>5 DEF Settled
    <3> QED BY <2>1, <2>2, <2>4, <3>1, <3>2 DEF RetriesLeft
  <2> QED BY <2>3, <2>4
<1>11. RecordMatchesPromise'
  BY <1>6 DEF IInv, QInv, RecordMatchesPromise
<1>12. ShownMatches'
  <2>1. retryCount'[task] > 0
    BY <1>1 DEF IInv, TypeOK
  <2>2. \A other \in Task : other # task => retryCount'[other] = retryCount[other]
    BY DEF IInv, TypeOK
  <2> QED BY <1>2, <2>1, <2>2 DEF IInv, QInv, ShownMatches
<1> QED BY <1>7, <1>8, <1>9, <1>10, <1>11, <1>12 DEF QInv

(* What a tick takes from the queue. *)
LEMMA DispatchedSets ==
  ASSUME IInv, NEW taken \in SUBSET DOMAIN queue, IsDrained(taken), Dispatched(taken),
         NEW started, started = {queue[i] : i \in taken}
  PROVE  /\ started \subseteq ToSet(queue) /\ started \subseteq Task
         /\ \A task \in started : Eligible(task)
         /\ ToSet(queue') = ToSet(queue) \ started
         /\ queue' \in Seq(Task) /\ KeepsOrder(queue', queue)
<1>1. queue \in Seq(Task)
  BY DEF IInv, TypeOK
<1>2. started \subseteq ToSet(queue) /\ started \subseteq Task
  BY <1>1, ElementOfSeq, LenProperties DEF ToSet
<1>3. \A task \in started : Eligible(task)
  BY DEF IsDrained
<1>4. queue' = Without(queue, started)
  BY DEF Dispatched
<1> QED BY <1>1, <1>2, <1>3, <1>4, WithoutEntries

(* A tick of the drain timer. *)
LEMMA StartsStep ==
  ASSUME IInv, TypeOK', NEW taken \in SUBSET DOMAIN queue,
         IsDrained(taken), Dispatched(taken),
         UNCHANGED <<waiting, retryCount, terminal, outcome>>
  PROVE  QInv'
<1> DEFINE started == {queue[i] : i \in taken}
<1>1. /\ started \subseteq ToSet(queue) /\ started \subseteq Task
      /\ \A task \in started : Eligible(task)
      /\ ToSet(queue') = ToSet(queue) \ started
      /\ queue' \in Seq(Task) /\ KeepsOrder(queue', queue)
  <2> HIDE DEF started
  <2> QED BY DispatchedSets DEF started
<1>2. /\ running' = running \cup started
      /\ state' = [task \in Task |-> IF task \in started THEN "running" ELSE state[task]]
      /\ shown' = [task \in Task |-> IF task \in started THEN "running" ELSE shown[task]]
      /\ attempts' = [task \in Task |->
                        IF task \in started THEN attempts[task] + 1 ELSE attempts[task]]
  BY DEF Dispatched
<1> HIDE DEF started
<1>3. /\ queue \in Seq(Task) /\ IsInjective(queue) /\ SortedByPriority(queue, Weight)
      /\ ToSet(queue) \cap running = {}
      /\ Settled \cap (ToSet(queue) \cup running) = {}
      /\ Settled \cup ToSet(queue) \cup running = Submitted
  BY DEF IInv, QInv, OnePlace, QueueSorted, TypeOK
<1>4. IsInjective(queue') /\ SortedByPriority(queue', Weight)
  BY <1>1, <1>3, KeepsOrderKeeps
<1>5. Settled' = Settled
  BY DEF Settled
<1>6. Submitted' = Submitted
  <2>1. started \subseteq Submitted
    BY <1>1, <1>3
  <2> QED BY <1>2, <2>1 DEF Submitted
<1>7. OnePlace'
  BY <1>1, <1>2, <1>3, <1>4, <1>5, <1>6 DEF OnePlace
<1>8. QueueSorted'
  BY <1>4 DEF QueueSorted
<1>9. DependenciesCompleted'
  BY <1>1, <1>2 DEF IInv, QInv, DependenciesCompleted, Eligible
<1>10. \A task \in started : task \in Task /\ outcome[task] = "none" /\ task \notin running
  BY <1>1, <1>3 DEF Settled
<1>11. AttemptsCounted'
  <2> SUFFICES ASSUME NEW task \in Task
               PROVE  AttemptsCounted!(task)'
    BY DEF AttemptsCounted
  <2>1. AttemptsCounted!(task)
    BY DEF IInv, QInv, AttemptsCounted
  <2>2. CASE task \notin started
    BY <1>2, <1>5, <2>1, <2>2
  <2>3. CASE task \in started
    <3>1. task \notin running \cup Settled /\ outcome[task] = "none"
      BY <1>10, <2>3 DEF Settled
    <3>2. attempts'[task] = attempts[task] + 1 /\ task \in running'
      BY <1>2, <2>3
    <3> QED BY <1>5, <2>1, <3>1, <3>2
  <2> QED BY <2>2, <2>3
<1>12. RecordMatchesPromise'
  BY <1>6 DEF IInv, QInv, RecordMatchesPromise
<1>13. ShownMatches'
  <2> SUFFICES ASSUME NEW task \in Task
               PROVE  ShownMatches!(task)'
    BY DEF ShownMatches
  <2>1. ShownMatches!(task)
    BY DEF IInv, QInv, ShownMatches
  <2>2. CASE task \notin started
    BY <1>1, <1>2, <2>1, <2>2
  <2>3. CASE task \in started
    BY <1>2, <1>10, <2>3
  <2> QED BY <2>2, <2>3
<1> QED BY <1>7, <1>8, <1>9, <1>11, <1>12, <1>13 DEF QInv

------------------------------------------------------------------------------
(* Either branch of maybeRetry(). *)
LEMMA MaybeRetryStep ==
  ASSUME IInv, TypeOK', NEW task \in running, MaybeRetry(task),
         running' = running \ {task}, UNCHANGED attempts
  PROVE  QInv'
<1>1. CASE RetriesLeft(task)
  BY <1>1, ReturnsStep DEF MaybeRetry
<1>2. CASE ~RetriesLeft(task)
  <2>1. Settle(task, "failed") /\ UNCHANGED <<queue, retryCount>>
    BY <1>2 DEF MaybeRetry
  <2>2. task \in Task /\ "failed" \in Status
    BY DEF IInv, TypeOK, Status
  <2> QED BY <1>2, <2>1, <2>2, LeavesStep
<1> QED BY <1>1, <1>2

LEMMA QInvStep == IInv /\ [Next]_vars => QInv'
<1> SUFFICES ASSUME IInv, [Next]_vars PROVE QInv'
  OBVIOUS
<1>0. TypeOK /\ TypeOK'
  BY TypeStep DEF IInv
<1>1. ASSUME NEW client \in Client, Submit(client) PROVE QInv'
  BY <1>0, <1>1, TaskFacts, EntersStep DEF Submit
<1>2. ASSUME NEW task \in Task, CancelPending(task) PROVE QInv'
  BY <1>0, <1>2, LeavesStep DEF CancelPending, Status
<1>3. ASSUME NEW task \in Task, CancelRunning(task) PROVE QInv'
  <2>1. task \in Submitted
    BY <1>3 DEF IInv, QInv, OnePlace, CancelRunning
  <2>2. Submitted' = Submitted
    BY <1>0, <1>3, <2>1 DEF CancelRunning, Submitted, TypeOK
  <2> QED BY <1>0, <1>3, <2>2, QuietStep DEF CancelRunning
<1>4. ASSUME NEW task \in Task, Retry(task) PROVE QInv'
  BY <1>0, <1>4, TaskFacts, EntersStep DEF Retry, Retryable
<1>5. ASSUME NEW task \in Task, DelayElapses(task) PROVE QInv'
  BY <1>0, <1>5, QuietStep DEF DelayElapses, Submitted
<1>6. ASSUME NEW task \in Task, NEW status \in ResponseStatus, Respond(task, status)
      PROVE  QInv'
  <2>1. CASE MaybeRetry(task)
    BY <1>0, <1>6, <2>1, MaybeRetryStep DEF Respond
  <2>2. ASSUME NEW s \in {"completed", "cancelled"}, Settle(task, s),
               UNCHANGED <<queue, waiting, retryCount>>
        PROVE  QInv'
    BY <1>0, <1>6, <2>2, LeavesStep DEF Respond, Status
  <2> QED BY <1>6, <2>1, <2>2 DEF Respond
<1>7. ASSUME NEW task \in Task, Throw(task) PROVE QInv'
  BY <1>0, <1>7, MaybeRetryStep DEF Throw
<1>8. ASSUME NEW task \in Task, TimeoutFires(task) PROVE QInv'
  BY <1>0, <1>8, LeavesStep DEF TimeoutFires, Status
<1>9. ASSUME NEW task \in Task, LateResponse(task) PROVE QInv'
  BY <1>0, <1>9, QuietStep DEF LateResponse, Submitted
<1>10. CASE UNCHANGED tasks
  BY <1>0, <1>10, QuietStep DEF tasks, Submitted
<1>11. CASE Drain
  BY <1>0, <1>11, StartsStep DEF Drain
<1>12. Pause \/ Resume \/ Dispose \/ UNCHANGED vars \/ (\E n \in Limits : SetMaxConcurrency(n))
         => UNCHANGED tasks
  BY DEF Pause, Resume, Dispose, SetMaxConcurrency, vars
<1> QED BY <1>1, <1>2, <1>3, <1>4, <1>5, <1>6, <1>7, <1>8, <1>9, <1>10, <1>11, <1>12 DEF Next

(* A call outlives its slot only when a timeout took the slot. *)
LEMMA NoOverlapStep == IInv /\ [Next]_vars => NoOverlappingExecution'
<1> SUFFICES ASSUME IInv, [Next]_vars PROVE NoOverlappingExecution'
  OBVIOUS
<1>0. /\ running \subseteq calls
      /\ \A task \in calls \ running : outcome[task] = "timeout"
      /\ calls \subseteq Task
      /\ outcome \in [Task -> Status \cup {"none"}]
  BY DEF IInv, NoOverlappingExecution, TypeOK
<1>a. \A task \in ToSet(queue) : task \in Task => task \notin running /\ outcome[task] = "none"
  BY DEF IInv, QInv, OnePlace, Settled
<1> USE DEF NoOverlappingExecution
<1>1. ASSUME UNCHANGED <<running, calls, outcome>> PROVE NoOverlappingExecution'
  BY <1>0, <1>1
<1>2. ASSUME NEW task \in Task, CancelPending(task) PROVE NoOverlappingExecution'
  <2>1. task \notin calls
    BY <1>0, <1>a, <1>2 DEF CancelPending
  <2> QED BY <1>0, <1>2, <2>1 DEF CancelPending, Settle
<1>3. ASSUME NEW task \in Task, running' = running \ {task}, calls' = calls \ {task},
             \A other \in Task : other # task => outcome'[other] = outcome[other]
      PROVE  NoOverlappingExecution'
  BY <1>0, <1>3
<1>4. ASSUME NEW task \in Task, NEW status \in Status, Settle(task, status)
      PROVE  \A other \in Task : other # task => outcome'[other] = outcome[other]
  BY <1>0, <1>4 DEF Settle
<1>5. ASSUME NEW task \in Task, MaybeRetry(task)
      PROVE  \A other \in Task : other # task => outcome'[other] = outcome[other]
  BY <1>4, <1>5 DEF MaybeRetry, Status
<1>6. ASSUME NEW task \in Task, NEW status \in ResponseStatus, Respond(task, status)
      PROVE  NoOverlappingExecution'
  <2>1. \A other \in Task : other # task => outcome'[other] = outcome[other]
    BY <1>4, <1>5, <1>6 DEF Respond, Status
  <2> QED BY <1>3, <1>6, <2>1 DEF Respond
<1>7. ASSUME NEW task \in Task, Throw(task) PROVE NoOverlappingExecution'
  BY <1>3, <1>5, <1>7 DEF Throw
<1>8. ASSUME NEW task \in Task, TimeoutFires(task) PROVE NoOverlappingExecution'
  <2>1. /\ running' = running \ {task} /\ calls' = calls
        /\ outcome' = [outcome EXCEPT ![task] = "timeout"]
    BY <1>8 DEF TimeoutFires, Settle
  <2> QED BY <1>0, <2>1
<1>9. ASSUME NEW task \in Task, LateResponse(task) PROVE NoOverlappingExecution'
  BY <1>0, <1>9 DEF LateResponse
<1>10. CASE Drain
  <2>1. PICK taken \in SUBSET DOMAIN queue : Dispatched(taken)
    BY <1>10 DEF Drain
  <2>2. PICK started : running' = running \cup started /\ calls' = calls \cup started
    BY <2>1 DEF Dispatched
  <2>3. outcome' = outcome
    BY <1>10 DEF Drain
  <2> QED BY <1>0, <2>2, <2>3
<1>11. ASSUME \/ \E client \in Client : Submit(client)
              \/ \E task \in Task : CancelRunning(task) \/ Retry(task) \/ DelayElapses(task)
              \/ Pause \/ Resume \/ Dispose \/ UNCHANGED vars
              \/ \E n \in Limits : SetMaxConcurrency(n)
       PROVE  UNCHANGED <<running, calls, outcome>>
  BY <1>11 DEF Submit, CancelRunning, Retry, DelayElapses, Pause, Resume, Dispose,
               SetMaxConcurrency, vars, tasks
<1> QED BY <1>1, <1>2, <1>6, <1>7, <1>8, <1>9, <1>10, <1>11 DEF Next

LEMMA InitIInv == Init => IInv
<1> SUFFICES ASSUME Init PROVE IInv
  OBVIOUS
<1>1. TypeOK
  <2>1. queue \in Seq(Task) /\ limit \in Nat \ {0}
    BY SchedulerAssumption DEF Init
  <2> QED BY <2>1 DEF Init, TypeOK
<1>2. /\ ToSet(queue) = {} /\ IsInjective(queue) /\ SortedByPriority(queue, Weight)
      /\ Settled = {} /\ Submitted = {} /\ running = {} /\ calls = {}
  BY DEF Init, ToSet, IsInjective, SortedByPriority, Settled, Submitted
<1>3. OnePlace /\ QueueSorted /\ NoOverlappingExecution
  BY <1>2 DEF OnePlace, QueueSorted, NoOverlappingExecution
<1>4. \A task \in Task :
        /\ terminal[task] = "none" /\ outcome[task] = "none" /\ shown[task] = "absent"
        /\ retryCount[task] = 0 /\ attempts[task] = 0
  BY DEF Init
<1>5. AttemptsCounted
  BY <1>2, <1>4, TaskFacts DEF AttemptsCounted, ITaskDefinition
<1>6. DependenciesCompleted /\ RecordMatchesPromise /\ ShownMatches
  BY <1>2, <1>4 DEF DependenciesCompleted, RecordMatchesPromise, ShownMatches
<1> QED BY <1>1, <1>3, <1>5, <1>6 DEF IInv, QInv

LEMMA Inductive == Spec => []IInv
<1>1. IInv /\ [Next]_vars => IInv'
  BY TypeStep, QInvStep, NoOverlapStep DEF IInv
<1> QED BY <1>1, InitIInv, PTL DEF Spec

------------------------------------------------------------------------------
(* The results.                                                            *)

(* A task that was submitted is in the queue once, or in a slot, or        *)
(* settled, whatever submit(), cancel(), retry() and dispatch() do.        *)
THEOREM OnePlaceAlways == Spec => []OnePlace
<1>1. IInv => OnePlace
  BY DEF IInv, QInv
<1> QED BY <1>1, Inductive, PTL

(* The order insertByPriority() makes survives every removal. *)
THEOREM QueueAlwaysSorted == Spec => []QueueSorted
<1>1. IInv => QueueSorted
  BY DEF IInv, QInv
<1> QED BY <1>1, Inductive, PTL

(* dispatch() never has two executeAgent() calls of one task out. *)
THEOREM ExecutionsNeverOverlap == Spec => []NoOverlappingExecution
<1>1. IInv => NoOverlappingExecution
  BY DEF IInv
<1> QED BY <1>1, Inductive, PTL

(* What peekEligible() checked at the start of a task stays true. *)
THEOREM DependenciesStayCompleted == Spec => []DependenciesCompleted
<1>1. IInv => DependenciesCompleted
  BY DEF IInv, QInv
<1> QED BY <1>1, Inductive, PTL

(* maybeRetry() executes a task maxRetries + 1 times at most, and exactly  *)
(* that often before it fails it.                                          *)
THEOREM RetryBudgetKept == Spec => []RetryBudget
<1>1. ASSUME IInv PROVE RetryBudget
  <2> SUFFICES ASSUME NEW task \in Task PROVE RetryBudget!(task)
    BY DEF RetryBudget
  <2>1. AttemptsCounted!(task)
    BY <1>1 DEF IInv, QInv, AttemptsCounted
  <2>2. retryCount[task] \in Nat /\ attempts[task] \in Nat /\ Def(task).maxRetries \in Nat
    BY <1>1, TaskFacts DEF IInv, TypeOK, ITaskDefinition
  <2> QED BY <2>1, <2>2
<1> QED BY <1>1, Inductive, PTL

(* getTask() and the promise of submit() tell the same, and the state     *)
(* service shows every settled task as settled, and as running only what  *)
(* runs or waits for its next attempt.                                    *)
THEOREM RecordsAlwaysAgree == Spec => []RecordsAgree
<1>1. IInv => RecordsAgree
  BY DEF IInv, QInv, RecordsAgree
<1> QED BY <1>1, Inductive, PTL

(* settle() is reached once per task: a promise is never resolved again. *)
THEOREM SettledForGood == Spec => SettledOnce
<1>1. ASSUME IInv, [Next]_vars
      PROVE  [\A task \in Task : outcome[task] # "none" => outcome'[task] = outcome[task]]_vars
  <2>1. /\ \A task \in Task : outcome[task] # "none" => task \notin ToSet(queue) \cup running
        /\ outcome \in [Task -> Status \cup {"none"}]
    BY <1>1 DEF IInv, QInv, OnePlace, Settled, TypeOK
  <2> SUFFICES ASSUME NEW task \in Task, outcome[task] # "none"
               PROVE  outcome'[task] = outcome[task]
    OBVIOUS
  <2>2. ASSUME NEW other \in ToSet(queue) \cup running, NEW status, Settle(other, status)
        PROVE  outcome'[task] = outcome[task]
    BY <2>1, <2>2 DEF Settle
  <2>3. ASSUME NEW other \in running, MaybeRetry(other)
        PROVE  outcome'[task] = outcome[task]
    BY <2>2, <2>3 DEF MaybeRetry
  <2>4. ASSUME NEW other \in Task, CancelPending(other) PROVE outcome'[task] = outcome[task]
    BY <2>2, <2>4 DEF CancelPending
  <2>5. ASSUME NEW other \in Task, NEW status \in ResponseStatus, Respond(other, status)
        PROVE  outcome'[task] = outcome[task]
    BY <2>2, <2>3, <2>5 DEF Respond
  <2>6. ASSUME NEW other \in Task, Throw(other) PROVE outcome'[task] = outcome[task]
    BY <2>3, <2>6 DEF Throw
  <2>7. ASSUME NEW other \in Task, TimeoutFires(other) PROVE outcome'[task] = outcome[task]
    BY <2>2, <2>7 DEF TimeoutFires
  <2>8. ASSUME \/ \E client \in Client : Submit(client)
               \/ \E other \in Task : \/ CancelRunning(other) \/ Retry(other)
                                      \/ DelayElapses(other) \/ LateResponse(other)
               \/ Pause \/ Resume \/ Dispose \/ Drain \/ UNCHANGED vars
               \/ \E n \in Limits : SetMaxConcurrency(n)
        PROVE  UNCHANGED outcome
    BY <2>8 DEF Submit, CancelRunning, Retry, DelayElapses, LateResponse, Pause, Resume,
                Dispose, Drain, SetMaxConcurrency, vars, tasks
  <2> QED BY <1>1, <2>4, <2>5, <2>6, <2>7, <2>8 DEF Next
<1> QED BY <1>1, Inductive, PTL DEF Spec, SettledOnce

(* A set grown by an image of at most m positions grows by at most m. *)
LEMMA ImageBound ==
  ASSUME NEW A, IsFiniteSet(A), NEW n \in Nat, NEW I \in SUBSET (1 .. n),
         NEW f, NEW B, B = {f[i] : i \in I}, NEW m \in Nat, Cardinality(I) <= m
  PROVE  Cardinality(A \cup B) <= Cardinality(A) + m
<1>1. IsFiniteSet(I)
  <2>1. IsFiniteSet(1 .. n)
    BY FS_Interval
  <2> QED BY <2>1, FS_Subset
<1>2. IsFiniteSet(B) /\ Cardinality(B) <= Cardinality(I)
  <2> DEFINE g == [i \in I |-> f[i]]
  <2>1. B = {g[i] : i \in I}
    OBVIOUS
  <2>2. g \in Surjection(I, B)
    BY <2>1 DEF Surjection
  <2> HIDE DEF g
  <2> QED BY <1>1, <2>2, FS_Surjection
<1>3. Cardinality(A \cup B) = Cardinality(A) + Cardinality(B) - Cardinality(A \cap B)
  BY <1>2, FS_Union
<1>4. /\ Cardinality(A) \in Nat /\ Cardinality(B) \in Nat /\ Cardinality(I) \in Nat
      /\ Cardinality(A \cap B) \in Nat
  BY <1>1, <1>2, FS_CardinalityType, FS_Intersection
<1> QED BY <1>2, <1>3, <1>4

LEMMA TaskFinite == IsFiniteSet(Task)
<1>1. IsFiniteSet(0 .. MaxManual)
  BY SchedulerAssumption, FS_Interval
<1> QED BY <1>1, SchedulerAssumption, FS_Product DEF Task

(* Every step but a tick leaves the slots or gives some back. *)
LEMMA OnlyDrainStarts ==
  ASSUME [Next]_vars, ~Drain
  PROVE  running' \subseteq running
BY DEF Next, Submit, CancelPending, CancelRunning, Retry, DelayElapses, Respond, Throw,
       TimeoutFires, LateResponse, Pause, Resume, SetMaxConcurrency, Dispose, vars, tasks

(* The loop of drain() stops at _maxConcurrency. *)
LEMMA ConcurrencyStep ==
  ASSUME IInv, [Next]_vars, Started # {}
  PROVE  Cardinality(running') <= limit
<1>1. Drain
  BY OnlyDrainStarts DEF Started
<1>2. PICK taken \in SUBSET DOMAIN queue : IsDrained(taken) /\ Dispatched(taken)
  BY <1>1 DEF Drain
<1> DEFINE started == {queue[i] : i \in taken}
<1>3. running' = running \cup started /\ started # {}
  BY <1>2 DEF Dispatched, Started
<1>5. IsFiniteSet(running)
  BY TaskFinite, FS_Subset DEF IInv, TypeOK
<1>6. Len(queue) \in Nat /\ taken \subseteq 1 .. Len(queue)
  BY LenProperties DEF IInv, TypeOK
<1>7. limit \in Nat /\ Cardinality(running) \in Nat
  BY <1>5, FS_CardinalityType DEF IInv, TypeOK
<1>8. Slots \in Nat
  BY <1>7 DEF Slots
<1>4. Cardinality(taken) <= Slots
  <2>1. Cardinality(taken) <= Slots \/ Cardinality(taken) = Slots
    BY <1>2 DEF IsDrained
  <2> QED BY <1>8, <2>1
<1>9. Cardinality(running') <= Cardinality(running) + Slots
  <2> HIDE DEF started
  <2> QED BY <1>3, <1>4, <1>5, <1>6, <1>8, ImageBound DEF started
<1>10. Cardinality(running) < limit
  <2> SUFFICES ASSUME ~(Cardinality(running) < limit) PROVE FALSE
    OBVIOUS
  <2>1. IsFiniteSet(taken)
    BY <1>6, FS_Interval, FS_Subset
  <2>2. Cardinality(taken) \in Nat /\ Slots = 0
    BY <2>1, FS_CardinalityType DEF Slots
  <2>3. taken = {}
    BY <1>4, <2>1, <2>2, FS_EmptySet
  <2> QED BY <1>3, <2>3
<1>11. running' \subseteq Task /\ IsFiniteSet(running')
  <2>1. running' \subseteq Task
    BY TypeStep DEF IInv, TypeOK
  <2> QED BY <2>1, TaskFinite, FS_Subset
<1>12. Cardinality(running') \in Nat
  BY <1>11, FS_CardinalityType
<1> QED BY <1>7, <1>9, <1>10, <1>12 DEF Slots

(* The loop of drain() never fills more slots than _maxConcurrency, also   *)
(* when setMaxConcurrency() has just lowered it.                           *)
THEOREM ConcurrencyAlwaysRespected == Spec => ConcurrencyRespected
<1>1. ASSUME IInv, [Next]_vars
      PROVE  [Started # {} => Cardinality(running') <= limit]_vars
  BY <1>1, ConcurrencyStep
<1> QED BY <1>1, Inductive, PTL DEF Spec, ConcurrencyRespected

(* drain() starts nothing past an eligible task of higher priority: what   *)
(* it leaves and could have taken stands behind what it took, and the      *)
(* queue is sorted.                                                        *)
THEOREM NeverPriorityInversion == Spec => NoPriorityInversion
<1>1. ASSUME IInv, [Next]_vars
      PROVE  [\A task \in Started, left \in ToSet(queue') :
                Weight[left] > Weight[task] => ~Eligible(left)]_vars
  <2> SUFFICES ASSUME NEW task \in Started, NEW left \in ToSet(queue'),
                      Weight[left] > Weight[task], Eligible(left)
               PROVE  FALSE
    OBVIOUS
  <2>1. Drain
    BY <1>1, OnlyDrainStarts DEF Started
  <2>2. PICK taken \in SUBSET DOMAIN queue : IsDrained(taken) /\ Dispatched(taken)
    BY <2>1 DEF Drain
  <2> DEFINE started == {queue[i] : i \in taken}
  <2>3. task \in started
    BY <2>2 DEF Dispatched, Started
  <2>4. ToSet(queue') = ToSet(queue) \ started
    <3> HIDE DEF started
    <3> QED BY <1>1, <2>2, DispatchedSets DEF started
  <2>5. PICK i \in taken : task = queue[i]
    BY <2>3
  <2>6. PICK j \in DOMAIN queue : left = queue[j] /\ j \notin taken
    BY <2>4 DEF ToSet
  <2>7. i < j
    BY <2>2, <2>5, <2>6 DEF IsDrained
  <2>8. Weight[task] >= Weight[left]
    BY <1>1, <2>5, <2>6, <2>7 DEF IInv, QInv, QueueSorted, SortedByPriority
  <2>9. task \in Task /\ left \in Task
    BY <1>1, <2>5, <2>6, ElementOfSeq, LenProperties DEF IInv, TypeOK
  <2>10. Weight[task] \in Nat /\ Weight[left] \in Nat
    BY <2>9, TaskFacts
  <2> QED BY <2>8, <2>10
<1> QED BY <1>1, Inductive, PTL DEF Spec, NoPriorityInversion

(* First come, first served within a priority: whatever enters the queue,  *)
(* from submit(), retry() or a failed execution, stands behind every task  *)
(* of at least its own priority that was there.                            *)
THEOREM NeverOvertaking == Spec => NoOvertaking
<1>1. ASSUME IInv, [Next]_vars,
             NEW i \in DOMAIN queue', NEW j \in DOMAIN queue',
             i < j, queue'[i] \notin ToSet(queue), queue'[j] \in ToSet(queue)
      PROVE  Weight[queue'[i]] > Weight[queue'[j]]
  <2>0. queue \in Seq(Task) /\ SortedByPriority(queue, Weight)
    BY <1>1 DEF IInv, QInv, QueueSorted, TypeOK
  <2>1. ASSUME NEW task \in Task, queue' = InsertByPriority(queue, task, Weight)
        PROVE  Weight[queue'[i]] > Weight[queue'[j]]
    BY <1>1, <2>0, <2>1, TaskFacts, InsertByPriorityFifo
  <2>2. queue'[i] \in ToSet(queue')
    BY DEF ToSet
  <2>3. ASSUME ToSet(queue') \subseteq ToSet(queue) PROVE FALSE
    BY <1>1, <2>2, <2>3
  <2>4. ASSUME NEW task \in Task, MaybeRetry(task) \/ Enqueue(task)
        PROVE  Weight[queue'[i]] > Weight[queue'[j]]
    BY <2>1, <2>3, <2>4 DEF MaybeRetry, Enqueue
  <2>5. ASSUME NEW task \in Task, CancelPending(task) PROVE FALSE
    <3>1. ToSet(queue') = ToSet(queue) \ {task}
      BY <1>1, <2>0, <2>5, RemoveFirstEntries DEF CancelPending, IInv, QInv, OnePlace, Settle
    <3> QED BY <2>3, <3>1
  <2>6. CASE Drain
    <3>1. PICK taken \in SUBSET DOMAIN queue : IsDrained(taken) /\ Dispatched(taken)
      BY <2>6 DEF Drain
    <3>2. ToSet(queue') = ToSet(queue) \ {queue[m] : m \in taken}
      BY <1>1, <3>1, DispatchedSets
    <3> QED BY <2>3, <3>2
  <2>7. ASSUME NEW task \in Task, NEW status \in ResponseStatus, Respond(task, status)
        PROVE  Weight[queue'[i]] > Weight[queue'[j]]
    <3>1. UNCHANGED queue \/ MaybeRetry(task)
      BY <2>7 DEF Respond
    <3> QED BY <2>3, <2>4, <3>1
  <2>8. ASSUME NEW task \in Task, Throw(task) \/ Retry(task)
        PROVE  Weight[queue'[i]] > Weight[queue'[j]]
    BY <2>4, <2>8, TaskFacts DEF Throw, Retry
  <2>9. ASSUME NEW client \in Client, Submit(client)
        PROVE  Weight[queue'[i]] > Weight[queue'[j]]
    BY <2>4, <2>9, TaskFacts DEF Submit
  <2>10. ASSUME \/ \E task \in Task : \/ CancelRunning(task) \/ DelayElapses(task)
                                      \/ TimeoutFires(task) \/ LateResponse(task)
                \/ Pause \/ Resume \/ Dispose \/ UNCHANGED vars
                \/ \E n \in Limits : SetMaxConcurrency(n)
         PROVE  FALSE
    <3>1. UNCHANGED queue
      BY <2>10 DEF CancelRunning, DelayElapses, TimeoutFires, LateResponse, Pause,
                   Resume, Dispose, SetMaxConcurrency, vars, tasks
    <3> QED BY <2>3, <3>1
  <2> QED BY <1>1, <2>5, <2>6, <2>7, <2>8, <2>9, <2>10 DEF Next
<1>2. ASSUME IInv, [Next]_vars
      PROVE  [\A i, j \in DOMAIN queue' :
                (i < j /\ queue'[i] \notin ToSet(queue) /\ queue'[j] \in ToSet(queue))
                  => Weight[queue'[i]] > Weight[queue'[j]]]_vars
  BY <1>1, <1>2
<1> QED BY <1>2, Inductive, PTL DEF Spec, NoOvertaking

------------------------------------------------------------------------------
(***************************************************************************)
(* Every behaviour of TaskScheduler is one of TaskLifecycle, the promise   *)
(* of ITaskScheduler to its clients.                                       *)
(***************************************************************************)

(* The phase of a task, from the place OnePlace says it has. *)
LEMMA PhaseOf ==
  ASSUME OnePlace, NEW task \in Task
  PROVE  /\ task \in Settled => Phase[task] = "settled"
         /\ task \in running => Phase[task] = "running"
         /\ task \in ToSet(queue) => Phase[task] = "queued"
         /\ task \notin Submitted => Phase[task] = "absent"
         /\ Phase[task] = "running" => task \in running
         /\ Phase[task] = "queued" => task \in ToSet(queue)
BY DEF OnePlace, Settled, Phase

(* A step that leaves every place alone but that of one task. *)
LEMMA PhaseMoves ==
  ASSUME NEW task \in Task, NEW p, Phase'[task] = p,
         \A other \in Task : other # task =>
            /\ other \in running' <=> other \in running
            /\ other \in ToSet(queue') <=> other \in ToSet(queue)
            /\ outcome'[other] = outcome[other]
  PROVE  Phase' = [Phase EXCEPT ![task] = p]
<1>1. \A other \in Task : other # task => Phase'[other] = Phase[other]
  BY DEF Phase
<1>2. Phase' = [other \in Task |-> Phase'[other]]
  BY DEF Phase
<1>3. Phase = [other \in Task |-> Phase[other]]
  BY DEF Phase
<1> QED BY <1>1, <1>2, <1>3

(* submit() *)
LEMMA EntersAccepts ==
  ASSUME IInv, IInv', NEW task \in Task, Enqueue(task),
         UNCHANGED <<running, outcome, attempts, limit>>
  PROVE  Lifecycle!Accept(task)
<1>1. /\ task \notin ToSet(queue) \cup running \cup Settled
      /\ ToSet(queue') = ToSet(queue) \cup {task}
  BY EnqueueSets DEF IInv
<1>2. Phase[task] = "absent"
  BY <1>1 DEF Phase, Settled
<1>3. Phase'[task] = "queued"
  BY <1>1 DEF Phase, Settled
<1>4. Phase' = [Phase EXCEPT ![task] = "queued"]
  BY <1>1, <1>3, PhaseMoves
<1> QED BY <1>2, <1>4 DEF Lifecycle!Accept

(* settle() *)
LEMMA LeavesFinishes ==
  ASSUME IInv, IInv', NEW task \in Task, NEW status \in Status,
         Settle(task, status), UNCHANGED <<attempts, limit>>,
         \/ /\ task \in ToSet(queue) /\ queue' = RemoveFirst(queue, task)
            /\ running' = running /\ status = "cancelled"
         \/ /\ task \in running /\ queue' = queue
            /\ running' = running \ {task}
  PROVE  Lifecycle!Finish(task, status)
<1>1. \/ Phase[task] = "running"
      \/ Phase[task] = "queued" /\ status = "cancelled"
  BY PhaseOf DEF IInv, QInv
<1>2. outcome' = [outcome EXCEPT ![task] = status]
  BY DEF Settle
<1>3. Phase'[task] = "settled"
  BY <1>2 DEF IInv, TypeOK, Phase, Status
<1>4. \A other \in Task : other # task =>
        /\ other \in running' <=> other \in running
        /\ other \in ToSet(queue') <=> other \in ToSet(queue)
        /\ outcome'[other] = outcome[other]
  <2>1. CASE queue' = queue /\ running' = running \ {task}
    BY <1>2, <2>1
  <2>2. CASE task \in ToSet(queue) /\ queue' = RemoveFirst(queue, task) /\ running' = running
    <3>1. queue \in Seq(Task) /\ IsInjective(queue)
      BY DEF IInv, QInv, OnePlace, TypeOK
    <3>2. ToSet(queue') = ToSet(queue) \ {task}
      BY <2>2, <3>1, RemoveFirstEntries
    <3> QED BY <1>2, <2>2, <3>2
  <2> QED BY <2>1, <2>2
<1>5. Phase' = [Phase EXCEPT ![task] = "settled"]
  BY <1>3, <1>4, PhaseMoves
<1> QED BY <1>1, <1>2, <1>5 DEF Lifecycle!Finish

(* Either branch of maybeRetry() *)
LEMMA MaybeRetryImplements ==
  ASSUME IInv, IInv', NEW task \in running, MaybeRetry(task),
         running' = running \ {task}, UNCHANGED <<attempts, limit>>
  PROVE  Lifecycle!GiveBack(task) \/ Lifecycle!Finish(task, "failed")
<1>0. task \in Task /\ "failed" \in Status
  BY DEF IInv, TypeOK, Status
<1>1. CASE RetriesLeft(task)
  <2>1. queue' = InsertByPriority(queue, task, Weight) /\ UNCHANGED outcome
    BY <1>1 DEF MaybeRetry
  <2>2. ToSet(queue') = ToSet(queue) \cup {task}
    <3>1. queue \in Seq(Task)
      BY DEF IInv, TypeOK
    <3> QED BY <1>0, <2>1, <3>1, TaskFacts, InsertByPriorityEntries
  <2>3. Phase[task] = "running"
    BY <1>0, PhaseOf DEF IInv, QInv
  <2>4. Phase'[task] = "queued"
    BY <1>0, <2>2, PhaseOf DEF IInv, QInv, OnePlace, Phase, Settled
  <2>5. Phase' = [Phase EXCEPT ![task] = "queued"]
    BY <1>0, <2>1, <2>2, <2>4, PhaseMoves
  <2> QED BY <2>1, <2>3, <2>5 DEF Lifecycle!GiveBack
<1>2. CASE ~RetriesLeft(task)
  <2>1. Settle(task, "failed") /\ UNCHANGED queue
    BY <1>2 DEF MaybeRetry
  <2> QED BY <1>0, <2>1, LeavesFinishes
<1> QED BY <1>1, <1>2

(* A tick of the drain timer *)
LEMMA DrainStarts ==
  ASSUME IInv, IInv', [Next]_vars, Drain
  PROVE  \E started \in SUBSET Task : Lifecycle!Start(started)
<1>1. PICK taken \in SUBSET DOMAIN queue : taken # {} /\ IsDrained(taken) /\ Dispatched(taken)
  BY DEF Drain
<1> DEFINE started == {queue[i] : i \in taken}
<1>2. /\ started \subseteq ToSet(queue) /\ started \subseteq Task
      /\ \A task \in started : Eligible(task)
      /\ ToSet(queue') = ToSet(queue) \ started
  <2> HIDE DEF started
  <2> QED BY <1>1, DispatchedSets DEF started
<1>3. /\ running' = running \cup started
      /\ attempts' = [task \in Task |->
                        IF task \in started THEN attempts[task] + 1 ELSE attempts[task]]
  BY <1>1 DEF Dispatched
<1>4. started # {}
  BY <1>1
<1> HIDE DEF started
<1>5. UNCHANGED <<outcome, limit>>
  BY DEF Drain, control
<1>6. started \subseteq Lifecycle!In("queued")
  BY <1>2, PhaseOf DEF Lifecycle!In, IInv, QInv
<1>7. Cardinality(Lifecycle!In("running") \cup started) <= limit
  <2>1. Lifecycle!In("running") = running
    BY PhaseOf DEF Lifecycle!In, IInv, QInv, TypeOK
  <2>2. Started # {}
    <3>1. started \cap running = {}
      BY <1>2 DEF IInv, QInv, OnePlace
    <3> QED BY <1>3, <1>4, <3>1 DEF Started
  <2>3. Cardinality(running') <= limit
    BY <2>2, ConcurrencyStep
  <2> QED BY <1>3, <2>1, <2>3
<1>8. ASSUME NEW task \in started
      PROVE  /\ attempts[task] < Def(task).maxRetries + 1
             /\ \A need \in DependsOn(task) : outcome[need] = "completed"
  <2>1. task \in Task /\ task \notin running \cup Settled
    BY <1>2 DEF IInv, QInv, OnePlace
  <2>2. attempts[task] = retryCount[task] /\ retryCount[task] <= Def(task).maxRetries
    BY <2>1 DEF IInv, QInv, AttemptsCounted
  <2>3. retryCount[task] \in Nat /\ Def(task).maxRetries \in Nat
    BY <2>1, TaskFacts DEF IInv, TypeOK, ITaskDefinition
  <2>4. \A need \in DependsOn(task) : need \in Task /\ terminal[need] = "completed"
    BY <1>2, <2>1, TaskFacts DEF Eligible
  <2>5. \A need \in DependsOn(task) : outcome[need] = "completed"
    BY <2>4 DEF IInv, QInv, RecordMatchesPromise
  <2> QED BY <2>2, <2>3, <2>5
<1>9. Phase' = [task \in Task |-> IF task \in started THEN "running" ELSE Phase[task]]
  <2>1. \A task \in Task : task \in started => Phase'[task] = "running"
    BY <1>3 DEF IInv, QInv, OnePlace, Phase, Settled
  <2>2. ASSUME NEW task \in Task, task \notin started PROVE Phase'[task] = Phase[task]
    <3>1. /\ task \in running' <=> task \in running
          /\ task \in ToSet(queue') <=> task \in ToSet(queue)
          /\ outcome'[task] = outcome[task]
      BY <1>2, <1>3, <1>5, <2>2
    <3> QED BY <3>1 DEF Phase
  <2> QED BY <2>1, <2>2 DEF Phase
<1>10. ASSUME NEW task \in started
       PROVE  /\ attempts[task] < [other \in Task |-> Def(other).maxRetries + 1][task]
              /\ \A need \in [other \in Task |-> DependsOn(other)][task] :
                   outcome[need] = "completed"
  BY <1>2, <1>8
<1>11. Lifecycle!Start(started)
  <2>1. UNCHANGED <<outcome, limit>>
    BY <1>5
  <2>2. \A S : Lifecycle!Cardinality(S) = Cardinality(S)
    BY DEF Lifecycle!Cardinality, Cardinality
  <2> QED BY <1>3, <1>6, <1>7, <1>9, <1>10, <2>1, <2>2, Zenon DEF Lifecycle!Start
<1> QED BY <1>2, <1>11

(* submit(), cancel(), retry(), a tick and every end of a dispatch do to   *)
(* the life of a task what TaskLifecycle allows, and nothing else.         *)
THEOREM Implements == Spec => ImplementsLifecycle
<1>1. Init => Lifecycle!Init
  <2> SUFFICES ASSUME Init PROVE Lifecycle!Init
    OBVIOUS
  <2>1. ToSet(queue) = {} /\ running = {} /\ \A task \in Task : outcome[task] = "none"
    BY DEF Init, ToSet
  <2>2. Phase = [task \in Task |-> "absent"]
    BY <2>1 DEF Phase
  <2>3. limit = AtLeastOne(DefaultLimit)
    BY SchedulerAssumption DEF Init, AtLeastOne
  <2> QED BY <2>2, <2>3 DEF Init, Lifecycle!Init
<1>2. ASSUME IInv, IInv', [Next]_vars PROVE [Lifecycle!Next]_(Lifecycle!vars)
  <2> USE <1>2
  <2>1. ASSUME NEW client \in Client, Submit(client) PROVE Lifecycle!Next
    BY <2>1, TaskFacts, EntersAccepts DEF Submit, control, Lifecycle!Next
  <2>2. ASSUME NEW task \in Task, CancelPending(task) PROVE Lifecycle!Next
    BY <2>2, LeavesFinishes DEF CancelPending, control, Status, Lifecycle!Next
  <2>3. ASSUME NEW task \in Task, Retry(task) PROVE Lifecycle!Next
    BY <2>3, TaskFacts, EntersAccepts DEF Retry, control, Lifecycle!Next
  <2>4. ASSUME NEW task \in Task, task \in running, MaybeRetry(task),
               running' = running \ {task}, UNCHANGED <<attempts, limit>>
        PROVE  Lifecycle!Next
    BY <2>4, MaybeRetryImplements DEF Lifecycle!Next, Status
  <2>5. ASSUME NEW task \in Task, NEW status \in ResponseStatus, Respond(task, status)
        PROVE  Lifecycle!Next
    <3>1. CASE MaybeRetry(task)
      BY <2>4, <2>5, <3>1 DEF Respond, control
    <3>2. ASSUME NEW s \in {"completed", "cancelled"}, Settle(task, s), UNCHANGED queue
          PROVE  Lifecycle!Next
      BY <2>5, <3>2, LeavesFinishes DEF Respond, control, Status, Lifecycle!Next
    <3> QED BY <2>5, <3>1, <3>2 DEF Respond
  <2>6. ASSUME NEW task \in Task, Throw(task) PROVE Lifecycle!Next
    BY <2>4, <2>6 DEF Throw, control
  <2>7. ASSUME NEW task \in Task, TimeoutFires(task) PROVE Lifecycle!Next
    BY <2>7, LeavesFinishes DEF TimeoutFires, control, Status, Lifecycle!Next
  <2>8. CASE Drain
    BY <2>8, DrainStarts DEF Lifecycle!Next
  <2>9. ASSUME NEW n \in Limits, SetMaxConcurrency(n) PROVE Lifecycle!Next
    <3>1. UNCHANGED <<Phase, outcome, attempts>>
      BY <2>9 DEF SetMaxConcurrency, tasks, Phase
    <3> QED BY <2>9, <3>1 DEF SetMaxConcurrency, Lifecycle!Next, Lifecycle!ChangeLimit
  <2>10. ASSUME \/ \E task \in Task : \/ CancelRunning(task) \/ DelayElapses(task)
                                      \/ LateResponse(task)
                \/ Pause \/ Resume \/ Dispose \/ UNCHANGED vars
         PROVE  UNCHANGED Lifecycle!vars
    <3>1. UNCHANGED <<queue, running, outcome, attempts, limit>>
      BY <2>10 DEF CancelRunning, DelayElapses, LateResponse, Pause, Resume, Dispose,
                   vars, tasks, control
    <3> QED BY <3>1 DEF Lifecycle!vars, Phase
  <2> QED BY <2>1, <2>2, <2>3, <2>5, <2>6, <2>7, <2>8, <2>9, <2>10 DEF Next
<1> QED BY <1>1, <1>2, Inductive, PTL DEF Spec, ImplementsLifecycle
=============================================================================
