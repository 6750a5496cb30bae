# Nutanaa Studio OS: a verification development in TLA+

Nutanaa Studio OS is an AI development environment made of two programs. The *workbench* is a
contribution to Visual Studio Code (`src/editor/src/vs/workbench/contrib/nutanaa`, TypeScript, below
`N/`): it schedules tasks, coordinates agents and walks workflow graphs. The *runtime*
(`src/runtime`, Python) executes requests with agents and model providers behind an HTTP API
(`src/backend/api`). The rest of the repository is the vendored editor and directories that hold
descriptions only.

This directory models the core of both programs, checks the models with TLC on small instances, and
proves the most important properties with TLAPS for every instance.

Contents: [the system](#1-the-system) · [the models](#2-the-models) · [the runs](#3-the-runs) ·
[the proofs](#4-the-proofs) · [what the runs found](#5-where-the-code-and-its-documentation-disagree) ·
[what is left out](#6-what-is-not-modelled) · [what may come next](#7-what-may-come-next)

## 1. The system

### Components, their state and their operations

| Component | State | Operations | Correct when |
|---|---|---|---|
| **TaskScheduler** `N/browser/workflow/taskScheduler.ts` | priority queue, map of running tasks, record of ended ones, retry counts, pause flag, limit, drain timer | submit, cancel, retry, pause, resume, setMaxConcurrency, a tick of the timer, the end of a dispatch, dispose | a task is in one place, is started in order and within the limit, after its dependencies, a bounded number of times, never twice at once; it gets one result, and gets it |
| **AgentCoordinator** `N/common/agents/agentCoordinator.ts` and **AgentDispatcher** `N/browser/agents/agentDispatcher.ts` | a slot per agent, queue of requests, controllers of executions, requests in flight | register, unregister, execute, queue, cancel, restart an agent; dispatch with a timeout | slots, controllers and queue agree with the executions there are; a request is executed once; a late answer changes nothing |
| **WorkflowEngine** `N/browser/workflow/workflowEngine.ts` | status of executions and of their nodes, outputs, cancellation flags | execute and cancel a workflow; strategies for seven kinds of node | a join waits for all branches and runs once, retries and loops are bounded, the published outcome is the true one, every walk ends |
| **ProviderManager** `src/runtime/providers` | registry, health and failures of providers, rate limiters, response cache | register, unregister, probe, select, execute with retries and fallback | no healthy provider is passed over, none is given up unasked |
| **TaskExecutionEngine** `src/runtime/tasks/task_execution_engine.py` | status and attempts of a request, cancel event, timer | execute, cancel | results are genuine, statuses honest, failures earned, cancellation stops new work, every request ends |
| **RuntimeConnectionService** `N/browser/runtime/nutanaaRuntimeConnectionService.ts`, **ProviderModelSyncService** `N/browser/providers/providerModelSyncService.ts` | state, socket, retry timer; flag of a fetch under way | connect, retry, events of the socket, dispose; sync on connection and on an interval | the client never gives up, listens to one socket, does not multiply its retries, and shows what the runtime says |
| **Workflows of the runtime** `src/runtime/workflows` | runner: state object in place, checkpoints, cancel event; per call: layer, results; per node: attempts | run, execute a step, pause, resume, cancel, roll back, restore | nodes have their inputs, nothing goes on after a call, results are true whatever other calls write into the shared state, a rollback is not undone |
| **ProjectState** `src/runtime/state/project_state.py` | values, version, revision; snapshots | set, update, delete, each with an expected version or revision; snapshot, restore, clone | no write passes over what its writer has not seen |
| **OfflineManager** `N/browser/ops/offlineManager.ts` | queue of operations, in memory and in the storage service; interval; batches of syncs | queue, remove, clear; start, stop, force a sync; a change of the network; dispose and restart | an operation is in one place, executed in order, lost or repeated only by a restart in the middle of a sync, and executed in the end |
| **ProviderManager of the workbench** `N/browser/providers/providerManager.ts` | providers, health, load | register, complete, refresh health | not modelled: nobody registers a provider |
| **DistributedRuntimeManager** `N/browser/runtime/distributedRuntimeManager.ts` | nodes, master, tasks | add, remove, elect, assign | not modelled: simulated |
| **Kernel, scheduler service** `src/runtime/kernel.py`, `services/scheduler.py` | started services, scheduled coroutines | start, stop, schedule | not modelled: one caller, nothing scheduled |

`PROJECT.json` lists the remaining components (recovery, caches, tools, authentication, indexers,
views, plugins, the dependency container, stubs) with the reason each is left out.

### How they interact

In the workbench, `TaskScheduler.dispatch()` and the agent nodes of the `WorkflowEngine` both await
`AgentCoordinator.executeAgent()`, which awaits `AgentDispatcher.dispatch()`, which sends the request
over the `RuntimeConnectionService` and races the answer against a timeout. Everybody publishes what
it does to the `RuntimeStateService`, which the views read. Nothing in the stack can stop an
execution once it is under way: `cancelAgent()` aborts a controller nobody listens to.

In the runtime, a route of the API calls `TaskExecutionEngine.execute()`, which plans the request,
asks the agent the plan names, or a provider, and wraps the attempt in `asyncio.wait_for()`. The
`ProviderManager` tries its candidates one after the other, each behind a rate limiter and a
`RetryPolicy`, and keeps responses in a cache that requests share. The engine publishes to the state
store and the event bus, whose listeners it awaits. Apart from that a `WorkflowRunner` walks graphs of
Python callables, layer by layer, and a `ProjectState` is shared by whoever works on a project.

The `OfflineManager` stands alone: it is handed operations and reads the browser's network events.

### What is hard

Both programs run one callback (coroutine) at a time, and `ProjectState` holds a lock in every operation,
so there are no data races; what is hard lies between two awaits:

- **State read before an await and used after it.** The halves of `unregisterAgent()` and
  `restartAgent()`, the candidates of the provider manager, the state object a workflow run holds on to
  while `rollback()` puts another in place.
- **A timeout against a late answer.** Every timeout of the workbench gives up an execution that goes
  on; the timeouts of the runtime arrive as an exception that something else may catch.
- **`Promise.all()`** rejects at the first failing branch and leaves the others running.
- **Retries**, in the task scheduler, in workflow nodes, in the engine and in the retry policy, of
  what is partly done or still running.
- **Several places for one fact**: record, promise, event and state service; status in the store and
  exception; slot, controller and execution.
- **What a restart finds.** A sync empties the queue at its beginning and saves at its end.
- **Versions that come back**, in a state that is restored or cloned.
- **Order and fairness**: priorities against dependencies and delays, limits that change under way.

`PROJECT.json` lists the hazards one by one, each at its line, with the properties that cover it or
the reason none does.

## 2. The models

| Module | Models | |
|---|---|---|
| `PriorityQueue` | `insertByPriority()`, `priorityWeight()` and removal, which the scheduler and the coordinator each have a copy of | |
| `TaskLifecycle` | what `ITaskScheduler` promises, without queue, timers and records | abstract specification |
| `TaskScheduler` | `taskScheduler.ts` | EXTENDS `PriorityQueue`, implements `TaskLifecycle` |
| `AgentCoordinator` | coordinator and dispatcher, composed | EXTENDS `PriorityQueue` |
| `WorkflowEngine` | `workflowEngine.ts` | |
| `ProviderManager` | registry, limiter, cache, retry policy and manager of providers | |
| `TaskExecution` | the execution engine on top of the providers, composed | EXTENDS `ProviderManager` |
| `RuntimeConnection` | the connection of the workbench to the runtime, with the sync of providers on top | |
| `OperationOutbox` | what the offline manager amounts to: a durable outbox, and what a restart may do to it | abstract specification |
| `OfflineQueue` | the queue of `offlineManager.ts` with storage, syncs and restarts | implements `OperationOutbox` |
| `WorkflowRun` | runner and executor of the runtime's workflows | |
| `ProjectState` | `project_state.py` | |
| `MC...` | instances for TLC, where constants are functions or symbols with structure | |
| `PriorityQueueProofs`, `TaskSchedulerProofs`, `AgentCoordinatorProofs`, `WorkflowEngineProofs`, `TaskExecutionProofs`, `RuntimeConnectionProofs`, `OfflineQueueProofs` | theorems about the module each extends | |
| `PythonRuntimeProofs` | theorems about `WorkflowRun` and `ProjectState` | EXTENDS both |

A definition whose name is that of a modelled one followed by `_` and a word, and whose comment says
*mutant*, is no part of a model. It is what the code might be if it had a plausible bug;
`PROJECT.json` ("mutants") names for each property a mutant that makes its run fail.

### What is one step

An action is what a callback or coroutine does from one await to the next, every call it makes
included. Where the code awaits somebody else, the action that resumes it is enabled when the
somebody has answered: for the agent, any time and with any result.

### TaskScheduler

A task id is `<<client, n>>`: `n = 0` is what a client submitted, `n > 0` the id `retry()` makes up.
`queue` is `pendingQueue`, `running` the keys of `runningMap`, `terminal` is `terminalMap`, `state`
and `retryCount` the fields of `IScheduledTask`; `outcome` is what the promise of `submit()` got,
`shown` what the state service shows. `calls` are the executions that have not returned, which after a
timeout are more than `running`; `attempts` counts them. Time is one fact per queued task: whether its
`notBefore` lies ahead (`waiting`). `Drain` is a whole tick: the loop of `drain()` with the
synchronous part of each dispatch, stated as the set of queue positions it takes (`IsDrained`).

### AgentCoordinator

`slots`, `pending` and `controllers` are `slots`, `pendingQueue` and `cancellationMap`. An execution is a
call of `executeAgent()` that reaches the dispatcher; `runs` says of which request it is and whether it is
in the dispatcher or between the dispatcher's answer and the coordinator going on. A request in `Direct`
is its maker's, who may hand it to `executeAgent()` again at any time: the task scheduler does so at every
retry, also while the runtime still works on an execution that timed out. The code guards nothing here,
so the model lets executions of one request overlap, and the properties say what holds then: the map of
controllers and the published task are keyed by the request, so that the first execution to return deletes
the controller of the other (`overlapped` is the history of it). The other requests are made by
`queueAgent()`, under an id of their own; `stage` says where they are. `work` are the executions the runtime
works on, which a timeout does not end. The calls that await in the middle, `unregisterAgent()` and `restartAgent()`, are two actions each, joined
by `suspended`.

### WorkflowEngine

`executeNode()` is a recursive asynchronous function. Its calls under way are activations, keyed by
the path of calls that led there (`calls`); a call whose caller was rejected meanwhile goes on and
tells nobody (`Awaited`). An async function runs at once, up to its first await, and what it calls there
does too, before the next call beside it begins: a branch of noops is walked to the join and beyond before
`Promise.all()` has called the next branch. The model has this stack. `Call` notes calls to be made; `Enter`, the
check of the cancellation flag and the node set to running, takes the deepest of them (`Turn`), and `Begin`
goes on with it up to its await; only when the stack is empty (`Unwound`) do awaited promises go on. The order
of calls beside each other is left open, where the code has that of the lists of edges and branches.
`Complete`, `Fail` and `Settle` are the ends. Microtasks
come before timers and answers: agents answer, delays end and clients act when no activation can go
on (`Quiet`). Conditions are nondeterministic, and of the variables only the set of outputs is kept.

Of a graph the model assumes that it is typed (`WorkflowAssumption`) and names its own nodes only
(`GraphAssumption`): the engine looks nodes up in the graph of the execution. Edges and branches are sets
here, so a graph lists none twice; the engine would call a node listed twice two times. `ConvergesOnce`,
`NothingLeftBehind` and
`OutcomeHonest` hold in graphs whose boxes are `Nested`: a node is in one parallel, conditional, loop or
retry node at most, and edges lead only to nodes that are in none. `registerGraph()` does not ask for it,
and it matters: with an edge from the entry to a node that a retry contains as well, the node runs twice
side by side, and a workflow fails without a node that is shown as failed; and with a noop that is in two boxes,
one of them its own successor, its other successors start twice: the box completes the noop again before they
are entered.
Neither property counts what is `GivenUp`: an activation below an attempt that a retry node no longer awaits,
at any depth.

### ProviderManager and TaskExecution

A provider's record carries its health, failures and limiter, and a name that is registered again
gets a new record; calls under way keep the records they captured (`Record`, `generation`). `call[r]`
is a `ProviderManager.execute()`: the candidates left, the attempts made of the first. `CandidateRecords` is `_candidate_records()`, whose stable
sort is stated by what it yields (`Ranked`): the same records, in the order of rank and place. `Walk` is the
loop over the candidates up to the next await. `stage[r]` is the await at which `execute()` of the
engine is suspended. Planning may come to an agent that is registered, to one that is missing, for which
providers are called (`PlannedFallback`), to none (`PlannedProvider`) or to a refusal (in `BeginAttempt`);
the last two only fail the attempt. A timeout ends planning and agent (`TimeoutEnds`), but is one more
exception of a provider that is being called (`TimeoutInCall`), and may be ignored by an agent that
awaits a provider (`TimeoutIgnored`), as the `chat-assistant` of the API does.

### RuntimeConnection

`connect()` does not wait for an attempt under way, so attempts overlap. A link is an attempt with the
socket it opens (`link`); `socket` is `this.socket`, `timer` says whether `retryTimer` is set. `Closed` is
`this.socket?.close()`: it makes a socket that is not open yet report an error, to the attempt that
waits for it, and silences one that is open, because the listener of `close` looks only at the socket the
service knows. The runtime goes up and down; a link or a fetch that lived while it was down may fail later
(`spoiled`). `syncing` is the flag of `ProviderModelSyncService` and the fetch it stands for.

### OfflineQueue

Operations are numbered as they are accepted. `queuedOperations` and `stored` are the queue in memory and
under `offline.queue`; `toProcess[s]` is what the call `s` of `forceSync()` has left of its batch, `direct`
holds operations accepted online. `forceSync()` is cut at each `executeOperation()`: `TakeQueue` is its
beginning, `Executes` goes on after one, and the last saves. `Restart` may happen between any two steps and
stands for an orderly end and a crash alike. Writes to the storage service are taken to be durable at
once. `executeOperation()` is a delay and cannot fail, so the branch that queues an operation again, and
`MAX_RETRIES`, are unreachable; they are left out.

### WorkflowRun

`states` are the `WorkflowExecutionState` objects there have been, the last is the runner's; a call holds
the index of its own (`calls[c].own`), as the executor holds the reference. `calls` are the locals of `run()`
and `execute_step()`, `work` says at which await the execution of each node is, `attempts` counts. A layer is
computed from what was visited before (`NextLayer`), which is what `topological_layers()` returns. Actions run
from await to await; `gather(return_exceptions=True)` is `Gathered`. A layer that failed has recorded the
values that come before the exception in its order, which is left open (`LayerFails`); it records nodes that
are done a second time, which shows when a restore erased them in between. `Order` are the calls of
`pause()`, `resume()`, `cancel()`, `rollback()` and `deserialise_state()`, which restoring a checkpoint is.

### ProjectState

Each operation holds the lock and is one action. A caller that wants to write what it has read has a
snapshot and passes its version, its revision, both or none (`Guard`); `Passes` is
`_ensure_no_conflict()`, and notes in `lost` the guards that let a write pass over a content that is not the
snapshot's. `uuid4()` is a counter. The names of the specification begin with `State` (`StateInit`, `StateSpec`),
because `PythonRuntimeProofs` has `WorkflowRun` beside it.

## 3. The runs

Deadlock is not checked in any run: clients may stop calling, and the systems then rest.

| Run | Instance | Shows |
|---|---|---|
| `task_scheduler` | three tasks of two priorities; `b` outranks `a` and depends on it; `c` is delayed, has no timeout and no retries; limits 1 and 2; one manual retry per task | `OnePlace`, `NoOverlappingExecution`, `DependenciesCompleted`, `RetryBudget`, `RecordsAgree`, `NoPriorityInversion`, `ImplementsLifecycle`, `TimedTasksSettle` |
| `agent_coordinator` | two queued requests and one executed at will for two agents, the latter timed; two executions; two suspended calls; dispatcher wired at any time | slots, controllers, queue and published states agree (`ControllersMatch`, `RunningSlotIsLive`, `QueuedOnce`, `ShownAsAnswered`), also when a request is executed again during an execution; what restarts put back is handed over once (`HandedOverOnce`) |
| `workflow_engine` | two graphs, 18 nodes: a fork whose branches are an agent, a noop and an embedded workflow, a loop over a conditional parallel node as their join; two noops after the fork that meet in a third at one stroke; in the embedded workflow a loop over a retry of a parallel node one of whose branches has a successor | joins wait and run once (`InputsReady`, `ConvergesOnce`), outcomes are true (`OutcomeHonest`), what Promise.all() gave up is accounted for (`NothingLeftBehind`); `WorkflowsEnd` |
| `task_execution` | two timed requests with one cache key and two attempts each: the agent of one is missing, the other is planned in every way; two providers; one change of registry, health, limiter or cache at any time | `GenuineResult`, `OutcomeHonest`, `RequestsEnd`; `FallbackExhaustive`, of calls whose errors are all transient |
| `runtime_connection` | three calls of `connect()`, three links; the runtime goes up and down at will | `NeverGivesUp`, `RetriesDoNotMultiply`, `OneSocketListens`, `Reconnects`, `ProvidersSynced` |
| `offline_queue` | four operations, a queue of two, two syncs at a time, two restarts | `OnePlace`, `QueueBounded`, `OldestFirst`, `ImplementsOutbox`, `SyncsDrain` |
| `workflow_run` | a fork, one branch with a condition, and a join; two calls, of `run()` or of `execute_step()` of a node with a condition or without; two attempts; two orders, one of which may load a saved state | `InputsComplete`, `EndedIsQuiet`, `OutcomeHonest`, `UndoneIsInert`, `CallsEnd` |
| `project_state` | one key with two values or none, a clone, two snapshots, four revisions | `RevisionIdentifies`, `NothingOverwritten` |
| `task_cancel_retried`, `workflow_failure`, `task_timeout`, `project_state_version` | as above; `workflow_failure` on a retry of a chain of two agents | violations, see section 5 |

### Bounds, and why they are enough

- `task_scheduler`: the hazards need a blocked head of the queue (`b`), two equals (`a` and `c`), a
  limit that is lowered (to 1, from the arguments 0 and 2, so that the clamp is exercised too), two
  retries in a row (`a`) and a dependency that is retried by hand (`MaxManual = 1`). Three tasks do
  it; the theorems of section 4 lift the bounds from all safety properties.
- `agent_coordinator`: two executions overlap, of one request, of two requests of one agent or of two
  agents, or follow each other as a retry does; every property relates two at most. Two
  suspended calls interleave every pair of unregister and restart, of one agent or of two.
- `workflow_engine`: every kind of node occurs, every limit is 2, so that a loop goes round again and
  a retry is repeated with the branch it gave up still running, and left behind by the next round of the
  loop around it. A noop branch reaches the join at one stroke, and two noops called together share a successor, which one
  of them calls before the other has begun. The graphs are nested, which TLC checks (`NestedGraphs`); the theorems lift the graph. A graph is executed once in a
  behaviour (`BeginSubWorkflow`, `ExecuteWorkflow`): executions share nothing but the registry.
- `task_execution`: two requests share the cache and the limiters. `RetryAttempts = 2` (3 in the
  code) is a first and a last attempt; `Capacity = 2` (10 in the code) lets a limiter run dry;
  `MaxChanges = 1` lets the registry, a probe, a limiter or the cache change once at any point;
  `MaxRegistrations = 2` allows a name to get a new record. The average latency that ranks providers
  is never recorded by `execute()`, and is left out as the constant 0 it is.
- `runtime_connection`: three attempts overlap in every way that two can, with a third that closes the
  socket of a retry. By `RetriesDoNotMultiply` no more than three links are in use, so `Link` is no bound.
- `offline_queue`: a full queue of two loses one to a third operation, a fourth arrives during a sync; two
  syncs overlap in every way, and a restart may meet what an earlier restart took up. The theorems lift all
  bounds from the safety properties and the refinement.
- `workflow_run`: two runs, a run and a step, or two steps overlap; a layer has a node that may be skipped
  and one that cannot, and may fail in one, both or none; two orders are enough for a cancel or a
  rollback to be followed by a resume, a restore or another rollback.
- `project_state`: a version comes back after a write, a restore and a write, which needs two revisions;
  a clone and its original go separate ways with three.

### Fairness

- `TaskScheduler` (`Timers`): the drain interval fires, time passes a `notBefore`, and a timeout
  fires. The scheduler sets these timers itself. Agents need not answer, clients need do nothing:
  `TimedTasksSettle` holds because each start of a timed task is ended by the timeout. It assumes that
  the scheduler is not paused or disposed for good, and that no untimed task holds the slots for good,
  which the code cannot prevent. A behaviour submits finitely many tasks, so that tasks of higher priority
  that never cease, which would starve one of lower priority, are outside of it.
- `WorkflowEngine` (`Progress`): promises go on, delays end, agents answer or time out (a node
  without a timeout of its own gets `defaultTimeoutMs`, which the designer, the only caller, sets to 300 s). One weak fairness suffices, since every walk is finite.
- `TaskExecution` (`Progress(r)` for each request): agents, providers and listeners come to an end one
  way or another, and the event loop resumes who awaits them. Timers are not needed for `RequestsEnd`.
- `RuntimeConnection`: `checkHealth()` gives up after 3 s, a handshake succeeds or fails (the browser gives
  up at last), the retry timer and the sync interval fire, a fetch ends. `Reconnects` assumes further that
  from some time on no attempt begins during another (`DelaysOutlastAttempts`): delays are 2 s and double
  up to 30 s. Without it there is a counterexample in which each attempt closes the socket of the one
  before and is closed by the next.
- `OfflineQueue` (`Timers`): the interval of 30 s fires while it is set, and a delay of `executeOperation()`
  ends. `SyncsDrain` assumes that the workbench stays online and the interval set from some time on.
- `WorkflowRun`: the conditions and actions of the nodes of each call come to an end one way or another, and
  the event loop resumes who awaits them; nobody need give an order. Attempts are bounded, so this suffices.
- `ProjectState` has no liveness property: no operation waits for another.
- `AgentCoordinator` has no liveness property: what `setDispatcher()` finds in the queue stays there
  until further requests come, and an untimed execution may never return.

## 4. The proofs

TLAPS checks these for every value of the constants that satisfies the assumptions of the modules
(`SchedulerAssumption`, `CoordinatorAssumption`, `ProviderAssumption`, `EngineAssumption`,
`ConnectionAssumption`, `OfflineAssumption`, `WorkflowAssumption`, `StateAssumption`, and a `GraphAssumption` of
`WorkflowEngine` and of `WorkflowRun`: finite sets of clients and of links, positive limits, well-typed tables,
graphs that name their own nodes, and for the workflows of the runtime a graph without a cycle, as
`validate()` demands). Each proof module shows with `Init => IInv` and `IInv /\ [Next]_vars => IInv'` that its `IInv` is
an invariant, and derives the properties from it. Every module's `TypeOK` is a theorem (`TypeCorrect`; `StateTypeCorrect` for `ProjectState`), and so
is every invariant and every action property that a passing run checks.

**`PriorityQueueProofs`.** Insertion keeps a queue sorted (`InsertByPrioritySorted`), adds one entry
and keeps the order of the others; removal keeps what was not taken, in order (`WithoutEntries`).

**`TaskSchedulerProofs`.** The invariants `TypeOK`, `OnePlace`, `QueueSorted`,
`NoOverlappingExecution`, `DependenciesCompleted`, `RetryBudget` and `RecordsAgree`, the action
properties `SettledOnce`, `ConcurrencyRespected`, `NoPriorityInversion` and `NoOvertaking`, and the
refinement. The inductive invariant is

    IInv == TypeOK /\ QInv /\ NoOverlappingExecution

where `QInv` joins what is not inductive alone. `RetryBudget` bounds the executions of a task, but
the code tests `retryCount`, which is advanced at another place than an execution is counted:
`AttemptsCounted` says how the two are related in each place a task can be. That needs `OnePlace`, and
`NoOverlappingExecution` needs to know that a timeout settles for good. `TypeStep` and `QInvStep` have
one step per action; the lemmas `EntersStep`, `LeavesStep`, `ReturnsStep`, `StartsStep` treat
the four ways in which a task changes its place, which several actions share.

`NoOvertaking` needs that insertion puts an entry behind its equals (`InsertByPriorityFifo`) and that the
entry a tick takes is the first that is eligible. `Implements`: the scheduler implements `TaskLifecycle`, with a tick of
the timer mapped to the start of a set of tasks and pause, resume, delays and late answers to
stutters. The mapping takes `limit` to itself and the phase of a task from its place; that the phases
exclude each other is `OnePlace`, that a start is within budget and after the dependencies is `IInv`.

**`AgentCoordinatorProofs`.** `ControllersMatch`, `RunningSlotIsLive`, `QueuedOnce`, `ShownAsAnswered` and
`HandedOverOnce`, for any agents, requests, executions and suspended calls. Slots, controllers and published
state are tied to the live executions of a request, of which there is one at most until it is executed again
during an execution (`AloneUnlessOverlapped`); the queue and what comes from it are tied to the stage of the
request. `KeptOnce` is what the second half of
`restartAgent()` needs: the request it puts back was dropped and is kept by no other call, so that it is
neither queued nor executed twice. `SlotsOK` is `RunningSlotIsLive` of a table of slots, which lemmas
about `transitionSlot()` then treat once for all callers.

**`WorkflowEngineProofs`.** `InputsReady`, `ConvergesOnce`, `NothingLeftBehind` and `OutcomeHonest`, for any graphs,
the last three for nested ones. The argument is about the tree of activations, of which a step changes one
and what it called: every invariant is carried over a few kinds of steps (`StepCases`, `TreeStep`).

- `TreeInv`: paths begin at an entry that was executed and lead over boxes and edges of one graph (`Rooted`),
  rounds only grow (`Fresh`), and what is awaited was called for it (`CalledFor`).
- `StartInv`: a completed node has its output, a node reached over edges is pending until it starts, and when it
  is called its inputs are there (`CalledReady`), although the records above it may be reset.
- `QuietInv`: a caller goes on only when what it awaits has settled, unless it has thrown (`Linked`); so who is
  active and not given up by a retry hangs on a chain of calls that await it, up to the root, and when the root
  is gone the workflow failed (`RootLost`). That is `CompletedIsQuiet`, and `RunningIsActive` is kept beside it.
- `PlaceInv`: between the call of a node and its entry its record is still pending, so the record alone does not
  keep it from being called again. What does is the stack: whatever is called meanwhile is called below the
  top of it (`Stack`), outside of a part of the graph that was walked before, holds all predecessors of the
  node, and that no way leads into (`Apart`, `CalledApart`). So nothing completes a predecessor again before the
  node is entered, and it starts once (`ConvergesOnce`).
  A node reached over edges stands at one place of the tree (`ChainedOnce`), and one round at a time
  goes on under a call (`SameRound`). When two activations of one node were at different places, their callers
  would differ too, and being nested, be activations of one node again: the shortest such pair has no callers
  (`OnePlace`, a descent that uses the least element of a set of lengths). That is `OverlapIsRetry`.
- `OutcomeInv`: a request to cancel keeps its flag while the workflow runs (`Flagged`), an entry that has
  returned is completed (`EntryDone`), and an error that arrives at a node in no box is that of a node in no
  box, which nothing repeats (`Culprit`). An error inside a box may be retried away.

An earlier `OverlapIsRetry`, which looked at the innermost retry only, was not inductive and turned out to be
false: with a loop around the retry TLC finds the attempt of an earlier round beside that of a later one. The run's
graph has that loop since.

**`TaskExecutionProofs`.** `GenuineResult`, `OutcomeHonest`, `FallbackExhaustive` and `CancelStopsNewWork`, for any number of
requests, attempts, candidates and retries, all but `FallbackExhaustive` from

    IInv == Shape /\ EngineInv /\ GenuineResult /\ CacheGenuine

`Shape` is the part of the type invariant the argument needs. `CacheGenuine` is why a cached answer is
genuine: what is kept as an answer under a key was answered to a request with that key.
`EngineInv` relates stage, attempts and status in the middle of an execution, where `OutcomeHonest` speaks
mostly of its end.

`FallbackExhaustive` is about the candidates: a name stands once in the dictionary (`RegistryInv`), so preferring
a provider and sorting lose and add nothing (`PreferFirstFacts`, `RankedFacts`) and every registered record is a
candidate (`CandidatesFacts`). From there on what a call has not asked is among the candidates behind the one
it is at (`Pending`), because `Walk` asks or marks all it goes past (`WalkAsks`), whatever is registered,
removed or drained meanwhile. That a sorted order exists is an induction over the number of records
(`OrderExists`), made with sets of naturals (`InductionOnNat`).

**`RuntimeConnectionProofs`.** `OneSocketListens`, `NeverGivesUp`, `ConnectedIsOpen` and
`RetriesDoNotMultiply`, for any number of calls of `connect()`. What makes them inductive is
`SocketKnown`: a socket that opens or is open is the one the service knows. So an attempt that comes to
its end is connected by the socket whose drop will be seen, and a drop that is not reported happens in a
state in which `NeverGivesUp` holds for another reason. `RetriesDoNotMultiply` counts the links that are
not free (`LiveSets`).

**`OfflineQueueProofs`.** `OnePlace`, `QueueBounded`, `OldestFirst`, `StoredIsQueue` and `ImplementsOutbox`. The
argument is about order. The queue, what is stored and every batch ascend (`Ascending`), so that an
operation is in each at most once; what a sync has taken was accepted before what is queued
(`TakenFirst`), so that what a sync alone executes is the oldest; and what is stored is the queue unless a
sync is under way (`Saved`), which says what a restart finds. In the refinement a restart is the hard step:
it maps what was stored during a sync to operations that wait again or were executed, which is what
`OperationOutbox` allows only then.

**`PythonRuntimeProofs`**, workflows. `InputsComplete`, `EndedIsQuiet`, `OutcomeHonest` and `UndoneIsInert`, for any acyclic
graph and any number of calls and orders. `Shape(c)` says of one call that its locals and the places of its
nodes agree from the first await to the last. It does not mention the status of the shared state: that is
why what other calls write there cannot blur an outcome. A call that a `rollback()` found under way holds a
state that is not the last, so that what it writes goes elsewhere.

**`PythonRuntimeProofs`**, state. `RevisionIdentifies` and `NothingOverwritten`: all copies of one revision, live,
cloned or kept, were made by one write, because a revision that is to be made has none (`Issued`).

**Only model-checked.** Liveness (`TimedTasksSettle`, `WorkflowsEnd`, `RequestsEnd`, `Reconnects`,
`ProvidersSynced`, `SyncsDrain`, `CallsEnd`): they rest on fairness and ENABLED, which TLAPS does not reach. The
counterexamples of section 5 are TLC's, too.

**Only proved.** `QueueSorted`, `SettledOnce`, `NoOvertaking` and `ConcurrencyRespected` of the scheduler,
`CancelStopsNewWork` of the engine, `ConnectedIsOpen` of the connection, `StoredIsQueue` of the offline queue
and the type invariants but that of `WorkflowEngine` are theorems and no properties of a run. `SettledOnce` and `ConcurrencyRespected` are
implied by `ImplementsLifecycle`, which `task_scheduler` checks.

## 5. Where the code and its documentation disagree

Each of these is a run TLC ends with a counterexample, and a finding of `PROJECT.json` that quotes the
line the code does not keep to.

| Run | Said | Done |
|---|---|---|
| `task_cancel_retried` | cancelling a running task aborts its execution | when the execution fails, the task is queued again |
| `workflow_failure` | "on any unrecovered failure publish WorkflowFailed" | a retry whose target's successor fails completes, the successor failed and skipped |
| `task_timeout` | `TaskTimeoutError` is raised when a task exceeds its timeout | a timeout during a provider call is taken for a failure of the provider, and the next one is asked |
| `project_state_version` | a stale version is detected | `restore()` brings a version number back; a write guarded by it passes over content its writer never saw |

Further observations, made while modelling, that no run is spent on:

- Scheduler: `retry()` submits a definition without agent, payload, dependencies and retries, whereas
  `common/workflow/taskScheduler.ts:79-83` says the task is queued again with its original definition; after a timeout the limit counts slots, not executions, so more may be under way than
  it says; a retry that waits in the queue is still shown as running; a task whose dependency failed
  waits for ever.
- Coordinator: with two executions of one agent the slot forgets the first, which `cancelAgent()` can
  then not reach; `unregisterAgent()` leaves the execution under way; `restartAgent()` of an agent with
  an execution and no pending request queues nothing.
- Workflow engine: `finalize()` deletes the cancellation flag while branches that `Promise.all()` gave up
  still run, which then go on to their successors, although the walk is to check the flag before each node
  (`browser/workflow/workflowEngine.ts:50-51`).
- Providers: every error leads to the next provider (`provider_manager.py:414`), whereas
  `docs/architecture/04-Provider-Interfaces.md:99` has permanent errors returned at once. `RaisesOther` does what
  the code does; `FallbackExhaustive` and its theorem ask for a fallback after transient errors only, on which
  both agree: an error that is not leaves nothing `owed`. An unsuccessful response is cached, so that the attempts of the engine that follow get it
  again; two requests that miss the cache together are both executed; the limiter is asked once per
  call and not per retry.
- Connection: when `connect()` is called while an attempt is under way, the one that loses schedules a
  retry, which closes the good connection and opens another; `dispose()` during an attempt lets it go on.
  The state never becomes `Disconnected` again, so `clearSyncedData()`, "called on disconnect", never is;
  `onDidChangeAgents` is never fired.
- Offline queue: a workbench that is restarted online does not sync what it took up until a sync is
  started or the network goes and comes back; an operation accepted online overtakes what is queued; a
  window that goes away during a sync repeats the operations of the batch it has executed, and loses a batch
  when another sync saved meanwhile.
- Workflows of the runtime: a node that enters after `cancel()` sets the status back to running, so that the
  state of a cancelled run may end completed; a second `run()` clears the cancel event of the first;
  `resume()` and `cancel()` overwrite a terminal status, which
  `docs/architecture/05-Workflow-LifeCycle.md:43` calls terminal; `WorkflowManager.start()` notes `RUNNING` when
  the run has ended (`workflow_manager.py:63-69`); `pause()` pauses nothing.
- `ProjectState.get()` hands out the stored object itself, which its caller can change without the lock.
- Kernel: scheduled tasks never run again once the scheduler service was stopped and started
  (`scheduler.py:71-83`).
- Engine: a request that is planned without an agent cannot be executed: `_execute_request()` names
  `ProviderCapability` (`task_execution_engine.py:343`), which its module does not import, and the `NameError`
  fails every attempt, so that nothing is ever streamed. The default planner always names an agent, so only
  a planner or a selector of one's own leads there;
  the store shows `FAILED` during a retry and its delay; the cancel event is looked at between
  stages only; the `chat-assistant` returns the text of a response that is not successful; the model a
  request asks for is dropped when its agent is missing.

## 6. What is not modelled

Of the modelled components: payloads, wording, telemetry, events that repeat what the state service
shows. `ProviderManager` is modelled in part: the default provider, `find_by_type()`, `clear()`, sessions
and providers that lack a capability are left out, and so is `stream()`, which the engine never reaches. The event bus hands on the exceptions of listeners; the models take listeners not to raise.

Of `OfflineManager` the workspace caches and conflicts are left out, which no other state depends on, and
windows that are open together: the queue is stored with the scope of the application
(`offlineManager.ts:373`), so they share the key and write over each other; the model has one window after another. Of
the runtime's workflows `WorkflowManager` is left out, a registry that hands calls on and notes a status of
its own, as are the builder, the serializers and the history, and the event bus, which no caller passes.

Of the others: simulations (`RemoteAgentManager`, `DistributedRuntimeManager`, the agent services), whose
protocols have one side; the `ProviderManager` of the workbench and the scheduler service of the runtime,
with which nothing registers a provider or schedules a task; registries and records of which one user
edits one entry at a time; text processing; user interface; the vendored editor, which is almost all of the
repository's lines. `PROJECT.json` has them one by one.

## 7. What may come next

- A composition of `TaskScheduler` with `AgentCoordinator` would check that cancelling a task reaches its
  execution; the observations above say it does not in general.
- An abstract specification of what `ProviderManager.execute()` promises, which `TaskExecution` would implement.
- The providers of the workbench and the scheduler service, once something uses them.

## 8. Running it

`tlc -config TaskScheduler.cfg MCTaskScheduler` and likewise for the other configurations, each with
the MC module its run in `PROJECT.json` names; `tlapm TaskSchedulerProofs.tla` and likewise for the
other proof modules. A run takes at most a few minutes, all proofs together as well.
