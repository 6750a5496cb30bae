---------------------------- MODULE TaskLifecycle ----------------------------
(***************************************************************************)
(* What ITaskScheduler (common/workflow/taskScheduler.ts) promises its     *)
(* clients, without queue order, timers, priorities or records: a task is  *)
(* accepted once, runs only when what it needs has completed and a slot is *)
(* free, may be given back a bounded number of times, and gets one result. *)
(***************************************************************************)
EXTENDS Naturals, FiniteSets

CONSTANTS
  Task,
  Needs,    \* task -> the tasks that must complete before it starts
  Budget,   \* task -> how often it may start
  Result,   \* what a task can end in, "completed" and "cancelled" among them
  Limit     \* the limits a client can set

VARIABLES
  phase,    \* task -> absent, queued, running or settled
  result,   \* task -> its result, "none" before it has one
  starts,   \* task -> how often it started
  limit     \* how many tasks may run at once when one is started

vars == <<phase, result, starts, limit>>

In(p) == {task \in Task : phase[task] = p}

Init ==
  /\ phase = [task \in Task |-> "absent"]
  /\ result = [task \in Task |-> "none"]
  /\ starts = [task \in Task |-> 0]
  /\ limit \in Limit

Accept(task) ==
  /\ phase[task] = "absent"
  /\ phase' = [phase EXCEPT ![task] = "queued"]
  /\ UNCHANGED <<result, starts, limit>>

Start(tasks) ==
  /\ tasks \subseteq In("queued")
  /\ Cardinality(In("running") \cup tasks) <= limit
  /\ \A task \in tasks :
       /\ starts[task] < Budget[task]
       /\ \A need \in Needs[task] : result[need] = "completed"
  /\ phase' = [task \in Task |-> IF task \in tasks THEN "running" ELSE phase[task]]
  /\ starts' = [task \in Task |-> IF task \in tasks THEN starts[task] + 1 ELSE starts[task]]
  /\ UNCHANGED <<result, limit>>

GiveBack(task) ==
  /\ phase[task] = "running"
  /\ phase' = [phase EXCEPT ![task] = "queued"]
  /\ UNCHANGED <<result, starts, limit>>

Finish(task, r) ==
  /\ \/ phase[task] = "running"
     \/ phase[task] = "queued" /\ r = "cancelled"
  /\ phase' = [phase EXCEPT ![task] = "settled"]
  /\ result' = [result EXCEPT ![task] = r]
  /\ UNCHANGED <<starts, limit>>

ChangeLimit(n) ==
  /\ limit' = n
  /\ UNCHANGED <<phase, result, starts>>

Next ==
  \/ \E task \in Task : Accept(task) \/ GiveBack(task) \/ \E r \in Result : Finish(task, r)
  \/ \E tasks \in SUBSET Task : Start(tasks)
  \/ \E n \in Limit : ChangeLimit(n)

Spec == Init /\ [][Next]_vars
==============================================================================
