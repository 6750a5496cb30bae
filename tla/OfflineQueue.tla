---------------------------- MODULE OfflineQueue ----------------------------
(***************************************************************************)
(* The OfflineManager of the workbench (browser/ops/offlineManager.ts):    *)
(* operations wait in a queue while the workbench is offline and are       *)
(* executed by syncs, which may overlap.  The queue is kept in the storage *)
(* service, from which a restart, orderly or not, takes it up.             *)
(*                                                                         *)
(* Operations are numbered in the order in which they are accepted.  What  *)
(* the storage service is given is taken to be stored, and to be read by   *)
(* one window at a time: the key has the scope of the application, so      *)
(* windows that are open together write over each other's queue, which is  *)
(* not modelled.  executeOperation() is a delay that does not fail, so     *)
(* what follows a failure is left out.                                     *)
(***************************************************************************)
EXTENDS Integers, SequencesExt

CONSTANTS
  MaxOps,          \* bound: operations accepted in a behaviour
  MAX_QUEUE_SIZE,
  Sync,            \* bound: calls of forceSync() under way
  MaxRestarts      \* bound: restarts

ASSUME OfflineAssumption ==
  /\ MaxOps \in Nat
  /\ MAX_QUEUE_SIZE \in Nat \ {0}
  /\ MaxRestarts \in Nat

VARIABLES
  isCurrentlyOnline,
  queuedOperations,
  stored,            \* 'offline.queue' of the storage service
  syncInterval,      \* whether the interval is set
  toProcess,         \* sync -> what it has left to execute; << >>: no such call
  direct,            \* operations that are executed without being queued
  accepted,          \* number of operations accepted
  executed,          \* history: operations executed and not queued again since
  restarts

vars == <<isCurrentlyOnline, queuedOperations, stored, syncInterval, toProcess,
          direct, accepted, executed, restarts>>

Op == 1 .. MaxOps
Syncing == UNION {ToSet(toProcess[s]) : s \in Sync}

Init ==
  /\ isCurrentlyOnline = TRUE
  /\ queuedOperations = << >>
  /\ stored = << >>
  /\ syncInterval = FALSE
  /\ toProcess = [s \in Sync |-> << >>]
  /\ direct = {}
  /\ accepted = 0
  /\ executed = {}
  /\ restarts = 0

------------------------------------------------------------------------------
\* Mutant: > for >=.
MakeRoom_OneMore(queue) == IF Len(queue) > MAX_QUEUE_SIZE THEN Tail(queue) ELSE queue

(* A full queue loses its oldest entry. *)
MakeRoom(queue) == IF Len(queue) >= MAX_QUEUE_SIZE THEN Tail(queue) ELSE queue

(* queueOperation *)
QueueOperation ==
  /\ accepted < MaxOps
  /\ accepted' = accepted + 1
  /\ \/ /\ ~isCurrentlyOnline
        /\ queuedOperations' = Append(MakeRoom(queuedOperations), accepted + 1)
        /\ stored' = queuedOperations'
        /\ UNCHANGED direct
     \/ /\ isCurrentlyOnline
        /\ direct' = direct \cup {accepted + 1}
        /\ UNCHANGED <<queuedOperations, stored>>
  /\ UNCHANGED <<isCurrentlyOnline, syncInterval, toProcess, executed, restarts>>

(* The delay of executeOperation() ends for an operation of queueOperation. *)
DirectExecuted(op) ==
  /\ op \in direct
  /\ direct' = direct \ {op}
  /\ executed' = executed \cup {op}
  /\ UNCHANGED <<isCurrentlyOnline, queuedOperations, stored, syncInterval, toProcess,
                 accepted, restarts>>

(* removeQueuedOperation *)
RemoveQueuedOperation ==
  /\ \E index \in DOMAIN queuedOperations :
       queuedOperations' = RemoveAt(queuedOperations, index)
  /\ stored' = queuedOperations'
  /\ UNCHANGED <<isCurrentlyOnline, syncInterval, toProcess, direct, accepted, executed,
                 restarts>>

(* clearQueuedOperations *)
ClearQueuedOperations ==
  /\ queuedOperations' = << >>
  /\ stored' = << >>
  /\ UNCHANGED <<isCurrentlyOnline, syncInterval, toProcess, direct, accepted, executed,
                 restarts>>

------------------------------------------------------------------------------
\* Mutant: the queue is not emptied when it is taken.
TakeQueue_Copies(s) ==
  /\ toProcess' = [toProcess EXCEPT ![s] = queuedOperations]
  /\ UNCHANGED <<queuedOperations, stored>>

(* forceSync() up to its first await: it takes the queue, and what is     *)
(* stored stays.  With nothing to execute it comes to its end and saves.  *)
TakeQueue(s) ==
  /\ toProcess' = [toProcess EXCEPT ![s] = queuedOperations]
  /\ queuedOperations' = << >>
  /\ stored' = IF queuedOperations = << >> THEN << >> ELSE stored

(* forceSync, by a client or the interval: processSyncQueue() does what     *)
(* forceSync() does.  Nothing happens offline.                              *)
ForceSync(s) ==
  /\ isCurrentlyOnline
  /\ toProcess[s] = << >>
  /\ TakeQueue(s)
  /\ UNCHANGED <<isCurrentlyOnline, syncInterval, direct, accepted, executed, restarts>>

\* Mutant: the end of a sync is not saved.
Executes_Unsaved(s) ==
  /\ toProcess[s] # << >>
  /\ executed' = executed \cup {Head(toProcess[s])}
  /\ toProcess' = [toProcess EXCEPT ![s] = Tail(toProcess[s])]
  /\ UNCHANGED <<isCurrentlyOnline, queuedOperations, stored, syncInterval, direct, accepted,
                 restarts>>

\* Mutant: an operation that fails is queued again, however often it has failed.
Executes_Requeues(s) ==
  /\ toProcess[s] # << >>
  /\ toProcess' = [toProcess EXCEPT ![s] = Tail(toProcess[s])]
  /\ queuedOperations' = MakeRoom(queuedOperations) \o <<Head(toProcess[s])>>
  /\ stored' = IF Len(toProcess[s]) = 1 THEN queuedOperations' ELSE stored
  /\ UNCHANGED <<isCurrentlyOnline, syncInterval, direct, accepted, executed, restarts>>

\* Mutant: the newest of the batch is executed first.
Executes_Last(s) ==
  /\ toProcess[s] # << >>
  /\ executed' = executed \cup {Last(toProcess[s])}
  /\ toProcess' = [toProcess EXCEPT ![s] = Front(toProcess[s])]
  /\ stored' = IF Len(toProcess[s]) = 1 THEN queuedOperations ELSE stored
  /\ UNCHANGED <<isCurrentlyOnline, queuedOperations, syncInterval, direct, accepted, restarts>>

(* forceSync() goes on after an executeOperation(), online or not; after   *)
(* the last one it saves the queue as it is by then.                       *)
Executes(s) ==
  /\ toProcess[s] # << >>
  /\ executed' = executed \cup {Head(toProcess[s])}
  /\ toProcess' = [toProcess EXCEPT ![s] = Tail(toProcess[s])]
  /\ stored' = IF Len(toProcess[s]) = 1 THEN queuedOperations ELSE stored
  /\ UNCHANGED <<isCurrentlyOnline, queuedOperations, syncInterval, direct, accepted, restarts>>

(* startSync: the interval, if there is none, and a first forceSync().     *)
StartSync(s, online) ==
  /\ syncInterval' = TRUE
  /\ \/ /\ ~syncInterval /\ online
        /\ toProcess[s] = << >>
        /\ TakeQueue(s)
     \/ /\ syncInterval \/ ~online
        /\ UNCHANGED <<queuedOperations, stored, toProcess>>

StartSyncCalled(s) ==
  /\ StartSync(s, isCurrentlyOnline)
  /\ UNCHANGED <<isCurrentlyOnline, direct, accepted, executed, restarts>>

(* updateOnlineStatus and handleStatusChange *)
StatusChanges(s) ==
  /\ isCurrentlyOnline' = ~isCurrentlyOnline
  /\ \/ ~isCurrentlyOnline /\ StartSync(s, TRUE)
     \/ isCurrentlyOnline /\ UNCHANGED <<queuedOperations, stored, toProcess, syncInterval>>
  /\ UNCHANGED <<direct, accepted, executed, restarts>>

(* stopSync *)
StopSync ==
  /\ syncInterval' = FALSE
  /\ UNCHANGED <<isCurrentlyOnline, queuedOperations, stored, toProcess, direct, accepted,
                 executed, restarts>>

(* dispose: the listeners of the window stay, and so do syncs under way.   *)
Dispose ==
  /\ syncInterval' = FALSE
  /\ stored' = queuedOperations
  /\ UNCHANGED <<isCurrentlyOnline, queuedOperations, toProcess, direct, accepted, executed,
                 restarts>>

(* The window goes away, at any moment, and the next one is constructed:   *)
(* online, its queue the stored one (loadState), no sync.                  *)
Restart ==
  /\ restarts < MaxRestarts
  /\ restarts' = restarts + 1
  /\ isCurrentlyOnline' = TRUE
  /\ queuedOperations' = stored
  /\ syncInterval' = FALSE
  /\ toProcess' = [s \in Sync |-> << >>]
  /\ direct' = {}
  /\ executed' = executed \ ToSet(stored)
  /\ UNCHANGED <<stored, accepted>>

Next ==
  \/ QueueOperation \/ RemoveQueuedOperation \/ ClearQueuedOperations
  \/ StopSync \/ Dispose \/ Restart
  \/ \E op \in direct : DirectExecuted(op)
  \/ \E s \in Sync : ForceSync(s) \/ Executes(s) \/ StartSyncCalled(s) \/ StatusChanges(s)

Spec == Init /\ [][Next]_vars

(* The interval fires and delays end. *)
Timers ==
  /\ WF_vars(\E s \in Sync : syncInterval /\ ForceSync(s))
  /\ \A s \in Sync : WF_vars(Executes(s))

FairSpec == Spec /\ Timers

------------------------------------------------------------------------------
IsAscending(queue) == \A i, j \in DOMAIN queue : i < j => queue[i] < queue[j]

TypeOK ==
  /\ isCurrentlyOnline \in BOOLEAN
  /\ queuedOperations \in Seq(Op)
  /\ stored \in Seq(Op)
  /\ syncInterval \in BOOLEAN
  /\ toProcess \in [Sync -> Seq(Op)]
  /\ direct \subseteq Op
  /\ accepted \in 0 .. MaxOps
  /\ executed \subseteq Op
  /\ restarts \in 0 .. MaxRestarts

(* What is stored differs from the queue only while a sync that took the   *)
(* queue is under way, and then the queue is empty: whenever no sync is    *)
(* under way a crash loses nothing and repeats nothing, and never does it  *)
(* lose what is queued.  saveState() is called from six places.            *)
StoredIsQueue ==
  stored = queuedOperations \/ (queuedOperations = << >> /\ Syncing # {})

(* No operation is executed twice in the life of a window: it is in one    *)
(* place, once, through syncs that overlap, clients that remove it and     *)
(* restarts.                                                               *)
OnePlace ==
  /\ IsInjective(queuedOperations)
  /\ ToSet(queuedOperations) \cap (Syncing \cup direct \cup executed) = {}
  /\ Syncing \cap (direct \cup executed) = {}
  /\ direct \cap executed = {}
  /\ \A s \in Sync : IsInjective(toProcess[s])
  /\ \A s, t \in Sync : s # t => ToSet(toProcess[s]) \cap ToSet(toProcess[t]) = {}

(* The queue never holds more than MAX_QUEUE_SIZE operations, in memory or *)
(* in storage.                                                             *)
QueueBounded == Len(queuedOperations) <= MAX_QUEUE_SIZE /\ Len(stored) <= MAX_QUEUE_SIZE

(* An operation that was queued is overtaken by a later one only when two  *)
(* syncs are under way: a sync that has the field for itself executes what *)
(* was accepted first, after restarts and dropped entries too.             *)
OldestFirst ==
  [][\A s \in Sync :
       /\ Len(toProcess'[s]) < Len(toProcess[s])
       /\ \A t \in Sync \ {s} : toProcess[t] = << >>
       => \A op \in executed' \ executed :
            \A other \in ToSet(queuedOperations) \cup Syncing : op <= other]_vars

(* Where an operation is, as the outbox sees it. *)
Place == [op \in Op |->
  CASE op \in ToSet(queuedOperations) -> "waiting"
    [] op \in Syncing -> "syncing"
    [] op \in direct -> "sending"
    [] op \in executed -> "done"
    [] op > accepted -> "new"
    [] OTHER -> "gone"]

Outbox == INSTANCE OperationOutbox WITH status <- Place

(* The manager is a durable outbox: see OperationOutbox. *)
ImplementsOutbox == Outbox!Spec

(* When the workbench stays online and the interval stays, every operation *)
(* that waits is taken up and executed, or discarded by a client: an       *)
(* operation that arrives during a sync is not forgotten.                  *)
SyncsDrain ==
  <>[](isCurrentlyOnline /\ syncInterval)
    => <>[](queuedOperations = << >> /\ Syncing = {})

==============================================================================
