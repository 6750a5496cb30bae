--------------------------- MODULE OperationOutbox ---------------------------
(***************************************************************************)
(* What IOfflineManager (common/ops/offlineManager.ts) amounts to for the  *)
(* one who hands it operations: a durable outbox.  An operation is         *)
(* identified by the position in which it was accepted.  Stated without    *)
(* queue, storage, timers and syncs, it says what a restart may do to an   *)
(* operation: one that waits still waits, one under way is lost or waits   *)
(* again, one that was executed waits again only when a sync was cut off,  *)
(* and one that was discarded never comes back.                            *)
(***************************************************************************)
EXTENDS Naturals

CONSTANT MaxOps   \* bound: operations accepted in a behaviour

VARIABLE status   \* operation -> where it is, see Status

Op == 1 .. MaxOps
Status == {"new", "waiting", "syncing", "sending", "done", "gone"}
In(s) == {op \in Op : status[op] = s}
Moves(ops, s) == status' = [op \in Op |-> IF op \in ops THEN s ELSE status[op]]

Init == status = [op \in Op |-> "new"]

(* Accepted offline: it waits.  A full outbox gives up what waited longest. *)
Accept(op) ==
  /\ status[op] = "new"
  /\ \A other \in In("new") : op <= other
  /\ \/ status' = [status EXCEPT ![op] = "waiting"]
     \/ \E oldest \in In("waiting") :
          /\ \A other \in In("waiting") : oldest <= other
          /\ status' = [status EXCEPT ![op] = "waiting", ![oldest] = "gone"]

(* Accepted online: it is sent at once. *)
Send(op) ==
  /\ status[op] = "new"
  /\ \A other \in In("new") : op <= other
  /\ Moves({op}, "sending")

(* A sync takes all that waits. *)
StartSync == In("waiting") # {} /\ Moves(In("waiting"), "syncing")

Finish(op) == status[op] \in {"syncing", "sending"} /\ Moves({op}, "done")

Discard(ops) == ops # {} /\ ops \subseteq In("waiting") /\ Moves(ops, "gone")

AfterRestart(op) ==
  CASE status[op] = "syncing" -> {"waiting", "gone"}
    [] status[op] = "sending" -> {"gone"}
    [] status[op] = "done" -> {"done"} \cup {s \in {"waiting"} : In("syncing") # {}}
    [] OTHER -> {status[op]}

Restart ==
  /\ status' \in [Op -> Status]
  /\ \A op \in Op : status'[op] \in AfterRestart(op)

Next ==
  \/ \E op \in Op : Accept(op) \/ Send(op) \/ Finish(op)
  \/ StartSync
  \/ \E ops \in SUBSET Op : Discard(ops)
  \/ Restart

Spec == Init /\ [][Next]_status
==============================================================================
