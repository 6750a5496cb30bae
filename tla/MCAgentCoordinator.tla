-------------------------- MODULE MCAgentCoordinator --------------------------
(***************************************************************************)
(* Instances of AgentCoordinator for TLC: a request that is handed over    *)
(* again and again, a queued one of the same agent, so that executions     *)
(* overlap, and one of another agent, of a higher priority.                *)
(***************************************************************************)
EXTENDS AgentCoordinator

MCAgentOf == [r \in Request |-> IF r = "r3" THEN "b" ELSE "a"]
MCWeight == [r \in Request |-> IF r = "r3" THEN PriorityWeight.high
                               ELSE PriorityWeight.normal]

(* Which execution is which does not matter, nor which suspended call. *)
Interchangeable == Permutations(Execution) \cup Permutations(Call)
==============================================================================
