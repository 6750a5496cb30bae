---------------------------- MODULE MCWorkflowRun ----------------------------
(***************************************************************************)
(* Instance of WorkflowRun for TLC: a fork of which one branch has a       *)
(* condition, and a join.                                                  *)
(***************************************************************************)
EXTENDS WorkflowRun

MCNode == {"left", "right", "join"}
MCDeps == [n \in MCNode |-> IF n = "join" THEN {"left", "right"} ELSE {}]
MCConditional == {"right"}
MCPayload == {[status |-> "cancelled", completed |-> {"left"}]}
==============================================================================
