--------------------------- MODULE MCWorkflowEngine ---------------------------
(***************************************************************************)
(* Graphs for WorkflowEngine: a fork whose branches are an agent, a noop   *)
(* and an embedded workflow, joined by a loop over a conditional parallel  *)
(* node, and followed by two noops that meet in a third at one stroke; the *)
(* embedded workflow loops over the retry of a parallel node one of whose  *)
(* branches has a successor; and a retry of a chain of two agents.         *)
(***************************************************************************)
EXTENDS WorkflowEngine

OneOf(n, f) == IF n \in DOMAIN f THEN f[n] ELSE {}

ForkNodes == {"fork", "a", "mark", "embed", "join", "choice", "both", "x", "y",
              "left", "right", "done", "rounds", "retry", "pair", "t", "v", "u"}
ForkWorkflowOf ==
  [n \in ForkNodes |-> IF n \in {"rounds", "retry", "pair", "t", "v", "u"} THEN "inner" ELSE "outer"]
ForkEntry == [w \in {"outer", "inner"} |-> IF w = "outer" THEN "fork" ELSE "rounds"]
ForkKind == [n \in ForkNodes |->
  CASE n \in {"fork", "pair", "both"} -> "parallel"
    [] n = "embed" -> "subWorkflow"
    [] n \in {"join", "rounds"} -> "loop"
    [] n = "choice" -> "conditional"
    [] n \in {"mark", "left", "right", "done"} -> "noop"
    [] n = "retry" -> "retry"
    [] OTHER -> "agent"]
ForkInner == [n \in ForkNodes |-> OneOf(n,
  [fork |-> {"a", "mark", "embed"}, join |-> {"choice"}, choice |-> {"both"},
   both |-> {"x", "y"}, rounds |-> {"retry"}, retry |-> {"pair"}, pair |-> {"t", "v"}])]
ForkEdge == {<<"a", "join">>, <<"mark", "join">>, <<"embed", "join">>, <<"t", "u">>,
             <<"fork", "left">>, <<"fork", "right">>, <<"left", "done">>, <<"right", "done">>}
ForkLimit == [n \in ForkNodes |-> 2]
ForkSub == [n \in {"embed"} |-> "inner"]

ChainNodes == {"retry", "t", "u"}
ChainWorkflowOf == [n \in ChainNodes |-> "chain"]
ChainEntry == [w \in {"chain"} |-> "retry"]
ChainKind == [n \in ChainNodes |-> IF n = "retry" THEN "retry" ELSE "agent"]
ChainInner == [n \in ChainNodes |-> OneOf(n, [retry |-> {"t"}])]
ChainEdge == {<<"t", "u">>}
ChainLimit == [n \in ChainNodes |-> 2]
ChainSub == << >>

\* The graphs checked are boxes in boxes, as the theorems about nesting ask.
ASSUME NestedGraphs == Nested
==============================================================================
