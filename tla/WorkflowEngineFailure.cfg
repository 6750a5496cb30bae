SPECIFICATION Spec
CONSTANTS
  Workflow = {"chain"}
  Node <- ChainNodes
  WorkflowOf <- ChainWorkflowOf
  Entry <- ChainEntry
  Kind <- ChainKind
  Inner <- ChainInner
  Edge <- ChainEdge
  Limit <- ChainLimit
  Sub <- ChainSub
INVARIANT CompletedHasNoFailure
CHECK_DEADLOCK FALSE
