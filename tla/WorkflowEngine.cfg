SPECIFICATION FairSpec
CONSTANTS
  Workflow = {"outer", "inner"}
  Node <- ForkNodes
  WorkflowOf <- ForkWorkflowOf
  Entry <- ForkEntry
  Kind <- ForkKind
  Inner <- ForkInner
  Edge <- ForkEdge
  Limit <- ForkLimit
  Sub <- ForkSub
INVARIANTS
  TypeOK InputsReady ConvergesOnce OutcomeHonest NothingLeftBehind
PROPERTIES
  WorkflowsEnd
CHECK_DEADLOCK FALSE
