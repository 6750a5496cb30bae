\* Two calls over a fork and a join, two attempts, one rollback.
SPECIFICATION FairSpec
CONSTANTS
  Node <- MCNode
  Deps <- MCDeps
  Conditional <- MCConditional
  MaxAttempts = 2
  MaxCalls = 2
  StepNode = {"right", "join"}
  Payload <- MCPayload
  MaxOrders = 2
INVARIANTS
  InputsComplete
  EndedIsQuiet
PROPERTIES
  OutcomeHonest
  UndoneIsInert
  CallsEnd
CHECK_DEADLOCK FALSE
