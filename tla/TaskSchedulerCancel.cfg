SPECIFICATION Spec
CONSTANTS
  Client = {"a", "b", "c"}
  Agent = {"coder"}
  NoAgent = "no agent"
  Definition <- MCDefinition
  MaxManual = 1
  DefaultLimit = 2
  Limits = {0, 2}
PROPERTY CancelledIsNotRetried
CHECK_DEADLOCK FALSE
