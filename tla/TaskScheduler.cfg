SPECIFICATION FairSpec
CONSTANTS
  Client = {"a", "b", "c"}
  Agent = {"coder"}
  NoAgent = "no agent"
  Definition <- MCDefinition
  MaxManual = 1
  DefaultLimit = 2
  Limits = {0, 2}
INVARIANTS
  OnePlace NoOverlappingExecution DependenciesCompleted
  RetryBudget RecordsAgree
PROPERTIES
  NoPriorityInversion ImplementsLifecycle TimedTasksSettle
CHECK_DEADLOCK FALSE
