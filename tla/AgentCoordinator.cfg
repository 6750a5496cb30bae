SPECIFICATION Spec
CONSTANTS
  Agent = {"a", "b"}
  Request = {"r1", "r2", "r3"}
  NoRequest = "no request"
  AgentOf <- MCAgentOf
  Weight <- MCWeight
  Timed = {"r1"}
  Direct = {"r1"}
  Execution = {e1, e2}
  NoExecution = NoExecution
  Call = {c1, c2}
  InitWired = FALSE
SYMMETRY Interchangeable
INVARIANTS
  ControllersMatch RunningSlotIsLive QueuedOnce ShownAsAnswered HandedOverOnce
CHECK_DEADLOCK FALSE
