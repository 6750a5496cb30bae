SPECIFICATION Spec
CONSTANTS
  Provider = {"a", "b"}
  Registered <- MCRegistered
  MaxRegistrations = 2
  MaxChanges = 1
  Request = {"chat", "task"}
  NoProvider = "none"
  Prefers <- MCPrefers
  NoKey = "no key"
  KeyOf <- MCKeyOf
  RetryAttempts = 2
  Capacity = 2
  MaxAttempts <- MCMaxAttempts
  Timed = {"chat"}
  AgentPlan <- MCAgentPlan
INVARIANT TimeoutIsRaised
CHECK_DEADLOCK FALSE
