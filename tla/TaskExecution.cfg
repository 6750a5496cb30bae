SPECIFICATION FairSpec
CONSTANTS
  Provider = {"a", "b"}
  Registered <- MCRegistered
  MaxRegistrations = 2
  MaxChanges = 1
  Request = {"chat", "task"}
  NoProvider = "none"
  Prefers <- MCPrefers
  NoKey = "no key"
  KeyOf <- MCKeyOf
  RetryAttempts = 2
  Capacity = 2
  MaxAttempts <- MCMaxAttempts
  Timed = {"chat", "task"}
  AgentPlan <- MCAgentPlan
INVARIANTS
  GenuineResult OutcomeHonest FallbackExhaustive
PROPERTIES
  RequestsEnd
CHECK_DEADLOCK FALSE
