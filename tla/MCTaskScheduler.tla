--------------------------- MODULE MCTaskScheduler ---------------------------
(***************************************************************************)
(* Instances of TaskScheduler for TLC.  "b" depends on "a" and outranks    *)
(* it, so the head of the queue can be blocked; "a" and "c" share a        *)
(* priority; "c" starts delayed, has no timeout and no retries.            *)
(***************************************************************************)
EXTENDS TaskScheduler

MCDefinition ==
  [client \in Client |->
     [weight |-> IF client = "b" THEN PriorityWeight.high ELSE PriorityWeight.normal,
      agent |-> "coder",
      dependsOn |-> IF client = "b" THEN {"a"} ELSE {},
      delayed |-> client = "c",
      maxRetries |-> CASE client = "a" -> 2 [] client = "b" -> 1 [] client = "c" -> 0,
      timed |-> client # "c"]]
==============================================================================
