-------------------------- MODULE MCTaskExecution --------------------------
(* Two requests with the same cache key: a chat whose agent is not          *)
(* registered and with a preferred provider, and a task that may be planned *)
(* in every way, with two attempts each.                                    *)
EXTENDS TaskExecution

MCRegistered == <<"a", "b">>
MCPrefers == [r \in Request |-> IF r = "chat" THEN "b" ELSE NoProvider]
MCKeyOf == [r \in Request |-> "k"]
MCMaxAttempts == [r \in Request |-> 2]
MCAgentPlan == [r \in Request |->
                  IF r = "chat" THEN {"missing"}
                                ELSE {"registered", "missing", "none", "refused"}]
=============================================================================
