-------------------------- MODULE ProviderManager --------------------------
(***************************************************************************)
(* The routing of provider requests in runtime/providers: the registry of  *)
(* provider records, the choice of a provider by health, the rate          *)
(* limiter, the retries of a call, the fallback to the next provider and   *)
(* the response cache.                                                     *)
(*                                                                         *)
(* A request is at most one coroutine inside ProviderManager.execute(), and *)
(* call[r] is where it stands.  A step runs from one await to the next.     *)
(* Every provider modelled here has the capability that is asked for.       *)
(***************************************************************************)
EXTENDS Integers, Sequences, SequencesExt

CONSTANTS
  Provider,         \* names under which providers are registered
  Registered,       \* the names registered before requests are served
  MaxRegistrations, \* bound: how often a name is registered
  MaxChanges,       \* bound: how often the registry, a health, a limiter or
                    \* the cache changes on its own account
  Request,          \* the requests that may call execute()
  NoProvider,       \* a request without provider_name
  Prefers,          \* the provider_name of a request
  NoKey,            \* a request without cache_key
  KeyOf,            \* the cache_key of a request
  RetryAttempts,    \* RetryPolicy.attempts
  Capacity          \* the capacity of a rate limiter

ASSUME ProviderAssumption ==
  /\ NoProvider \notin Provider
  /\ Registered \in Seq(Provider) /\ IsInjective(Registered)
  /\ MaxRegistrations \in Nat \ {0} /\ MaxChanges \in Nat
  /\ Prefers \in [Request -> Provider \cup {NoProvider}]
  /\ RetryAttempts \in Nat \ {0}
  /\ Capacity \in Nat \ {0}

VARIABLES
  registered,  \* _providers: the names in the order of the dictionary
  generation,  \* how often each name was registered
  changes,     \* how many changes there were, for MaxChanges
  health,      \* record.health.status
  failures,    \* record.metrics.failures
  tokens,      \* record.rate_limiter: the whole tokens there are
  cache,       \* _cache: the success of the response kept under a key
  call         \* what each request does in execute()

providerVars == <<registered, generation, changes, health, failures, tokens, cache, call>>

\* A name that is registered again gets a new record; calls under way keep
\* the record they captured.
Record == Provider \X (1 .. MaxRegistrations)

RecordOf(p) == <<p, generation[p]>>

HealthStatus == {"unknown", "healthy", "degraded", "unhealthy"}

Key == {KeyOf[r] : r \in Request} \ {NoKey}

\* A call waits for the answer of the head of todo ("calling"), or sleeps before
\* it asks it again ("backoff"), with the candidates left; or it has ended.
Idle == [pc |-> "idle", todo |-> <<>>, tries |-> 0]

Ended(how) == [pc |-> how, todo |-> <<>>, tries |-> 0]

ProvidersInit ==
  /\ registered = Registered
  /\ generation = [p \in Provider |-> IF p \in Range(Registered) THEN 1 ELSE 0]
  /\ changes = 0
  /\ health = [rec \in Record |-> "unknown"]
  /\ failures = [rec \in Record |-> 0]
  /\ tokens = [rec \in Record |-> Capacity]
  /\ cache = [k \in Key |-> "none"]
  /\ call = [r \in Request |-> Idle]

-----------------------------------------------------------------------------
(* Selection *)

\* _selection_key(): health, the average latency, which is never recorded and
\* therefore 0, and failures.
RankedBefore(x, y) ==
  LET rank(rec) == IF health[rec] = "healthy" THEN 0 ELSE 1
  IN  \/ rank(x) < rank(y)
      \/ rank(x) = rank(y) /\ failures[x] < failures[y]

\* list.sort() is stable: records of equal rank keep their order.
Ranked(recs) ==
  LET place(rec) == CHOOSE i \in DOMAIN recs : recs[i] = rec
      before(x, y) == \/ RankedBefore(x, y)
                      \/ ~RankedBefore(y, x) /\ place(x) < place(y)
  IN  CHOOSE s \in [DOMAIN recs -> Range(recs)] :
        /\ Range(s) = Range(recs)
        /\ \A i, j \in DOMAIN recs : i < j => before(s[i], s[j])

\* The records of all providers, that of the preferred one before the others.
PreferFirst(p) ==
  LET names == IF p \in Range(registered) THEN <<p>> \o RemoveFirst(registered, p)
                                          ELSE registered
  IN  [i \in DOMAIN names |-> RecordOf(names[i])]

\* _candidate_records(): p is the preferred provider.
CandidateRecords[p \in Provider \cup {NoProvider}] == Ranked(PreferFirst(p))

\* select_best()
Selected(r) == Head(CandidateRecords[Prefers[r]])

\* What _invoke_with_fallback() goes through: the provider selected is preferred.
Candidates(r) == CandidateRecords[Selected(r)[1]]

-----------------------------------------------------------------------------
(* Calls *)

\* mutant: a record without tokens ends the search instead of being skipped
Walk_StopsAtLimit(r, recs, failed) ==
  LET stop == recs = <<>> \/ tokens[Head(recs)] = 0
      bad  == failed \cup IF recs # <<>> /\ stop THEN {Head(recs)} ELSE {}
  IN  /\ failures' = [rec \in Record |->
                        failures[rec] + IF rec \in bad THEN 1 ELSE 0]
      /\ health' = [rec \in Record |->
                        IF rec \in bad THEN "degraded" ELSE health[rec]]
      /\ tokens' = IF stop THEN tokens ELSE [tokens EXCEPT ![Head(recs)] = @ - 1]
      /\ call' = [call EXCEPT ![r] =
                        IF stop THEN Ended("exhausted")
                        ELSE [pc |-> "calling", tries |-> 1, todo |-> recs]]

\* _invoke_with_fallback(), after the records of failed gave no answer: goes
\* through the candidates left to the first one whose limiter has a token.
Walk(r, recs, failed) ==
  LET free == {i \in DOMAIN recs : tokens[recs[i]] > 0}
      next == IF free = {} THEN Len(recs) + 1
              ELSE CHOOSE i \in free : \A j \in free : i <= j
      bad  == failed \cup {recs[i] : i \in 1 .. (next - 1)}
  IN  /\ failures' = [rec \in Record |->
                        failures[rec] + IF rec \in bad THEN 1 ELSE 0]
      /\ health' = [rec \in Record |->
                        IF rec \in bad THEN "degraded" ELSE health[rec]]
      /\ tokens' = [rec \in Record |->
                        IF free # {} /\ rec = recs[next] THEN tokens[rec] - 1
                                                         ELSE tokens[rec]]
      /\ call' = [call EXCEPT ![r] =
                        IF free = {} THEN Ended("exhausted")
                        ELSE [pc |-> "calling", tries |-> 1,
                              todo |-> SubSeq(recs, next, Len(recs))]]

Cached(r) == KeyOf[r] # NoKey /\ cache[KeyOf[r]] # "none"

\* execute(): no provider can be selected, the cache answers, or providers are
\* called, those that are candidates at this moment (recs).
Execute(r) ==
  /\ call[r].pc \notin {"calling", "backoff"}
  /\ \/ /\ registered = <<>>
        /\ call' = [call EXCEPT ![r] = Ended("exhausted")]
        /\ UNCHANGED <<health, failures, tokens>>
     \/ /\ registered # <<>> /\ Cached(r)
        /\ call' = [call EXCEPT ![r] = Ended(cache[KeyOf[r]])]
        /\ UNCHANGED <<health, failures, tokens>>
     \/ /\ registered # <<>> /\ ~Cached(r)
        /\ \E recs \in {Candidates(r)} : Walk(r, recs, {})
  /\ UNCHANGED <<registered, generation, changes, cache>>

\* The provider answers with a response, a successful one or not: it counts as
\* healthy either way, and the response is cached either way.
Answered(r, how) ==
  /\ call[r].pc = "calling"
  /\ health' = [health EXCEPT ![Head(call[r].todo)] = "healthy"]
  /\ cache' = [k \in Key |-> IF k = KeyOf[r] THEN how ELSE cache[k]]
  /\ call' = [call EXCEPT ![r] = Ended(how)]
  /\ UNCHANGED <<registered, generation, changes, failures, tokens>>

\* The provider raises.  RetryPolicy.execute() asks it again after a delay
\* when the error is retryable and attempts are left.
RaisesRetryable(r) ==
  /\ call[r].pc = "calling"
  /\ IF call[r].tries < RetryAttempts
     THEN /\ call' = [call EXCEPT ![r].pc = "backoff"]
          /\ UNCHANGED <<health, failures, tokens>>
     ELSE Walk(r, Tail(call[r].todo), {Head(call[r].todo)})
  /\ UNCHANGED <<registered, generation, changes, cache>>

\* Every other exception, CancelledError included, ends the retries, and
\* ProviderRetryExhaustedError leads to the next candidate.
RaisesOther(r) ==
  /\ call[r].pc = "calling"
  /\ Walk(r, Tail(call[r].todo), {Head(call[r].todo)})
  /\ UNCHANGED <<registered, generation, changes, cache>>

\* mutant: the attempts are not counted
BackoffEnds_Uncounted(r) ==
  /\ call[r].pc = "backoff"
  /\ call' = [call EXCEPT ![r].pc = "calling"]
  /\ UNCHANGED <<registered, generation, changes, health, failures, tokens, cache>>

BackoffEnds(r) ==
  /\ call[r].pc = "backoff"
  /\ call' = [call EXCEPT ![r] =
                        [pc |-> "calling", todo |-> @.todo, tries |-> @.tries + 1]]
  /\ UNCHANGED <<registered, generation, changes, health, failures, tokens, cache>>

\* CancelledError in the sleep of the back-off is caught by nobody.
AbortedInBackoff(r) ==
  /\ call[r].pc = "backoff"
  /\ call' = [call EXCEPT ![r] = Ended("aborted")]
  /\ UNCHANGED <<registered, generation, changes, health, failures, tokens, cache>>

-----------------------------------------------------------------------------
(* Registration, probes and time *)

IsRegistered(p) == p \in Range(registered)

Change == changes < MaxChanges /\ changes' = changes + 1

\* register(): a dictionary keeps the place of a key whose value is replaced.
Register(p) ==
  /\ Change
  /\ generation[p] < MaxRegistrations
  /\ generation' = [generation EXCEPT ![p] = @ + 1]
  /\ registered' = IF IsRegistered(p) THEN registered ELSE Append(registered, p)
  /\ UNCHANGED <<health, failures, tokens, cache, call>>

Unregister(p) ==
  /\ Change
  /\ IsRegistered(p)
  /\ registered' = RemoveFirst(registered, p)
  /\ UNCHANGED <<generation, health, failures, tokens, cache, call>>

\* initialize(), health_check() and shutdown() await the provider and then
\* mark the record that has the name by then.
Probe(p, status) ==
  /\ Change
  /\ IsRegistered(p)
  /\ status \in {"healthy", "unhealthy", "unknown"}
  /\ health' = [health EXCEPT ![RecordOf(p)] = status]
  /\ UNCHANGED <<registered, generation, failures, tokens, cache, call>>

\* _refill(): time passes.
Refill(rec) ==
  /\ Change
  /\ tokens[rec] < Capacity
  /\ tokens' = [tokens EXCEPT ![rec] = @ + 1]
  /\ UNCHANGED <<registered, generation, health, failures, cache, call>>

\* The time a response may be kept is over.
CacheExpires(k) ==
  /\ Change
  /\ cache[k] # "none"
  /\ cache' = [cache EXCEPT ![k] = "none"]
  /\ UNCHANGED <<registered, generation, health, failures, tokens, call>>

ProvidersChange ==
  \/ \E p \in Provider : Register(p) \/ Unregister(p)
  \/ \E p \in Provider, status \in HealthStatus : Probe(p, status)
  \/ \E rec \in Record : Refill(rec)
  \/ \E k \in Key : CacheExpires(k)

=============================================================================
