------------------------ MODULE TaskExecutionProofs ------------------------
(***************************************************************************)
(* Proofs about TaskExecution, for any requests, providers, attempts and    *)
(* limits.  What the engine knows of a request (EngineInv) does not depend  *)
(* on how providers are chosen; the genuineness of results needs what the   *)
(* cache holds (CacheGenuine) besides.  That the fallback is exhaustive is  *)
(* a matter of the providers alone: the candidates are all registered       *)
(* records (CandidatesFacts), and what a call has not asked yet is among    *)
(* those left to it (Pending).                                              *)
(***************************************************************************)
EXTENDS TaskExecution, SequenceTheorems, WellFoundedInduction, TLAPS

CallState == {"idle", "calling", "backoff", "answered", "refused",
              "exhausted", "aborted"}

\* As much of the type of the provider manager's state as the proofs need.
Shape ==
  /\ \E T, U : call \in [Request -> [pc : CallState, todo : T, tries : U]]
  /\ cache \in [Key -> {"none", "answered", "refused"}]

Active == {"planning", "agent", "provider"}

EngineType ==
  /\ stage \in [Request -> Stage]
  /\ attempt \in [Request -> Nat]
  /\ expired \in [Request -> BOOLEAN]
  /\ cancelled \in [Request -> BOOLEAN]
  /\ shown \in [Request -> {"none", "running", "completed", "failed", "cancelled"}]
  /\ outcome \in [Request -> {"none", "completed", "failed", "timed out", "cancelled"}]

\* How far the attempts of a request are, by the await it is suspended at.
Position(r) ==
  /\ stage[r] = "ended" <=> outcome[r] # "none"
  /\ stage[r] = "new" => attempt[r] = 0 /\ shown[r] = "none"
  /\ stage[r] = "between" => attempt[r] < MaxAttempts[r]
  /\ stage[r] \in Active => attempt[r] \in 1 .. MaxAttempts[r]

\* StatusHonest and OutcomeEarned, of one request.
Honest(r) ==
  /\ outcome[r] = "completed" <=> shown[r] = "completed"
  /\ outcome[r] = "cancelled" <=> shown[r] = "cancelled"
  /\ outcome[r] \in {"failed", "timed out"} => shown[r] = "failed"
  /\ shown[r] = "failed" /\ outcome[r] = "none" =>
       attempt[r] > 1 \/ (stage[r] = "between" /\ attempt[r] = 1)

Earned(r) ==
  /\ outcome[r] = "failed" => attempt[r] = MaxAttempts[r]
  /\ outcome[r] = "timed out" => expired[r]
  /\ outcome[r] = "cancelled" => cancelled[r]

EngineInv ==
  EngineType /\ \A r \in Request : Position(r) /\ Honest(r) /\ Earned(r)

\* A successful response in the cache was given to a request with its key.
CacheGenuine ==
  \A k \in Key : cache[k] = "answered" => \E q \in answered : KeyOf[q] = k

IInv == Shape /\ EngineInv /\ GenuineResult /\ CacheGenuine

-----------------------------------------------------------------------------
(* Steps of the engine *)

\* A request that has not ended ends in a way it has earned.
LEMMA EndKeeps ==
  ASSUME EngineInv, NEW r \in Request, stage[r] # "ended",
         NEW how, NEW status, End(r, how, status),
         <<how, status>> \in {<<"completed", "completed">>, <<"failed", "failed">>,
                              <<"timed out", "failed">>, <<"cancelled", "cancelled">>},
         attempt' \in [Request -> Nat],
         expired' \in [Request -> BOOLEAN], cancelled' = cancelled,
         \A q \in Request \ {r} : attempt'[q] = attempt[q] /\ expired'[q] = expired[q],
         how = "failed" => attempt'[r] = MaxAttempts[r],
         how = "timed out" => expired'[r],
         how = "cancelled" => cancelled[r]
  PROVE  EngineInv'
<1>1. EngineType'
  BY DEF EngineInv, EngineType, End, Stage
<1>2. ASSUME NEW q \in Request PROVE (Position(q) /\ Honest(q) /\ Earned(q))'
  <2>1. CASE q = r
    BY <2>1 DEF EngineInv, EngineType, Position, Honest, Earned, End, Active
  <2>2. CASE q # r
    BY <2>2 DEF EngineInv, EngineType, Position, Honest, Earned, End, Active
  <2>3. QED  BY <2>1, <2>2
<1>3. QED  BY <1>1, <1>2 DEF EngineInv

\* The n-th attempt fails: the request ends, or goes on to the next attempt.
LEMMA FailsInKeeps ==
  ASSUME EngineInv, EngineAssumption, NEW r \in Request, stage[r] # "ended",
         NEW n \in 1 .. MaxAttempts[r], FailsIn(r, n),
         attempt' = [attempt EXCEPT ![r] = n], cancelled' = cancelled,
         expired' \in [Request -> BOOLEAN],
         \A q \in Request \ {r} : expired'[q] = expired[q]
  PROVE  EngineInv'
<1>1. MaxAttempts[r] \in Nat \ {0} /\ n \in Nat
  BY DEF EngineAssumption
<1>0. /\ attempt' \in [Request -> Nat] /\ attempt'[r] = n
      /\ \A q \in Request \ {r} : attempt'[q] = attempt[q]
  BY <1>1 DEF EngineInv, EngineType
<1>2. CASE n >= MaxAttempts[r]
  <2>1. attempt'[r] = MaxAttempts[r]
    BY <1>0, <1>1, <1>2
  <2>2. End(r, "failed", "failed")
    BY <1>2 DEF FailsIn
  <2>3. QED  BY <1>0, <2>1, <2>2, EndKeeps
<1>3. CASE ~(n >= MaxAttempts[r])
  <2>1. /\ stage' = [stage EXCEPT ![r] = "between"]
        /\ shown' = [shown EXCEPT ![r] = "failed"]
        /\ outcome' = outcome
    BY <1>3 DEF FailsIn
  <2>2. n < MaxAttempts[r]
    BY <1>1, <1>3
  <2>3. EngineType'
    BY <1>0, <2>1 DEF EngineInv, EngineType, Stage
  <2>4. ASSUME NEW q \in Request PROVE (Position(q) /\ Honest(q) /\ Earned(q))'
    <3>1. CASE q = r
      <4>1. stage'[r] = "between" /\ shown'[r] = "failed" /\ outcome'[r] = outcome[r]
        BY <2>1 DEF EngineInv, EngineType
      <4>2. outcome[r] = "none"
        BY DEF EngineInv, Position
      <4>3. Position(r)'
        BY <1>0, <2>2, <4>1, <4>2 DEF Position, Active
      <4>4. attempt'[r] > 1 \/ attempt'[r] = 1
        BY <1>0, <1>1
      <4>5. Honest(r)' /\ Earned(r)'
        BY <4>1, <4>2, <4>4 DEF Honest, Earned
      <4>6. QED  BY <3>1, <4>3, <4>5
    <3>2. CASE q # r
      BY <1>0, <2>1, <3>2 DEF EngineInv, EngineType, Position, Honest, Earned, Active
    <3>3. QED  BY <3>1, <3>2
  <2>5. QED  BY <2>3, <2>4 DEF EngineInv
<1>4. QED  BY <1>2, <1>3

\* The attempt under way fails.
LEMMA FailsKeeps ==
  ASSUME EngineInv, EngineAssumption, NEW r \in Request, stage[r] \in Active,
         Fails(r), attempt' = attempt, cancelled' = cancelled,
         expired' \in [Request -> BOOLEAN],
         \A q \in Request \ {r} : expired'[q] = expired[q]
  PROVE  EngineInv'
<1>1. attempt[r] \in 1 .. MaxAttempts[r] /\ stage[r] # "ended"
  BY DEF EngineInv, Position, Active
<1>2. attempt' = [attempt EXCEPT ![r] = attempt[r]]
  BY DEF EngineInv, EngineType
<1>3. QED  BY <1>1, <1>2, FailsInKeeps DEF Fails

\* The attempt goes on at another await.
LEMMA MoveKeeps ==
  ASSUME EngineInv, NEW r \in Request, stage[r] \in Active,
         NEW s \in Active, stage' = [stage EXCEPT ![r] = s],
         shown' = shown, outcome' = outcome, attempt' = attempt,
         cancelled' = cancelled, expired' \in [Request -> BOOLEAN],
         \A q \in Request \ {r} : expired'[q] = expired[q]
  PROVE  EngineInv'
<1>1. EngineType'
  BY DEF EngineInv, EngineType, Stage, Active
<1>2. ASSUME NEW q \in Request PROVE (Position(q) /\ Honest(q) /\ Earned(q))'
  <2>1. CASE q = r
    BY <2>1 DEF EngineInv, EngineType, Position, Honest, Earned, Active
  <2>2. CASE q # r
    BY <2>2 DEF EngineInv, EngineType, Position, Honest, Earned, Active
  <2>3. QED  BY <2>1, <2>2
<1>3. QED  BY <1>1, <1>2 DEF EngineInv

\* What follows a call of the provider manager that is not cancelled, or whose
\* request has timed out.
LEMMA AfterCallKeeps ==
  ASSUME EngineInv, EngineAssumption, NEW r \in Request, stage[r] \in Active,
         NEW pc \in CallState \ {"idle"}, AfterCall(r, pc),
         attempt' = attempt, cancelled' = cancelled,
         expired' \in [Request -> BOOLEAN],
         \A q \in Request \ {r} : expired'[q] = expired[q],
         pc = "aborted" => expired'[r]
  PROVE  EngineInv'
<1>0. attempt' \in [Request -> Nat] /\ stage[r] # "ended"
  BY DEF EngineInv, EngineType, Active
<1>1. CASE pc \in {"calling", "backoff"}
  BY <1>1, MoveKeeps DEF AfterCall, Active
<1>2. CASE pc = "answered"
  BY <1>0, <1>2, EndKeeps DEF AfterCall, Completes
<1>3. CASE pc \in {"refused", "exhausted"}
  BY <1>3, FailsKeeps DEF AfterCall
<1>4. CASE pc = "aborted"
  BY <1>0, <1>4, EndKeeps DEF AfterCall, TimesOut
<1>5. QED  BY <1>1, <1>2, <1>3, <1>4 DEF CallState

-----------------------------------------------------------------------------
(* Steps of the provider manager *)

LEMMA CallShape ==
  ASSUME Shape, NEW r \in Request, NEW pc \in CallState, NEW todo, NEW tries,
         call' = [call EXCEPT ![r] = [pc |-> pc, todo |-> todo, tries |-> tries]],
         cache' \in [Key -> {"none", "answered", "refused"}]
  PROVE  Shape' /\ call'[r].pc = pc
<1>1. PICK T, U : call \in [Request -> [pc : CallState, todo : T, tries : U]]
  BY DEF Shape
<1>2. call' \in [Request -> [pc : CallState, todo : T \cup {todo},
                               tries : U \cup {tries}]]
  BY <1>1
<1>3. call'[r].pc = pc
  BY <1>1
<1>4. QED  BY <1>2, <1>3 DEF Shape

LEMMA WalkShape ==
  ASSUME Shape, NEW r \in Request, NEW recs, NEW failed,
         Walk(r, recs, failed), cache' = cache
  PROVE  Shape' /\ call'[r].pc \in {"calling", "exhausted"}
<1>1. cache' \in [Key -> {"none", "answered", "refused"}]
  BY DEF Shape
<1> DEFINE free == {i \in DOMAIN recs : tokens[recs[i]] > 0}
           next == IF free = {} THEN Len(recs) + 1
                   ELSE CHOOSE i \in free : \A j \in free : i <= j
           todo == SubSeq(recs, next, Len(recs))
<1>2. CASE free = {}
  <2>1. call' = [call EXCEPT ![r] = [pc |-> "exhausted", todo |-> <<>>, tries |-> 0]]
    BY <1>2 DEF Walk, Ended
  <2> HIDE DEF free
  <2>2. QED  BY <1>1, <2>1, CallShape DEF CallState
<1>3. CASE free # {}
  <2>1. call' = [call EXCEPT ![r] = [pc |-> "calling", todo |-> todo, tries |-> 1]]
    BY <1>3 DEF Walk
  <2> HIDE DEF free, next, todo
  <2>2. QED  BY <1>1, <2>1, CallShape DEF CallState
<1>4. QED  BY <1>2, <1>3

\* execute() answers out of the cache only what is there.
LEMMA ExecuteShape ==
  ASSUME Shape, NEW r \in Request, Execute(r)
  PROVE  /\ Shape' /\ cache' = cache
         /\ call'[r].pc \in {"calling", "answered", "refused", "exhausted"}
         /\ call'[r].pc = "answered" => KeyOf[r] \in Key /\ cache[KeyOf[r]] = "answered"
<1>0. cache' = cache /\ cache' \in [Key -> {"none", "answered", "refused"}]
  BY DEF Shape, Execute
<1>1. CASE call' = [call EXCEPT ![r] = Ended("exhausted")]
  BY <1>0, <1>1, CallShape DEF Ended, CallState
<1>2. CASE Cached(r) /\ call' = [call EXCEPT ![r] = Ended(cache[KeyOf[r]])]
  <2>1. KeyOf[r] \in Key /\ cache[KeyOf[r]] \in {"answered", "refused"}
    BY <1>2 DEF Cached, Key, Shape
  <2>2. Shape' /\ call'[r].pc = cache[KeyOf[r]]
    BY <1>0, <1>2, <2>1, CallShape DEF Ended, CallState
  <2>3. QED  BY <1>0, <2>1, <2>2
<1>3. CASE Walk(r, Candidates(r), {})
  BY <1>0, <1>3, WalkShape
<1>4. QED  BY <1>1, <1>2, <1>3 DEF Execute

LEMMA RaisesShape ==
  ASSUME Shape, NEW r \in Request,
         RaisesRetryable(r) \/ RaisesOther(r) \/ AbortedInBackoff(r)
  PROVE  /\ Shape' /\ cache' = cache
         /\ call'[r].pc \in {"calling", "backoff", "exhausted", "aborted"}
         /\ RaisesRetryable(r) \/ RaisesOther(r) => call'[r].pc # "aborted"
<1>0. cache' = cache /\ cache' \in [Key -> {"none", "answered", "refused"}]
  BY DEF Shape, RaisesRetryable, RaisesOther, AbortedInBackoff
<1>1. CASE Walk(r, Tail(call[r].todo), {Head(call[r].todo)})
  <2>1. Shape' /\ call'[r].pc \in {"calling", "exhausted"}
    BY <1>0, <1>1, WalkShape
  <2>2. QED  BY <1>0, <2>1
<1>2. CASE call' = [call EXCEPT ![r].pc = "backoff"]
  <2>1. PICK T, U : call \in [Request -> [pc : CallState, todo : T, tries : U]]
    BY DEF Shape
  <2>2. call' = [call EXCEPT ![r] = [pc |-> "backoff", todo |-> call[r].todo,
                                     tries |-> call[r].tries]]
    <3>1. call[r] \in [pc : CallState, todo : T, tries : U]
      BY <2>1
    <3>2. [call[r] EXCEPT !.pc = "backoff"]
            = [pc |-> "backoff", todo |-> call[r].todo, tries |-> call[r].tries]
      BY <3>1
    <3>3. call' = [call EXCEPT ![r] = [call[r] EXCEPT !.pc = "backoff"]]
      BY <1>2
    <3>4. QED  BY <3>2, <3>3
  <2>3. Shape' /\ call'[r].pc = "backoff"
    BY <1>0, <2>2, CallShape DEF CallState
  <2>4. QED  BY <1>0, <2>3
<1>3. CASE AbortedInBackoff(r)
  <2>1. call' = [call EXCEPT ![r] = [pc |-> "aborted", todo |-> <<>>, tries |-> 0]]
        /\ call[r].pc = "backoff"
    BY <1>3 DEF AbortedInBackoff, Ended
  <2>2. ~RaisesRetryable(r) /\ ~RaisesOther(r)
    BY <2>1 DEF RaisesRetryable, RaisesOther
  <2>3. Shape' /\ call'[r].pc = "aborted"
    BY <1>0, <2>1, CallShape DEF CallState
  <2>4. QED  BY <1>0, <2>2, <2>3
<1>4. QED  BY <1>1, <1>2, <1>3 DEF RaisesRetryable, RaisesOther

-----------------------------------------------------------------------------
(* Genuineness *)

\* Results stay genuine when a request completes only with what it was
\* answered, or with what the cache holds.
LEMMA GenuineKeeps ==
  ASSUME GenuineResult, CacheGenuine, answered \subseteq answered',
         \A q \in Request : outcome'[q] = "completed" =>
            \/ outcome[q] = "completed" \/ q \in answered'
            \/ KeyOf[q] \in Key /\ cache[KeyOf[q]] = "answered",
         \A k \in Key : cache'[k] = "answered" =>
            cache[k] = "answered" \/ \E q \in answered' : KeyOf[q] = k
  PROVE  (GenuineResult /\ CacheGenuine)'
<1>1. ASSUME NEW k \in Key, cache'[k] = "answered"
      PROVE  \E q \in answered' : KeyOf[q] = k
  <2>1. CASE cache[k] = "answered"
    BY <2>1 DEF CacheGenuine
  <2>2. QED  BY <1>1, <2>1
<1>2. ASSUME NEW r \in Request, outcome'[r] = "completed"
      PROVE  \E q \in answered' : q = r \/ (KeyOf[q] = KeyOf[r] /\ KeyOf[r] # NoKey)
  <2>1. CASE outcome[r] = "completed"
    BY <2>1 DEF GenuineResult
  <2>2. CASE r \in answered'
    BY <2>2
  <2>3. CASE KeyOf[r] \in Key /\ cache[KeyOf[r]] = "answered"
    BY <2>3 DEF CacheGenuine, Key
  <2>4. QED  BY <1>2, <2>1, <2>2, <2>3
<1>3. QED  BY <1>1, <1>2 DEF GenuineResult, CacheGenuine, Key

LEMMA AfterCallOutcome ==
  ASSUME EngineType, NEW r \in Request, NEW pc \in CallState \ {"idle"},
         AfterCall(r, pc), NEW q \in Request, outcome'[q] = "completed"
  PROVE  outcome[q] = "completed" \/ (q = r /\ pc = "answered")
<1>1. CASE pc \in {"calling", "backoff"}
  BY <1>1 DEF AfterCall
<1>2. CASE pc = "answered"
  BY <1>2 DEF AfterCall, Completes, End, EngineType
<1>3. CASE pc \in {"refused", "exhausted"}
  BY <1>3 DEF AfterCall, Fails, FailsIn, End, EngineType
<1>4. CASE pc = "aborted"
  BY <1>4 DEF AfterCall, TimesOut, End, EngineType
<1>5. QED  BY <1>1, <1>2, <1>3, <1>4 DEF CallState

-----------------------------------------------------------------------------
(* The invariant is inductive *)

LEMMA InitInv == Init /\ EngineAssumption => IInv
<1> SUFFICES ASSUME Init, EngineAssumption PROVE IInv
  OBVIOUS
<1>1. Shape
  <2>1. call \in [Request -> [pc : CallState, todo : {<<>>}, tries : {0}]]
    BY DEF Init, ProvidersInit, Idle, CallState
  <2>2. QED  BY <2>1 DEF Shape, Init, ProvidersInit
<1>2. EngineInv
  BY DEF Init, EngineInv, EngineType, Position, Honest, Earned, Active, Stage
<1>3. GenuineResult /\ CacheGenuine
  BY DEF Init, ProvidersInit, GenuineResult, CacheGenuine
<1>4. QED  BY <1>1, <1>2, <1>3 DEF IInv

\* Steps that touch nothing the invariant speaks of but stage or cancelled.
LEMMA QuietKeeps ==
  ASSUME IInv, UNCHANGED <<call, cache, outcome, answered>>, EngineInv'
  PROVE  IInv'
BY DEF IInv, Shape, GenuineResult, CacheGenuine

\* An attempt that calls the provider manager.
LEMMA CallProvidersKeeps ==
  ASSUME IInv, EngineAssumption, NEW r \in Request, stage[r] \in Active, CallProviders(r)
  PROVE  IInv'
<1>1. /\ Shape' /\ cache' = cache
      /\ call'[r].pc \in {"calling", "answered", "refused", "exhausted"}
      /\ call'[r].pc = "answered" => KeyOf[r] \in Key /\ cache[KeyOf[r]] = "answered"
  BY ExecuteShape DEF IInv, CallProviders
<1>2. /\ AfterCall(r, call'[r].pc) /\ call'[r].pc \in CallState \ {"idle"}
      /\ UNCHANGED <<attempt, expired, cancelled, answered>>
  BY <1>1 DEF CallProviders, CallState
<1>3. EngineInv'
  BY <1>1, <1>2, AfterCallKeeps DEF IInv, EngineInv, EngineType
<1>4. ASSUME NEW q \in Request, outcome'[q] = "completed"
      PROVE  outcome[q] = "completed" \/ (KeyOf[q] \in Key /\ cache[KeyOf[q]] = "answered")
  BY <1>1, <1>2, <1>4, AfterCallOutcome DEF IInv, EngineInv
<1>5. GenuineResult' /\ CacheGenuine'
  BY <1>1, <1>2, <1>4, GenuineKeeps DEF IInv
<1>6. QED  BY <1>1, <1>3, <1>5 DEF IInv

\* A provider raises, or is cancelled by the timeout.
LEMMA RaisesKeeps ==
  ASSUME IInv, EngineAssumption, NEW r \in Request, stage[r] = "provider",
         RaisesRetryable(r) \/ RaisesOther(r) \/ AbortedInBackoff(r),
         AfterCall(r, call'[r].pc),
         UNCHANGED <<attempt, cancelled, answered>>,
         expired' \in [Request -> BOOLEAN],
         \A q \in Request \ {r} : expired'[q] = expired[q],
         AbortedInBackoff(r) => expired'[r]
  PROVE  IInv'
<1>1. /\ Shape' /\ cache' = cache
      /\ call'[r].pc \in {"calling", "backoff", "exhausted", "aborted"}
      /\ RaisesRetryable(r) \/ RaisesOther(r) => call'[r].pc # "aborted"
  BY RaisesShape DEF IInv
<1>2. call'[r].pc \in CallState \ {"idle"} /\ stage[r] \in Active
  BY <1>1 DEF CallState, Active
<1>3. call'[r].pc = "aborted" => expired'[r]
  BY <1>1
<1>4. EngineInv'
  BY <1>2, <1>3, AfterCallKeeps DEF IInv
<1>5. ASSUME NEW q \in Request, outcome'[q] = "completed" PROVE outcome[q] = "completed"
  BY <1>1, <1>2, <1>5, AfterCallOutcome DEF IInv, EngineInv
<1>6. GenuineResult' /\ CacheGenuine'
  BY <1>1, <1>5, GenuineKeeps DEF IInv
<1>7. QED  BY <1>1, <1>4, <1>6 DEF IInv

LEMMA ProgressInv ==
  ASSUME IInv, EngineAssumption, NEW r \in Request, Progress(r)
  PROVE  IInv'
<1> USE DEF IInv
<1>0. /\ EngineType /\ Position(r) /\ Honest(r) /\ Earned(r)
      /\ MaxAttempts[r] \in Nat \ {0} /\ attempt[r] \in Nat
  BY DEF EngineInv, EngineType, EngineAssumption
<1>1. CASE Start(r)
  <2>1. EngineType'
    BY <1>0, <1>1 DEF Start, EngineType, Stage
  <2>2. ASSUME NEW q \in Request PROVE (Position(q) /\ Honest(q) /\ Earned(q))'
    <3>1. CASE q = r
      <4>1. /\ stage'[r] = "between" /\ shown'[r] = "running"
            /\ attempt'[r] = attempt[r] /\ outcome'[r] = outcome[r]
            /\ expired'[r] = expired[r] /\ cancelled'[r] = cancelled[r]
        BY <1>0, <1>1 DEF Start, EngineType
      <4>2. attempt[r] = 0 /\ outcome[r] = "none"
        BY <1>0, <1>1 DEF Start, Position
      <4>3. Position(r)'
        BY <1>0, <4>1, <4>2 DEF Position, Active
      <4>4. Honest(r)' /\ Earned(r)'
        BY <4>1, <4>2 DEF Honest, Earned
      <4>5. QED  BY <3>1, <4>3, <4>4
    <3>2. CASE q # r
      BY <1>1, <3>2 DEF Start, EngineInv, EngineType, Position, Honest, Earned, Active
    <3>3. QED  BY <3>1, <3>2
  <2>3. QED  BY <1>1, <2>1, <2>2, QuietKeeps DEF Start, EngineInv, providerVars
<1>2. CASE BeginAttempt(r)
  <2>1. /\ attempt' \in [Request -> Nat] /\ expired' \in [Request -> BOOLEAN]
        /\ \A q \in Request \ {r} : attempt'[q] = attempt[q] /\ expired'[q] = expired[q]
        /\ attempt'[r] = attempt[r] + 1 /\ attempt[r] < MaxAttempts[r]
        /\ stage[r] = "between" /\ cancelled' = cancelled
    <3>1. /\ attempt' = [attempt EXCEPT ![r] = @ + 1]
          /\ expired' = [expired EXCEPT ![r] = FALSE]
          /\ stage[r] = "between" /\ cancelled' = cancelled
      BY <1>2 DEF BeginAttempt
    <3>2. attempt \in [Request -> Nat] /\ expired \in [Request -> BOOLEAN]
      BY <1>0 DEF EngineType
    <3>3. attempt[r] < MaxAttempts[r]
      BY <1>0, <3>1 DEF Position
    <3>4. attempt' \in [Request -> Nat] /\ attempt'[r] = attempt[r] + 1
      BY <3>1, <3>2
    <3>5. expired' \in [Request -> BOOLEAN]
      BY <3>1, <3>2
    <3>6. \A q \in Request \ {r} : attempt'[q] = attempt[q] /\ expired'[q] = expired[q]
      BY <3>1, <3>2
    <3>7. QED  BY <3>1, <3>3, <3>4, <3>5, <3>6
  <2>2. CASE cancelled[r]
    <3>1. EngineInv'
      BY <1>2, <2>1, <2>2, EndKeeps DEF BeginAttempt, Cancels
    <3>2. \A q \in Request : outcome'[q] = "completed" => outcome[q] = "completed"
      BY <1>0, <1>2, <2>2 DEF BeginAttempt, Cancels, End, EngineType
    <3>3. GenuineResult' /\ CacheGenuine'
      BY <1>2, <3>2, GenuineKeeps DEF BeginAttempt, providerVars
    <3>4. QED  BY <1>2, <3>1, <3>3 DEF BeginAttempt, providerVars, Shape
  <2>3. CASE /\ stage' = [stage EXCEPT ![r] = "planning"]
             /\ UNCHANGED <<shown, outcome>>
    <3>1. /\ stage' = [stage EXCEPT ![r] = "planning"] /\ shown' = shown
          /\ outcome' = outcome
      BY <2>3
    <3>2. EngineType'
      BY <1>0, <2>1, <3>1 DEF EngineType, Stage
    <3>3. ASSUME NEW q \in Request PROVE (Position(q) /\ Honest(q) /\ Earned(q))'
      <4>1. CASE q = r
        <5>1. /\ stage'[r] = "planning" /\ shown'[r] = shown[r]
              /\ outcome'[r] = outcome[r]
          BY <1>0, <3>1 DEF EngineType
        <5>2. outcome[r] = "none"
          BY <1>0, <2>1 DEF Position
        <5>3. attempt'[r] \in 1 .. MaxAttempts[r]
          BY <1>0, <2>1
        <5>4. shown[r] = "failed" => attempt'[r] > 1
          <6>1. shown[r] = "failed" => attempt[r] > 1 \/ attempt[r] = 1
            BY <1>0, <5>2 DEF Honest
          <6>2. QED  BY <1>0, <2>1, <6>1
        <5>5. Position(r)'
          BY <5>1, <5>2, <5>3 DEF Position, Active
        <5>6. Honest(r)' /\ Earned(r)'
          BY <1>0, <5>1, <5>2, <5>4 DEF Honest, Earned
        <5>7. QED  BY <4>1, <5>5, <5>6
      <4>2. CASE q # r
        BY <2>1, <3>1, <4>2 DEF EngineInv, EngineType, Position, Honest, Earned, Active
      <4>3. QED  BY <4>1, <4>2
    <3>4. QED  BY <1>2, <3>1, <3>2, <3>3, QuietKeeps DEF BeginAttempt, EngineInv, providerVars
  <2>4. CASE FailsIn(r, attempt[r] + 1)
    <3>1. /\ attempt[r] + 1 \in 1 .. MaxAttempts[r] /\ stage[r] # "ended"
          /\ attempt' = [attempt EXCEPT ![r] = attempt[r] + 1]
      BY <1>0, <1>2, <2>1 DEF BeginAttempt
    <3>2. EngineInv'
      BY <2>1, <2>4, <3>1, FailsInKeeps
    <3>3. \A q \in Request : outcome'[q] = "completed" => outcome[q] = "completed"
      BY <1>0, <2>4 DEF FailsIn, End, EngineType
    <3>4. GenuineResult' /\ CacheGenuine'
      BY <1>2, <3>3, GenuineKeeps DEF BeginAttempt, providerVars
    <3>5. QED  BY <1>2, <3>2, <3>4 DEF BeginAttempt, providerVars, Shape
  <2>5. QED  BY <1>2, <2>2, <2>3, <2>4 DEF BeginAttempt
<1>3. CASE PlanningCancelled(r)
  <2>1. EngineInv'
    BY <1>0, <1>3, EndKeeps DEF PlanningCancelled, Cancels, EngineType
  <2>2. \A q \in Request : outcome'[q] = "completed" => outcome[q] = "completed"
    BY <1>0, <1>3 DEF PlanningCancelled, Cancels, End, EngineType
  <2>3. GenuineResult' /\ CacheGenuine'
    BY <1>3, <2>2, GenuineKeeps DEF PlanningCancelled, providerVars
  <2>4. QED  BY <1>3, <2>1, <2>3 DEF PlanningCancelled, providerVars, Shape
<1>4. CASE PlannedAgent(r)
  <2>1. EngineInv'
    BY <1>0, <1>4, MoveKeeps DEF PlannedAgent, Planning, Active, EngineType
  <2>2. QED  BY <1>4, <2>1, QuietKeeps DEF PlannedAgent, providerVars
<1>5. CASE PlannedFallback(r)
  BY <1>5, CallProvidersKeeps DEF PlannedFallback, Planning, Active
<1>6. CASE PlannedProvider(r)
  <2>1. EngineInv'
    BY <1>0, <1>6, FailsKeeps DEF PlannedProvider, Planning, Active, EngineType
  <2>2. \A q \in Request : outcome'[q] = "completed" => outcome[q] = "completed"
    BY <1>0, <1>6 DEF PlannedProvider, Fails, FailsIn, End, EngineType
  <2>3. GenuineResult' /\ CacheGenuine'
    BY <1>6, <2>2, GenuineKeeps DEF PlannedProvider, providerVars
  <2>4. QED  BY <1>6, <2>1, <2>3 DEF PlannedProvider, providerVars, Shape
<1>7. CASE AgentAnswers(r)
  <2>1. EngineInv'
    BY <1>0, <1>7, EndKeeps DEF AgentAnswers, Completes, EngineType
  <2>2. \A q \in Request :
           outcome'[q] = "completed" => outcome[q] = "completed" \/ q \in answered'
    BY <1>0, <1>7 DEF AgentAnswers, Completes, End, EngineType
  <2>3. GenuineResult' /\ CacheGenuine'
    BY <1>7, <2>2, GenuineKeeps DEF AgentAnswers, providerVars
  <2>4. QED  BY <1>7, <2>1, <2>3 DEF AgentAnswers, providerVars, Shape
<1>8. CASE AgentRaises(r)
  <2>1. EngineInv'
    BY <1>0, <1>8, FailsKeeps DEF AgentRaises, Active, EngineType
  <2>2. \A q \in Request : outcome'[q] = "completed" => outcome[q] = "completed"
    BY <1>0, <1>8 DEF AgentRaises, Fails, FailsIn, End, EngineType
  <2>3. GenuineResult' /\ CacheGenuine'
    BY <1>8, <2>2, GenuineKeeps DEF AgentRaises, providerVars
  <2>4. QED  BY <1>8, <2>1, <2>3 DEF AgentRaises, providerVars, Shape
<1>10. ASSUME NEW how \in {"answered", "refused"}, ProviderAnswers(r, how)
       PROVE  IInv'
  <2>1. /\ AfterCall(r, how) /\ how \in CallState \ {"idle"} /\ stage[r] \in Active
        /\ UNCHANGED <<attempt, expired, cancelled>>
    BY <1>10 DEF ProviderAnswers, CallState, Active
  <2>2. EngineInv'
    BY <1>0, <2>1, AfterCallKeeps DEF EngineType
  <2>3. /\ cache' = [k \in Key |-> IF k = KeyOf[r] THEN how ELSE cache[k]]
        /\ call' = [call EXCEPT ![r] = [pc |-> how, todo |-> <<>>, tries |-> 0]]
        /\ answered' = IF how = "answered" THEN answered \cup {r} ELSE answered
    BY <1>10 DEF ProviderAnswers, Answered, Ended
  <2>4. Shape'
    <3>1. cache' \in [Key -> {"none", "answered", "refused"}]
      BY <2>3 DEF Shape
    <3>2. QED  BY <2>1, <2>3, <3>1, CallShape
  <2>5. ASSUME NEW q \in Request, outcome'[q] = "completed"
        PROVE  outcome[q] = "completed" \/ q \in answered'
    BY <1>0, <2>1, <2>3, <2>5, AfterCallOutcome
  <2>6. ASSUME NEW k \in Key, cache'[k] = "answered"
        PROVE  cache[k] = "answered" \/ \E q \in answered' : KeyOf[q] = k
    BY <2>3, <2>6
  <2>7. answered \subseteq answered'
    BY <2>3
  <2>8. GenuineResult' /\ CacheGenuine'
    BY <2>5, <2>6, <2>7, GenuineKeeps
  <2>9. QED  BY <2>2, <2>4, <2>8
<1>11. CASE ProviderRaises(r)
  <2>1. ~AbortedInBackoff(r)
    BY <1>11 DEF ProviderRaises, RaisesRetryable, RaisesOther, AbortedInBackoff
  <2>2. QED  BY <1>0, <1>11, <2>1, RaisesKeeps DEF ProviderRaises, EngineType
<1>12. CASE RetryDelayEnds(r)
  <2>3. PICK n : call' = [call EXCEPT ![r] = [pc |-> "calling", todo |-> call[r].todo,
                                              tries |-> n]]
    BY <1>12 DEF RetryDelayEnds, BackoffEnds
  <2>5. cache' = cache /\ UNCHANGED engineVars
    BY <1>12 DEF RetryDelayEnds, BackoffEnds
  <2>6. Shape'
    <3>1. cache' \in [Key -> {"none", "answered", "refused"}]
      BY <2>5 DEF Shape
    <3>2. QED  BY <2>3, <3>1, CallShape DEF CallState
  <2>7. QED  BY <2>5, <2>6 DEF engineVars, EngineInv, EngineType, Position, Honest,
                 Earned, Active, GenuineResult, CacheGenuine
<1>13. QED
  BY <1>1, <1>2, <1>3, <1>4, <1>5, <1>6, <1>7, <1>8, <1>10, <1>11, <1>12
     DEF Progress

\* A timer fires.
LEMMA TimeoutInv ==
  ASSUME IInv, EngineAssumption, NEW r \in Request, Timeout(r)
  PROVE  IInv'
<1> USE DEF IInv
<1>0. EngineType
  BY DEF EngineInv
<1>1. /\ expired' \in [Request -> BOOLEAN] /\ expired'[r]
      /\ \A q \in Request \ {r} : expired'[q] = expired[q]
      /\ UNCHANGED <<attempt, cancelled, answered>>
  BY <1>0 DEF Timeout, TimeoutEnds, TimeoutIgnored, TimeoutInCall, TimerFires, EngineType
<1>2. CASE TimeoutEnds(r)
  <2>1. EngineInv'
    BY <1>0, <1>1, <1>2, EndKeeps DEF TimeoutEnds, TimesOut, EngineType
  <2>2. \A q \in Request : outcome'[q] = "completed" => outcome[q] = "completed"
    BY <1>0, <1>2 DEF TimeoutEnds, TimesOut, End, EngineType
  <2>3. GenuineResult' /\ CacheGenuine'
    BY <1>1, <1>2, <2>2, GenuineKeeps DEF TimeoutEnds, providerVars
  <2>4. QED  BY <1>2, <2>1, <2>3 DEF TimeoutEnds, providerVars, Shape
<1>3. CASE TimeoutIgnored(r)
  <2>1. /\ UNCHANGED <<stage, shown, outcome, call, cache>> /\ stage[r] = "agent"
    BY <1>3 DEF TimeoutIgnored, providerVars
  <2>2. EngineType'
    BY <1>0, <1>1, <2>1 DEF EngineType
  <2>3. ASSUME NEW q \in Request PROVE (Position(q) /\ Honest(q) /\ Earned(q))'
    <3>1. Position(q) /\ Honest(q) /\ Earned(q)
      BY DEF EngineInv
    <3>2. expired[q] => expired'[q]
      BY <1>1
    <3>3. QED  BY <1>1, <2>1, <3>1, <3>2 DEF Position, Honest, Earned, Active
  <2>4. QED  BY <1>1, <2>1, <2>2, <2>3, QuietKeeps DEF EngineInv
<1>4. CASE TimeoutInCall(r)
  BY <1>1, <1>4, RaisesKeeps DEF TimeoutInCall
<1>5. QED  BY <1>2, <1>3, <1>4 DEF Timeout

LEMMA CancelInv ==
  ASSUME IInv, NEW r \in Request, Cancel(r)
  PROVE  IInv'
<1> USE DEF IInv
<1>1. /\ UNCHANGED <<stage, attempt, expired, shown, outcome, answered, call, cache>>
      /\ cancelled' = [cancelled EXCEPT ![r] = TRUE]
  BY DEF Cancel, providerVars
<1>2. EngineType'
  BY <1>1 DEF EngineInv, EngineType
<1>3. ASSUME NEW q \in Request PROVE (Position(q) /\ Honest(q) /\ Earned(q))'
  <2>1. Position(q) /\ Honest(q) /\ Earned(q)
    BY DEF EngineInv
  <2>2. cancelled[q] => cancelled'[q]
    BY <1>1 DEF EngineInv, EngineType
  <2>3. QED  BY <1>1, <2>1, <2>2 DEF Position, Honest, Earned, Active
<1>4. QED  BY <1>1, <1>2, <1>3, QuietKeeps DEF EngineInv

\* Whatever the registry, the limiters and time do, nothing is added to the cache.
LEMMA ChangeInv ==
  ASSUME IInv, ProvidersChange, UNCHANGED engineVars
  PROVE  IInv'
<1> USE DEF IInv
<1>1. call' = call
  BY DEF ProvidersChange, Register, Unregister, Probe, Refill, CacheExpires
<1>2. \/ cache' = cache
      \/ \E k \in Key : cache' = [cache EXCEPT ![k] = "none"]
  BY DEF ProvidersChange, Register, Unregister, Probe, Refill, CacheExpires
<1>3. Shape'
  BY <1>1, <1>2 DEF Shape
<1>4. EngineInv'
  BY DEF engineVars, EngineInv, EngineType, Position, Honest, Earned, Active
<1>5. \A k \in Key : cache'[k] = "answered" => cache[k] = "answered"
  BY <1>2 DEF Shape
<1>6. GenuineResult' /\ CacheGenuine'
  BY <1>5, GenuineKeeps DEF engineVars
<1>7. QED  BY <1>3, <1>4, <1>6

LEMMA NextInv ==
  ASSUME IInv, EngineAssumption, [Next]_vars
  PROVE  IInv'
<1>1. CASE \E r \in Request : Progress(r) \/ Timeout(r) \/ Cancel(r)
  BY <1>1, ProgressInv, TimeoutInv, CancelInv
<1>2. CASE ProvidersChange /\ UNCHANGED engineVars
  BY <1>2, ChangeInv
<1>3. CASE UNCHANGED vars
  <2>1. UNCHANGED <<call, cache>> /\ UNCHANGED engineVars
    BY <1>3 DEF vars, providerVars
  <2>2. EngineInv'
    BY <2>1 DEF IInv, engineVars, EngineInv, EngineType, Position, Honest, Earned, Active
  <2>3. QED  BY <2>1, <2>2, QuietKeeps DEF engineVars
<1>4. QED  BY <1>1, <1>2, <1>3 DEF Next

-----------------------------------------------------------------------------
(* Theorems *)

LEMMA Invariant == Spec => []IInv
<1>1. Init => IInv
  BY InitInv, EngineAssumption
<1>2. IInv /\ [Next]_vars => IInv'
  BY NextInv, EngineAssumption
<1>3. QED  BY <1>1, <1>2, PTL DEF Spec

\* The engine's variables and the cache keep their types.
THEOREM TypeCorrect == Spec => []TypeOK
<1>1. IInv => TypeOK
  BY DEF IInv, Shape, EngineInv, EngineType, TypeOK
<1>2. QED  BY <1>1, Invariant, PTL

\* For any number of requests, providers and attempts: a request completes only
\* with what an agent or a provider answered successfully, to it or to a request
\* that shares its cache key.
THEOREM ResultsAreGenuine == Spec => []GenuineResult
<1>1. IInv => GenuineResult
  BY DEF IInv
<1>2. QED  BY <1>1, Invariant, PTL

\* A failure needs max_attempts attempts, a timeout an elapsed timer and a
\* cancellation a cancel(); the state store never contradicts what execute()
\* returned or raised, and shows no end before there is one, except for an
\* earlier attempt's failure.
THEOREM OutcomesAreHonest == Spec => []OutcomeHonest
<1>1. IInv => OutcomeEarned
  BY DEF IInv, EngineInv, Earned, OutcomeEarned
<1>2. IInv => StatusHonest
  BY DEF IInv, EngineInv, Honest, StatusHonest
<1>3. QED  BY <1>1, <1>2, Invariant, PTL DEF OutcomeHonest

\* A request moves by steps of its own only.
LEMMA OthersStay ==
  ASSUME IInv, NEW q \in Request, NEW r \in Request, q # r,
         Progress(q) \/ Timeout(q) \/ Cancel(q)
  PROVE  stage'[r] = stage[r]
<1>1. stage \in [Request -> Stage]
  BY DEF IInv, EngineInv, EngineType
<1>2. ASSUME NEW how, NEW status, End(q, how, status) PROVE stage'[r] = stage[r]
  BY <1>1, <1>2 DEF End
<1>3. ASSUME Fails(q) PROVE stage'[r] = stage[r]
  BY <1>1, <1>2, <1>3 DEF Fails, FailsIn
<1>4. ASSUME NEW pc, pc \in CallState \ {"idle"}, AfterCall(q, pc) PROVE stage'[r] = stage[r]
  <2>1. CASE pc \in {"calling", "backoff"}
    BY <1>1, <1>4, <2>1 DEF AfterCall
  <2>2. CASE pc = "answered"
    BY <1>2, <1>4, <2>2 DEF AfterCall, Completes
  <2>3. CASE pc \in {"refused", "exhausted"}
    BY <1>3, <1>4, <2>3 DEF AfterCall
  <2>4. CASE pc = "aborted"
    BY <1>2, <1>4, <2>4 DEF AfterCall, TimesOut
  <2> QED BY <1>4, <2>1, <2>2, <2>3, <2>4 DEF CallState
<1>5. ASSUME CallProviders(q) PROVE stage'[r] = stage[r]
  <2>1. call'[q].pc \in CallState \ {"idle"}
    BY <1>5, ExecuteShape DEF IInv, CallProviders, CallState
  <2> QED BY <1>4, <1>5, <2>1 DEF CallProviders
<1>6. ASSUME ProviderRaises(q) \/ TimeoutInCall(q) PROVE stage'[r] = stage[r]
  <2>1. call'[q].pc \in CallState \ {"idle"}
    BY <1>6, RaisesShape DEF IInv, ProviderRaises, TimeoutInCall, CallState
  <2> QED BY <1>4, <1>6, <2>1 DEF ProviderRaises, TimeoutInCall
<1>7. ASSUME NEW how \in {"answered", "refused"}, ProviderAnswers(q, how)
      PROVE  stage'[r] = stage[r]
  BY <1>4, <1>7 DEF ProviderAnswers, CallState
<1>8. ASSUME \/ PlanningCancelled(q) \/ AgentAnswers(q) \/ TimeoutEnds(q)
             \/ AgentRaises(q) \/ PlannedProvider(q)
      PROVE  stage'[r] = stage[r]
  BY <1>2, <1>3, <1>8
  DEF PlanningCancelled, PlannedProvider, AgentAnswers, TimeoutEnds, AgentRaises, Cancels, Completes, TimesOut
<1>9. ASSUME BeginAttempt(q) PROVE stage'[r] = stage[r]
  BY <1>1, <1>2, <1>9 DEF BeginAttempt, Cancels, FailsIn
<1>10. ASSUME PlannedFallback(q) PROVE stage'[r] = stage[r]
  BY <1>1, <1>5, <1>10 DEF PlannedFallback
<1>11. ASSUME \/ Start(q) \/ PlannedAgent(q) \/ RetryDelayEnds(q)
              \/ TimeoutIgnored(q) \/ Cancel(q)
       PROVE  stage'[r] = stage[r]
  BY <1>1, <1>11
  DEF Start, PlannedAgent, RetryDelayEnds, TimeoutIgnored, Cancel, engineVars
<1> QED
  BY <1>6, <1>7, <1>8, <1>9, <1>10, <1>11 DEF Progress, Timeout

\* A cancelled request that is still planning is handed to nobody.
THEOREM CancelledIsHandedToNobody == Spec => CancelStopsNewWork
<1>1. ASSUME IInv, [Next]_vars,
             NEW r \in Request, cancelled[r], stage[r] = "planning", stage'[r] # "planning"
      PROVE  outcome'[r] \in {"cancelled", "timed out"}
  <2>1. outcome \in [Request -> {"none", "completed", "failed", "timed out", "cancelled"}]
    BY <1>1 DEF IInv, EngineInv, EngineType
  <2>2. ASSUME NEW q \in Request, q # r, Progress(q) \/ Timeout(q) \/ Cancel(q)
        PROVE  stage'[r] = stage[r]
    BY <1>1, <2>2, OthersStay
  <2>3. CASE Progress(r)
    <3>1. PlanningCancelled(r)
      BY <1>1, <2>3 DEF Progress, Start, BeginAttempt, PlannedAgent, PlannedFallback,
        PlannedProvider, Planning, AgentAnswers, AgentRaises,
        ProviderAnswers, ProviderRaises, RetryDelayEnds
    <3> QED BY <2>1, <3>1 DEF PlanningCancelled, Cancels, End
  <2>4. CASE Timeout(r)
    <3>1. TimeoutEnds(r)
      BY <1>1, <2>4 DEF Timeout, TimeoutIgnored, TimeoutInCall
    <3> QED BY <2>1, <3>1 DEF TimeoutEnds, TimesOut, End
  <2>5. CASE Cancel(r) \/ UNCHANGED stage
    BY <1>1, <2>5 DEF Cancel
  <2> QED
    BY <1>1, <2>2, <2>3, <2>4, <2>5 DEF Next, engineVars, vars
<1>2. ASSUME IInv, [Next]_vars
      PROVE  [\A r \in Request :
                cancelled[r] /\ stage[r] = "planning" /\ stage'[r] # "planning"
                => outcome'[r] \in {"cancelled", "timed out"}]_vars
  BY <1>1, <1>2
<1>3. QED  BY <1>2, Invariant, PTL DEF Spec, CancelStopsNewWork

-----------------------------------------------------------------------------
(* The order in which providers are tried *)

\* A non-empty set of naturals has a least element.
LEMMA LeastOf ==
  ASSUME NEW S \in SUBSET Nat, S # {}
  PROVE  \E m \in S : \A n \in S : ~(n < m)
<1> DEFINE R == OpToRel(<, Nat)
<1>1. PICK m \in S : \A n \in S : <<n, m>> \notin R
  <2>1. IsWellFoundedOn(R, Nat)
    BY NatLessThanWellFounded
  <2> HIDE DEF R
  <2> QED BY <2>1, WFMin
<1> QED BY <1>1 DEF OpToRel

\* Induction, with the property given as the set of naturals that have it.
LEMMA InductionOnNat ==
  ASSUME NEW S, 0 \in S, \A n \in Nat : n \in S => n + 1 \in S
  PROVE  Nat \subseteq S
<1> DEFINE T == Nat \ S
<1> SUFFICES ASSUME T # {} PROVE FALSE
  OBVIOUS
<1>1. PICK m \in T : \A n \in T : ~(n < m)
  <2>1. T \in SUBSET Nat
    OBVIOUS
  <2> HIDE DEF T
  <2> QED BY <2>1, LeastOf
<1>2. m \in Nat /\ m # 0
  OBVIOUS
<1>3. m - 1 \in S
  BY <1>1, <1>2
<1> QED BY <1>2, <1>3

\* When every set of elements has a first one, the elements of a sequence
\* without repetitions can be put in order.
LEMMA OrderExists ==
  ASSUME NEW S, NEW R,
         \A T \in SUBSET S : T # {} => \E m \in T : \A y \in T \ {m} : <<m, y>> \in R
  PROVE  \A n \in Nat : \A g \in [1 .. n -> S] : IsInjective(g) =>
           \E s \in [1 .. n -> Range(g)] :
             /\ Range(s) = Range(g)
             /\ \A i, j \in 1 .. n : i < j => <<s[i], s[j]>> \in R
<1> DEFINE Sorted(n, g) == \E s \in [1 .. n -> Range(g)] :
             /\ Range(s) = Range(g)
             /\ \A i, j \in 1 .. n : i < j => <<s[i], s[j]>> \in R
           N == {n \in Nat : \A g \in [1 .. n -> S] : IsInjective(g) => Sorted(n, g)}
<1>1. 0 \in N
  <2> SUFFICES ASSUME NEW g \in [1 .. 0 -> S] PROVE Sorted(0, g)
    OBVIOUS
  <2>1. 1 .. 0 = {}
    OBVIOUS
  <2>2. g \in [1 .. 0 -> Range(g)]
    BY <2>1
  <2> QED BY <2>1, <2>2
<1>2. ASSUME NEW n \in Nat, n \in N PROVE n + 1 \in N
  <2> SUFFICES ASSUME NEW g \in [1 .. n + 1 -> S], IsInjective(g) PROVE Sorted(n + 1, g)
    BY <1>2
  <2>1. \A i, j \in 1 .. n + 1 : g[i] = g[j] => i = j
    BY DEF IsInjective
  <2>2. Range(g) \in SUBSET S /\ Range(g) # {} /\ \A i \in 1 .. n + 1 : g[i] \in Range(g)
    <3>1. g[1] \in Range(g)
      BY DEF Range
    <3> QED BY <3>1 DEF Range
  <2>3. PICK m \in Range(g) : \A y \in Range(g) \ {m} : <<m, y>> \in R
    BY <2>2
  <2>4. PICK k \in 1 .. n + 1 : g[k] = m
    BY <2>3 DEF Range
  <2> DEFINE h == [i \in 1 .. n |-> IF i < k THEN g[i] ELSE g[i + 1]]
  <2>5. h \in [1 .. n -> S] /\ \A i \in 1 .. n : h[i] = IF i < k THEN g[i] ELSE g[i + 1]
    OBVIOUS
  <2>6. IsInjective(h)
    <3> SUFFICES ASSUME NEW i \in 1 .. n, NEW j \in 1 .. n, h[i] = h[j] PROVE i = j
      BY <2>5 DEF IsInjective
    <3> QED BY <2>1, <2>5
  <2>7. Range(h) = Range(g) \ {m}
    <3>1. ASSUME NEW i \in 1 .. n PROVE h[i] \in Range(g) \ {m}
      BY <2>1, <2>2, <2>4, <2>5
    <3>2. ASSUME NEW y \in Range(g) \ {m} PROVE y \in Range(h)
      <4>1. PICK j \in 1 .. n + 1 : g[j] = y
        BY DEF Range
      <4>2. CASE j < k
        <5>1. j \in 1 .. n /\ h[j] = y
          BY <2>5, <4>1, <4>2
        <5> QED BY <2>5, <5>1 DEF Range
      <4>3. CASE j > k
        <5>1. j - 1 \in 1 .. n /\ h[j - 1] = y
          BY <2>5, <4>1, <4>3
        <5> QED BY <2>5, <5>1 DEF Range
      <4> QED BY <2>4, <4>1, <4>2, <4>3
    <3> QED BY <2>5, <3>1, <3>2 DEF Range
  <2>8. Sorted(n, h)
    BY <1>2, <2>5, <2>6
  <2>9. PICK s \in [1 .. n -> Range(h)] :
          /\ Range(s) = Range(h)
          /\ \A i, j \in 1 .. n : i < j => <<s[i], s[j]>> \in R
    BY <2>8
  <2> HIDE DEF h
  <2> DEFINE t == [i \in 1 .. n + 1 |-> IF i = 1 THEN m ELSE s[i - 1]]
  <2>10. \A i \in 1 .. n + 1 : /\ i = 1 => t[i] = m
                               /\ i # 1 => i - 1 \in 1 .. n /\ t[i] = s[i - 1]
    OBVIOUS
  <2>11. DOMAIN t = 1 .. n + 1
    OBVIOUS
  <2> HIDE DEF t
  <2>12. \A i \in 1 .. n + 1 : t[i] \in Range(g)
    BY <2>3, <2>7, <2>9, <2>10
  <2>13. t \in [1 .. n + 1 -> Range(g)]
    <3>1. t = [i \in 1 .. n + 1 |-> t[i]]
      BY <2>11 DEF t
    <3> QED BY <2>12, <3>1
  <2>14. Range(t) = Range(g)
    <3>1. ASSUME NEW y \in Range(g) PROVE y \in Range(t)
      <4>1. CASE y = m
        <5>1. 1 \in 1 .. n + 1 /\ t[1] = y
          BY <2>10, <4>1
        <5> QED BY <2>11, <5>1 DEF Range
      <4>2. CASE y # m
        <5>1. PICK i \in 1 .. n : s[i] = y
          BY <2>7, <2>9, <4>2 DEF Range
        <5>2. i + 1 \in 1 .. n + 1 /\ i + 1 # 1 /\ (i + 1) - 1 = i
          OBVIOUS
        <5> QED BY <2>10, <2>11, <5>1, <5>2 DEF Range
      <4> QED BY <4>1, <4>2
    <3> QED BY <2>11, <2>12, <3>1 DEF Range
  <2>15. ASSUME NEW i \in 1 .. n + 1, NEW j \in 1 .. n + 1, i < j
         PROVE  <<t[i], t[j]>> \in R
    <3>1. j # 1 /\ j - 1 \in 1 .. n /\ t[j] = s[j - 1]
      BY <2>10, <2>15
    <3>2. CASE i = 1
      <4>1. s[j - 1] \in Range(g) \ {m}
        BY <2>7, <2>9, <3>1
      <4> QED BY <2>3, <2>10, <3>1, <3>2, <4>1
    <3>3. CASE i # 1
      <4>1. i - 1 \in 1 .. n /\ t[i] = s[i - 1] /\ i - 1 < j - 1
        BY <2>10, <2>15, <3>3
      <4> QED BY <2>9, <3>1, <4>1
    <3> QED BY <3>2, <3>3
  <2> QED BY <2>13, <2>14, <2>15
<1>3. Nat \subseteq N
  <2> HIDE DEF N
  <2> QED BY <1>1, <1>2, InductionOnNat
<1> QED BY <1>3
\* Of any records, one comes before all others: the least rank, then the fewest
\* failures, then the first place.
LEMMA RankedIsOrdered ==
  ASSUME failures \in [Record -> Nat], NEW place \in [Record -> Nat],
         NEW T \in SUBSET Record, T # {},
         \A x, y \in T : place[x] = place[y] => x = y
  PROVE  \E m \in T : \A y \in T \ {m} :
           \/ RankedBefore(m, y)
           \/ ~RankedBefore(y, m) /\ place[m] < place[y]
<1> DEFINE rank(x) == IF health[x] = "healthy" THEN 0 ELSE 1
           A == {x \in T : \A y \in T : ~(rank(y) < rank(x))}
           B == {x \in A : \A y \in A : ~(failures[y] < failures[x])}
<1>1. A # {}
  <2>1. {rank(x) : x \in T} \in SUBSET Nat /\ {rank(x) : x \in T} # {}
    OBVIOUS
  <2>2. PICK n \in {rank(x) : x \in T} : \A k \in {rank(x) : x \in T} : ~(k < n)
    BY <2>1, LeastOf
  <2> QED BY <2>2
<1>2. B # {}
  <2> HIDE DEF A
  <2>1. A \subseteq Record
    BY DEF A
  <2>2. {failures[x] : x \in A} \in SUBSET Nat /\ {failures[x] : x \in A} # {}
    BY <1>1, <2>1
  <2>3. PICK n \in {failures[x] : x \in A} : \A k \in {failures[x] : x \in A} : ~(k < n)
    BY <2>2, LeastOf
  <2> QED BY <2>3
<1>3. PICK m \in B : \A y \in B : ~(place[y] < place[m])
  <2> HIDE DEF B
  <2>1. B \subseteq Record
    BY DEF B
  <2>2. {place[x] : x \in B} \in SUBSET Nat /\ {place[x] : x \in B} # {}
    BY <1>2, <2>1
  <2>3. PICK n \in {place[x] : x \in B} : \A k \in {place[x] : x \in B} : ~(k < n)
    BY <2>2, LeastOf
  <2> QED BY <2>3
<1>4. ASSUME NEW y \in T \ {m}
      PROVE  \/ RankedBefore(m, y)
             \/ ~RankedBefore(y, m) /\ place[m] < place[y]
  <2>1. /\ m \in Record /\ y \in Record /\ m # y
        /\ failures[m] \in Nat /\ failures[y] \in Nat
        /\ place[m] \in Nat /\ place[y] \in Nat /\ place[m] # place[y]
        /\ rank(m) \in Nat /\ rank(y) \in Nat
    OBVIOUS
  <2>2. ~(rank(y) < rank(m))
    OBVIOUS
  <2>3. CASE rank(m) < rank(y)
    BY <2>3 DEF RankedBefore
  <2>4. CASE rank(m) = rank(y)
    <3>1. y \in A /\ ~(failures[y] < failures[m])
      BY <2>4
    <3>2. CASE failures[m] < failures[y]
      BY <2>4, <3>2 DEF RankedBefore
    <3>3. CASE failures[m] = failures[y]
      <4>1. y \in B
        BY <3>1, <3>3
      <4>2. place[m] < place[y]
        BY <1>3, <2>1, <4>1
      <4>3. ~RankedBefore(y, m)
        BY <2>1, <2>4, <3>3 DEF RankedBefore
      <4> QED BY <4>2, <4>3
    <3> QED BY <2>1, <3>1, <3>2, <3>3
  <2> QED BY <2>1, <2>2, <2>3, <2>4
<1> QED BY <1>4

\* Sorting loses and adds nothing.
LEMMA RankedFacts ==
  ASSUME failures \in [Record -> Nat], NEW recs \in Seq(Record), IsInjective(recs)
  PROVE  /\ Ranked(recs) \in Seq(Record)
         /\ Range(Ranked(recs)) = Range(recs)
         /\ Len(Ranked(recs)) = Len(recs)
<1> DEFINE S == Range(recs)
           n == Len(recs)
           place(rec) == CHOOSE i \in DOMAIN recs : recs[i] = rec
           before(x, y) == \/ RankedBefore(x, y)
                           \/ ~RankedBefore(y, x) /\ place(x) < place(y)
           Good(s) == /\ Range(s) = Range(recs)
                      /\ \A i, j \in DOMAIN recs : i < j => before(s[i], s[j])
           R == {z \in S \X S : before(z[1], z[2])}
           at == [x \in Record |-> IF x \in S THEN place(x) ELSE 0]
<1>1. /\ n \in Nat /\ DOMAIN recs = 1 .. n /\ recs \in [1 .. n -> S] /\ S \subseteq Record
      /\ \A x \in S : place(x) \in 1 .. n /\ recs[place(x)] = x
  <2>1. n \in Nat /\ DOMAIN recs = 1 .. n /\ recs \in [1 .. n -> Record]
    OBVIOUS
  <2>2. \A x \in S : \E i \in DOMAIN recs : recs[i] = x
    BY DEF Range
  <2>3. \A x \in S : place(x) \in DOMAIN recs /\ recs[place(x)] = x
    BY <2>2
  <2>4. S \subseteq Record /\ \A i \in 1 .. n : recs[i] \in S
    BY <2>1 DEF Range
  <2> QED BY <2>1, <2>3, <2>4
<1>2. at \in [Record -> Nat] /\ \A x \in S : at[x] = place(x)
  BY <1>1
<1> HIDE DEF at, place
<1>3. \A T \in SUBSET S : T # {} => \E m \in T : \A y \in T \ {m} : <<m, y>> \in R
  <2> SUFFICES ASSUME NEW T \in SUBSET S, T # {}
               PROVE  \E m \in T : \A y \in T \ {m} : <<m, y>> \in R
    OBVIOUS
  <2>1. T \in SUBSET Record /\ \A x, y \in T : at[x] = at[y] => x = y
    BY <1>1, <1>2
  <2>2. PICK m \in T : \A y \in T \ {m} :
           \/ RankedBefore(m, y)
           \/ ~RankedBefore(y, m) /\ at[m] < at[y]
    BY <1>2, <2>1, RankedIsOrdered
  <2>3. \A y \in T \ {m} : before(m, y)
    BY <1>2, <2>2
  <2> QED BY <2>3
<1>4. \E s \in [1 .. n -> S] : /\ Range(s) = S
                               /\ \A i, j \in 1 .. n : i < j => <<s[i], s[j]>> \in R
  <2> HIDE DEF R, n, S
  <2>1. S = Range(recs)
    BY DEF S
  <2> QED BY <1>1, <1>3, <2>1, OrderExists
<1>5. \E s \in [DOMAIN recs -> Range(recs)] : Good(s)
  <2>1. PICK s \in [1 .. n -> S] : /\ Range(s) = S
                                   /\ \A i, j \in 1 .. n : i < j => <<s[i], s[j]>> \in R
    BY <1>4
  <2>2. \A i, j \in 1 .. n : i < j => before(s[i], s[j])
    BY <2>1
  <2>3. s \in [DOMAIN recs -> Range(recs)] /\ Range(s) = Range(recs)
    BY <1>1, <2>1
  <2>4. \A i, j \in DOMAIN recs : i < j => before(s[i], s[j])
    BY <1>1, <2>2
  <2> HIDE DEF before
  <2> QED BY <2>3, <2>4
<1>6. Ranked(recs) = CHOOSE s \in [DOMAIN recs -> Range(recs)] : Good(s)
  BY DEF Ranked, place
<1>7. Ranked(recs) \in [DOMAIN recs -> Range(recs)] /\ Good(Ranked(recs))
  <2> HIDE DEF Good
  <2> QED BY <1>5, <1>6
<1>8. Ranked(recs) \in [1 .. n -> Record] /\ Range(Ranked(recs)) = Range(recs)
  BY <1>1, <1>7
<1>9. ASSUME NEW k \in Nat, NEW f \in [1 .. k -> Record]
      PROVE  f \in Seq(Record) /\ Len(f) = k
  OBVIOUS
<1> HIDE DEF n
<1>10. Ranked(recs) \in Seq(Record) /\ Len(Ranked(recs)) = n
  BY <1>1, <1>8, <1>9
<1> QED BY <1>8, <1>10 DEF n

\* A name taken out of the registry leaves the others.
LEMMA RemoveFirstFacts ==
  ASSUME NEW S, NEW s \in Seq(S), IsInjective(s), NEW p \in Range(s)
  PROVE  /\ RemoveFirst(s, p) \in Seq(S)
         /\ IsInjective(RemoveFirst(s, p))
         /\ Range(RemoveFirst(s, p)) = Range(s) \ {p}
<1> DEFINE n == Len(s)
<1>1. n \in Nat /\ DOMAIN s = 1 .. n /\ \A i \in 1 .. n : s[i] \in S
  OBVIOUS
<1>2. \A i, j \in 1 .. n : s[i] = s[j] => i = j
  BY <1>1 DEF IsInjective
<1>3. PICK k \in 1 .. n : s[k] = p
  BY <1>1 DEF Range
<1>4. RemoveFirst(s, p) = SubSeq(s, 1, k - 1) \o SubSeq(s, k + 1, n)
  <2>1. {i \in 1 .. Len(s) : s[i] = p} = {k}
    BY <1>2, <1>3
  <2>2. Min({k}) = k
    BY <1>3 DEF Min
  <2>3. SelectInSeq(s, LAMBDA v : v = p) = k
    BY <2>1, <2>2 DEF SelectInSeq
  <2> QED BY <1>3, <2>3 DEF RemoveFirst, RemoveAt
<1> DEFINE a == SubSeq(s, 1, k - 1)
           c == SubSeq(s, k + 1, n)
           t == a \o c
<1>5. k \in Nat /\ k # 0 /\ k <= n
  BY <1>1
<1>6. a \in Seq(S) /\ Len(a) = k - 1 /\ \A i \in 1 .. k - 1 : a[i] = s[i]
  BY <1>1, <1>5
<1>7. c \in Seq(S) /\ Len(c) = n - k /\ \A i \in 1 .. n - k : c[i] = s[k + i]
  <2>1. \A i \in k + 1 .. n : s[i] \in S
    BY <1>1, <1>5
  <2>2. k + 1 \in Int /\ n \in Int
    BY <1>1, <1>5
  <2>3. c \in Seq(S) /\ Len(c) = IF k + 1 <= n THEN n - (k + 1) + 1 ELSE 0
    BY <2>1, <2>2, SubSeqProperties
  <2>4. Len(c) = n - k
    <3>1. (IF k + 1 <= n THEN n - (k + 1) + 1 ELSE 0) = n - k
      <4> HIDE DEF n
      <4> QED BY <1>1, <1>5
    <3> QED BY <2>3, <3>1
  <2>5. ASSUME NEW i \in 1 .. n - k PROVE c[i] = s[k + i]
    <3>1. i \in 1 .. n - (k + 1) + 1 /\ (k + 1) + i - 1 = k + i
      BY <1>1, <1>5
    <3>2. c[i] = s[(k + 1) + i - 1]
      BY <1>1, <2>1, <2>2, <3>1, SubSeqProperties
    <3> QED BY <3>1, <3>2
  <2> QED BY <2>3, <2>4, <2>5
<1> HIDE DEF a, c, n
<1>8. t \in Seq(S) /\ Len(t) = n - 1
  <2>1. t \in Seq(S) /\ Len(t) = Len(a) + Len(c)
    BY <1>6, <1>7
  <2>2. (k - 1) + (n - k) = n - 1
    BY <1>1, <1>5
  <2> QED BY <1>6, <1>7, <2>1, <2>2
<1>9. \A i \in 1 .. n - 1 : t[i] = IF i < k THEN s[i] ELSE s[i + 1]
  <2> SUFFICES ASSUME NEW i \in 1 .. n - 1
               PROVE  t[i] = IF i < k THEN s[i] ELSE s[i + 1]
    OBVIOUS
  <2>1. CASE i < k
    BY <1>1, <1>5, <1>6, <1>7, <2>1
  <2>2. CASE ~(i < k)
    <3>1. i - (k - 1) \in 1 .. n - k /\ k + (i - (k - 1)) = i + 1
      BY <1>1, <1>5, <2>2
    <3>2. t[i] = c[i - (k - 1)]
      BY <1>1, <1>5, <1>6, <1>7, <2>2
    <3> QED BY <1>7, <2>2, <3>1, <3>2
  <2> QED BY <2>1, <2>2
<1>10. DOMAIN t = 1 .. n - 1
  BY <1>1, <1>5, <1>8
<1> HIDE DEF t
<1>11. IsInjective(t)
  <2> SUFFICES ASSUME NEW i \in 1 .. n - 1, NEW j \in 1 .. n - 1, t[i] = t[j] PROVE i = j
    BY <1>10 DEF IsInjective
  <2>1. i \in 1 .. n /\ i + 1 \in 1 .. n /\ j \in 1 .. n /\ j + 1 \in 1 .. n
    BY <1>1
  <2> QED BY <1>1, <1>2, <1>5, <1>9, <2>1
<1>12. Range(t) = Range(s) \ {p}
  <2>1. ASSUME NEW i \in 1 .. n - 1 PROVE t[i] \in Range(s) \ {p}
    <3>1. i \in 1 .. n /\ i + 1 \in 1 .. n
      BY <1>1
    <3>2. s[i] \in Range(s) /\ s[i + 1] \in Range(s)
      BY <1>1, <3>1 DEF Range
    <3> QED BY <1>2, <1>3, <1>5, <1>9, <3>1, <3>2
  <2>2. ASSUME NEW y \in Range(s) \ {p} PROVE y \in Range(t)
    <3>1. PICK j \in 1 .. n : s[j] = y
      BY <1>1 DEF Range
    <3>2. CASE j < k
      <4>1. j \in 1 .. n - 1 /\ t[j] = y
        BY <1>1, <1>5, <1>9, <3>1, <3>2
      <4> QED BY <1>10, <4>1 DEF Range
    <3>3. CASE j > k
      <4>1. j - 1 \in 1 .. n - 1 /\ (j - 1) + 1 = j /\ ~(j - 1 < k)
        BY <1>1, <1>5, <3>3
      <4>2. t[j - 1] = y
        BY <1>9, <3>1, <4>1
      <4> QED BY <1>10, <4>1, <4>2 DEF Range
    <3> QED BY <1>1, <1>3, <1>5, <3>1, <3>2, <3>3
  <2> QED BY <1>10, <2>1, <2>2 DEF Range
<1> QED BY <1>4, <1>8, <1>11, <1>12 DEF a, c, t, n
-----------------------------------------------------------------------------
(* The records a call has not asked yet *)

\* What is known of the registry, the counters and the calls.
RegistryInv ==
  /\ registered \in Seq(Provider) /\ IsInjective(registered)
  /\ generation \in [Provider -> 0 .. MaxRegistrations]
  /\ \A p \in Range(registered) : generation[p] > 0

CallsInv ==
  /\ failures \in [Record -> Nat]
  /\ owed \in [Request -> SUBSET Record]
  /\ call \in [Request -> [pc : CallState, todo : Seq(Record), tries : Nat]]

\* Whatever a call under way has not asked yet is among the candidates left.
Pending(r) ==
  call[r].pc \in {"calling", "backoff"} =>
    call[r].todo # <<>> /\ owed[r] \subseteq Range(Tail(call[r].todo))

AskedInv ==
  RegistryInv /\ CallsInv /\ FallbackExhaustive /\ \A r \in Request : Pending(r)

AllRecords == {RecordOf(p) : p \in Range(registered)}

\* Preferring a provider loses and adds nothing.
LEMMA PreferFirstFacts ==
  ASSUME RegistryInv, NEW p
  PROVE  /\ PreferFirst(p) \in Seq(Record)
         /\ IsInjective(PreferFirst(p))
         /\ Range(PreferFirst(p)) = AllRecords
<1> DEFINE rest == RemoveFirst(registered, p)
           names == IF p \in Range(registered) THEN <<p>> \o rest ELSE registered
<1>0. registered \in Seq(Provider) /\ IsInjective(registered) /\ Range(registered) \subseteq Provider
  BY DEF RegistryInv, Range
<1>1. names \in Seq(Provider) /\ IsInjective(names) /\ Range(names) = Range(registered)
  <2>1. CASE p \in Range(registered)
    <3>1. rest \in Seq(Provider) /\ IsInjective(rest) /\ Range(rest) = Range(registered) \ {p}
      BY <1>0, <2>1, RemoveFirstFacts
    <3> HIDE DEF rest
    <3> DEFINE t == <<p>> \o rest
               n == Len(rest)
    <3>2. <<p>> \in Seq(Provider) /\ Len(<<p>>) = 1 /\ <<p>>[1] = p
      BY <1>0, <2>1
    <3>3. t \in Seq(Provider) /\ Len(t) = 1 + n
          /\ \A i \in 1 .. 1 + n : t[i] = IF i <= 1 THEN <<p>>[i] ELSE rest[i - 1]
      BY <3>1, <3>2, ConcatProperties
    <3>4. n \in Nat /\ DOMAIN rest = 1 .. n /\ DOMAIN t = 1 .. n + 1
      BY <3>1, <3>3
    <3> HIDE DEF t, n
    <3>5. \A i \in 1 .. n + 1 : /\ i = 1 => t[i] = p
                                /\ i # 1 => i - 1 \in 1 .. n /\ t[i] = rest[i - 1]
      BY <3>2, <3>3, <3>4
    <3>6. \A i \in 1 .. n : rest[i] \in Range(registered) \ {p}
      BY <3>1, <3>4 DEF Range
    <3>7. IsInjective(t)
      <4> SUFFICES ASSUME NEW i \in 1 .. n + 1, NEW j \in 1 .. n + 1, t[i] = t[j] PROVE i = j
        BY <3>4 DEF IsInjective
      <4>1. \A k, l \in 1 .. n : rest[k] = rest[l] => k = l
        BY <3>1, <3>4 DEF IsInjective
      <4>2. CASE i # 1 /\ j # 1
        <5>1. i - 1 = j - 1
          BY <3>5, <4>1, <4>2
        <5> QED BY <3>4, <5>1
      <4> QED BY <3>5, <3>6, <4>2
    <3>8. Range(t) = Range(registered)
      <4>1. \A i \in 1 .. n + 1 : t[i] \in Range(registered)
        BY <2>1, <3>5, <3>6
      <4>2. ASSUME NEW y \in Range(registered) PROVE y \in Range(t)
        <5>1. CASE y = p
          <6>1. 1 \in 1 .. n + 1 /\ t[1] = y
            BY <3>4, <3>5, <5>1
          <6> QED BY <3>4, <6>1 DEF Range
        <5>2. CASE y # p
          <6>1. PICK i \in 1 .. n : rest[i] = y
            BY <3>1, <3>4, <5>2 DEF Range
          <6>2. i + 1 \in 1 .. n + 1 /\ i + 1 # 1 /\ (i + 1) - 1 = i
            BY <3>4
          <6>3. t[i + 1] = y
            BY <3>5, <6>1, <6>2
          <6> QED BY <3>4, <6>2, <6>3 DEF Range
        <5> QED BY <5>1, <5>2
      <4> QED BY <3>4, <4>1, <4>2 DEF Range
    <3>9. names = t
      BY <2>1 DEF t
    <3> HIDE DEF names
    <3> QED BY <3>3, <3>7, <3>8, <3>9
  <2>2. CASE p \notin Range(registered)
    BY <1>0, <2>2
  <2> QED BY <2>1, <2>2
<1>2. PreferFirst(p) = [i \in DOMAIN names |-> RecordOf(names[i])]
  BY DEF PreferFirst
<1> HIDE DEF names
<1> DEFINE n == Len(names)
<1>3. n \in Nat /\ DOMAIN names = 1 .. n /\ \A i \in 1 .. n : names[i] \in Range(names)
  BY <1>1 DEF Range
<1> HIDE DEF n
<1>4. \A q \in Range(registered) : RecordOf(q) \in Record /\ RecordOf(q)[1] = q
  BY <1>0 DEF RegistryInv, RecordOf, Record
<1>5. PreferFirst(p) \in [1 .. n -> Record]
  BY <1>1, <1>2, <1>3, <1>4
<1>6. IsInjective(PreferFirst(p))
  <2> SUFFICES ASSUME NEW i \in 1 .. n, NEW j \in 1 .. n,
                      RecordOf(names[i]) = RecordOf(names[j])
               PROVE  i = j
    BY <1>2, <1>3 DEF IsInjective
  <2>1. names[i] = names[j]
    BY <1>1, <1>3, <1>4
  <2> QED BY <1>1, <1>3, <2>1 DEF IsInjective
<1>7. Range(PreferFirst(p)) = AllRecords
  <2>1. \A i \in 1 .. n : PreferFirst(p)[i] = RecordOf(names[i])
    BY <1>2, <1>3
  <2>2. Range(PreferFirst(p)) = {RecordOf(names[i]) : i \in 1 .. n}
    BY <1>5, <2>1 DEF Range
  <2>3. Range(names) = {names[i] : i \in 1 .. n}
    BY <1>3 DEF Range
  <2>4. {RecordOf(names[i]) : i \in 1 .. n} = {RecordOf(q) : q \in Range(names)}
    BY <2>3
  <2> QED BY <1>1, <2>2, <2>4 DEF AllRecords
<1>8. PreferFirst(p) \in Seq(Record)
  BY <1>3, <1>5
<1> QED BY <1>6, <1>7, <1>8

\* Every registered provider is a candidate.
LEMMA CandidatesFacts ==
  ASSUME AskedInv, ProviderAssumption, NEW r \in Request, registered # <<>>
  PROVE  /\ Candidates(r) \in Seq(Record)
         /\ Range(Candidates(r)) = AllRecords
<1>1. failures \in [Record -> Nat] /\ RegistryInv
  BY DEF AskedInv, CallsInv
<1>2. ASSUME NEW p \in Provider \cup {NoProvider}
      PROVE  /\ CandidateRecords[p] \in Seq(Record)
             /\ Range(CandidateRecords[p]) = AllRecords
  <2>1. CandidateRecords[p] = Ranked(PreferFirst(p))
    BY DEF CandidateRecords
  <2>2. /\ PreferFirst(p) \in Seq(Record)
        /\ IsInjective(PreferFirst(p))
        /\ Range(PreferFirst(p)) = AllRecords
    BY <1>1, PreferFirstFacts
  <2>3. /\ Ranked(PreferFirst(p)) \in Seq(Record)
        /\ Range(Ranked(PreferFirst(p))) = AllRecords
    BY <1>1, <2>2, RankedFacts
  <2> QED BY <2>1, <2>3
<1>3. Prefers[r] \in Provider \cup {NoProvider}
  BY DEF ProviderAssumption
<1>4. CandidateRecords[Prefers[r]] # <<>>
  <2>1. 1 \in DOMAIN registered
    BY <1>1 DEF RegistryInv
  <2>2. AllRecords # {}
    BY <2>1 DEF AllRecords, Range
  <2> QED BY <1>2, <1>3, <2>2 DEF Range
<1>5. Selected(r) \in Record
  BY <1>2, <1>3, <1>4, HeadTailProperties DEF Selected
<1>6. Selected(r)[1] \in Provider \cup {NoProvider}
  BY <1>5 DEF Record
<1> QED BY <1>2, <1>6 DEF Candidates

\* Going through candidates to the next one with a token: what was owed
\* and is not a candidate any more has been asked or marked.
LEMMA WalkAsks ==
  ASSUME CallsInv, NEW r \in Request, NEW recs \in Seq(Record),
         NEW failed \in SUBSET Record, Walk(r, recs, failed),
         NEW U \in SUBSET Record, U \subseteq Range(recs) \cup failed
  PROVE  /\ failures' \in [Record -> Nat]
         /\ call' \in [Request -> [pc : CallState, todo : Seq(Record), tries : Nat]]
         /\ \A q \in Request \ {r} : call'[q] = call[q]
         /\ call'[r].pc \in {"calling", "exhausted"}
         /\ call'[r].pc = "exhausted" => U \ Touched(r) = {}
         /\ call'[r].pc = "calling" =>
              /\ call'[r].todo # <<>>
              /\ U \ Touched(r) \subseteq Range(Tail(call'[r].todo))
<1> DEFINE free == {i \in DOMAIN recs : tokens[recs[i]] > 0}
           next == IF free = {} THEN Len(recs) + 1
                   ELSE CHOOSE i \in free : \A j \in free : i <= j
           bad == failed \cup {recs[i] : i \in 1 .. (next - 1)}
           n == Len(recs)
<1>1. n \in Nat /\ DOMAIN recs = 1 .. n /\ \A i \in 1 .. n : recs[i] \in Record
  OBVIOUS
<1>2. /\ failures' = [rec \in Record |-> failures[rec] + IF rec \in bad THEN 1 ELSE 0]
      /\ call' = [call EXCEPT ![r] =
                        IF free = {} THEN Ended("exhausted")
                        ELSE [pc |-> "calling", tries |-> 1,
                              todo |-> SubSeq(recs, next, n)]]
  BY DEF Walk
<1>3. /\ free = {} => next = n + 1
      /\ free # {} => next \in 1 .. n
  <2>1. CASE free # {}
    <3>1. free \in SUBSET Nat /\ free \subseteq 1 .. n
      BY <1>1
    <3> HIDE DEF free
    <3>2. \E i \in free : \A j \in free : ~(j < i)
      BY <2>1, <3>1, LeastOf
    <3>3. \E i \in free : \A j \in free : i <= j
      BY <3>1, <3>2
    <3> QED BY <2>1, <3>1, <3>3
  <2> QED BY <2>1
<1> HIDE DEF free, next
<1>4. next \in 1 .. n + 1
  BY <1>1, <1>3
<1>5. failures' \in [Record -> Nat] /\ \A rec \in Record : rec \in bad => failures'[rec] # failures[rec]
  <2> HIDE DEF bad
  <2> QED BY <1>2 DEF CallsInv
<1>6. bad \subseteq Touched(r)
  <2>1. bad \subseteq Record
    BY <1>1, <1>4
  <2> HIDE DEF bad
  <2> QED BY <1>5, <2>1 DEF Touched
<1>7. \A x \in U : x \in bad \/ \E i \in next .. n : x = recs[i]
  <2> SUFFICES ASSUME NEW x \in U, x \notin failed
               PROVE  x \in bad \/ \E i \in next .. n : x = recs[i]
    OBVIOUS
  <2>1. PICK i \in 1 .. n : x = recs[i]
    BY <1>1 DEF Range
  <2>2. CASE i < next
    <3>1. i \in 1 .. (next - 1)
      BY <1>1, <1>4, <2>2
    <3> QED BY <2>1, <3>1
  <2>3. CASE ~(i < next)
    <3>1. i \in next .. n
      BY <1>1, <1>4, <2>3
    <3> QED BY <2>1, <3>1
  <2> QED BY <2>2, <2>3
<1> HIDE DEF bad
<1>8. CASE free = {}
  <2>1. call' = [call EXCEPT ![r] = [pc |-> "exhausted", todo |-> <<>>, tries |-> 0]]
    BY <1>2, <1>8 DEF Ended
  <2>2. next .. n = {}
    BY <1>1, <1>3, <1>8
  <2>3. U \ Touched(r) = {}
    BY <1>6, <1>7, <2>2
  <2>4. <<>> \in Seq(Record) /\ 0 \in Nat /\ "exhausted" \in CallState
    BY DEF CallState
  <2>5. call' \in [Request -> [pc : CallState, todo : Seq(Record), tries : Nat]]
    BY <2>1, <2>4 DEF CallsInv
  <2> QED BY <1>5, <2>1, <2>3, <2>5 DEF CallsInv
<1>9. CASE free # {}
  <2> DEFINE todo == SubSeq(recs, next, n)
  <2>1. call' = [call EXCEPT ![r] = [pc |-> "calling", tries |-> 1, todo |-> todo]]
    BY <1>2, <1>9
  <2>2. next \in 1 .. n /\ n \in next .. n
    BY <1>1, <1>3, <1>9
  <2>3. todo \in Seq(Record) /\ Len(todo) = n - next + 1
    <3>1. \A i \in next .. n : recs[i] \in Record
      BY <1>1, <2>2
    <3>2. next \in Int /\ n \in Int /\ next <= n
      BY <1>1, <2>2
    <3> QED BY <3>1, <3>2, SubSeqProperties
  <2>4. Head(todo) = recs[next] /\ Tail(todo) = SubSeq(recs, next + 1, n)
    BY <1>1, <2>2, HeadTailOfSubSeq
  <2> HIDE DEF todo
  <2>5. todo # <<>>
    BY <1>1, <2>2, <2>3
  <2>6. call' \in [Request -> [pc : CallState, todo : Seq(Record), tries : Nat]]
    BY <2>1, <2>3 DEF CallsInv, CallState
  <2>7. call'[r] = [pc |-> "calling", tries |-> 1, todo |-> todo]
        /\ \A q \in Request \ {r} : call'[q] = call[q]
    BY <2>1 DEF CallsInv
  <2>8. recs[next] \in Touched(r)
    BY <2>4, <2>7 DEF Touched
  <2>9. ASSUME NEW x \in U \ Touched(r) PROVE x \in Range(Tail(todo))
    <3>1. PICK i \in next .. n : x = recs[i]
      BY <1>6, <1>7
    <3>2. i \in next + 1 .. n
      BY <1>1, <2>2, <2>8, <3>1
    <3>3. \A j \in next + 1 .. n : recs[j] \in Record
      BY <1>1, <2>2
    <3>4. next + 1 \in Int /\ n \in Int /\ next + 1 <= n
      BY <1>1, <2>2, <3>2
    <3> DEFINE t == SubSeq(recs, next + 1, n)
               j == i - next
    <3>5. /\ t \in Seq(Record) /\ Len(t) = n - (next + 1) + 1
          /\ \A l \in 1 .. n - (next + 1) + 1 : t[l] = recs[next + 1 + l - 1]
      BY <3>3, <3>4, SubSeqProperties
    <3> HIDE DEF t
    <3>6. j \in 1 .. n - (next + 1) + 1 /\ next + 1 + j - 1 = i
      BY <1>1, <2>2, <3>2
    <3> HIDE DEF j
    <3>7. t[j] = x /\ j \in DOMAIN t
      BY <3>1, <3>5, <3>6
    <3>8. x \in Range(t)
      BY <3>7 DEF Range
    <3> QED BY <2>4, <3>8 DEF t
  <2> QED BY <1>5, <2>5, <2>6, <2>7, <2>9
<1> QED BY <1>8, <1>9
CacheType == cache \in [Key -> {"none", "answered", "refused"}]

\* A step that moves one call and leaves the registry alone.
LEMMA OneCallKeeps ==
  ASSUME AskedInv, NEW r \in Request, NEW U \in SUBSET Record,
         UNCHANGED <<registered, generation>>,
         failures' \in [Record -> Nat],
         call' \in [Request -> [pc : CallState, todo : Seq(Record), tries : Nat]],
         \A q \in Request \ {r} : call'[q] = call[q],
         owed' = [owed EXCEPT ![r] = U],
         call'[r].pc = "exhausted" => U = {},
         call'[r].pc \in {"calling", "backoff"} =>
           call'[r].todo # <<>> /\ U \subseteq Range(Tail(call'[r].todo))
  PROVE  AskedInv'
<1>1. RegistryInv'
  BY DEF AskedInv, RegistryInv
<1>2. /\ owed' \in [Request -> SUBSET Record] /\ owed'[r] = U
      /\ \A q \in Request \ {r} : owed'[q] = owed[q]
  BY DEF AskedInv, CallsInv
<1>3. CallsInv'
  BY <1>2 DEF CallsInv
<1>4. ASSUME NEW q \in Request
      PROVE  Pending(q)' /\ (call'[q].pc = "exhausted" => owed'[q] = {})
  <2>1. CASE q = r
    BY <1>2, <2>1 DEF Pending
  <2>2. CASE q # r
    BY <1>2, <2>2 DEF AskedInv, FallbackExhaustive, Pending
  <2> QED BY <2>1, <2>2
<1>5. FallbackExhaustive'
  BY <1>4 DEF FallbackExhaustive
<1> QED BY <1>1, <1>3, <1>4, <1>5 DEF AskedInv

\* A step that moves no call and no failure count.
LEMMA CallsStay ==
  ASSUME AskedInv, RegistryInv', UNCHANGED <<failures, call, owed>>
  PROVE  AskedInv'
BY DEF AskedInv, CallsInv, FallbackExhaustive, Pending

LEMMA CallBegins ==
  ASSUME AskedInv, CacheType, ProviderAssumption, NEW r \in Request, CallProviders(r)
  PROVE  AskedInv'
<1> DEFINE U == AllRecords \ Touched(r)
<1>1. /\ Execute(r) /\ UNCHANGED <<registered, generation>>
      /\ owed' = [owed EXCEPT ![r] = U]
  BY DEF CallProviders, Execute, AllRecords
<1>2. AllRecords \in SUBSET Record
  <2> SUFFICES ASSUME NEW p \in Range(registered) PROVE RecordOf(p) \in Record
    BY DEF AllRecords
  <2>1. p \in Provider /\ generation[p] \in 0 .. MaxRegistrations /\ generation[p] > 0
        /\ MaxRegistrations \in Nat
    BY DEF AskedInv, RegistryInv, Range, ProviderAssumption
  <2>2. generation[p] \in 1 .. MaxRegistrations
    BY <2>1
  <2> QED BY <2>1, <2>2 DEF RecordOf, Record
<1>3. CallsInv
  BY DEF AskedInv
<1> HIDE DEF U
<1>4. U \in SUBSET Record
  BY <1>2 DEF U
<1>5. CASE registered = <<>> /\ call' = [call EXCEPT ![r] = Ended("exhausted")]
           /\ UNCHANGED failures
  <2>1. U = {}
    BY <1>5 DEF U, AllRecords, Range
  <2>2. Ended("exhausted") = [pc |-> "exhausted", todo |-> <<>>, tries |-> 0]
        /\ Ended("exhausted") \in [pc : CallState, todo : Seq(Record), tries : Nat]
    BY DEF Ended, CallState
  <2>3. call'[r] = Ended("exhausted")
        /\ call' \in [Request -> [pc : CallState, todo : Seq(Record), tries : Nat]]
        /\ \A q \in Request \ {r} : call'[q] = call[q]
    BY <1>3, <1>5, <2>2 DEF CallsInv
  <2>4. failures' \in [Record -> Nat]
    BY <1>3, <1>5 DEF CallsInv
  <2>5. call'[r].pc = "exhausted"
    BY <2>2, <2>3
  <2> QED BY <1>1, <1>4, <2>1, <2>3, <2>4, <2>5, OneCallKeeps
<1>6. CASE Cached(r) /\ call' = [call EXCEPT ![r] = Ended(cache[KeyOf[r]])]
           /\ UNCHANGED failures
  <2> DEFINE how == cache[KeyOf[r]]
  <2>1. how \in {"answered", "refused"}
    BY <1>6 DEF Cached, Key, CacheType
  <2> HIDE DEF how
  <2>2. Ended(how).pc = how
        /\ Ended(how) \in [pc : CallState, todo : Seq(Record), tries : Nat]
    BY <2>1 DEF Ended, CallState
  <2>3. call' = [call EXCEPT ![r] = Ended(how)]
    BY <1>6 DEF how
  <2>4. call'[r] = Ended(how)
        /\ call' \in [Request -> [pc : CallState, todo : Seq(Record), tries : Nat]]
        /\ \A q \in Request \ {r} : call'[q] = call[q]
    BY <1>3, <2>2, <2>3 DEF CallsInv
  <2>5. failures' \in [Record -> Nat]
    BY <1>3, <1>6 DEF CallsInv
  <2>6. call'[r].pc \notin {"exhausted", "calling", "backoff"}
    BY <2>1, <2>2, <2>4
  <2> QED BY <1>1, <1>4, <2>4, <2>5, <2>6, OneCallKeeps
<1>7. CASE registered # <<>> /\ Walk(r, Candidates(r), {})
  <2>1. Candidates(r) \in Seq(Record) /\ Range(Candidates(r)) = AllRecords
    BY <1>7, CandidatesFacts
  <2> DEFINE recs == Candidates(r)
  <2> HIDE DEF recs
  <2>2. recs \in Seq(Record) /\ AllRecords \subseteq Range(recs) \cup {}
        /\ Walk(r, recs, {}) /\ {} \in SUBSET Record
    BY <1>7, <2>1 DEF recs
  <2>3. /\ failures' \in [Record -> Nat]
        /\ call' \in [Request -> [pc : CallState, todo : Seq(Record), tries : Nat]]
        /\ \A q \in Request \ {r} : call'[q] = call[q]
        /\ call'[r].pc \in {"calling", "exhausted"}
        /\ call'[r].pc = "exhausted" => U = {}
        /\ call'[r].pc = "calling" =>
             call'[r].todo # <<>> /\ U \subseteq Range(Tail(call'[r].todo))
    BY ONLY <1>2, <1>3, <2>2, r \in Request, WalkAsks DEF U
  <2> QED BY <1>1, <1>4, <2>3, OneCallKeeps
<1> QED BY <1>1, <1>5, <1>6, <1>7 DEF Execute

LEMMA CallGoesOn ==
  ASSUME AskedInv, NEW r \in Request,
         RaisesRetryable(r) \/ RaisesOther(r) \/ AbortedInBackoff(r),
         NEW W \in SUBSET (owed[r] \ Touched(r)), owed' = [owed EXCEPT ![r] = W]
  PROVE  AskedInv'
<1> DEFINE U == owed[r] \ Touched(r)
<1>1. CallsInv /\ Pending(r) /\ UNCHANGED <<registered, generation>>
  BY DEF AskedInv, RaisesRetryable, RaisesOther, AbortedInBackoff
<1>2. U \in SUBSET Record /\ owed[r] \in SUBSET Record /\ U \subseteq owed[r]
  BY <1>1 DEF CallsInv
<1>3. W \in SUBSET Record /\ W \subseteq U
  BY <1>2
<1>4. call[r] \in [pc : CallState, todo : Seq(Record), tries : Nat]
  BY <1>1 DEF CallsInv
<1>5. CASE call[r].pc = "calling" /\ Walk(r, Tail(call[r].todo), {Head(call[r].todo)})
  <2>1. call[r].todo \in Seq(Record) /\ call[r].todo # <<>>
        /\ owed[r] \subseteq Range(Tail(call[r].todo))
    BY <1>1, <1>4, <1>5 DEF Pending
  <2>2. Head(call[r].todo) \in Record /\ Tail(call[r].todo) \in Seq(Record)
    BY <2>1, HeadTailProperties
  <2> DEFINE recs == Tail(call[r].todo)
             failed == {Head(call[r].todo)}
             V == owed[r]
  <2>3. recs \in Seq(Record) /\ failed \in SUBSET Record /\ V \in SUBSET Record
        /\ V \subseteq Range(recs) \cup failed /\ Walk(r, recs, failed)
        /\ U = V \ Touched(r)
    BY <1>2, <1>5, <2>1, <2>2
  <2> HIDE DEF recs, failed, V, U
  <2>4. /\ failures' \in [Record -> Nat]
        /\ call' \in [Request -> [pc : CallState, todo : Seq(Record), tries : Nat]]
        /\ \A q \in Request \ {r} : call'[q] = call[q]
        /\ call'[r].pc \in {"calling", "exhausted"}
        /\ call'[r].pc = "exhausted" => U = {}
        /\ call'[r].pc = "calling" =>
             call'[r].todo # <<>> /\ U \subseteq Range(Tail(call'[r].todo))
    BY ONLY <1>1, <2>3, r \in Request, WalkAsks
  <2>5. /\ call'[r].pc = "exhausted" => W = {}
        /\ call'[r].pc = "calling" => W \subseteq Range(Tail(call'[r].todo))
    BY <1>3, <2>4
  <2> QED BY <1>1, <1>2, <1>3, <2>4, <2>5, OneCallKeeps
<1>6. CASE call[r].pc = "calling" /\ call' = [call EXCEPT ![r].pc = "backoff"] /\ UNCHANGED failures
  <2>1. call' \in [Request -> [pc : CallState, todo : Seq(Record), tries : Nat]]
        /\ call'[r].pc = "backoff" /\ call'[r].todo = call[r].todo
        /\ \A q \in Request \ {r} : call'[q] = call[q]
    BY <1>1, <1>4, <1>6 DEF CallsInv, CallState
  <2>2. call[r].todo # <<>> /\ W \subseteq Range(Tail(call[r].todo))
    BY <1>1, <1>2, <1>3, <1>6 DEF Pending
  <2>3. failures' \in [Record -> Nat]
    BY <1>1, <1>6 DEF CallsInv
  <2> HIDE DEF U
  <2> QED BY <1>1, <1>2, <1>3, <2>1, <2>2, <2>3, OneCallKeeps
<1>7. CASE call' = [call EXCEPT ![r] = Ended("aborted")] /\ UNCHANGED failures
  <2>1. Ended("aborted").pc = "aborted"
        /\ Ended("aborted") \in [pc : CallState, todo : Seq(Record), tries : Nat]
    BY DEF Ended, CallState
  <2>2. call' \in [Request -> [pc : CallState, todo : Seq(Record), tries : Nat]]
        /\ call'[r].pc = "aborted"
        /\ \A q \in Request \ {r} : call'[q] = call[q]
    BY <1>1, <1>7, <2>1 DEF CallsInv
  <2>3. failures' \in [Record -> Nat]
    BY <1>1, <1>7 DEF CallsInv
  <2> HIDE DEF U
  <2> QED BY <1>1, <1>2, <1>3, <2>2, <2>3, OneCallKeeps
<1> QED BY <1>5, <1>6, <1>7 DEF RaisesRetryable, RaisesOther, AbortedInBackoff

LEMMA CallEnds ==
  ASSUME AskedInv, NEW r \in Request, NEW how \in {"answered", "refused"},
         Answered(r, how), UNCHANGED owed
  PROVE  AskedInv'
<1>1. CallsInv
  BY DEF AskedInv
<1>2. Ended(how).pc = how
      /\ Ended(how) \in [pc : CallState, todo : Seq(Record), tries : Nat]
  BY DEF Ended, CallState
<1>3. call' \in [Request -> [pc : CallState, todo : Seq(Record), tries : Nat]]
      /\ call'[r].pc = how
      /\ \A q \in Request \ {r} : call'[q] = call[q]
  BY <1>1, <1>2 DEF Answered, CallsInv
<1>4. owed' = [owed EXCEPT ![r] = owed[r]] /\ owed[r] \in SUBSET Record
  BY <1>1 DEF CallsInv
<1>5. UNCHANGED <<registered, generation>> /\ failures' \in [Record -> Nat]
  BY <1>1 DEF Answered, CallsInv
<1> QED BY <1>3, <1>4, <1>5, OneCallKeeps

LEMMA BackoffKeeps ==
  ASSUME AskedInv, NEW r \in Request, BackoffEnds(r), UNCHANGED owed
  PROVE  AskedInv'
<1>1. CallsInv /\ Pending(r) /\ call[r].pc = "backoff"
  BY DEF AskedInv, BackoffEnds
<1> DEFINE c == [pc |-> "calling", todo |-> call[r].todo, tries |-> call[r].tries + 1]
<1>2. c \in [pc : CallState, todo : Seq(Record), tries : Nat]
  <2>1. call[r] \in [pc : CallState, todo : Seq(Record), tries : Nat]
    BY <1>1 DEF CallsInv
  <2> QED BY <2>1 DEF CallState
<1>3. c.pc = "calling" /\ c.todo = call[r].todo /\ call' = [call EXCEPT ![r] = c]
  BY DEF BackoffEnds
<1> HIDE DEF c
<1>4. call' \in [Request -> [pc : CallState, todo : Seq(Record), tries : Nat]]
      /\ call'[r] = c
      /\ \A q \in Request \ {r} : call'[q] = call[q]
  BY <1>1, <1>2, <1>3 DEF CallsInv
<1>5. owed' = [owed EXCEPT ![r] = owed[r]] /\ owed[r] \in SUBSET Record
  BY <1>1 DEF CallsInv
<1>6. UNCHANGED <<registered, generation>> /\ failures' \in [Record -> Nat]
  BY <1>1 DEF BackoffEnds, CallsInv
<1>7. call[r].todo # <<>> /\ owed[r] \subseteq Range(Tail(call[r].todo))
  BY <1>1 DEF Pending
<1> QED BY <1>3, <1>4, <1>5, <1>6, <1>7, OneCallKeeps

\* However providers come and go, a name stands once in the dictionary.
LEMMA RegistryKeeps ==
  ASSUME RegistryInv, ProviderAssumption, ProvidersChange
  PROVE  RegistryInv'
<1>1. CASE UNCHANGED <<registered, generation>>
  BY <1>1 DEF RegistryInv
<1>2. ASSUME NEW p \in Provider, Register(p) PROVE RegistryInv'
  <2>1. generation' = [generation EXCEPT ![p] = generation[p] + 1] /\ generation[p] < MaxRegistrations
        /\ MaxRegistrations \in Nat
    BY <1>2 DEF Register, ProviderAssumption
  <2>2. generation' \in [Provider -> 0 .. MaxRegistrations] /\ generation'[p] > 0
        /\ \A q \in Provider : generation[q] > 0 => generation'[q] > 0
    BY <2>1 DEF RegistryInv
  <2>3. CASE p \in Range(registered)
    <3>1. registered' = registered
      BY <1>2, <2>3 DEF Register, IsRegistered
    <3> QED BY <2>2, <3>1 DEF RegistryInv, Range
  <2>4. CASE p \notin Range(registered)
    <3> DEFINE n == Len(registered)
    <3>1. registered' = Append(registered, p)
      BY <1>2, <2>4 DEF Register, IsRegistered
    <3>2. registered' \in Seq(Provider) /\ Len(registered') = n + 1 /\ n \in Nat
          /\ DOMAIN registered = 1 .. n /\ DOMAIN registered' = 1 .. n + 1
          /\ \A i \in 1 .. n + 1 : registered'[i] = IF i = n + 1 THEN p ELSE registered[i]
      BY <3>1 DEF RegistryInv
    <3> HIDE DEF n
    <3>3. \A i \in 1 .. n : registered[i] \in Range(registered)
      BY <3>2 DEF Range
    <3>4. IsInjective(registered')
      <4> SUFFICES ASSUME NEW i \in 1 .. n + 1, NEW j \in 1 .. n + 1, registered'[i] = registered'[j]
                   PROVE  i = j
        BY <3>2 DEF IsInjective
      <4>1. \A k, l \in 1 .. n : registered[k] = registered[l] => k = l
        BY <3>2 DEF RegistryInv, IsInjective
      <4>2. CASE i = n + 1 \/ j = n + 1
        <5>1. i \in 1 .. n \/ i = n + 1
          BY <3>2
        <5>2. j \in 1 .. n \/ j = n + 1
          BY <3>2
        <5> QED BY <2>4, <3>2, <3>3, <4>2, <5>1, <5>2
      <4>3. CASE i # n + 1 /\ j # n + 1
        <5>1. i \in 1 .. n /\ j \in 1 .. n
          BY <3>2, <4>3
        <5> QED BY <3>2, <4>1, <4>3, <5>1
      <4> QED BY <4>2, <4>3
    <3>5. \A q \in Range(registered') : q = p \/ q \in Range(registered)
      <4> SUFFICES ASSUME NEW i \in 1 .. n + 1
                   PROVE  registered'[i] = p \/ registered'[i] \in Range(registered)
        BY <3>2 DEF Range
      <4>1. i = n + 1 \/ i \in 1 .. n
        BY <3>2
      <4> QED BY <3>2, <3>3, <4>1
    <3>6. Range(registered) \subseteq Provider
      BY DEF RegistryInv, Range
    <3> QED BY <2>2, <3>2, <3>4, <3>5, <3>6 DEF RegistryInv
  <2> QED BY <2>3, <2>4
<1>3. ASSUME NEW p \in Provider, Unregister(p) PROVE RegistryInv'
  <2>1. p \in Range(registered) /\ registered' = RemoveFirst(registered, p)
        /\ generation' = generation
    BY <1>3 DEF Unregister, IsRegistered
  <2>2. registered' \in Seq(Provider) /\ IsInjective(registered')
        /\ Range(registered') = Range(registered) \ {p}
    BY <2>1, RemoveFirstFacts DEF RegistryInv
  <2> QED BY <2>1, <2>2 DEF RegistryInv
<1> QED BY <1>1, <1>2, <1>3 DEF ProvidersChange, Probe, Refill, CacheExpires

LEMMA AskedInit ==
  ASSUME ProviderAssumption, Init
  PROVE  AskedInv
<1>1. RegistryInv
  <2>1. Range(Registered) \subseteq Provider
    BY DEF ProviderAssumption, Range
  <2> QED BY <2>1 DEF ProviderAssumption, Init, ProvidersInit, RegistryInv
<1>2. Idle = [pc |-> "idle", todo |-> <<>>, tries |-> 0]
      /\ Idle \in [pc : CallState, todo : Seq(Record), tries : Nat]
  BY DEF Idle, CallState
<1>3. CallsInv /\ \A r \in Request : call[r] = Idle
  BY <1>2 DEF Init, ProvidersInit, CallsInv
<1>4. FallbackExhaustive /\ \A r \in Request : Pending(r)
  BY <1>2, <1>3 DEF FallbackExhaustive, Pending
<1> QED BY <1>1, <1>3, <1>4 DEF AskedInv

LEMMA AskedStep ==
  ASSUME AskedInv, CacheType, ProviderAssumption, [Next]_vars
  PROVE  AskedInv'
<1>1. ASSUME UNCHANGED <<registered, generation, failures, call, owed>> PROVE AskedInv'
  BY <1>1, CallsStay DEF AskedInv, RegistryInv
<1>2. ASSUME NEW r \in Request, Progress(r) PROVE AskedInv'
  <2>1. CASE CallProviders(r)
    BY <2>1, CallBegins
  <2>2. CASE ProviderRaises(r)
    <3>1. {} \in SUBSET (owed[r] \ Touched(r))
      OBVIOUS
    <3>2. CASE RaisesRetryable(r) /\ owed' = [owed EXCEPT ![r] = @ \ Touched(r)]
      BY <3>2, CallGoesOn
    <3>3. CASE RaisesOther(r) /\ owed' = [owed EXCEPT ![r] = {}]
      BY <3>1, <3>3, CallGoesOn
    <3> QED BY <2>2, <3>2, <3>3 DEF ProviderRaises
  <2>3. ASSUME NEW how \in {"answered", "refused"}, ProviderAnswers(r, how) PROVE AskedInv'
    BY <2>3, CallEnds DEF ProviderAnswers
  <2>4. CASE RetryDelayEnds(r)
    BY <2>4, BackoffKeeps DEF RetryDelayEnds, engineVars
  <2>5. CASE Start(r) \/ BeginAttempt(r) \/ PlanningCancelled(r) \/ PlannedAgent(r)
             \/ AgentAnswers(r) \/ AgentRaises(r)
             \/ PlannedProvider(r)
    BY <1>1, <2>5
    DEF PlannedProvider, Start, BeginAttempt, PlanningCancelled, PlannedAgent, AgentAnswers, AgentRaises, providerVars
  <2> QED BY <1>2, <2>1, <2>2, <2>3, <2>4, <2>5 DEF Progress, PlannedFallback
<1>3. ASSUME NEW r \in Request, Timeout(r) PROVE AskedInv'
  <2>1. CASE TimeoutInCall(r)
    <3>1. {} \in SUBSET (owed[r] \ Touched(r))
      OBVIOUS
    <3> QED BY <2>1, <3>1, CallGoesOn DEF TimeoutInCall
  <2>2. CASE TimeoutEnds(r) \/ TimeoutIgnored(r)
    BY <1>1, <2>2 DEF TimeoutEnds, TimeoutIgnored, providerVars
  <2> QED BY <1>3, <2>1, <2>2 DEF Timeout
<1>4. ASSUME NEW r \in Request, Cancel(r) PROVE AskedInv'
  BY <1>1, <1>4 DEF Cancel, providerVars
<1>5. CASE ProvidersChange /\ UNCHANGED engineVars
  <2>1. UNCHANGED <<failures, call, owed>>
    BY <1>5 DEF ProvidersChange, Register, Unregister, Probe, Refill, CacheExpires, engineVars
  <2>2. RegistryInv'
    BY <1>5, RegistryKeeps DEF AskedInv
  <2> QED BY <2>1, <2>2, CallsStay
<1>6. CASE UNCHANGED vars
  BY <1>1, <1>6 DEF vars, providerVars, engineVars
<1> QED BY <1>2, <1>3, <1>4, <1>5, <1>6 DEF Next

\* As long as the errors of a call are transient, _invoke_with_fallback() never
\* gives up on a provider that was registered when it began and was neither asked
\* nor without a token, however many providers, requests and attempts there are
\* and whatever the registry does meanwhile.
THEOREM FallbackIsExhaustive == Spec => []FallbackExhaustive
<1>1. Init => AskedInv
  BY AskedInit, ProviderAssumption
<1>2. AskedInv /\ CacheType /\ [Next]_vars => AskedInv'
  BY AskedStep, ProviderAssumption
<1>3. TypeOK => CacheType
  BY DEF TypeOK, CacheType
<1>4. AskedInv => FallbackExhaustive
  BY DEF AskedInv
<1> QED BY <1>1, <1>2, <1>3, <1>4, TypeCorrect, PTL DEF Spec

=============================================================================
