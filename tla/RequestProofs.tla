--------------------------- MODULE RequestProofs ----------------------------
(***************************************************************************)
(* Proofs about the two components that hand requests on: the Horizon      *)
(* client, for any number of providers and of concurrent requests, and the *)
(* signature verification pool, for any number of calls, workers and       *)
(* requests.                                                               *)
(***************************************************************************)
EXTENDS HorizonClient, CryptoPool, SumTheorems, FiniteSetTheorems

-----------------------------------------------------------------------------
(* The Horizon client *)

\* Breakers are closed or open, never half-open: should_attempt_reset has no caller.
\* A request has a provider while it asks one or reports on it.  Every provider that
\* a request has asked, but for that one, has an open breaker.
AskedAreOpen ==
  /\ providers \in [Providers -> ProviderStatus]
  /\ \A p \in Providers : providers[p].circuit_state \in {"Closed", "Open"}
  /\ pc \in [Tasks -> {"idle", "get", "asking", "succeeded", "failed", "switch"}]
  /\ job \in [Tasks -> Job]
  /\ \A t \in Tasks :
       /\ pc[t] \in {"asking", "succeeded", "failed"} => job[t].provider \in Providers
       /\ \A p \in job[t].asked :
            \/ providers[p].circuit_state = "Open"
            \/ pc[t] \in {"asking", "succeeded", "failed"} /\ p = job[t].provider

\* The provider an attempt begins with can be used, and so its breaker is closed:
\* get_current_provider returns only providers that can execute a request.
LEMMA CurrentIsUsable ==
  ASSUME AskedAreOpen, Usable # {}
  PROVE  /\ get_current_provider \in Providers
         /\ providers[get_current_provider].circuit_state = "Closed"
<1>1. First(Usable) \in Usable
  <2>1. Usable \in SUBSET Nat
    BY DEF Usable, Providers
  <2>2. \E p \in Usable : \A q \in Usable : p <= q
    BY <2>1, Least, Zenon
  <2> QED BY <2>2 DEF First
<1> QED BY <1>1 DEF get_current_provider, Usable, can_execute_request, AskedAreOpen

\* A status stays one when a success or a failure is recorded.
LEMMA RecordsKeepStatus ==
  ASSUME NEW s \in ProviderStatus
  PROVE  record_success(s) \in ProviderStatus /\ record_failure(s) \in ProviderStatus
<1>1. s.failure_count + 1 \in Nat
  BY DEF ProviderStatus
<1>2. \A c \in CircuitStates : [s EXCEPT !.failure_count = 0, !.is_healthy = TRUE, !.circuit_state = c] \in ProviderStatus
  BY Zenon DEF ProviderStatus
<1>3. \A c \in CircuitStates : [s EXCEPT !.failure_count = s.failure_count + 1, !.circuit_state = c] \in ProviderStatus
  BY <1>1, Zenon DEF ProviderStatus
<1>4. s.circuit_state \in CircuitStates /\ "Open" \in CircuitStates /\ "Closed" \in CircuitStates
  BY DEF ProviderStatus, CircuitStates
<1>5. record_success(s) \in ProviderStatus
  BY <1>2, <1>4, Zenon DEF record_success
<1>6. record_failure(s) \in ProviderStatus
  BY <1>3, <1>4, Zenon DEF record_failure
<1> QED BY <1>5, <1>6

\* The client is made with closed breakers and no request under way.
LEMMA AskedAreOpenInit == HorizonInit => AskedAreOpen
BY HorizonAssumption DEF HorizonInit, AskedAreOpen, ProviderStatus, CircuitStates, Job, NoJob

\* Every step of a request, of the health checker and of the endpoint keeps AskedAreOpen.
\* One step per action that changes a breaker or a request.
LEMMA AskedAreOpenStep == AskedAreOpen /\ [HorizonNext]_horizonVars => AskedAreOpen'
<1> SUFFICES ASSUME AskedAreOpen, [HorizonNext]_horizonVars
             PROVE  AskedAreOpen'
  OBVIOUS
<1> USE HorizonAssumption
<1>1. ASSUME NEW t \in Tasks, execute_request(t)
      PROVE  AskedAreOpen'
  BY <1>1 DEF AskedAreOpen, execute_request, GoTo
<1>2. ASSUME NEW t \in Tasks, GetProvider(t)
      PROVE  AskedAreOpen'
  <2>1. CASE /\ Usable # {}
             /\ pc' = [pc EXCEPT ![t] = "asking"]
             /\ job' = [job EXCEPT ![t] =
                  [attempts |-> @.attempts + 1, provider |-> get_current_provider,
                   asked |-> @.asked \cup {get_current_provider}]]
    <3> DEFINE p == get_current_provider
    <3>1. p \in Providers
      BY <2>1, CurrentIsUsable
    <3> HIDE DEF p
    <3>2. job'[t] = [attempts |-> job[t].attempts + 1, provider |-> p,
                     asked |-> job[t].asked \cup {p}]
      BY <2>1 DEF AskedAreOpen, p
    <3>3. job' \in [Tasks -> Job]
      BY <2>1, <3>1, <3>2 DEF AskedAreOpen, Job, p
    <3>4. \A u \in Tasks : u # t => job'[u] = job[u] /\ pc'[u] = pc[u]
      BY <2>1 DEF AskedAreOpen
    <3>5. \A q \in job[t].asked : providers[q].circuit_state = "Open"
      BY <1>2 DEF AskedAreOpen, GetProvider
    <3>6. providers' = providers
      BY <1>2 DEF GetProvider
    <3>7. pc' \in [Tasks -> {"idle", "get", "asking", "succeeded", "failed", "switch"}] /\ pc'[t] = "asking"
      BY <2>1 DEF AskedAreOpen
    <3> QED BY <3>1, <3>2, <3>3, <3>4, <3>5, <3>6, <3>7 DEF AskedAreOpen
  <2>2. CASE Usable = {} /\ Return(t)
    BY <1>2, <2>2 DEF AskedAreOpen, GetProvider, Return, NoJob, Job
  <2>3. CASE /\ Usable = {}
             /\ pc' = [pc EXCEPT ![t] = "switch"]
             /\ job' = [job EXCEPT ![t].attempts = @ + 1]
    BY <1>2, <2>3 DEF AskedAreOpen, GetProvider, Job
  <2> QED BY <1>2, <2>1, <2>2, <2>3 DEF GetProvider
<1>3. ASSUME NEW t \in Tasks, Answer(t)
      PROVE  AskedAreOpen'
  BY <1>3 DEF AskedAreOpen, Answer, GoTo
<1>4. ASSUME NEW t \in Tasks, record_provider_success(t)
      PROVE  AskedAreOpen'
  <2> DEFINE p == job[t].provider
  <2>1. p \in Providers
    BY <1>4 DEF AskedAreOpen, record_provider_success
  <2>2. providers' \in [Providers -> ProviderStatus]
    <3>1. record_success(providers[p]) \in ProviderStatus
      BY <2>1, RecordsKeepStatus DEF AskedAreOpen
    <3> QED BY <1>4, <2>1, <3>1 DEF AskedAreOpen, record_provider_success
  <2>3. \A q \in Providers : providers'[q].circuit_state = providers[q].circuit_state
    <3>1. /\ providers'[p] = record_success(providers[p])
          /\ \A q \in Providers \ {p} : providers'[q] = providers[q]
      BY <1>4, <2>1 DEF AskedAreOpen, record_provider_success
    <3>2. record_success(providers[p]).circuit_state = providers[p].circuit_state
      BY <2>1 DEF AskedAreOpen, record_success, ProviderStatus
    <3> QED BY <3>1, <3>2
  <2>4. \A u \in Tasks : job[u].asked \subseteq Providers
    BY DEF AskedAreOpen, Job
  <2> QED BY <1>4, <2>2, <2>3, <2>4 DEF AskedAreOpen, record_provider_success, Return, NoJob, Job
<1>5. ASSUME NEW t \in Tasks, record_provider_failure(t)
      PROVE  AskedAreOpen'
  <2> DEFINE p == job[t].provider
  <2>1. p \in Providers
    BY <1>5 DEF AskedAreOpen, record_provider_failure
  <2>2. providers' \in [Providers -> ProviderStatus]
    <3>1. record_failure(providers[p]) \in ProviderStatus
      BY <2>1, RecordsKeepStatus DEF AskedAreOpen
    <3> QED BY <1>5, <2>1, <3>1 DEF AskedAreOpen, record_provider_failure
  <2>3. \A q \in Providers : /\ providers'[q].circuit_state \in {"Closed", "Open"}
                             /\ providers[q].circuit_state = "Open" => providers'[q].circuit_state = "Open"
    <3>1. /\ providers'[p] = record_failure(providers[p])
          /\ \A q \in Providers \ {p} : providers'[q] = providers[q]
      BY <1>5, <2>1 DEF AskedAreOpen, record_provider_failure
    <3>2. /\ record_failure(providers[p]).circuit_state \in {"Closed", "Open"}
          /\ providers[p].circuit_state = "Open" => record_failure(providers[p]).circuit_state = "Open"
      BY <2>1 DEF AskedAreOpen, record_failure, ProviderStatus
    <3> QED BY <3>1, <3>2 DEF AskedAreOpen
  <2>4. \A u \in Tasks : job[u].asked \subseteq Providers
    BY DEF AskedAreOpen, Job
  <2>5. CASE GoTo(t, "switch") /\ providers'[p].circuit_state = "Open"
    BY <1>5, <2>1, <2>2, <2>3, <2>4, <2>5 DEF AskedAreOpen, GoTo
  <2>6. CASE Return(t)
    BY <1>5, <2>2, <2>3, <2>4, <2>6 DEF AskedAreOpen, Return, NoJob, Job
  <2>7. providers'[p] = record_failure(providers[p])
    BY <1>5, <2>1 DEF AskedAreOpen, record_provider_failure
  <2> QED BY <1>5, <2>5, <2>6, <2>7 DEF record_provider_failure, AfterFailure
<1>6. ASSUME NEW t \in Tasks, SwitchForRequest(t)
      PROVE  AskedAreOpen'
  <2>1. CASE Return(t)
    BY <1>6, <2>1 DEF AskedAreOpen, SwitchForRequest, Return, NoJob, Job
  <2>2. CASE GoTo(t, "get")
    BY <1>6, <2>2 DEF AskedAreOpen, SwitchForRequest, GoTo
  <2> QED BY <1>6, <2>1, <2>2 DEF SwitchForRequest
<1>7. ASSUME NEW t \in Tasks, DropRequest(t)
      PROVE  AskedAreOpen'
  BY <1>7 DEF AskedAreOpen, DropRequest, Return, NoJob, Job
<1>8. CASE UNCHANGED <<providers, pc, job>>
  BY <1>8 DEF AskedAreOpen
<1> QED
  BY <1>1, <1>2, <1>3, <1>4, <1>5, <1>6, <1>7, <1>8
  DEF HorizonNext, horizonVars, Step, StellarService, get_account, get_transaction, get_ledger,
      get_latest_ledger, submit_transaction, switch_horizon_provider, HealthChecker,
      health_check_all, AllAnswered

\* One request never asks the same provider twice, with any number of providers and
\* concurrent requests: what it has asked is open by the time it asks again, and an
\* open breaker stays open, so that no such provider is chosen.
THEOREM AsksEachProviderOnce == HorizonSpec => EachProviderOnce
<1>1. AskedAreOpen /\ [HorizonNext]_horizonVars =>
        [\A t \in Tasks :
           pc[t] = "get" /\ pc'[t] = "asking" => job'[t].provider \notin job[t].asked]_horizonVars
  <2> SUFFICES ASSUME AskedAreOpen, HorizonNext, NEW t \in Tasks,
                      pc[t] = "get", pc'[t] = "asking"
               PROVE  job'[t].provider \notin job[t].asked
    OBVIOUS
  <2>1. GetProvider(t)
    <3>1. ASSUME NEW u \in Tasks, u # t, StellarService(u) \/ Step(u) \/ Answer(u) \/ DropRequest(u)
          PROVE  pc'[t] = pc[t]
      BY <3>1 DEF AskedAreOpen, StellarService, get_account, get_transaction, get_ledger,
         get_latest_ledger, submit_transaction, execute_request, Step, GetProvider,
         SwitchForRequest, record_provider_success, record_provider_failure, AfterFailure,
         Answer, DropRequest, GoTo, Return
    <3>2. StellarService(t) \/ Step(t) \/ Answer(t) \/ DropRequest(t)
      BY <3>1 DEF HorizonNext, switch_horizon_provider, HealthChecker, health_check_all, AllAnswered
    <3>3. ~ DropRequest(t)
      BY DEF DropRequest, Return, AskedAreOpen
    <3> QED BY <3>2, <3>3, Zenon DEF StellarService, get_account, get_transaction, get_ledger,
          get_latest_ledger, submit_transaction, execute_request, Step, SwitchForRequest,
          record_provider_success, record_provider_failure, Answer
  <2>2. job'[t].provider = get_current_provider
    BY <2>1 DEF GetProvider, AskedAreOpen, Return
  <2>3. Usable # {}
    BY <2>1 DEF GetProvider, AskedAreOpen, Return
  <2>4. providers[get_current_provider].circuit_state = "Closed"
    BY <2>3, CurrentIsUsable
  <2> QED BY <2>2, <2>4 DEF AskedAreOpen
<1> QED BY <1>1, AskedAreOpenInit, AskedAreOpenStep, PTL DEF HorizonSpec, EachProviderOnce

-----------------------------------------------------------------------------
\* The requests that are under way with a provider, and so may still fail there.
Pending(p) ==
  {t \in Tasks : pc[t] \in {"asking", "succeeded", "failed"} /\ job[t].provider = p}

\* A closed breaker is below the strikes, and a provider's failures together with
\* the requests under way there are bounded: a failure moves one from these to those.
FailuresAccounted ==
  \A p \in Providers :
    /\ providers[p].circuit_state = "Closed" => providers[p].failure_count < Strikes
    /\ providers[p].failure_count + Cardinality(Pending(p)) < Strikes + NumTasks

\* A count that record_failure leaves a breaker closed at is below the strikes.
LEMMA StrikesType ==
  Strikes \in Nat \ {0} /\ \A n \in Nat : ~(n >= Threshold) => n < Strikes
BY HorizonAssumption DEF Strikes

\* There are at most NumTasks requests under way with a provider.
LEMMA PendingIsFinite ==
  ASSUME NEW p
  PROVE  /\ IsFiniteSet(Pending(p)) /\ Cardinality(Pending(p)) \in Nat
         /\ Cardinality(Pending(p)) <= NumTasks
<1>1. IsFiniteSet(Tasks) /\ Cardinality(Tasks) = NumTasks
  BY HorizonAssumption, FS_Interval DEF Tasks
<1>2. Pending(p) \subseteq Tasks
  BY DEF Pending
<1> QED BY <1>1, <1>2, FS_Subset, FS_CardinalityType

\* No request is under way, and nothing has failed, when the client is made.
LEMMA FailuresAccountedInit == HorizonInit => FailuresAccounted
<1> SUFFICES ASSUME HorizonInit, NEW p \in Providers
             PROVE  /\ providers[p].circuit_state = "Closed" => providers[p].failure_count < Strikes
                    /\ providers[p].failure_count + Cardinality(Pending(p)) < Strikes + NumTasks
  BY DEF FailuresAccounted
<1>1. providers[p].failure_count = 0
  BY DEF HorizonInit
<1> QED BY <1>1, PendingIsFinite, StrikesType, HorizonAssumption

\* Nothing new is under way and no failure is added: then the account holds on.
LEMMA NothingAdded ==
  ASSUME AskedAreOpen, FailuresAccounted, UNCHANGED providers,
         \A p \in Providers : Pending(p)' \subseteq Pending(p)
  PROVE  FailuresAccounted'
<1> SUFFICES ASSUME NEW p \in Providers
             PROVE  providers[p].failure_count + Cardinality(Pending(p)') < Strikes + NumTasks
  BY DEF FailuresAccounted
<1>1. Cardinality(Pending(p)') \in Nat /\ Cardinality(Pending(p)') <= Cardinality(Pending(p))
  BY PendingIsFinite, FS_Subset, FS_CardinalityType
<1>2. providers[p].failure_count \in Nat
  BY DEF AskedAreOpen, ProviderStatus
<1> QED BY <1>1, <1>2, PendingIsFinite, StrikesType, HorizonAssumption DEF FailuresAccounted

\* Every step of the client keeps the account: an attempt begins only at a closed
\* breaker, and a failure that is recorded is one of those that were under way.
LEMMA FailuresAccountedStep ==
  AskedAreOpen /\ FailuresAccounted /\ [HorizonNext]_horizonVars => FailuresAccounted'
<1> SUFFICES ASSUME AskedAreOpen, FailuresAccounted, [HorizonNext]_horizonVars
             PROVE  FailuresAccounted'
  OBVIOUS
<1> DEFINE Busy == {"asking", "succeeded", "failed"}
<1>1. ASSUME NEW t \in Tasks, execute_request(t) \/ Answer(t) \/ SwitchForRequest(t) \/ DropRequest(t)
      PROVE  FailuresAccounted'
  <2>1. UNCHANGED providers
    BY <1>1 DEF execute_request, Answer, SwitchForRequest, DropRequest
  <2>2. \A u \in Tasks : pc'[u] \in Busy => pc[u] \in Busy /\ job'[u] = job[u]
    BY <1>1 DEF execute_request, Answer, SwitchForRequest, DropRequest, GoTo, Return, AskedAreOpen
  <2>3. \A p \in Providers : Pending(p)' \subseteq Pending(p)
    BY <2>2 DEF Pending
  <2> QED BY <2>1, <2>3, NothingAdded
<1>2. ASSUME NEW t \in Tasks, GetProvider(t)
      PROVE  FailuresAccounted'
  <2>1. UNCHANGED providers
    BY <1>2 DEF GetProvider
  <2>2. \A u \in Tasks \ {t} : pc'[u] = pc[u] /\ job'[u] = job[u]
    BY <1>2 DEF GetProvider, Return, AskedAreOpen
  <2>3. CASE pc'[t] # "asking"
    <3>1. pc'[t] \notin Busy
      BY <1>2, <2>3 DEF GetProvider, Return, AskedAreOpen
    <3>2. \A p \in Providers : Pending(p)' \subseteq Pending(p)
      BY <2>2, <3>1 DEF Pending
    <3> QED BY <2>1, <3>2, NothingAdded
  <2>4. CASE pc'[t] = "asking"
    <3>1. Usable # {} /\ job'[t].provider = get_current_provider
      BY <1>2, <2>4 DEF GetProvider, Return, AskedAreOpen
    <3>2. providers[job'[t].provider].circuit_state = "Closed"
      BY <3>1, CurrentIsUsable
    <3> SUFFICES ASSUME NEW p \in Providers
                 PROVE  providers[p].failure_count + Cardinality(Pending(p)') < Strikes + NumTasks
      BY <2>1 DEF FailuresAccounted
    <3>3. providers[p].failure_count \in Nat
      BY DEF AskedAreOpen, ProviderStatus
    <3>4. CASE job'[t].provider = p
      <4>1. providers[p].failure_count < Strikes
        BY <3>2, <3>4 DEF FailuresAccounted
      <4>2. Cardinality(Pending(p)') \in Nat /\ Cardinality(Pending(p)') <= NumTasks
        <5>1. IsFiniteSet(Tasks) /\ Cardinality(Tasks) = NumTasks
          BY HorizonAssumption, FS_Interval DEF Tasks
        <5>2. Pending(p)' \subseteq Tasks
          BY DEF Pending
        <5> QED BY <5>1, <5>2, FS_Subset, FS_CardinalityType
      <4> QED BY <4>1, <4>2, <3>3, StrikesType, HorizonAssumption
    <3>5. CASE job'[t].provider # p
      <4>1. Pending(p)' \subseteq Pending(p)
        BY <2>2, <3>5 DEF Pending
      <4>2. Cardinality(Pending(p)') \in Nat /\ Cardinality(Pending(p)') <= Cardinality(Pending(p))
        BY <4>1, PendingIsFinite, FS_Subset, FS_CardinalityType
      <4> QED BY <4>2, <3>3, PendingIsFinite, StrikesType, HorizonAssumption DEF FailuresAccounted
    <3> QED BY <3>4, <3>5
  <2> QED BY <2>3, <2>4
<1>3. ASSUME NEW t \in Tasks, record_provider_success(t) \/ record_provider_failure(t)
      PROVE  FailuresAccounted'
  <2> DEFINE r == job[t].provider
  <2>1. t \in Pending(r) /\ r \in Providers
    BY <1>3 DEF Pending, AskedAreOpen, record_provider_success, record_provider_failure
  <2>2. pc'[t] \notin Busy /\ \A u \in Tasks \ {t} : pc'[u] = pc[u] /\ job'[u] = job[u]
    BY <1>3 DEF record_provider_success, record_provider_failure, AfterFailure, GoTo, Return, AskedAreOpen
  <2>3. \A p \in Providers : Pending(p)' \subseteq Pending(p) \ {t}
    BY <2>2 DEF Pending
  <2>4. \A p \in Providers \ {r} : providers'[p] = providers[p]
    BY <1>3, <2>1, Zenon DEF record_provider_success, record_provider_failure, AskedAreOpen
  <2>5. /\ providers'[r].failure_count \in Nat
        /\ providers'[r].failure_count <= providers[r].failure_count + 1
        /\ providers'[r].circuit_state = "Closed" => providers'[r].failure_count < Strikes
    <3>1. providers[r] \in ProviderStatus /\ providers[r].circuit_state \in {"Closed", "Open"}
      BY <2>1 DEF AskedAreOpen
    <3>2. CASE providers'[r] = record_success(providers[r])
      BY <3>1, <3>2, StrikesType DEF record_success, ProviderStatus
    <3>3. CASE providers'[r] = record_failure(providers[r])
      BY <3>1, <3>3, StrikesType DEF record_failure, ProviderStatus
    <3> QED BY <1>3, <2>1, <3>2, <3>3 DEF record_provider_success, record_provider_failure, AskedAreOpen
  <2> SUFFICES ASSUME NEW p \in Providers
               PROVE  /\ providers'[p].circuit_state = "Closed" => providers'[p].failure_count < Strikes
                      /\ providers'[p].failure_count + Cardinality(Pending(p)') < Strikes + NumTasks
    BY DEF FailuresAccounted
  <2>6. providers[p].failure_count \in Nat
    BY DEF AskedAreOpen, ProviderStatus
  <2>7. CASE p = r
    <3>1. IsFiniteSet(Pending(p) \ {t}) /\ Cardinality(Pending(p) \ {t}) = Cardinality(Pending(p)) - 1
      BY <2>1, <2>7, PendingIsFinite, FS_RemoveElement
    <3>2. Cardinality(Pending(p)') \in Nat /\ Cardinality(Pending(p)') <= Cardinality(Pending(p)) - 1
      BY <2>3, <3>1, FS_Subset, FS_CardinalityType
    <3> HIDE DEF r
    <3> QED BY <2>5, <2>6, <2>7, <3>2, PendingIsFinite, StrikesType, HorizonAssumption DEF FailuresAccounted
  <2>8. CASE p # r
    <3>1. Pending(p)' \subseteq Pending(p)
      BY <2>3
    <3>2. Cardinality(Pending(p)') \in Nat /\ Cardinality(Pending(p)') <= Cardinality(Pending(p))
      BY <3>1, PendingIsFinite, FS_Subset, FS_CardinalityType
    <3> HIDE DEF r
    <3> QED BY <2>4, <2>6, <2>8, <3>2, PendingIsFinite, StrikesType, HorizonAssumption DEF FailuresAccounted
  <2> QED BY <2>7, <2>8, Zenon
<1>4. CASE UNCHANGED <<providers, pc, job>>
  <2>1. \A p \in Providers : Pending(p)' \subseteq Pending(p)
    BY <1>4 DEF Pending
  <2> QED BY <1>4, <2>1, NothingAdded
<1> QED
  BY <1>1, <1>2, <1>3, <1>4
  DEF HorizonNext, horizonVars, Step, StellarService, get_account, get_transaction, get_ledger,
      get_latest_ledger, submit_transaction, switch_horizon_provider, HealthChecker,
      health_check_all, AllAnswered

\* The failure count of a provider stays below the threshold and the number of
\* callers together, however many requests fail and whatever else succeeds between:
\* it cannot wrap around as long as that sum fits its type.
THEOREM FailureCountBounded == HorizonSpec => []FailuresBounded
<1>1. AskedAreOpen /\ FailuresAccounted => FailuresBounded
  <2> SUFFICES ASSUME AskedAreOpen, FailuresAccounted, NEW p \in Providers
               PROVE  providers[p].failure_count < Strikes + NumTasks
    BY DEF FailuresBounded
  <2>1. providers[p].failure_count \in Nat
    BY DEF AskedAreOpen, ProviderStatus
  <2> QED BY <2>1, PendingIsFinite, StrikesType, HorizonAssumption DEF FailuresAccounted
<1> QED BY <1>1, AskedAreOpenInit, AskedAreOpenStep, FailuresAccountedInit, FailuresAccountedStep,
       PTL DEF HorizonSpec

-----------------------------------------------------------------------------
(* The signature verification pool *)

\* Sending to a queue or a batch adds one request; it stays free of repetitions
\* when the request is a new one.
LEMMA AppendRequest ==
  ASSUME NEW S, NEW s \in Seq(S), NEW x \in S
  PROVE  /\ Range(Append(s, x)) = Range(s) \cup {x}
         /\ IsInjective(s) /\ x \notin Range(s) => IsInjective(Append(s, x))
<1> DEFINE t == Append(s, x)
<1>1. /\ t \in Seq(S) /\ Len(t) = Len(s) + 1 /\ t[Len(s) + 1] = x
      /\ \A i \in 1..Len(s) : t[i] = s[i]
  OBVIOUS
<1>2. DOMAIN s = 1..Len(s) /\ DOMAIN t = 1..(Len(s) + 1) /\ Len(s) \in Nat
  BY <1>1
<1> HIDE DEF t
<1>3. Range(t) = Range(s) \cup {x}
  BY <1>1, <1>2 DEF Range
<1>4. IsInjective(s) /\ x \notin Range(s) => IsInjective(t)
  <2> SUFFICES ASSUME IsInjective(s), x \notin Range(s), NEW i \in DOMAIN t, NEW j \in DOMAIN t, t[i] = t[j]
               PROVE  i = j
    BY DEF IsInjective
  <2>1. \A k \in 1..Len(s) : t[k] # x
    BY <1>1, <1>2 DEF Range
  <2> QED BY <1>1, <1>2, <2>1 DEF IsInjective
<1> QED BY <1>3, <1>4 DEF t

\* Receiving takes the first request, and what is left has no repetition either.
LEMMA ReceiveRequest ==
  ASSUME NEW S, NEW s \in Seq(S), s # <<>>
  PROVE  /\ Head(s) \in S /\ Tail(s) \in Seq(S)
         /\ Range(s) = Range(Tail(s)) \cup {Head(s)}
         /\ IsInjective(s) => IsInjective(Tail(s)) /\ Head(s) \notin Range(Tail(s))
<1> DEFINE t == Tail(s)
<1>1. /\ t \in Seq(S) /\ Len(s) \in Nat /\ Len(s) > 0 /\ Len(t) = Len(s) - 1
      /\ Head(s) = s[1] /\ s[1] \in S /\ \A i \in 1..(Len(s) - 1) : t[i] = s[i + 1]
  OBVIOUS
<1>2. DOMAIN s = 1..Len(s) /\ DOMAIN t = 1..(Len(s) - 1)
  BY <1>1
<1> HIDE DEF t
<1>3. \A i \in 2..Len(s) : i - 1 \in 1..(Len(s) - 1) /\ s[i] = t[i - 1]
  BY <1>1
<1>4. \A i \in DOMAIN t : i + 1 \in DOMAIN s /\ i + 1 # 1 /\ t[i] = s[i + 1]
  BY <1>1, <1>2
<1>5. \A i \in DOMAIN s : i = 1 \/ (i - 1 \in DOMAIN t /\ s[i] = t[i - 1])
  BY <1>1, <1>2, <1>3
<1>6. 1 \in DOMAIN s
  BY <1>1, <1>2
<1>7. Range(s) = Range(t) \cup {s[1]}
  <2>1. Range(s) \subseteq Range(t) \cup {s[1]}
    BY <1>5 DEF Range
  <2>2. Range(t) \cup {s[1]} \subseteq Range(s)
    BY <1>4, <1>6 DEF Range
  <2> QED BY <2>1, <2>2
<1>8. ASSUME IsInjective(s) PROVE IsInjective(t) /\ s[1] \notin Range(t)
  <2>1. s[1] \notin Range(t)
    BY <1>4, <1>6, <1>8 DEF IsInjective, Range
  <2>2. \A i, j \in DOMAIN t : i + 1 = j + 1 => i = j
    BY <1>2
  <2> QED BY <1>4, <1>8, <2>1, <2>2 DEF IsInjective
<1> QED BY <1>1, <1>7, <1>8 DEF t

\* The counts of a batch result, as VerifiedOnce wants them.
AddsUp(v) == v.valid + Cardinality(v.failed) = Len(v.ids)
AllAddUp(rs) == \A i \in DOMAIN rs : AddsUp(rs[i])

\* The same of the batch results in a channel: sending a result reports its requests.
LEMMA SendResult ==
  ASSUME NEW rs \in Seq(BatchResult), NEW v \in BatchResult
  PROVE  /\ Append(rs, v) \in Seq(BatchResult)
         /\ Reported(Append(rs, v)) = Reported(rs) \cup Range(v.ids)
         /\ ReportedOnce(rs) /\ IsInjective(v.ids) /\ Reported(rs) \cap Range(v.ids) = {}
              => ReportedOnce(Append(rs, v))
         /\ AllAddUp(rs) /\ AddsUp(v) => AllAddUp(Append(rs, v))
<1> DEFINE t == Append(rs, v)
<1>1. /\ t \in Seq(BatchResult) /\ Len(t) = Len(rs) + 1 /\ t[Len(rs) + 1] = v
      /\ \A i \in 1..Len(rs) : t[i] = rs[i]
  OBVIOUS
<1>2. DOMAIN rs = 1..Len(rs) /\ DOMAIN t = 1..(Len(rs) + 1) /\ Len(rs) \in Nat
  BY <1>1
<1> HIDE DEF t
<1>3. Reported(t) = Reported(rs) \cup Range(v.ids)
  BY <1>1, <1>2 DEF Reported
<1>4. ASSUME ReportedOnce(rs), IsInjective(v.ids), Reported(rs) \cap Range(v.ids) = {}
      PROVE  ReportedOnce(t)
  <2> SUFFICES ASSUME NEW i \in DOMAIN t, NEW j \in DOMAIN t,
                      NEW k \in DOMAIN t[i].ids, NEW l \in DOMAIN t[j].ids, t[i].ids[k] = t[j].ids[l]
               PROVE  i = j /\ k = l
    BY DEF ReportedOnce
  <2>1. \A n \in 1..Len(rs) : \A m \in DOMAIN rs[n].ids : rs[n].ids[m] \in Reported(rs)
    BY <1>2 DEF Reported, Range
  <2>2. \A m \in DOMAIN v.ids : v.ids[m] \in Range(v.ids)
    BY DEF Range
  <2>3. CASE i \in 1..Len(rs) /\ j \in 1..Len(rs)
    BY <1>1, <1>2, <1>4, <2>3 DEF ReportedOnce
  <2>4. CASE i = Len(rs) + 1 /\ j = Len(rs) + 1
    BY <1>1, <1>4, <2>4, Zenon DEF IsInjective
  <2>5. CASE i = Len(rs) + 1 /\ j \in 1..Len(rs)
    BY <1>1, <1>4, <2>1, <2>2, <2>5, Zenon
  <2>6. CASE i \in 1..Len(rs) /\ j = Len(rs) + 1
    BY <1>1, <1>4, <2>1, <2>2, <2>6
  <2> QED BY <1>2, <2>3, <2>4, <2>5, <2>6
<1>5. AllAddUp(rs) /\ AddsUp(v) => AllAddUp(t)
  BY <1>1, <1>2 DEF AllAddUp
<1> QED BY <1>1, <1>3, <1>4, <1>5 DEF t

\* Receiving a result takes its requests, which no other result in the channel has.
LEMMA TakeResult ==
  ASSUME NEW rs \in Seq(BatchResult), rs # <<>>
  PROVE  /\ Head(rs) \in BatchResult /\ Tail(rs) \in Seq(BatchResult)
         /\ Reported(rs) = Reported(Tail(rs)) \cup Range(Head(rs).ids)
         /\ ReportedOnce(rs) =>
              /\ ReportedOnce(Tail(rs)) /\ IsInjective(Head(rs).ids)
              /\ Reported(Tail(rs)) \cap Range(Head(rs).ids) = {}
         /\ AllAddUp(rs) => AllAddUp(Tail(rs)) /\ AddsUp(Head(rs))
<1> DEFINE t == Tail(rs)
<1>1. /\ t \in Seq(BatchResult) /\ Len(rs) \in Nat /\ Len(rs) > 0 /\ Len(t) = Len(rs) - 1
      /\ Head(rs) = rs[1] /\ rs[1] \in BatchResult /\ \A i \in 1..(Len(rs) - 1) : t[i] = rs[i + 1]
  OBVIOUS
<1>2. DOMAIN rs = 1..Len(rs) /\ DOMAIN t = 1..(Len(rs) - 1)
  BY <1>1
<1> HIDE DEF t
<1>3. \A i \in 2..Len(rs) : i - 1 \in 1..(Len(rs) - 1) /\ rs[i] = t[i - 1]
  BY <1>1
<1>4. Reported(rs) = Reported(t) \cup Range(rs[1].ids)
  <2>1. \A i \in DOMAIN t : i + 1 \in DOMAIN rs /\ t[i] = rs[i + 1]
    BY <1>1, <1>2
  <2>2. \A i \in DOMAIN rs : i = 1 \/ (i - 1 \in DOMAIN t /\ rs[i] = t[i - 1])
    BY <1>1, <1>2, <1>3
  <2>3. 1 \in DOMAIN rs
    BY <1>1, <1>2
  <2>4. Reported(rs) \subseteq Reported(t) \cup Range(rs[1].ids)
    BY <2>2 DEF Reported
  <2>5. Reported(t) \cup Range(rs[1].ids) \subseteq Reported(rs)
    BY <2>1, <2>3 DEF Reported
  <2> QED BY <2>4, <2>5
<1>5. ASSUME ReportedOnce(rs)
      PROVE  ReportedOnce(t) /\ IsInjective(rs[1].ids) /\ Reported(t) \cap Range(rs[1].ids) = {}
  <2>1. \A i \in DOMAIN t : i + 1 \in DOMAIN rs /\ i + 1 # 1 /\ t[i] = rs[i + 1]
    BY <1>1, <1>2
  <2>2. ReportedOnce(t)
    BY <1>2, <1>5, <2>1 DEF ReportedOnce
  <2>3. IsInjective(rs[1].ids)
    BY <1>1, <1>2, <1>5 DEF ReportedOnce, IsInjective
  <2>4. Reported(t) \cap Range(rs[1].ids) = {}
    <3> SUFFICES ASSUME NEW i \in DOMAIN t, NEW k \in DOMAIN t[i].ids, NEW l \in DOMAIN rs[1].ids,
                        t[i].ids[k] = rs[1].ids[l]
                 PROVE  FALSE
      BY DEF Reported, Range
    <3> QED BY <1>1, <1>2, <1>5, <2>1 DEF ReportedOnce
  <2> QED BY <2>2, <2>3, <2>4
<1>6. AllAddUp(rs) => AllAddUp(t) /\ AddsUp(rs[1])
  BY <1>1, <1>2 DEF AllAddUp
<1> QED BY <1>1, <1>4, <1>5, <1>6 DEF t

\* process_batch finds every request of a batch valid or not, and none both.
LEMMA VerdictCounts ==
  ASSUME NEW b \in Seq(Signatures)
  PROVE  /\ Verdict(b) \in BatchResult /\ Verdict(b).ids = b
         /\ AddsUp(Verdict(b))
<1> DEFINE V == {i \in DOMAIN b : verify_signature(b[i])}
           F == {i \in DOMAIN b : ~verify_signature(b[i])}
<1>1. DOMAIN b = 1..Len(b) /\ Len(b) \in Nat
  OBVIOUS
<1>2. IsFiniteSet(1..Len(b)) /\ Cardinality(1..Len(b)) = Len(b)
  <2>1. 1 \in Int /\ Len(b) \in Int /\ (1 > Len(b) => Len(b) = 0) /\ Len(b) - 1 + 1 = Len(b)
    BY <1>1
  <2> QED BY <2>1, FS_Interval, Zenon
<1>3. V \subseteq 1..Len(b) /\ F \subseteq 1..Len(b) /\ V \cup F = 1..Len(b) /\ V \cap F = {}
  BY <1>1
<1> HIDE DEF V, F
<1>4. IsFiniteSet(V) /\ IsFiniteSet(F)
  BY <1>2, <1>3, FS_Subset
<1>5. Cardinality(V) \in Nat /\ Cardinality(F) \in Nat
  BY <1>4, FS_CardinalityType
<1>6. Cardinality(V \cup F) = Cardinality(V) + Cardinality(F) - Cardinality(V \cap F)
  BY <1>4, FS_Union
<1>7. Cardinality({}) = 0
  BY FS_EmptySet
<1>8. Verdict(b) = [ids |-> b, valid |-> Cardinality(V), failed |-> F]
  BY DEF Verdict, V, F
<1>9. F \in SUBSET Nat
  BY <1>1, <1>3
<1>10. Cardinality(V) + Cardinality(F) = Len(b)
  <2>1. Cardinality(V \cup F) = Len(b) /\ Cardinality(V \cap F) = 0
    BY <1>2, <1>3, <1>7, Zenon
  <2> QED BY <1>1, <1>5, <1>6, <2>1
<1>11. Verdict(b) \in BatchResult
  BY <1>5, <1>8, <1>9 DEF BatchResult
<1>12. Verdict(b).ids = b /\ Verdict(b).valid = Cardinality(V) /\ Verdict(b).failed = F
  BY <1>8
<1> QED BY <1>10, <1>11, <1>12 DEF AddsUp

-----------------------------------------------------------------------------
\* Six sets that share nothing and make up S.
Divide(S, A, B, C, D, E, F) ==
  /\ A \cup B \cup C \cup D \cup E \cup F = S
  /\ A \cap B = {} /\ A \cap C = {} /\ A \cap D = {} /\ A \cap E = {} /\ A \cap F = {}
  /\ B \cap C = {} /\ B \cap D = {} /\ B \cap E = {} /\ B \cap F = {}
  /\ C \cap D = {} /\ C \cap E = {} /\ C \cap F = {}
  /\ D \cap E = {} /\ D \cap F = {} /\ E \cap F = {}

\* The requests the workers hold.
InHand == {held[w] : w \in Holding}

\* Where the requests that were sent are, and that no place has one twice.
Places == Divide(Sent, Reported(taken), Reported(results), Range(batch), Range(queue), InHand, worked)
NoneTwice ==
  /\ ReportedOnce(taken) /\ ReportedOnce(results)
  /\ IsInjective(batch) /\ IsInjective(queue)
  /\ \A w, v \in Holding : held[w] = held[v] => w = v

\* The six places of VerifiedOnce, written out.
LEMMA SixPlaces ==
  ASSUME NEW S, NEW A, NEW B, NEW C, NEW D, NEW E, NEW F
  PROVE  LET places == <<A, B, C, D, E, F>>
         IN  /\ UNION {places[i] : i \in 1..6} = S
             /\ \A i, j \in 1..6 : i # j => places[i] \cap places[j] = {}
             <=> Divide(S, A, B, C, D, E, F)
<1> DEFINE p == <<A, B, C, D, E, F>>
<1>1. p[1] = A /\ p[2] = B /\ p[3] = C /\ p[4] = D /\ p[5] = E /\ p[6] = F
  OBVIOUS
<1>2. 1..6 = {1, 2, 3, 4, 5, 6}
  OBVIOUS
<1> HIDE DEF p
<1>3. UNION {p[i] : i \in 1..6} = A \cup B \cup C \cup D \cup E \cup F
  BY <1>1, <1>2
<1>4. ASSUME \A i, j \in 1..6 : i # j => p[i] \cap p[j] = {}
      PROVE  /\ A \cap B = {} /\ A \cap C = {} /\ A \cap D = {} /\ A \cap E = {} /\ A \cap F = {}
             /\ B \cap C = {} /\ B \cap D = {} /\ B \cap E = {} /\ B \cap F = {}
             /\ C \cap D = {} /\ C \cap E = {} /\ C \cap F = {}
             /\ D \cap E = {} /\ D \cap F = {} /\ E \cap F = {}
  BY <1>1, <1>4
<1>5. ASSUME Divide(S, A, B, C, D, E, F), NEW i \in 1..6, NEW j \in 1..6, i # j
      PROVE  p[i] \cap p[j] = {}
  BY <1>1, <1>2, <1>5, Zenon DEF Divide
<1>6. (/\ UNION {p[i] : i \in 1..6} = S
       /\ \A i, j \in 1..6 : i # j => p[i] \cap p[j] = {}) <=> Divide(S, A, B, C, D, E, F)
  BY <1>3, <1>4, <1>5 DEF Divide
<1> QED BY <1>6 DEF p

\* VerifiedOnce in these terms, before and after a step.
LEMMA VerifiedOnceIs ==
  /\ VerifiedOnce <=> (Places /\ NoneTwice /\ AllAddUp(results) /\ AllAddUp(taken))
  /\ VerifiedOnce' <=> (Places' /\ NoneTwice' /\ AllAddUp(results') /\ AllAddUp(taken'))
BY SixPlaces, Zenon DEF VerifiedOnce, Places, NoneTwice, AllAddUp, AddsUp, InHand

\* The types, what a call still has to send, and the two invariants.
CryptoInv ==
  /\ CryptoTypeOK
  /\ call.at \in {"insert", "send"} => next <= call.last
  /\ PendingIsAllButWorked
  /\ VerifiedOnce

\* The pool starts empty.
LEMMA CryptoInvInit == CryptoInit => CryptoInv
<1> SUFFICES ASSUME CryptoInit PROVE CryptoInv
  OBVIOUS
<1>1. CryptoTypeOK
  <2>1. [at |-> "idle", last |-> 0] \in [at : States, last : 0..NumSignatures] /\ 1 \in 1..(NumSignatures + 1)
    BY CryptoAssumption DEF States
  <2>2. call \in [at : States, last : 0..NumSignatures] /\ next \in 1..(NumSignatures + 1)
    BY <2>1 DEF CryptoInit
  <2>3. held \in [Workers -> Signatures \cup {0}]
    BY DEF CryptoInit
  <2>4. queue \in Seq(Signatures) /\ batch \in Seq(Signatures)
    BY DEF CryptoInit
  <2>5. results \in Seq(BatchResult) /\ taken \in Seq(BatchResult)
    BY DEF CryptoInit
  <2>6. pending \subseteq Signatures /\ worked \subseteq Signatures /\ processor \in BOOLEAN
    BY Zenon DEF CryptoInit
  <2> QED BY <2>2, <2>3, <2>4, <2>5, <2>6, Zenon DEF CryptoTypeOK
<1>2. Sent = {} /\ Holding = {} /\ InHand = {}
  BY DEF CryptoInit, Sent, Holding, InHand
<1>3. /\ \A rs : rs = <<>> => Reported(rs) = {} /\ ReportedOnce(rs) /\ AllAddUp(rs)
      /\ \A s : s = <<>> => Range(s) = {} /\ IsInjective(s)
  BY DEF Reported, ReportedOnce, AllAddUp, Range, IsInjective
<1>4. VerifiedOnce
  <2>1. Places
    BY <1>2, <1>3 DEF CryptoInit, Places, Divide
  <2>2. NoneTwice /\ AllAddUp(results) /\ AllAddUp(taken)
    BY <1>2, <1>3, Zenon DEF CryptoInit, NoneTwice
  <2> QED BY <2>1, <2>2, VerifiedOnceIs, Zenon
<1> QED BY <1>1, <1>2, <1>4 DEF CryptoInit, CryptoInv, PendingIsAllButWorked

\* A step that moves no request.
LEMMA NothingMoves ==
  ASSUME VerifiedOnce, UNCHANGED <<next, queue, held, worked, batch, results, taken>>
  PROVE  VerifiedOnce'
BY DEF VerifiedOnce, Sent, Holding

\* verify_batch starts, waits, sends its requests one by one, or is dropped.
LEMMA CallStep ==
  ASSUME CryptoInv,
         \/ \E n \in 0..NumSignatures : verify_batch(n)
         \/ verify_signature_batch \/ DropVerifyBatch \/ start_result_processor
  PROVE  CryptoInv'
<1>1. /\ next \in 1..(NumSignatures + 1) /\ call \in [at : States, last : 0..NumSignatures]
      /\ NumSignatures \in Nat /\ next \in Nat /\ call.at \in States
      /\ queue \in Seq(Signatures) /\ pending \subseteq Signatures /\ worked \subseteq Signatures
  BY CryptoAssumption DEF CryptoInv, CryptoTypeOK
<1>2. CASE \E n \in 0..NumSignatures : verify_batch(n)
  <2>1. PICK n \in 0..NumSignatures : verify_batch(n)
    BY <1>2
  <2>2. next + n - 1 \in 0..NumSignatures /\ (next - 1 < next + n - 1 => next <= next + n - 1)
    BY <1>1, <2>1 DEF verify_batch
  <2>3. /\ call' \in [at : States, last : 0..NumSignatures]
        /\ call'.at \in {"insert", "wait"} /\ (call'.at = "insert" => next <= call'.last)
    BY <1>1, <2>1, <2>2 DEF verify_batch, After, States
  <2>4. CryptoTypeOK'
    BY <2>1, <2>3, Zenon DEF verify_batch, CryptoInv, CryptoTypeOK
  <2>5. PendingIsAllButWorked'
    BY <2>1, <2>3, Zenon DEF verify_batch, CryptoInv, PendingIsAllButWorked, Sent
  <2> QED BY <2>1, <2>3, <2>4, <2>5, NothingMoves DEF verify_batch, CryptoInv
<1>3. CASE DropVerifyBatch \/ start_result_processor
  <2>1. CryptoTypeOK'
    <3>1. [at |-> "idle", last |-> next - 1] \in [at : States, last : 0..NumSignatures]
      BY <1>1 DEF States
    <3> QED BY <1>3, <3>1, Zenon DEF DropVerifyBatch, start_result_processor, CryptoInv, CryptoTypeOK
  <2>2. call'.at = "idle" /\ call.at # "send" /\ UNCHANGED <<next, pending, worked>>
    BY <1>1, <1>3 DEF DropVerifyBatch, start_result_processor
  <2>3. PendingIsAllButWorked'
    BY <2>2 DEF CryptoInv, PendingIsAllButWorked, Sent
  <2> QED BY <1>3, <2>1, <2>2, <2>3, NothingMoves DEF DropVerifyBatch, start_result_processor, CryptoInv
<1>4. CASE call.at = "insert" /\ verify_signature_batch
  <2>1. /\ pending' = pending \cup {next} /\ call' = [call EXCEPT !.at = "send"]
        /\ UNCHANGED <<next, queue, held, worked, batch, results, taken, processor>>
    BY <1>4 DEF verify_signature_batch
  <2>2. next <= call.last /\ next \in Signatures
    BY <1>1, <1>4 DEF CryptoInv, Signatures
  <2>3. call' \in [at : States, last : 0..NumSignatures] /\ call'.at = "send" /\ call'.last = call.last
    BY <1>1, <2>1 DEF States
  <2>4. CryptoTypeOK'
    BY <2>1, <2>2, <2>3, Zenon DEF CryptoInv, CryptoTypeOK
  <2>5. next \notin worked /\ pending = Sent \ worked
    BY <1>1, <1>4, VerifiedOnceIs DEF CryptoInv, PendingIsAllButWorked, Places, Divide, Sent
  <2>6. PendingIsAllButWorked'
    BY <1>1, <2>1, <2>3, <2>5 DEF PendingIsAllButWorked, Sent
  <2> QED BY <2>1, <2>2, <2>3, <2>4, <2>6, NothingMoves, Zenon DEF CryptoInv
<1>5. CASE call.at = "send" /\ verify_signature_batch
  <2>1. /\ queue' = Append(queue, next) /\ next' = next + 1 /\ call' = [call EXCEPT !.at = After(next, call.last)]
        /\ UNCHANGED <<pending, held, worked, batch, results, taken, processor>>
    BY <1>5 DEF verify_signature_batch
  <2>2. next <= call.last /\ next \in Signatures /\ call.last \in 0..NumSignatures
    BY <1>1, <1>5 DEF CryptoInv, Signatures
  <2>3. /\ call' \in [at : States, last : 0..NumSignatures] /\ call'.last = call.last
        /\ call'.at \in {"insert", "wait"} /\ (call'.at = "insert" => next' <= call'.last)
    <3> DEFINE at == After(next, call.last)
    <3>1. at \in {"insert", "wait"} /\ (at = "insert" => next + 1 <= call.last)
      BY <2>2, CryptoAssumption DEF After, Signatures
    <3>2. call' = [call EXCEPT !.at = at] /\ next' = next + 1
      BY <2>1, Zenon
    <3> HIDE DEF at
    <3>3. call \in [at : States, last : 0..NumSignatures]
      BY <1>1
    <3> QED BY <3>1, <3>2, <3>3 DEF States
  <2>4. next' \in 1..(NumSignatures + 1)
    BY <1>1, <2>1, <2>2
  <2>5. CryptoTypeOK'
    BY <1>1, <2>1, <2>2, <2>3, <2>4 DEF CryptoInv, CryptoTypeOK
  <2>6. Sent' = Sent \cup {next} /\ next \notin Sent
    BY <1>1, <2>1 DEF Sent
  <2>7. Places /\ NoneTwice /\ AllAddUp(results) /\ AllAddUp(taken)
    BY VerifiedOnceIs DEF CryptoInv
  <2>8. Range(queue') = Range(queue) \cup {next} /\ IsInjective(queue')
    BY <1>1, <2>1, <2>2, <2>6, <2>7, AppendRequest DEF Places, Divide, NoneTwice
  <2>9. Places' /\ NoneTwice'
    BY <2>1, <2>6, <2>7, <2>8 DEF Places, Divide, NoneTwice, InHand, Holding
  <2>10. PendingIsAllButWorked'
    BY <1>1, <1>5, <2>1, <2>3 DEF CryptoInv, PendingIsAllButWorked, Sent
  <2> QED BY <2>1, <2>3, <2>5, <2>7, <2>9, <2>10, VerifiedOnceIs, Zenon DEF CryptoInv
<1> QED BY <1>2, <1>3, <1>4, <1>5 DEF verify_signature_batch

\* A worker takes a request from the queue, or finishes with the one it has.
LEMMA WorkerStep ==
  ASSUME CryptoInv, NEW w \in Workers, WorkerReceive(w) \/ WorkerVerify(w)
  PROVE  CryptoInv'
<1>1. /\ queue \in Seq(Signatures) /\ worked \subseteq Signatures /\ 0 \notin Signatures
      /\ held \in [Workers -> Signatures \cup {0}]
  BY DEF CryptoInv, CryptoTypeOK, Signatures
<1>2. Places /\ NoneTwice /\ AllAddUp(results) /\ AllAddUp(taken)
  BY VerifiedOnceIs DEF CryptoInv
<1>3. CASE WorkerReceive(w)
  <2> DEFINE h == Head(queue)
  <2>1. /\ held[w] = 0 /\ queue # <<>> /\ held' = [held EXCEPT ![w] = h] /\ queue' = Tail(queue)
        /\ UNCHANGED <<call, next, pending, worked, batch, results, taken, processor>>
    BY <1>3 DEF WorkerReceive
  <2>2. /\ h \in Signatures /\ queue' \in Seq(Signatures) /\ Range(queue) = Range(queue') \cup {h}
        /\ IsInjective(queue') /\ h \notin Range(queue')
    BY <1>1, <1>2, <2>1, ReceiveRequest, Zenon DEF NoneTwice
  <2> HIDE DEF h
  <2>3. held' \in [Workers -> Signatures \cup {0}] /\ held'[w] = h /\ \A v \in Workers : v # w => held'[v] = held[v]
    BY <1>1, <2>1, <2>2, Zenon
  <2>4. Holding' = Holding \cup {w} /\ w \notin Holding
    BY <1>1, <2>1, <2>2, <2>3, Zenon DEF Holding
  <2>5. InHand' = InHand \cup {h} /\ h \notin InHand
    <3>1. \A v \in Holding : v # w /\ held'[v] = held[v]
      BY <2>3, <2>4, Zenon DEF Holding
    <3>2. h \notin InHand
      BY <1>2, <2>2 DEF Places, Divide
    <3> QED BY <2>3, <2>4, <3>1, <3>2, Zenon DEF InHand
  <2>6. \A u, v \in Holding' : held'[u] = held'[v] => u = v
    <3>1. \A v \in Holding : v # w /\ held'[v] = held[v] /\ held[v] # h
      BY <2>3, <2>4, <2>5, Zenon DEF Holding, InHand
    <3> QED BY <1>2, <2>3, <2>4, <3>1 DEF NoneTwice
  <2>7. Places' /\ NoneTwice'
    BY <1>2, <2>1, <2>2, <2>5, <2>6 DEF Places, Divide, NoneTwice, Sent
  <2>8. CryptoTypeOK' /\ PendingIsAllButWorked'
    BY <2>1, <2>2, <2>3, Zenon DEF CryptoInv, CryptoTypeOK, PendingIsAllButWorked, Sent
  <2> QED BY <1>2, <2>1, <2>7, <2>8, VerifiedOnceIs, Zenon DEF CryptoInv
<1>4. CASE WorkerVerify(w)
  <2> DEFINE h == held[w]
  <2>1. /\ h # 0 /\ held' = [held EXCEPT ![w] = 0]
        /\ worked' = worked \cup {h} /\ pending' = pending \ {h}
        /\ UNCHANGED <<call, next, queue, batch, results, taken, processor>>
    BY <1>4 DEF WorkerVerify
  <2>2. h \in Signatures /\ w \in Holding /\ h \in InHand
    BY <1>1, <2>1 DEF Holding, InHand
  <2>3. held' \in [Workers -> Signatures \cup {0}] /\ held'[w] = 0 /\ \A v \in Workers : v # w => held'[v] = held[v]
    BY <1>1, <2>1
  <2>4. Holding' = Holding \ {w} /\ \A v \in Holding' : v \in Workers /\ held'[v] = held[v]
    BY <1>1, <2>3 DEF Holding
  <2>5. \A v \in Holding : v # w => held[v] # h
    BY <1>2, <2>2, Zenon DEF NoneTwice
  <2>6. InHand' = InHand \ {h}
    BY <2>4, <2>5 DEF InHand
  <2>7. \A u, v \in Holding' : held'[u] = held'[v] => u = v
    BY <1>2, <2>4, Zenon DEF NoneTwice
  <2> HIDE DEF h
  <2>8. Places'
    BY <1>2, <2>1, <2>2, <2>6 DEF Places, Divide, Sent
  <2>9. NoneTwice'
    BY <1>2, <2>1, <2>7, Zenon DEF NoneTwice
  <2>10. PendingIsAllButWorked'
    BY <2>1 DEF CryptoInv, PendingIsAllButWorked, Sent
  <2>11. CryptoTypeOK'
    BY <1>1, <2>1, <2>2, <2>3, Zenon DEF CryptoInv, CryptoTypeOK
  <2> QED BY <1>2, <2>1, <2>8, <2>9, <2>10, <2>11, VerifiedOnceIs, Zenon DEF CryptoInv
<1> QED BY <1>3, <1>4

\* The batch that process_batch leaves behind, a new vector, has no request.
LEMMA EmptyBatch == Range(<<>>) = {} /\ IsInjective(<<>>) /\ <<>> \in Seq(Signatures)
BY DEF Range, IsInjective

\* The batch processor reports a batch b, made of the open batch and what it took
\* from the queue.
LEMMA ReportStep ==
  ASSUME CryptoInv, NEW b \in Seq(Signatures), IsInjective(b), process_batch(b), batch' = <<>>,
         queue' \in Seq(Signatures), IsInjective(queue'),
         Range(b) \cup Range(queue') = Range(batch) \cup Range(queue), Range(b) \cap Range(queue') = {},
         UNCHANGED <<call, next, pending, held, worked, taken, processor>>
  PROVE  CryptoInv'
<1> DEFINE v == Verdict(b)
<1>1. v \in BatchResult /\ v.ids = b /\ AddsUp(v)
  BY VerdictCounts
<1>2. results \in Seq(BatchResult) /\ results' = Append(results, v)
  BY DEF CryptoInv, CryptoTypeOK, process_batch
<1> HIDE DEF v
<1>3. Places /\ NoneTwice /\ AllAddUp(results) /\ AllAddUp(taken)
  BY VerifiedOnceIs, Zenon DEF CryptoInv
<1>4. Reported(results) \cap Range(b) = {}
  BY <1>3, Zenon DEF Places, Divide
<1>5. /\ results' \in Seq(BatchResult) /\ Reported(results') = Reported(results) \cup Range(b)
      /\ ReportedOnce(results') /\ AllAddUp(results')
  BY <1>1, <1>2, <1>3, <1>4, SendResult, Zenon DEF NoneTwice
<1>6. Range(batch') = {} /\ IsInjective(batch') /\ batch' \in Seq(Signatures)
  BY EmptyBatch, Zenon
<1>7. InHand' = InHand /\ Holding' = Holding /\ Sent' = Sent
  BY Zenon DEF InHand, Holding, Sent
<1>8. Places'
  BY <1>3, <1>5, <1>6, <1>7 DEF Places, Divide
<1>9. NoneTwice'
  BY <1>3, <1>5, <1>6, <1>7, Zenon DEF NoneTwice
<1>10. CryptoTypeOK'
  BY <1>5, <1>6, Zenon DEF CryptoInv, CryptoTypeOK
<1>11. PendingIsAllButWorked'
  BY <1>7, Zenon DEF CryptoInv, PendingIsAllButWorked
<1> QED BY <1>3, <1>5, <1>8, <1>9, <1>10, <1>11, VerifiedOnceIs, Zenon DEF CryptoInv

\* The batch processor takes a request from the queue and reports a full batch, or
\* reports what it has when its time is up.
LEMMA BatchStep ==
  ASSUME CryptoInv, BatchReceive \/ BatchTimeout
  PROVE  CryptoInv'
<1>1. queue \in Seq(Signatures) /\ batch \in Seq(Signatures)
  BY DEF CryptoInv, CryptoTypeOK
<1>2. Places /\ NoneTwice /\ AllAddUp(results) /\ AllAddUp(taken)
  BY VerifiedOnceIs DEF CryptoInv
<1>3. CASE BatchTimeout
  <2>1. /\ process_batch(batch) /\ batch' = <<>>
        /\ UNCHANGED <<call, next, pending, queue, held, worked, taken, processor>>
    BY <1>3, Zenon DEF BatchTimeout
  <2>2. Range(batch) \cap Range(queue) = {} /\ IsInjective(batch) /\ IsInjective(queue)
    BY <1>2 DEF Places, Divide, NoneTwice
  <2> QED BY <1>1, <2>1, <2>2, ReportStep
<1>4. CASE BatchReceive
  <2> DEFINE h == Head(queue)
             b == Append(batch, h)
  <2>1. /\ queue # <<>> /\ queue' = Tail(queue)
        /\ UNCHANGED <<call, next, pending, held, worked, taken, processor>>
        /\ (process_batch(b) /\ batch' = <<>>) \/ (batch' = b /\ UNCHANGED results)
    BY <1>4 DEF BatchReceive
  <2>2. /\ h \in Signatures /\ queue' \in Seq(Signatures) /\ Range(queue) = Range(queue') \cup {h}
        /\ IsInjective(queue') /\ h \notin Range(queue')
    BY <1>1, <1>2, <2>1, ReceiveRequest, Zenon DEF NoneTwice
  <2>3. Range(batch) \cap Range(queue) = {} /\ IsInjective(batch)
    BY <1>2 DEF Places, Divide, NoneTwice
  <2> HIDE DEF h
  <2>4. b \in Seq(Signatures) /\ Range(b) = Range(batch) \cup {h} /\ IsInjective(b)
    BY <1>1, <2>2, <2>3, AppendRequest
  <2> HIDE DEF b
  <2>5. CASE process_batch(b) /\ batch' = <<>>
    <3>1. Range(b) \cup Range(queue') = Range(batch) \cup Range(queue) /\ Range(b) \cap Range(queue') = {}
      BY <2>2, <2>3, <2>4, Zenon
    <3> QED BY <2>1, <2>2, <2>4, <2>5, <3>1, ReportStep, Zenon
  <2>6. CASE batch' = b /\ UNCHANGED results
    <3>1. InHand' = InHand /\ Holding' = Holding /\ Sent' = Sent
      BY <2>1 DEF InHand, Holding, Sent
    <3>2. Places' /\ NoneTwice'
      <4>1. Places'
        BY <1>2, <2>1, <2>2, <2>4, <2>6, <3>1, Zenon DEF Places, Divide
      <4>2. NoneTwice'
        BY <1>2, <2>1, <2>2, <2>4, <2>6, <3>1, Zenon DEF NoneTwice
      <4> QED BY <4>1, <4>2
    <3>3. CryptoTypeOK' /\ PendingIsAllButWorked'
      BY <2>1, <2>2, <2>4, <2>6, Zenon DEF CryptoInv, CryptoTypeOK, PendingIsAllButWorked, Sent
    <3> QED BY <1>2, <2>1, <2>6, <3>2, <3>3, VerifiedOnceIs, Zenon DEF CryptoInv
  <2> QED BY <2>1, <2>5, <2>6
<1> QED BY <1>3, <1>4

\* A caller that waits, or the result processor, takes the first result.
LEMMA ResultStep ==
  ASSUME CryptoInv, ReceiveResult \/ ProcessResult
  PROVE  CryptoInv'
<1> DEFINE v == Head(results)
<1>1. /\ results # <<>> /\ taken' = Append(taken, v) /\ results' = Tail(results)
      /\ UNCHANGED <<next, pending, queue, held, worked, batch, processor>>
      /\ \/ call.at = "wait" /\ call' = [call EXCEPT !.at = "idle"]
         \/ UNCHANGED call
  BY DEF ReceiveResult, ProcessResult
<1>2. /\ results \in Seq(BatchResult) /\ taken \in Seq(BatchResult)
      /\ call \in [at : States, last : 0..NumSignatures]
  BY DEF CryptoInv, CryptoTypeOK
<1>3. Places /\ NoneTwice /\ AllAddUp(results) /\ AllAddUp(taken)
  BY VerifiedOnceIs DEF CryptoInv
<1>4. /\ v \in BatchResult /\ results' \in Seq(BatchResult) /\ AllAddUp(results') /\ AddsUp(v)
      /\ Reported(results) = Reported(results') \cup Range(v.ids)
      /\ ReportedOnce(results') /\ IsInjective(v.ids) /\ Reported(results') \cap Range(v.ids) = {}
  BY <1>1, <1>2, <1>3, TakeResult, Zenon DEF NoneTwice
<1> HIDE DEF v
<1>5. Reported(taken) \cap Range(v.ids) = {}
  BY <1>3, <1>4 DEF Places, Divide
<1>6. /\ taken' \in Seq(BatchResult) /\ Reported(taken') = Reported(taken) \cup Range(v.ids)
      /\ ReportedOnce(taken') /\ AllAddUp(taken')
  BY <1>1, <1>2, <1>3, <1>4, <1>5, SendResult, Zenon DEF NoneTwice
<1>7. InHand' = InHand /\ Holding' = Holding /\ Sent' = Sent
  BY <1>1, Zenon DEF InHand, Holding, Sent
<1>8. Places'
  BY <1>1, <1>3, <1>4, <1>6, <1>7, Zenon DEF Places, Divide
<1>9. NoneTwice'
  BY <1>1, <1>3, <1>4, <1>6, <1>7 DEF NoneTwice
<1>10. /\ call' \in [at : States, last : 0..NumSignatures]
       /\ (call.at = "send") = (call'.at = "send")
       /\ call'.at \in {"insert", "send"} => call' = call
  BY <1>1, <1>2, Zenon DEF States
<1>11. CryptoTypeOK'
  BY <1>1, <1>4, <1>6, <1>10 DEF CryptoInv, CryptoTypeOK
<1>12. PendingIsAllButWorked'
  BY <1>1, <1>10 DEF CryptoInv, PendingIsAllButWorked, Sent
<1> QED BY <1>1, <1>4, <1>6, <1>8, <1>9, <1>10, <1>11, <1>12, VerifiedOnceIs, Zenon DEF CryptoInv

\* Every step of the pool keeps the invariant.
LEMMA CryptoInvStep == CryptoInv /\ [CryptoNext]_cryptoVars => CryptoInv'
<1> SUFFICES ASSUME CryptoInv, [CryptoNext]_cryptoVars
             PROVE  CryptoInv'
  BY Zenon
<1>1. CASE UNCHANGED cryptoVars
  BY <1>1, NothingMoves
  DEF cryptoVars, CryptoInv, CryptoTypeOK, PendingIsAllButWorked, Sent
<1> QED BY <1>1, CallStep, WorkerStep, BatchStep, ResultStep, Zenon DEF CryptoNext, Caller, Pool

\* Every request sent to the pool is in exactly one place, is reported in at most one
\* batch result, and the counts of every result add up, however many workers race the
\* batch processor for the queue and whichever receiver takes the results.
THEOREM RequestsAreVerifiedOnce == CryptoSpec => []VerifiedOnce
BY CryptoInvInit, CryptoInvStep, PTL DEF CryptoSpec, CryptoInv

\* The pending map has exactly the requests stored that no worker has finished with: an
\* entry is never cleared before it is stored, and one that went to a batch stays.
THEOREM PendingIsExact == CryptoSpec => []PendingIsAllButWorked
BY CryptoInvInit, CryptoInvStep, PTL DEF CryptoSpec, CryptoInv
=============================================================================
