--------------------------- MODULE HorizonClient ----------------------------
(***************************************************************************)
(* The Horizon client with its providers and circuit breakers              *)
(* (network-node/src/horizon_client.rs) under the requests of the Stellar  *)
(* service (stellar_service.rs).                                           *)
(*                                                                         *)
(* The provider list is behind one fair read-write lock.  Requests hold a  *)
(* guard only within a step, except the health checker, which keeps its    *)
(* read guard while it waits for the providers' answers and then asks for  *)
(* the write guard on top of it.  A write that is waited for keeps later   *)
(* readers out.  The index has a lock of its own that is taken last and    *)
(* never held across an await.                                             *)
(***************************************************************************)
EXTENDS Integers, FiniteSets

CONSTANTS
  NumProviders,         \* the providers are 1..NumProviders, by priority
  NumTasks,             \* the tasks that call the client are 1..NumTasks
  Threshold             \* circuit_breaker_failure_threshold

VARIABLES
  providers,            \* the ProviderStatus of every provider
  current_provider_index,
  checker,              \* the background health checker: where it is
  pc, job               \* where each request is, and its locals

horizonVars == <<providers, current_provider_index, checker, pc, job>>

Providers == 1..NumProviders
Tasks == 1..NumTasks
CircuitStates == {"Closed", "Open", "HalfOpen"}
ProviderStatus == [failure_count : Nat, circuit_state : CircuitStates, is_healthy : BOOLEAN]

\* A request's attempts, the provider it asks, and (an observer) all it has asked.
Job == [attempts : Nat, provider : Providers \cup {0}, asked : SUBSET Providers]
NoJob == [attempts |-> 0, provider |-> 0, asked |-> {}]

ASSUME HorizonAssumption ==
  NumProviders \in Nat \ {0} /\ NumTasks \in Nat /\ Threshold \in Nat

HorizonInit ==
  /\ providers = [p \in Providers |->
       [failure_count |-> 0, circuit_state |-> "Closed", is_healthy |-> TRUE]]
  /\ current_provider_index = 1
  /\ checker = "idle"
  /\ pc = [t \in Tasks |-> "idle"]
  /\ job = [t \in Tasks |-> NoJob]

-----------------------------------------------------------------------------
(* ProviderStatus *)

record_failure(s) ==
  [s EXCEPT !.failure_count = @ + 1,
            !.circuit_state = IF s.failure_count + 1 >= Threshold THEN "Open" ELSE @]

\* Mutant: a success closes the breaker whatever its state.
SuccessCloses(s) == [s EXCEPT !.failure_count = 0, !.is_healthy = TRUE, !.circuit_state = "Closed"]

record_success(s) ==
  [s EXCEPT !.failure_count = 0, !.is_healthy = TRUE,
            !.circuit_state = IF @ = "HalfOpen" THEN "Closed" ELSE @]

\* Mutant: an open breaker lets requests through.
OpenExecutes(s) == s.circuit_state = "Closed" => s.is_healthy

can_execute_request(s) ==
  \/ s.circuit_state = "Closed" /\ s.is_healthy
  \/ s.circuit_state = "HalfOpen"

Usable == {p \in Providers : can_execute_request(providers[p])}
First(S) == CHOOSE p \in S : \A q \in S : p <= q

-----------------------------------------------------------------------------
(* The lock: a request at "succeeded" or "failed" waits to write. *)

\* The read guard of health_check_all lives to the end of the function.
ReadHeld == checker # "idle"

Writers == {t \in Tasks : pc[t] \in {"succeeded", "failed"}}
CanRead == Writers = {} /\ checker # "upgrading"
CanWrite == ~ReadHeld

-----------------------------------------------------------------------------
(* HorizonClient *)

get_current_provider ==
  IF current_provider_index \in Usable THEN current_provider_index ELSE First(Usable)

\* The usable provider that comes soonest after the current one, itself last.
NextUsable ==
  LET Distance(p) == (p - current_provider_index - 1) % NumProviders
  IN  CHOOSE p \in Usable : \A q \in Usable : Distance(p) <= Distance(q)

switch_provider ==
  current_provider_index' =
    IF Usable = {} THEN current_provider_index ELSE NextUsable

GoTo(t, at) == pc' = [pc EXCEPT ![t] = at] /\ UNCHANGED job
Return(t) == pc' = [pc EXCEPT ![t] = "idle"] /\ job' = [job EXCEPT ![t] = NoJob]

execute_request(t) ==
  /\ pc[t] = "idle"
  /\ GoTo(t, "get")
  /\ UNCHANGED <<providers, current_provider_index, checker>>

\* An attempt begins: it has a provider to ask, or else tries to switch.
GetProvider(t) ==
  /\ pc[t] = "get" /\ CanRead
  /\ \/ /\ Usable # {}
        /\ pc' = [pc EXCEPT ![t] = "asking"]
        /\ job' = [job EXCEPT ![t] =
             [attempts |-> @.attempts + 1, provider |-> get_current_provider,
              asked |-> @.asked \cup {get_current_provider}]]
     \/ Usable = {} /\ job[t].attempts + 1 >= NumProviders /\ Return(t)
     \/ /\ Usable = {} /\ job[t].attempts + 1 < NumProviders
        /\ pc' = [pc EXCEPT ![t] = "switch"]
        /\ job' = [job EXCEPT ![t].attempts = @ + 1]
  /\ UNCHANGED <<providers, current_provider_index, checker>>

\* The provider answers well, or there is an error: in sending, the status, the body.
Answer(t) ==
  /\ pc[t] = "asking"
  /\ \E at \in {"succeeded", "failed"} : GoTo(t, at)
  /\ UNCHANGED <<providers, current_provider_index, checker>>

record_provider_success(t) ==
  /\ pc[t] = "succeeded" /\ CanWrite
  /\ providers' = [providers EXCEPT ![job[t].provider] = record_success(@)]
  /\ Return(t)
  /\ UNCHANGED <<current_provider_index, checker>>

\* Mutant: every failure starts the request over, however often it was tried.
RetryAlways(t, opened) ==
  pc' = [pc EXCEPT ![t] = "switch"] /\ job' = [job EXCEPT ![t] = NoJob]

\* Only a failure that opens the breaker, or finds it open, is tried elsewhere.
AfterFailure(t, opened) ==
  IF opened /\ job[t].attempts < NumProviders THEN GoTo(t, "switch") ELSE Return(t)

record_provider_failure(t) ==
  LET p == job[t].provider
  IN  /\ pc[t] = "failed" /\ CanWrite
      /\ providers' = [providers EXCEPT ![p] = record_failure(@)]
      /\ AfterFailure(t, record_failure(providers[p]).circuit_state = "Open")
      /\ UNCHANGED <<current_provider_index, checker>>

SwitchForRequest(t) ==
  /\ pc[t] = "switch" /\ CanRead
  /\ switch_provider
  /\ IF Usable = {} THEN Return(t) ELSE GoTo(t, "get")
  /\ UNCHANGED <<providers, checker>>

\* The caller drops the request at an await.
DropRequest(t) ==
  /\ pc[t] # "idle"
  /\ Return(t)
  /\ UNCHANGED <<providers, current_provider_index, checker>>

\* The endpoint POST /stellar/providers/switch.
switch_horizon_provider ==
  /\ CanRead
  /\ switch_provider
  /\ UNCHANGED <<providers, checker, pc, job>>

-----------------------------------------------------------------------------
(* The health checker *)

health_check_all ==
  /\ checker = "idle" /\ CanRead
  /\ checker' = "pinging"
  /\ UNCHANGED <<providers, current_provider_index, pc, job>>

\* All answers are in, and the checker asks for the write guard.
AllAnswered ==
  /\ checker = "pinging"
  /\ checker' = "upgrading"
  /\ UNCHANGED <<providers, current_provider_index, pc, job>>

\* The answers are written under the write guard, and the round is over.
UpdateStatuses ==
  /\ checker = "upgrading" /\ CanWrite
  /\ \E healthy \in SUBSET Providers :
       providers' = [p \in Providers |-> [providers[p] EXCEPT !.is_healthy = p \in healthy]]
  /\ checker' = "idle"
  /\ UNCHANGED <<current_provider_index, pc, job>>

\* A round begins at every tick of the interval, if the last one has ended.
HealthChecker == health_check_all \/ AllAnswered

-----------------------------------------------------------------------------
(* StellarService *)

get_account(t) == execute_request(t)
get_transaction(t) == execute_request(t)
get_ledger(t) == execute_request(t)
get_latest_ledger(t) == execute_request(t)
submit_transaction(t) == execute_request(t)

StellarService(t) ==
  \/ get_account(t) \/ get_transaction(t) \/ get_ledger(t)
  \/ get_latest_ledger(t) \/ submit_transaction(t)

\* What a request does inside the client, without its caller or its provider.
Step(t) ==
  \/ GetProvider(t) \/ SwitchForRequest(t)
  \/ record_provider_success(t) \/ record_provider_failure(t)

HorizonNext ==
  \/ \E t \in Tasks : StellarService(t) \/ Step(t) \/ Answer(t) \/ DropRequest(t)
  \/ switch_horizon_provider
  \/ HealthChecker

\* Tokio runs every task that is ready, and its lock serves in the order of asking,
\* so that writers who come later pass no reader.  Nothing makes a provider answer.
HorizonFairness == \A t \in Tasks : SF_horizonVars(Step(t))

HorizonSpec == HorizonInit /\ [][HorizonNext]_horizonVars /\ HorizonFairness

\* UpdateStatuses is never enabled, as its guard waits for the checker's own, and so
\* HorizonNext leaves it out; with it, and with a checker that is scheduled, whose
\* interval ticks and whose pings time out after 30 seconds, nothing changes.
CheckingSpec ==
  /\ HorizonInit
  /\ [][HorizonNext \/ UpdateStatuses]_horizonVars
  /\ HorizonFairness
  /\ SF_horizonVars(health_check_all) /\ SF_horizonVars(AllAnswered \/ UpdateStatuses)
-----------------------------------------------------------------------------
HorizonTypeOK ==
  /\ providers \in [Providers -> ProviderStatus]
  /\ current_provider_index \in Providers
  /\ checker \in {"idle", "pinging", "upgrading"}
  /\ pc \in [Tasks -> {"idle", "get", "asking", "succeeded", "failed", "switch"}]
  /\ job \in [Tasks -> Job]

\* One request never asks the same provider twice, so that submit_transaction posts
\* a transaction at most once to each: it moves on only after a breaker opened, and
\* no success that another request records late closes that breaker again.
EachProviderOnce ==
  [][\A t \in Tasks :
       pc[t] = "get" /\ pc'[t] = "asking" => job'[t].provider \notin job[t].asked]_horizonVars

\* The failures that open a breaker: with a threshold of 0 the first one does.
Strikes == IF Threshold = 0 THEN 1 ELSE Threshold

\* The u8 failure count of a provider never gets past the threshold by more than
\* the requests already under way when the breaker opened; an open breaker lets
\* no further request add to it.
FailuresBounded ==
  \A p \in Providers : providers[p].failure_count < Strikes + NumTasks

\* "Continuous health checks every 60 seconds" and "Automatic provider health status
\* updates" (docs/horizon-fallback.md, 23-24): there is always another health round.
HealthChecksContinue == []<>(checker = "pinging")

\* If the providers answer every request, every request returns, unless a health
\* round gets in its way: fail-over ends although other requests reset counts.
RequestsReturn ==
  \A t \in Tasks :
    []<>(pc[t] # "asking") => (pc[t] # "idle" ~> (pc[t] = "idle" \/ checker # "idle"))
=============================================================================
