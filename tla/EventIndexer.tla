---------------------------- MODULE EventIndexer ----------------------------
(***************************************************************************)
(* The event indexer (network-node/src/indexer.rs) and the Soroban service *)
(* (soroban_service.rs) over the RPC client that fails over along a list   *)
(* of endpoints (soroban_rpc_client.rs).                                   *)
(*                                                                         *)
(* Ledger l has event l, for every l up to MaxLedger.  Endpoint e has seen *)
(* the ledgers up to tip[e]; endpoints may lag behind each other.  Each    *)
(* request to an endpoint ends, by the time-out of 30 seconds and the      *)
(* three retries of the HTTP client.  The node may crash and restart.      *)
(***************************************************************************)
EXTENDS Integers, FiniteSets

CONSTANTS
  NumEndpoints,         \* the RPC endpoints are 1..NumEndpoints, in order
  PageLimit,            \* how many events an endpoint returns at most
  MaxLedger,            \* bound: the last ledger
  MaxRestarts           \* bound: crashes of the node

VARIABLES
  current_ledger,       \* the local of the indexer's loop
  indexer,              \* the indexer: at its select!, in a call, or stopped
  call,                 \* the endpoint each caller's call is at, 0 for no call
  cancelled,            \* shutdown_token
  tip,                  \* the last ledger each endpoint has
  logged,               \* observer: the events logged so far
  cut,                  \* observer: the events an endpoint left out of a full page
  restarts

indexerVars == <<current_ledger, indexer, call, cancelled, tip, logged, cut, restarts>>

Endpoints == 1..NumEndpoints
Ledgers == 0..MaxLedger
Callers == {"indexer", "service"}

ASSUME IndexerAssumption ==
  /\ NumEndpoints \in Nat \ {0} /\ PageLimit \in Nat \ {0}
  /\ MaxLedger \in Nat /\ MaxRestarts \in Nat

IndexerInit ==
  /\ current_ledger = 0 /\ indexer = "select"
  /\ call = [c \in Callers |-> 0]
  /\ cancelled = FALSE
  /\ tip = [e \in Endpoints |-> 0]
  /\ logged = {} /\ cut = {} /\ restarts = 0

-----------------------------------------------------------------------------
(* SorobanRpcClient::call *)

\* What a request to an endpoint comes back with, other than a result.
Failures == {"request_error", "http_503", "http_error", "bad_json", "rpc_error", "empty"}

\* Mutant: after the last endpoint the first one is asked again.
FailoverWraps(c, failure) ==
  IF failure \in {"request_error", "http_503"}
  THEN call' = [call EXCEPT ![c] = (@ % NumEndpoints) + 1]
  ELSE call' = [call EXCEPT ![c] = 0]

\* A request error or a 503 moves on to the next endpoint; every other failure,
\* and every failure of the last endpoint, is the error of the call.
Failover(c, failure) ==
  IF failure \in {"request_error", "http_503"} /\ call[c] < NumEndpoints
  THEN call' = [call EXCEPT ![c] = @ + 1]
  ELSE call' = [call EXCEPT ![c] = 0]

-----------------------------------------------------------------------------
(* EventIndexer::start *)

PollTick ==
  /\ indexer = "select"
  /\ indexer' = "call" /\ call' = [call EXCEPT !["indexer"] = 1]
  /\ UNCHANGED <<current_ledger, cancelled, tip, logged, cut, restarts>>

\* The events from a ledger on that endpoint e has, and those it leaves out.
From(start, e) == {l \in Ledgers : start <= l /\ l <= tip[e]}
Page(start, e) == {l \in From(start, e) : l < start + PageLimit}

\* Mutant: the cursor goes two past the latest ledger.
SkipOne(latest) == latest + 2

NextCursor(latest) == latest + 1

GetEvents ==
  LET e == call["indexer"]
  IN  /\ e # 0
      /\ logged' = logged \cup Page(current_ledger, e)
      /\ cut' = cut \cup (From(current_ledger, e) \ Page(current_ledger, e))
      /\ current_ledger' = NextCursor(tip[e])
      /\ indexer' = "select" /\ call' = [call EXCEPT !["indexer"] = 0]
      /\ UNCHANGED <<cancelled, tip, restarts>>

\* An error is logged, and the same ledger asked for at the next tick.
GetEventsFails ==
  /\ call["indexer"] # 0
  /\ \E f \in Failures : Failover("indexer", f)
  /\ indexer' = IF call'["indexer"] = 0 THEN "select" ELSE indexer
  /\ UNCHANGED <<current_ledger, cancelled, tip, logged, cut, restarts>>

\* The token is looked at between two polls only.
StopIndexer ==
  /\ indexer = "select" /\ cancelled
  /\ indexer' = "stopped"
  /\ UNCHANGED <<current_ledger, call, cancelled, tip, logged, cut, restarts>>

-----------------------------------------------------------------------------
(* SorobanService, and the environment *)

ServiceCall ==
  /\ call["service"] = 0
  /\ call' = [call EXCEPT !["service"] = 1]
  /\ UNCHANGED <<current_ledger, indexer, cancelled, tip, logged, cut, restarts>>

get_health == ServiceCall
get_transaction_status == ServiceCall
simulate_transaction == ServiceCall
submit_soroban_transaction == ServiceCall

ServiceAnswer ==
  /\ call["service"] # 0
  /\ \/ call' = [call EXCEPT !["service"] = 0]
     \/ \E f \in Failures : Failover("service", f)
  /\ UNCHANGED <<current_ledger, indexer, cancelled, tip, logged, cut, restarts>>

CloseLedger(e) ==
  /\ tip[e] < MaxLedger
  /\ tip' = [tip EXCEPT ![e] = @ + 1]
  /\ UNCHANGED <<current_ledger, indexer, call, cancelled, logged, cut, restarts>>

Cancel ==
  /\ ~cancelled /\ cancelled' = TRUE
  /\ UNCHANGED <<current_ledger, indexer, call, tip, logged, cut, restarts>>

\* A crash or an exit loses the cursor, which is kept in memory only.
RestartNode ==
  /\ restarts < MaxRestarts /\ restarts' = restarts + 1
  /\ current_ledger' = 0 /\ indexer' = "select" /\ cancelled' = FALSE
  /\ call' = [c \in Callers |-> 0]
  /\ UNCHANGED <<tip, logged, cut>>

SorobanService ==
  \/ get_health \/ get_transaction_status \/ simulate_transaction
  \/ submit_soroban_transaction

IndexerNext ==
  \/ PollTick \/ GetEvents \/ GetEventsFails \/ StopIndexer
  \/ SorobanService \/ ServiceAnswer
  \/ Cancel \/ RestartNode \/ \E e \in Endpoints : CloseLedger(e)

\* Every request ends, the interval ticks, and select! picks a ready branch at
\* random, so that no branch that is ready again and again is never picked.
IndexerFairness ==
  /\ WF_indexerVars(PollTick) /\ WF_indexerVars(GetEvents \/ GetEventsFails)
  /\ WF_indexerVars(ServiceAnswer) /\ SF_indexerVars(StopIndexer)

IndexerSpec == IndexerInit /\ [][IndexerNext]_indexerVars /\ IndexerFairness
-----------------------------------------------------------------------------
IndexerTypeOK ==
  /\ current_ledger \in 0..(MaxLedger + 1)
  /\ indexer \in {"select", "call", "stopped"}
  /\ call \in [Callers -> Endpoints \cup {0}] /\ cancelled \in BOOLEAN
  /\ tip \in [Endpoints -> Ledgers]
  /\ logged \subseteq Ledgers /\ cut \subseteq Ledgers /\ restarts \in 0..MaxRestarts

\* The indexer leaves no gap behind its cursor but what a full page left out:
\* every event below it was logged, although polls fail, calls fail over to an
\* endpoint that lags, which moves the cursor back, and the node restarts.
NoGapsBehindCursor == \A l \in Ledgers : l < current_ledger => l \in logged \cup cut

\* Fail-over ends at the last endpoint, so that every RPC call comes back; and so a
\* cancelled indexer stops, although it looks at the token between polls only.
RpcCallsEnd ==
  /\ call["service"] # 0 ~> call["service"] = 0
  /\ cancelled ~> (indexer = "stopped" \/ ~cancelled)
=============================================================================
