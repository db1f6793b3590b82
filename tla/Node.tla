-------------------------------- MODULE Node --------------------------------
(***************************************************************************)
(* The life of a node (network-node/src/lib.rs, main.rs, shutdown.rs): it  *)
(* starts its HTTP server (enhanced_server.rs), its gRPC server            *)
(* (grpc/server.rs) and its indexer, waits in a select!, and on a signal   *)
(* drains and closes the HTTP server and the database pool (database.rs).  *)
(* Requests pass the layers of the HTTP server; gRPC calls use the same    *)
(* pool.                                                                   *)
(*                                                                         *)
(* The pool is behind a fair read-write lock.  Health checks keep their    *)
(* read guard while they query; get_tvl queries without one.  What the     *)
(* rate limiter decides is left open here (see RateLimiter).               *)
(***************************************************************************)
EXTENDS Integers, FiniteSets

CONSTANTS
  NumRequests,          \* the HTTP requests are 1..NumRequests, each may come again
  HttpPolls, DbPolls,   \* max_attempts of the two waits (60 and 30)
  MaxLeaks              \* bound: requests dropped between the count's two changes

VARIABLES
  main,                 \* where NetworkNode::start is
  cancelled,            \* the shutdown token
  http, grpc,           \* the two servers
  indexing,             \* does the indexer run?
  client_auth,          \* observer: the configuration asks for client certificates
  is_accepting,         \* is_accepting_connections
  active_connections,
  at,                   \* where each HTTP request is
  grpc_call,            \* where a gRPC call that uses the database is
  attempts,             \* the local of the two waits
  drained               \* observer: the first wait has seen no active connection

nodeVars == <<main, cancelled, http, grpc, indexing, client_auth, is_accepting,
              active_connections, at, grpc_call, attempts, drained>>
serverVars == <<http, grpc, indexing, client_auth>>
requestVars == <<active_connections, at>>

Requests == 1..NumRequests
Serving == {"open", "demanding"}
InFlight == {r \in Requests : at[r] # "idle"}

ASSUME NodeAssumption ==
  NumRequests \in Nat /\ HttpPolls \in Nat /\ DbPolls \in Nat /\ MaxLeaks \in Nat

NodeInit ==
  /\ main = "starting" /\ cancelled = FALSE
  /\ http = "down" /\ grpc = "down" /\ indexing = FALSE /\ client_auth = FALSE
  /\ is_accepting = TRUE /\ active_connections = 0
  /\ at = [r \in Requests |-> "idle"] /\ grpc_call = "idle"
  /\ attempts = 0 /\ drained = FALSE

-----------------------------------------------------------------------------
(* Starting the servers.  A file is not configured, of no use, or good. *)

File == {"none", "bad", "good"}
TlsConfig == [cert : File, key : File, client_ca : File, require_client_auth : BOOLEAN]

\* TLS is on when both files are configured.
TlsOn(c) == c.cert # "none" /\ c.key # "none"

\* Mutant: a client CA is enough to demand certificates.
HttpCaDemands(c) ==
  CASE ~TlsOn(c) -> "open"
    [] TlsOn(c) /\ (c.cert = "bad" \/ c.key = "bad" \/ c.client_ca = "bad") -> "failed"
    [] OTHER -> IF c.client_ca = "good" THEN "demanding" ELSE "open"

HttpTls(c) ==
  CASE ~TlsOn(c) -> "open"
    [] TlsOn(c) /\ (c.cert = "bad" \/ c.key = "bad" \/ c.client_ca = "bad") -> "failed"
    [] OTHER -> IF c.client_ca = "good" /\ c.require_client_auth THEN "demanding" ELSE "open"

\* With a client CA: parsed, built to demand certificates, and built again without.
\* With none: the two files go to tonic as they are.
GrpcTls(c) ==
  CASE ~TlsOn(c) -> "open"
    [] TlsOn(c) /\ c.client_ca = "none" ->
         IF "bad" \in {c.cert, c.key} THEN "failed" ELSE "open"
    [] OTHER ->
         IF "bad" \in {c.cert, c.key, c.client_ca} THEN "failed"
         ELSE IF c.require_client_auth THEN "demanding" ELSE "open"

\* A server may also fail to bind its address.
StartServer(mode) == {mode, "failed"}

\* A bad bind address or seed address ends the start, and the process, at once.
start ==
  /\ main = "starting"
  /\ \/ main' = "exited" /\ UNCHANGED serverVars
     \/ \E c \in TlsConfig :
          /\ http' \in StartServer(HttpTls(c))
          /\ grpc' \in StartServer(GrpcTls(c))
          /\ client_auth' = (TlsOn(c) /\ c.client_ca # "none" /\ c.require_client_auth)
          /\ indexing' = TRUE
          /\ main' = "running"
  /\ UNCHANGED <<cancelled, is_accepting, requestVars, grpc_call, attempts, drained>>

\* SIGTERM or SIGINT; the handler is installed before the servers are started.
Signal ==
  /\ main # "exited" /\ ~cancelled
  /\ cancelled' = TRUE
  /\ UNCHANGED <<main, serverVars, is_accepting, requestVars, grpc_call, attempts, drained>>

StopIndexing ==
  /\ cancelled /\ indexing /\ main # "exited"
  /\ indexing' = FALSE
  /\ UNCHANGED <<main, cancelled, http, grpc, client_auth, is_accepting, requestVars,
                 grpc_call, attempts, drained>>

\* serve_with_shutdown lets the calls that are under way finish.
StopGrpc ==
  /\ cancelled /\ grpc \in Serving /\ grpc_call = "idle" /\ main # "exited"
  /\ grpc' = "stopped"
  /\ UNCHANGED <<main, cancelled, http, indexing, client_auth, is_accepting, requestVars,
                 grpc_call, attempts, drained>>

-----------------------------------------------------------------------------
(* An HTTP request passes the layers from the outermost one on. *)

Live == main # "exited" /\ http \in Serving
Move(r, to) ==
  /\ at' = [at EXCEPT ![r] = to]
  /\ UNCHANGED <<main, cancelled, serverVars, is_accepting, grpc_call, attempts, drained>>

\* A reader of the pool waits for the writer that closes it.
CanReadPool == main \notin {"locking", "closing"}

connection_tracker_middleware(r) ==
  /\ Live /\ at[r] = "idle"
  /\ active_connections' = active_connections + 1
  /\ Move(r, "limiting")

\* Let through, refused with 429, or failed with 500.
rate_limit_middleware(r) ==
  /\ Live /\ at[r] = "limiting"
  /\ \E to \in {"checking", "leaving"} : Move(r, to)
  /\ UNCHANGED active_connections

connection_limiter_middleware(r) ==
  /\ Live /\ at[r] = "checking"
  /\ Move(r, IF is_accepting THEN "handling" ELSE "leaving")
  /\ UNCHANGED active_connections

\* health_readiness and ready_check query the database under a read guard.
health_readiness(r) ==
  /\ Live /\ at[r] = "handling" /\ CanReadPool
  /\ Move(r, "querying")
  /\ UNCHANGED active_connections

Respond(r) ==
  /\ Live /\ at[r] \in {"handling", "querying"}
  /\ Move(r, "leaving")
  /\ UNCHANGED active_connections

EndRequest(r) ==
  /\ Live /\ at[r] = "leaving"
  /\ active_connections' = active_connections - 1
  /\ Move(r, "idle")

\* The client disconnects, the request is dropped, and nobody takes it off the count.
DropRequest(r) ==
  /\ Live /\ at[r] # "idle"
  /\ active_connections - Cardinality(InFlight) < MaxLeaks
  /\ Move(r, "idle")
  /\ UNCHANGED active_connections

-----------------------------------------------------------------------------
(* gRPC calls that use the database *)

GrpcStep(to) ==
  /\ main # "exited" /\ grpc \in Serving
  /\ grpc_call' = to
  /\ UNCHANGED <<main, cancelled, serverVars, is_accepting, requestVars, attempts, drained>>

check_database_health == grpc_call = "idle" /\ CanReadPool /\ GrpcStep("guarded")
get_tvl == grpc_call = "idle" /\ CanReadPool /\ GrpcStep("unguarded")
GrpcAnswer == grpc_call # "idle" /\ GrpcStep("idle")

Guards == {r \in Requests : at[r] = "querying"} \cup (IF grpc_call = "guarded" THEN {0} ELSE {})
active_db_connections ==
  Cardinality({r \in Requests : at[r] = "querying"}) + (IF grpc_call = "idle" THEN 0 ELSE 1)

-----------------------------------------------------------------------------
(* NetworkNode::start after the start, and shutdown *)

MainStep(to) == main' = to /\ UNCHANGED <<cancelled, serverVars, requestVars, grpc_call>>

\* The first task that ends, ends the node without a shutdown.
TaskEnds ==
  /\ main = "running"
  /\ http = "failed" \/ grpc \in {"failed", "stopped"} \/ ~indexing
  /\ MainStep("exited") /\ UNCHANGED <<is_accepting, attempts, drained>>

\* Mutant: the connections are waited for, but new ones are still accepted.
AcceptWhileDraining ==
  /\ main = "running" /\ cancelled
  /\ MainStep("draining") /\ attempts' = 0
  /\ UNCHANGED <<is_accepting, drained>>

stop_accepting_new_connections ==
  /\ main = "running" /\ cancelled
  /\ is_accepting' = FALSE
  /\ MainStep("draining") /\ attempts' = 0
  /\ UNCHANGED drained

\* One round of a wait: it is over, or a second passes.
Wait(over, polls, to) ==
  IF over \/ attempts >= polls
  THEN MainStep(to) /\ attempts' = 0
  ELSE MainStep(main) /\ attempts' = attempts + 1

wait_for_connections_to_complete ==
  /\ main = "draining"
  /\ Wait(active_connections = 0, HttpPolls, "waiting_db")
  /\ drained' = (active_connections = 0 /\ attempts < HttpPolls)
  /\ UNCHANGED is_accepting

wait_for_database_operations ==
  /\ main = "waiting_db"
  /\ Wait(active_db_connections = 0, DbPolls, "locking")
  /\ UNCHANGED <<is_accepting, drained>>

\* The grace period may be over at any time during the two waits.
GraceExpires ==
  /\ main \in {"draining", "waiting_db"}
  /\ MainStep("locking") /\ attempts' = 0
  /\ UNCHANGED <<is_accepting, drained>>

\* Mutant: the pool is closed when the last request is off the count.
CloseWhenIdle ==
  \/ /\ main = "locking" /\ active_connections = 0
     /\ MainStep("closing") /\ UNCHANGED <<is_accepting, attempts, drained>>
  \/ /\ main = "closing" /\ active_db_connections = 0
     /\ MainStep("stopping") /\ UNCHANGED <<is_accepting, attempts, drained>>

\* The write guard waits for the readers, and closing for the other queries.
close_database_connections ==
  \/ /\ main = "locking" /\ Guards = {}
     /\ MainStep("closing") /\ UNCHANGED <<is_accepting, attempts, drained>>
  \/ /\ main = "closing" /\ active_db_connections = 0
     /\ MainStep("stopping") /\ UNCHANGED <<is_accepting, attempts, drained>>

\* The server is told to stop; nobody waits for it.
stop ==
  /\ main = "stopping"
  /\ MainStep("exited") /\ UNCHANGED <<is_accepting, attempts, drained>>

Main ==
  \/ start \/ TaskEnds \/ stop_accepting_new_connections
  \/ wait_for_connections_to_complete \/ wait_for_database_operations \/ GraceExpires
  \/ close_database_connections \/ stop

Request(r) ==
  \/ connection_tracker_middleware(r) \/ rate_limit_middleware(r)
  \/ connection_limiter_middleware(r) \/ health_readiness(r)
  \/ Respond(r) \/ EndRequest(r) \/ DropRequest(r)

NodeNext ==
  \/ Main \/ Signal \/ StopIndexing \/ StopGrpc
  \/ \E r \in Requests : Request(r)
  \/ check_database_health \/ get_tvl \/ GrpcAnswer

\* Tokio runs the main task whenever it is ready, and its sleeps and time-out end.
\* Nothing makes a client or the database go on.
NodeFairness == WF_nodeVars(Main)

NodeSpec == NodeInit /\ [][NodeNext]_nodeVars /\ NodeFairness
-----------------------------------------------------------------------------
NodeTypeOK ==
  /\ main \in {"starting", "running", "draining", "waiting_db", "locking", "closing",
               "stopping", "exited"}
  /\ cancelled \in BOOLEAN /\ indexing \in BOOLEAN /\ client_auth \in BOOLEAN
  /\ http \in Serving \cup {"down", "failed"} /\ grpc \in Serving \cup {"down", "failed", "stopped"}
  /\ is_accepting \in BOOLEAN /\ active_connections \in Nat
  /\ at \in [Requests -> {"idle", "limiting", "checking", "handling", "querying", "leaving"}]
  /\ grpc_call \in {"idle", "guarded", "unguarded"}
  /\ attempts \in Nat /\ drained \in BOOLEAN

\* When shutdown has seen no active connection, no request is inside a handler, and
\* none gets there any more: a request is counted before it looks whether the server
\* accepts, so that one which looked before the server stopped is waited for.
DrainedMeansQuiet == drained => \A r \in Requests : at[r] \notin {"handling", "querying"}

\* A server demands client certificates exactly when TLS, a client CA and
\* tls_require_client_auth are configured, whichever way its TLS is set up.
ClientAuthAsConfigured ==
  \A server \in {http, grpc} : server \in Serving => (server = "demanding") = client_auth

\* After a signal the process ends, if the database answers its queries: dropped
\* requests that are counted for ever delay it only by the bounded waits, and
\* closing the pool waits for queries but lets no further one begin.
ExitsAfterSignal ==
  /\ \A r \in Requests : []<>(at[r] # "querying")
  /\ []<>(grpc_call = "idle")
  => (cancelled ~> main = "exited")
=============================================================================
