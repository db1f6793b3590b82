---------------------------- MODULE ServerProofs ----------------------------
(***************************************************************************)
(* Proofs about a node's servers and what every request to them meets: the *)
(* start and the shutdown, and the rate limiter; for any number of         *)
(* requests, callers, keys and minutes, any limit, and any length of the   *)
(* waits.                                                                  *)
(***************************************************************************)
EXTENDS Node, RateLimiter, TLAPS, FiniteSetTheorems

-----------------------------------------------------------------------------
(* Start and shutdown *)

RequestPlaces == {"idle", "limiting", "checking", "handling", "querying", "leaving"}

\* A request is counted from before its first check until after its answer, and one
\* that is dropped is never taken off; so nothing is in flight when the count is 0.
\* The server has stopped accepting while it drains, and after it has drained.
DrainInv ==
  /\ at \in [Requests -> RequestPlaces] /\ active_connections \in Nat
  /\ Cardinality(InFlight) <= active_connections
  /\ main = "draining" => ~is_accepting
  /\ drained => ~is_accepting
  /\ DrainedMeansQuiet

\* A finite number of requests is in flight.
LEMMA InFlightIsFinite ==
  IsFiniteSet(InFlight) /\ Cardinality(InFlight) \in Nat
<1>1. IsFiniteSet(Requests)
  BY NodeAssumption, FS_Interval DEF Requests
<1>2. InFlight \subseteq Requests
  BY DEF InFlight
<1> QED BY <1>1, <1>2, FS_Subset, FS_CardinalityType

\* A node starts with no request and no drain.
LEMMA DrainInvInit == NodeInit => DrainInv
<1> SUFFICES ASSUME NodeInit PROVE DrainInv
  OBVIOUS
<1>1. InFlight = {}
  BY DEF NodeInit, InFlight
<1>2. Cardinality(InFlight) = 0
  BY <1>1, FS_EmptySet
<1> QED BY <1>2 DEF NodeInit, DrainInv, DrainedMeansQuiet, RequestPlaces

\* Every layer a request passes, and every step of the shutdown, keeps DrainInv.
LEMMA DrainInvStep == DrainInv /\ [NodeNext]_nodeVars => DrainInv'
<1> SUFFICES ASSUME DrainInv, [NodeNext]_nodeVars
             PROVE  DrainInv'
  OBVIOUS
<1>1. ASSUME NEW r \in Requests, connection_tracker_middleware(r)
      PROVE  DrainInv'
  <2>1. InFlight' = InFlight \cup {r}
    BY <1>1 DEF connection_tracker_middleware, Move, InFlight, DrainInv
  <2>2. r \notin InFlight
    BY <1>1 DEF connection_tracker_middleware, InFlight
  <2>3. Cardinality(InFlight') = Cardinality(InFlight) + 1
    BY <2>1, <2>2, InFlightIsFinite, FS_AddElement
  <2>4. Cardinality(InFlight') <= active_connections'
    BY <1>1, <2>3, InFlightIsFinite DEF connection_tracker_middleware, DrainInv
  <2> QED BY <1>1, <2>4 DEF connection_tracker_middleware, Move, DrainInv, DrainedMeansQuiet, RequestPlaces
<1>2. ASSUME NEW r \in Requests,
             rate_limit_middleware(r) \/ connection_limiter_middleware(r)
               \/ health_readiness(r) \/ Respond(r)
      PROVE  DrainInv'
  <2>1. InFlight' = InFlight /\ active_connections' = active_connections
    BY <1>2 DEF rate_limit_middleware, connection_limiter_middleware, health_readiness, Respond,
       Move, InFlight, DrainInv
  <2>2. at' \in [Requests -> RequestPlaces]
    BY <1>2 DEF rate_limit_middleware, connection_limiter_middleware, health_readiness, Respond,
       Move, DrainInv, RequestPlaces
  <2>3. DrainedMeansQuiet'
    BY <1>2, Zenon DEF rate_limit_middleware, connection_limiter_middleware, health_readiness, Respond,
       Move, DrainInv, DrainedMeansQuiet
  <2>4. UNCHANGED <<main, is_accepting, drained>>
    BY <1>2 DEF rate_limit_middleware, connection_limiter_middleware, health_readiness, Respond, Move
  <2> QED BY <2>1, <2>2, <2>3, <2>4 DEF DrainInv
<1>3. ASSUME NEW r \in Requests, EndRequest(r) \/ DropRequest(r)
      PROVE  DrainInv'
  <2>1. r \in InFlight /\ InFlight' = InFlight \ {r}
    BY <1>3 DEF EndRequest, DropRequest, Move, InFlight, DrainInv
  <2>2. Cardinality(InFlight') = Cardinality(InFlight) - 1 /\ Cardinality(InFlight') \in Nat
    BY <2>1, InFlightIsFinite, FS_RemoveElement, FS_CardinalityType
  <2>3. active_connections' \in {active_connections, active_connections - 1}
    BY <1>3 DEF EndRequest, DropRequest
  <2>4. active_connections' \in Nat /\ Cardinality(InFlight') <= active_connections'
    BY <2>2, <2>3, InFlightIsFinite DEF DrainInv
  <2> QED BY <1>3, <2>4 DEF EndRequest, DropRequest, Move, DrainInv, DrainedMeansQuiet, RequestPlaces
<1>4. CASE wait_for_connections_to_complete
  <2>1. UNCHANGED <<at, active_connections, is_accepting>> /\ InFlight' = InFlight
    BY <1>4 DEF wait_for_connections_to_complete, Wait, MainStep, requestVars, InFlight
  <2>2. main' \in {"draining", "waiting_db"} /\ main = "draining"
    BY <1>4 DEF wait_for_connections_to_complete, Wait, MainStep
  <2>3. ASSUME drained'
        PROVE  \A r \in Requests : at[r] \notin {"handling", "querying"}
    <3>1. active_connections = 0
      BY <1>4, <2>3, Zenon DEF wait_for_connections_to_complete
    <3>2. InFlight = {}
      BY <3>1, InFlightIsFinite, FS_EmptySet DEF DrainInv
    <3> QED BY <3>2 DEF InFlight
  <2> QED BY <2>1, <2>2, <2>3 DEF DrainInv, DrainedMeansQuiet
<1>5. CASE stop_accepting_new_connections
  BY <1>5 DEF stop_accepting_new_connections, MainStep, requestVars, DrainInv, DrainedMeansQuiet, InFlight
<1>6. ASSUME UNCHANGED <<at, active_connections, is_accepting, drained>>,
             main' = "draining" => main = "draining"
      PROVE  DrainInv'
  BY <1>6 DEF DrainInv, DrainedMeansQuiet, InFlight
<1>7. CASE start \/ TaskEnds \/ wait_for_database_operations \/ GraceExpires
             \/ close_database_connections \/ stop
  <2>1. UNCHANGED <<at, active_connections, is_accepting, drained>>
    BY <1>7 DEF start, TaskEnds, wait_for_database_operations, GraceExpires,
       close_database_connections, stop, Wait, MainStep, requestVars
  <2>2. main' \in {"exited", "running", "waiting_db", "locking", "closing", "stopping"}
    BY <1>7 DEF start, TaskEnds, wait_for_database_operations, GraceExpires,
       close_database_connections, stop, Wait, MainStep
  <2> QED BY <1>6, <2>1, <2>2
<1>8. CASE \/ Signal \/ StopIndexing \/ StopGrpc \/ check_database_health \/ get_tvl \/ GrpcAnswer
           \/ UNCHANGED nodeVars
  <2>1. UNCHANGED <<at, active_connections, is_accepting, drained, main>>
    BY <1>8 DEF Signal, StopIndexing, StopGrpc, check_database_health, get_tvl, GrpcAnswer,
       GrpcStep, requestVars, nodeVars
  <2> QED BY <1>6, <2>1 DEF DrainInv
<1> QED BY <1>1, <1>2, <1>3, <1>4, <1>5, <1>7, <1>8 DEF NodeNext, Main, Request

\* Once shutdown has seen no active connection, no request is in a handler or a query,
\* and none ever will be.
THEOREM DrainLeavesQuiet == NodeSpec => []DrainedMeansQuiet
BY DrainInvInit, DrainInvStep, PTL DEF NodeSpec, DrainInv

-----------------------------------------------------------------------------
\* Whatever the TLS configuration, the two servers agree with it and so with each
\* other on demanding client certificates, from their start to their end.
THEOREM ServersDemandAsConfigured == NodeSpec => []ClientAuthAsConfigured
<1>1. NodeInit => ClientAuthAsConfigured
  BY DEF NodeInit, ClientAuthAsConfigured, Serving
<1>2. ClientAuthAsConfigured /\ [NodeNext]_nodeVars => ClientAuthAsConfigured'
  <2> SUFFICES ASSUME ClientAuthAsConfigured, [NodeNext]_nodeVars
               PROVE  ClientAuthAsConfigured'
    OBVIOUS
  <2>1. CASE start
    <3>1. CASE UNCHANGED serverVars
      BY <3>1 DEF serverVars, ClientAuthAsConfigured
    <3>2. ASSUME NEW c \in TlsConfig, http' \in StartServer(HttpTls(c)), grpc' \in StartServer(GrpcTls(c)),
                 client_auth' = (TlsOn(c) /\ c.client_ca # "none" /\ c.require_client_auth)
          PROVE  ClientAuthAsConfigured'
      <4>1. http' \in Serving => (http' = "demanding") = client_auth'
        BY <3>2 DEF StartServer, HttpTls, TlsOn, Serving, TlsConfig, File
      <4>2. grpc' \in Serving => (grpc' = "demanding") = client_auth'
        BY <3>2 DEF StartServer, GrpcTls, TlsOn, Serving, TlsConfig, File
      <4> QED BY <4>1, <4>2 DEF ClientAuthAsConfigured
    <3> QED BY <2>1, <3>1, <3>2 DEF start
  <2>2. CASE StopGrpc
    BY <2>2 DEF StopGrpc, ClientAuthAsConfigured, Serving
  <2>3. CASE UNCHANGED <<http, grpc, client_auth>>
    BY <2>3 DEF ClientAuthAsConfigured
  <2> QED
    BY <2>1, <2>2, <2>3, Zenon
    DEF NodeNext, Main, Request, TaskEnds, stop_accepting_new_connections,
        wait_for_connections_to_complete, wait_for_database_operations, GraceExpires,
        close_database_connections, stop, Wait, MainStep, Signal, StopIndexing,
        connection_tracker_middleware, rate_limit_middleware, connection_limiter_middleware,
        health_readiness, Respond, EndRequest, DropRequest, Move, check_database_health,
        get_tvl, GrpcAnswer, GrpcStep, serverVars, nodeVars
<1> QED BY <1>1, <1>2, PTL DEF NodeSpec

-----------------------------------------------------------------------------
(* The rate limiter *)

\* The requests that Redis has counted within the limit and that are let through
\* when EXPIRE answers.
Granted(k, b) ==
  {t \in Callers : /\ asking[t].at = "expiring" /\ asking[t].count <= Limit
                   /\ asking[t].key = k /\ asking[t].bucket = b}

\* What n requests counted for minute b show to be used up, when the minutes before
\* end have had their counters replaced or forgotten: at most one limit.
Shown(n, b, end) ==
  IF n # 0 THEN (IF n <= Limit THEN n ELSE Limit) ELSE IF b < end THEN Limit ELSE 0

\* What the counter for k and b shows to be used up, beyond a full limit for every
\* late request: nothing while b is to come, what was counted while the counter
\* is there, and a limit once it has gone for another minute's or was forgotten.
Used(k, b) ==
  IF backend = "Redis" THEN Shown(redis[k][b], b, minute)
  ELSE Shown(IF map[k].ts = b THEN map[k].count ELSE 0, b,
             IF map[k].count # 0 THEN map[k].ts ELSE 0)

\* RateLimitHolds is not inductive: the counters have to explain what was let
\* through and what is about to be, and no request is ahead of the clock.
LimiterInv ==
  /\ LimiterTypeOK
  /\ \A t \in Callers : asking[t].bucket <= minute
  /\ \A k \in Keys : map[k].ts <= minute
  /\ backend = "InMemory" => \A t \in Callers : asking[t].at # "expiring"
  /\ \A k \in Keys, b \in Minutes :
       allowed[k][b] + Cardinality(Granted(k, b)) <= Limit * late[k] + Used(k, b)

\* Products with the limit, for the provers: they are natural numbers and distribute.
LEMMA LimitTimes ==
  ASSUME NEW n \in Nat
  PROVE  Limit * n \in Nat /\ Limit * (n + 1) = Limit * n + Limit /\ Limit * (1 + n) = Limit * n + Limit
BY LimiterAssumption

\* A finite number of requests is about to be let through.
LEMMA GrantedIsFinite ==
  ASSUME NEW k, NEW b
  PROVE  IsFiniteSet(Granted(k, b)) /\ Cardinality(Granted(k, b)) \in Nat
<1>1. IsFiniteSet(Callers)
  BY LimiterAssumption, FS_Interval DEF Callers
<1>2. Granted(k, b) \subseteq Callers
  BY DEF Granted
<1> QED BY <1>1, <1>2, FS_Subset, FS_CardinalityType

\* A counter never shows more than one limit.
LEMMA UsedIsBounded ==
  ASSUME LimiterTypeOK, NEW k \in Keys, NEW b \in Minutes
  PROVE  Used(k, b) \in Nat /\ Used(k, b) <= Limit
<1>1. redis[k][b] \in Nat /\ map[k].count \in Nat
  BY DEF LimiterTypeOK
<1>2. \A n \in Nat : \A y, e : Shown(n, y, e) \in Nat /\ Shown(n, y, e) <= Limit
  BY LimiterAssumption DEF Shown
<1>3. (IF map[k].ts = b THEN map[k].count ELSE 0) \in Nat
  BY <1>1
<1> QED BY <1>1, <1>2, <1>3, Zenon DEF Used

\* The entry a request leaves behind is of its own bucket.
LEMMA CountedEntry ==
  ASSUME NEW e \in [count : Nat, ts : Minutes], NEW d \in Minutes
  PROVE  /\ Count(e, d) \in [count : Nat, ts : Minutes] /\ Count(e, d).ts = d
         /\ Count(e, d).count = IF e.count # 0 /\ e.ts = d THEN e.count + 1 ELSE 1
BY DEF Count

\* The types that the steps below start from.
LEMMA LimiterInvTypes == LimiterInv => LimiterTypeOK /\ minute \in Nat
<1> SUFFICES ASSUME LimiterInv PROVE LimiterTypeOK /\ minute \in Nat
  OBVIOUS
<1>1. LimiterTypeOK
  BY DEF LimiterInv
<1>2. minute \in Minutes
  BY <1>1 DEF LimiterTypeOK
<1> QED BY <1>1, <1>2, LimiterAssumption DEF Minutes

\* At first nothing is counted and nothing let through.
LEMMA LimiterInvInit == LimiterInit => LimiterInv
<1> SUFFICES ASSUME LimiterInit PROVE LimiterInv
  OBVIOUS
<1>1. NoCall \in [at : {"idle", "counting", "expiring"}, key : Keys, bucket : Minutes, count : Nat]
  BY LimiterAssumption DEF NoCall, Minutes
<1>2. LimiterTypeOK
  BY <1>1, LimiterAssumption DEF LimiterInit, LimiterTypeOK, Minutes
<1>3. ASSUME NEW k \in Keys, NEW b \in Minutes
      PROVE  allowed[k][b] + Cardinality(Granted(k, b)) <= Limit * late[k] + Used(k, b)
  <2>1. Granted(k, b) = {}
    BY DEF LimiterInit, Granted, NoCall
  <2>2. Cardinality(Granted(k, b)) = 0 /\ allowed[k][b] = 0 /\ late[k] = 0
    BY <2>1, FS_EmptySet, Zenon DEF LimiterInit
  <2> QED BY <1>2, <2>2, UsedIsBounded, LimiterAssumption
<1> QED BY <1>2, <1>3, LimiterAssumption DEF LimiterInit, LimiterInv, NoCall

\* The conjunct about every key and minute, in the form the steps below establish it.
Covered(k, b) == allowed[k][b] + Cardinality(Granted(k, b)) <= Limit * late[k] + Used(k, b)

\* The numbers in that conjunct.
LEMMA CoveredTypes ==
  ASSUME LimiterInv, NEW k \in Keys, NEW b \in Minutes
  PROVE  /\ allowed[k][b] \in Nat /\ late[k] \in Nat /\ b \in Nat /\ redis[k][b] \in Nat
         /\ minute \in Nat /\ Limit \in Nat
         /\ Limit * late[k] \in Nat /\ Limit * (late[k] + 1) = Limit * late[k] + Limit
         /\ Cardinality(Granted(k, b)) \in Nat /\ Cardinality(Granted(k, b)') \in Nat
         /\ Used(k, b) \in Nat /\ Used(k, b) <= Limit
         /\ Covered(k, b)
<1>1. /\ allowed[k][b] \in Nat /\ late[k] \in Nat /\ b \in Nat /\ redis[k][b] \in Nat
      /\ minute \in Nat /\ Limit \in Nat
  <2>1. allowed[k][b] \in Nat /\ late[k] \in Nat /\ redis[k][b] \in Nat /\ minute \in Minutes
    BY DEF LimiterInv, LimiterTypeOK
  <2> QED BY <2>1, LimiterAssumption DEF Minutes
<1>2. Limit * late[k] \in Nat /\ Limit * (late[k] + 1) = Limit * late[k] + Limit
  BY <1>1, LimitTimes
<1>3. Cardinality(Granted(k, b)) \in Nat /\ Cardinality(Granted(k, b)') \in Nat
  <2>1. Granted(k, b)' \subseteq Callers
    BY DEF Granted
  <2>2. IsFiniteSet(Callers)
    BY LimiterAssumption, FS_Interval DEF Callers
  <2> QED BY <2>1, <2>2, GrantedIsFinite, FS_Subset, FS_CardinalityType
<1> QED BY <1>1, <1>2, <1>3, UsedIsBounded DEF LimiterInv, Covered

\* It stays true where only the counter changes, and shows no less than before.
LEMMA CoveredStays ==
  ASSUME LimiterInv, NEW k \in Keys, NEW b \in Minutes,
         allowed'[k] = allowed[k], late'[k] = late[k], Granted(k, b)' = Granted(k, b),
         Used(k, b)' = Used(k, b) \/ (Used(k, b) <= Used(k, b)' /\ Used(k, b)' \in Nat)
  PROVE  Covered(k, b)'
<1> DEFINE a == allowed[k][b]
           g == Cardinality(Granted(k, b))
           base == Limit * late[k]
           u == Used(k, b)
           u2 == Used(k, b)'
<1>1. /\ a \in Nat /\ g \in Nat /\ base \in Nat /\ u \in Nat /\ a + g <= base + u
  BY CoveredTypes, Zenon DEF Covered
<1>2. (Covered(k, b)') <=> a + g <= base + u2
  BY DEF Covered
<1> HIDE DEF a, g, base, u
<1>3. u2 = u \/ (u <= u2 /\ u2 \in Nat)
  BY DEF u
<1> HIDE DEF u2
<1> QED BY <1>1, <1>2, <1>3

\* A request that is counted in memory takes one from the entry of its minute, or
\* starts that entry over: in the place of an older minute's, whose requests are
\* late from then on, or of a later one's, when it is late itself.
LEMMA CountInMemoryStep ==
  ASSUME LimiterInv, NEW t \in Callers, CountInMemory(t)
  PROVE  LimiterInv'
<1> DEFINE c == asking[t]
           entry == Count(map[c.key], c.bucket)
<1>1. /\ backend = "InMemory" /\ c.at = "counting" /\ c.key \in Keys /\ c.bucket \in Minutes
      /\ c.bucket <= minute /\ minute \in Nat /\ c.bucket \in Nat
  BY LimiterAssumption DEF CountInMemory, LimiterInv, LimiterTypeOK, Minutes
<1>2. /\ map[c.key].count \in Nat /\ map[c.key].ts \in Minutes /\ map[c.key].ts <= minute
      /\ map[c.key].ts \in Nat
  BY <1>1, LimiterAssumption DEF LimiterInv, LimiterTypeOK, Minutes
<1>3. /\ entry \in [count : Nat, ts : Minutes] /\ entry.ts = c.bucket
      /\ entry.count = IF map[c.key].count # 0 /\ map[c.key].ts = c.bucket
                       THEN map[c.key].count + 1 ELSE 1
  <2> DEFINE old == map[c.key]
             d == c.bucket
  <2>1. old \in [count : Nat, ts : Minutes] /\ d \in Minutes
    BY <1>1 DEF LimiterInv, LimiterTypeOK
  <2> HIDE DEF old, d
  <2>2. /\ Count(old, d) \in [count : Nat, ts : Minutes] /\ Count(old, d).ts = d
        /\ Count(old, d).count = IF old.count # 0 /\ old.ts = d THEN old.count + 1 ELSE 1
    BY <2>1, CountedEntry, Zenon
  <2> QED BY <2>2, Zenon DEF entry, old, d
<1>4. /\ map' = [map EXCEPT ![c.key] = entry]
      /\ allowed' = IF entry.count <= Limit
                    THEN [allowed EXCEPT ![c.key][c.bucket] = @ + 1] ELSE allowed
      /\ asking' = [asking EXCEPT ![t] = NoCall]
      /\ late' = IF c.bucket < minute THEN [late EXCEPT ![c.key] = @ + 1] ELSE late
      /\ UNCHANGED <<backend, redis, minute, calls>>
  BY DEF CountInMemory, Answer, NoteLate
<1>5. NoCall \in [at : {"idle", "counting", "expiring"}, key : Keys, bucket : Minutes, count : Nat]
      /\ NoCall.bucket = 0 /\ NoCall.at = "idle"
  BY LimiterAssumption DEF NoCall, Minutes
<1> HIDE DEF c, entry
<1>6. LimiterTypeOK'
  BY <1>1, <1>3, <1>4, <1>5 DEF LimiterInv, LimiterTypeOK
<1>7. /\ \A u \in Callers : asking'[u].bucket <= minute'
      /\ \A k \in Keys : map'[k].ts <= minute'
      /\ backend' = "InMemory" => \A u \in Callers : asking'[u].at # "expiring"
  BY <1>1, <1>3, <1>4, <1>5 DEF LimiterInv, LimiterTypeOK
<1>8. ASSUME NEW k \in Keys, NEW b \in Minutes
      PROVE  Covered(k, b)'
  <2> DEFINE base == Limit * late[k]
             base2 == Limit * late'[k]
             a == allowed[k][b]
             a2 == allowed'[k][b]
             m == map[k].count
             m2 == map'[k].count
             s == map[k].ts
             d == c.bucket
  <2>1. Granted(k, b) = {} /\ Granted(k, b)' = {}
    BY <1>1, <1>4, <1>7 DEF LimiterInv, Granted
  <2>2. Cardinality(Granted(k, b)) = 0 /\ Cardinality(Granted(k, b)') = 0
    BY <2>1, FS_EmptySet
  <2>3. /\ a \in Nat /\ b \in Nat /\ minute \in Nat /\ Limit \in Nat
        /\ base \in Nat /\ Limit * (late[k] + 1) = base + Limit
        /\ Used(k, b) \in Nat /\ a + Cardinality(Granted(k, b)) <= base + Used(k, b)
    BY CoveredTypes, Zenon DEF Covered
  <2>4. m \in Nat /\ s \in Nat /\ a2 \in Nat
    <3>1. map[k].count \in Nat /\ map[k].ts \in Minutes
      BY DEF LimiterInv, LimiterTypeOK
    <3>2. allowed'[k][b] \in Nat
      BY <1>6 DEF LimiterTypeOK
    <3> QED BY <3>1, <3>2, LimiterAssumption DEF Minutes
  <2>5. (Covered(k, b)') <=> a2 + 0 <= base2 + Used(k, b)'
    BY <2>2, Zenon DEF Covered
  <2>6. CASE k # c.key
    <3>1. allowed'[k] = allowed[k] /\ late'[k] = late[k] /\ map'[k] = map[k]
      BY <1>1, <1>4, <2>6, Zenon DEF LimiterInv, LimiterTypeOK
    <3>2. Used(k, b)' = Used(k, b)
      <4>1. backend' = backend /\ redis' = redis /\ minute' = minute
        BY <1>4
      <4> QED BY <3>1, <4>1 DEF Used
    <3>3. a2 = a /\ base2 = base
      BY <3>1
    <3> HIDE DEF a, a2, base, base2
    <3> QED BY <2>2, <2>3, <2>5, <3>2, <3>3, Zenon
  <2>7. CASE k = c.key
    <3>1. /\ map'[k].ts = d
          /\ m2 = IF m # 0 /\ s = d THEN m + 1 ELSE 1
          /\ a2 = IF m2 <= Limit /\ b = d THEN a + 1 ELSE a
      BY <1>1, <1>3, <1>4, <2>7, Zenon DEF LimiterInv, LimiterTypeOK
    <3>2. base2 = IF d < minute THEN base + Limit ELSE base
      <4>1. late'[k] = IF d < minute THEN late[k] + 1 ELSE late[k]
        BY <1>4, <2>7 DEF LimiterInv, LimiterTypeOK
      <4> QED BY <2>3, <4>1
    <3>3. backend' # "Redis" /\ backend # "Redis"
      BY <1>1, <1>4
    <3>4. Used(k, b) = Shown(IF s = b THEN m ELSE 0, b, IF m # 0 THEN s ELSE 0)
      BY <3>3 DEF Used
    <3>5. Used(k, b)' = Shown(IF d = b THEN m2 ELSE 0, b, IF m2 # 0 THEN d ELSE 0)
      BY <3>1, <3>3 DEF Used
    <3>6. d \in Nat /\ d <= minute /\ s <= minute
      BY <1>1, <1>2, <2>7
    <3> HIDE DEF a, a2, base, base2, m, m2, s, d
    <3> DEFINE u == Used(k, b)
               u2 == Used(k, b)'
    <3>7. a <= base + u
      BY <2>2, <2>3
    <3> HIDE DEF u, u2
    <3>8. a2 <= base2 + u2
      <4>1. u = Shown(IF s = b THEN m ELSE 0, b, IF m # 0 THEN s ELSE 0)
            /\ u2 = Shown(IF d = b THEN m2 ELSE 0, b, IF m2 # 0 THEN d ELSE 0)
        BY <3>4, <3>5 DEF u, u2
      <4> QED BY <2>3, <2>4, <3>1, <3>2, <3>6, <3>7, <4>1 DEF Shown
    <3> QED BY <2>4, <2>5, <3>8 DEF u2
  <2> QED BY <2>6, <2>7
<1> QED BY <1>6, <1>7, <1>8, Zenon DEF LimiterInv, Covered

\* A request that asks reads the minute and counts for nothing yet.
LEMMA AllowStep ==
  ASSUME LimiterInv, NEW t \in Callers, NEW q \in Keys, allow(t, q)
  PROVE  LimiterInv'
<1> DEFINE x == [at |-> "counting", key |-> q, bucket |-> minute, count |-> 0]
<1>1. /\ asking[t].at = "idle" /\ calls < MaxCalls /\ calls' = calls + 1
      /\ asking' = [asking EXCEPT ![t] = x]
      /\ UNCHANGED <<backend, map, redis, minute, allowed, late>>
  BY DEF allow
<1>2. x.at = "counting" /\ x.bucket = minute
      /\ x \in [at : {"idle", "counting", "expiring"}, key : Keys, bucket : Minutes, count : Nat]
  BY DEF LimiterInv, LimiterTypeOK
<1>20. LimiterTypeOK /\ minute \in Nat
  BY LimiterInvTypes
<1>21. asking'[t] = x /\ \A u \in Callers : u # t => asking'[u] = asking[u]
  BY <1>1, <1>20 DEF LimiterTypeOK
<1> HIDE DEF x
<1>3. LimiterTypeOK'
  BY <1>1, <1>2, LimiterAssumption DEF LimiterInv, LimiterTypeOK
<1>4. /\ \A u \in Callers : asking'[u].bucket <= minute'
      /\ \A k \in Keys : map'[k].ts <= minute'
      /\ backend' = "InMemory" => \A u \in Callers : asking'[u].at # "expiring"
  BY <1>1, <1>2, <1>20 DEF LimiterInv, LimiterTypeOK
<1>5. ASSUME NEW k \in Keys, NEW b \in Minutes
      PROVE  Covered(k, b)'
  <2>1. Granted(k, b)' = Granted(k, b)
    <3>1. t \notin Granted(k, b)
      BY <1>1 DEF Granted
    <3> QED BY <1>2, <1>21, <3>1 DEF Granted
  <2>2. Used(k, b)' = Used(k, b)
    BY <1>1 DEF Used
  <2>3. allowed'[k] = allowed[k] /\ late'[k] = late[k]
    BY <1>1
  <2> QED BY <2>1, <2>2, <2>3, CoveredStays, Zenon
<1> QED BY <1>3, <1>4, <1>5, Zenon DEF LimiterInv, Covered

\* INCR counts a request for its own minute; it is let through later when it was
\* within the limit.  A counter that Redis forgot is only raised by late requests.
LEMMA RedisIncrStep ==
  ASSUME LimiterInv, NEW t \in Callers, RedisIncr(t)
  PROVE  LimiterInv'
<1> DEFINE c == asking[t]
           n == redis[c.key][c.bucket] + 1
           x == [c EXCEPT !.at = "expiring", !.count = n]
           R == [at : {"idle", "counting", "expiring"}, key : Keys, bucket : Minutes, count : Nat]
<1>20. LimiterTypeOK /\ minute \in Nat
  BY LimiterInvTypes, Zenon
<1>1. /\ backend = "Redis" /\ c.at = "counting" /\ c.key \in Keys /\ c.bucket \in Minutes /\ c \in R
      /\ c.bucket <= minute /\ minute \in Nat /\ c.bucket \in Nat /\ n \in Nat
  <2>1. c \in R /\ c.bucket <= minute
    BY DEF LimiterInv, LimiterTypeOK
  <2>2. n \in Nat
    BY <2>1 DEF LimiterInv, LimiterTypeOK
  <2>3. c.bucket \in Nat
    BY <2>1, LimiterAssumption DEF Minutes
  <2> QED BY <1>20, <2>1, <2>2, <2>3 DEF RedisIncr
<1>2. NoCall \in R /\ NoCall.bucket = 0 /\ NoCall.at = "idle"
  BY LimiterAssumption DEF NoCall, Minutes
<1>3. x \in R /\ x.at = "expiring" /\ x.count = n /\ x.key = c.key /\ x.bucket = c.bucket
  BY <1>1, Zenon
<1>4. \/ /\ redis' = [redis EXCEPT ![c.key][c.bucket] = n]
         /\ asking' = [asking EXCEPT ![t] = x]
         /\ late' = IF c.bucket < minute THEN [late EXCEPT ![c.key] = @ + 1] ELSE late
      \/ asking' = [asking EXCEPT ![t] = NoCall] /\ UNCHANGED <<redis, late>>
  <2>1. ASSUME redis' = [redis EXCEPT ![c.key][c.bucket] = n]
        PROVE  redis'[c.key][c.bucket] = n
    BY <1>1, <2>1 DEF LimiterInv, LimiterTypeOK
  <2>2. ASSUME redis'[c.key][c.bucket] = n,
               asking' = [asking EXCEPT ![t].at = "expiring", ![t].count = redis'[c.key][c.bucket]]
        PROVE  asking' = [asking EXCEPT ![t] = x]
    BY <1>20, <2>2, Zenon DEF LimiterTypeOK
  <2> QED BY <2>1, <2>2 DEF RedisIncr, NoteLate
<1>5. UNCHANGED <<backend, map, minute, calls, allowed>>
  BY DEF RedisIncr
<1> HIDE DEF c, n, x
<1>6. LimiterTypeOK'
  <2>1. ASSUME redis' = [redis EXCEPT ![c.key][c.bucket] = n] PROVE redis' \in [Keys -> [Minutes -> Nat]]
    BY <1>1, <1>20, <2>1 DEF LimiterTypeOK
  <2>2. ASSUME late' = [late EXCEPT ![c.key] = @ + 1] PROVE late' \in [Keys -> Nat]
    BY <1>1, <1>20, <2>2 DEF LimiterTypeOK
  <2>4. redis' \in [Keys -> [Minutes -> Nat]] /\ late' \in [Keys -> Nat]
    BY <1>4, <1>20, <2>1, <2>2, Zenon DEF LimiterTypeOK
  <2>3. asking' \in [Callers -> R]
    BY <1>2, <1>3, <1>4, <1>20, Zenon DEF LimiterTypeOK
  <2> QED BY <1>5, <1>20, <2>3, <2>4 DEF LimiterTypeOK
<1>7. /\ \A u \in Callers : asking'[u].bucket <= minute'
      /\ \A k \in Keys : map'[k].ts <= minute'
      /\ backend' = "InMemory" => \A u \in Callers : asking'[u].at # "expiring"
  <2>1. \A u \in Callers : asking'[u] = asking[u] \/ asking'[u] = x \/ asking'[u] = NoCall
    BY <1>4, <1>20 DEF LimiterTypeOK
  <2> QED BY <1>1, <1>2, <1>3, <1>5, <1>20, <2>1 DEF LimiterInv
<1>8. ASSUME NEW k \in Keys, NEW b \in Minutes
      PROVE  Covered(k, b)'
  <2>1. t \notin Granted(k, b)
    BY <1>1 DEF Granted, c
  <2>2. CASE asking' = [asking EXCEPT ![t] = NoCall] /\ UNCHANGED <<redis, late>>
    <3>1. Granted(k, b)' = Granted(k, b)
      <4>1. asking'[t] = NoCall /\ \A u \in Callers : u # t => asking'[u] = asking[u]
        BY <1>20, <2>2 DEF LimiterTypeOK
      <4> QED BY <1>2, <2>1, <4>1 DEF Granted
    <3>2. Used(k, b)' = Used(k, b)
      BY <1>5, <2>2 DEF Used
    <3>3. allowed'[k] = allowed[k] /\ late'[k] = late[k]
      BY <1>5, <2>2
    <3> QED BY <3>1, <3>2, <3>3, CoveredStays, Zenon
  <2>3. CASE /\ redis' = [redis EXCEPT ![c.key][c.bucket] = n]
             /\ asking' = [asking EXCEPT ![t] = x]
             /\ late' = IF c.bucket < minute THEN [late EXCEPT ![c.key] = @ + 1] ELSE late
    <3>1. Granted(k, b)' = IF n <= Limit /\ c.key = k /\ c.bucket = b
                           THEN Granted(k, b) \cup {t} ELSE Granted(k, b)
      <4>1. asking'[t] = x /\ \A u \in Callers : u # t => asking'[u] = asking[u]
        BY <1>20, <2>3 DEF LimiterTypeOK
      <4> QED BY <1>3, <2>1, <4>1 DEF Granted
    <3>2. Cardinality(Granted(k, b) \cup {t}) = Cardinality(Granted(k, b)) + 1
      BY <2>1, GrantedIsFinite, FS_AddElement, Zenon
    <3>3. CASE k # c.key
      <4>1. redis'[k] = redis[k] /\ late'[k] = late[k] /\ allowed'[k] = allowed[k]
        BY <1>1, <1>5, <2>3, <3>3, Zenon DEF LimiterInv, LimiterTypeOK
      <4>2. Used(k, b)' = Used(k, b)
        BY <1>5, <4>1 DEF Used
      <4>3. Granted(k, b)' = Granted(k, b)
        BY <3>1, <3>3
      <4> QED BY <4>1, <4>2, <4>3, CoveredStays, Zenon
    <3> DEFINE a == allowed[k][b]
               g == Cardinality(Granted(k, b))
               g2 == Cardinality(Granted(k, b)')
               base == Limit * late[k]
               base2 == Limit * late'[k]
               u == Used(k, b)
               u2 == Used(k, b)'
               r == redis[k][b]
    <3>4. /\ (Covered(k, b)') <=> a + g2 <= base2 + u2
          /\ a + g <= base + u
          /\ a \in Nat /\ g \in Nat /\ g2 \in Nat /\ base \in Nat /\ u \in Nat /\ r \in Nat
          /\ b \in Nat /\ minute \in Nat /\ Limit \in Nat /\ Limit * (late[k] + 1) = base + Limit
      <4>1. (Covered(k, b)') <=> a + g2 <= base2 + u2
        BY <1>5, Zenon DEF Covered
      <4> QED BY <4>1, CoveredTypes, Zenon DEF Covered
    <3>5. CASE k = c.key /\ b # c.bucket
      <4>1. redis'[k][b] = redis[k][b] /\ (late'[k] = late[k] \/ late'[k] = late[k] + 1)
        BY <1>1, <2>3, <3>5 DEF LimiterInv, LimiterTypeOK
      <4>2. u2 = u
        BY <1>1, <1>5, <4>1, Zenon DEF Used
      <4>3. base2 = base \/ base2 = base + Limit
        BY <3>4, <4>1
      <4>4. g2 = g
        BY <3>1, <3>5
      <4> HIDE DEF a, g, g2, base, base2, u, u2, r
      <4> QED BY <3>4, <4>2, <4>3, <4>4
    <3>6. CASE k = c.key /\ b = c.bucket
      <4>1. redis'[k][b] = r + 1 /\ n = r + 1
        BY <1>1, <2>3, <3>6, Zenon DEF LimiterInv, LimiterTypeOK, n
      <4>2. late'[k] = IF b < minute THEN late[k] + 1 ELSE late[k]
        BY <2>3, <3>6, Zenon DEF LimiterInv, LimiterTypeOK
      <4>3. base2 = IF b < minute THEN base + Limit ELSE base
        BY <3>4, <4>2
      <4>4. u = Shown(r, b, minute)
        BY <1>1 DEF Used
      <4>5. u2 = Shown(r + 1, b, minute)
        BY <1>1, <1>5, <4>1, Zenon DEF Used
      <4>6. g2 = IF r + 1 <= Limit THEN g + 1 ELSE g
        BY <3>1, <3>2, <3>6, <4>1
      <4> HIDE DEF a, g, g2, base, base2, u, u2, r
      <4>7. a + g2 <= base2 + u2
        BY <3>4, <4>3, <4>4, <4>5, <4>6 DEF Shown
      <4> QED BY <3>4, <4>7
    <3> QED BY <3>3, <3>5, <3>6, Zenon
  <2> QED BY <1>4, <2>2, <2>3
<1> QED BY <1>6, <1>7, <1>8, Zenon DEF LimiterInv, Covered

\* EXPIRE lets a counted request through, and it was counted on already; a request
\* over the limit, or whose EXPIRE fails, is refused.
LEMMA RedisExpireStep ==
  ASSUME LimiterInv, NEW t \in Callers, RedisExpire(t)
  PROVE  LimiterInv'
<1> DEFINE c == asking[t]
           R == [at : {"idle", "counting", "expiring"}, key : Keys, bucket : Minutes, count : Nat]
<1>1. LimiterTypeOK /\ minute \in Nat
  BY LimiterInvTypes
<1>2. c \in R /\ c.at = "expiring"
  BY <1>1 DEF RedisExpire, LimiterTypeOK
<1>3. NoCall \in R /\ NoCall.bucket = 0 /\ NoCall.at = "idle"
  BY LimiterAssumption DEF NoCall, Minutes
<1>4. /\ asking' = [asking EXCEPT ![t] = NoCall]
      /\ \/ allowed' = allowed
         \/ c.count <= Limit /\ allowed' = [allowed EXCEPT ![c.key][c.bucket] = @ + 1]
      /\ UNCHANGED <<backend, map, redis, minute, calls, late>>
  BY DEF RedisExpire, Answer
<1>5. asking'[t] = NoCall /\ \A u \in Callers : u # t => asking'[u] = asking[u]
  BY <1>1, <1>4 DEF LimiterTypeOK
<1> HIDE DEF c
<1>6. LimiterTypeOK'
  <2>1. allowed' \in [Keys -> [Minutes -> Nat]]
    <3>1. c.key \in Keys /\ c.bucket \in Minutes
      BY <1>2
    <3>2. allowed \in [Keys -> [Minutes -> Nat]]
      BY <1>1 DEF LimiterTypeOK
    <3>3. ASSUME allowed' = [allowed EXCEPT ![c.key][c.bucket] = @ + 1]
          PROVE  allowed' \in [Keys -> [Minutes -> Nat]]
      BY <3>1, <3>2, <3>3
    <3> QED BY <1>4, <3>2, <3>3
  <2>2. asking \in [Callers -> R]
    BY <1>1 DEF LimiterTypeOK
  <2>3. asking' \in [Callers -> R]
    <3> HIDE DEF R
    <3> QED BY <1>3, <1>4, <2>2
  <2> QED BY <1>1, <1>4, <2>1, <2>3 DEF LimiterTypeOK
<1>7. /\ \A u \in Callers : asking'[u].bucket <= minute'
      /\ \A k \in Keys : map'[k].ts <= minute'
      /\ backend' = "InMemory" => \A u \in Callers : asking'[u].at # "expiring"
  BY <1>1, <1>3, <1>4, <1>5 DEF LimiterInv
<1>8. ASSUME NEW k \in Keys, NEW b \in Minutes
      PROVE  Covered(k, b)'
  <2>1. Granted(k, b)' = Granted(k, b) \ {t}
    BY <1>3, <1>5 DEF Granted
  <2>2. Cardinality(Granted(k, b)') =
          IF t \in Granted(k, b) THEN Cardinality(Granted(k, b)) - 1 ELSE Cardinality(Granted(k, b))
    BY <2>1, GrantedIsFinite, FS_RemoveElement, Zenon
  <2>3. t \in Granted(k, b) <=> c.count <= Limit /\ k = c.key /\ b = c.bucket
    BY <1>2 DEF Granted, c
  <2>4. \/ allowed'[k][b] = allowed[k][b]
        \/ t \in Granted(k, b) /\ allowed'[k][b] = allowed[k][b] + 1
    BY <1>1, <1>2, <1>4, <2>3 DEF LimiterTypeOK
  <2>5. Used(k, b)' = Used(k, b)
    BY <1>4 DEF Used
  <2>6. allowed'[k][b] + Cardinality(Granted(k, b)') <= allowed[k][b] + Cardinality(Granted(k, b))
        /\ allowed'[k][b] + Cardinality(Granted(k, b)') \in Nat
    <3>1. /\ allowed[k][b] \in Nat /\ Cardinality(Granted(k, b)) \in Nat
          /\ Cardinality(Granted(k, b)') \in Nat
      BY CoveredTypes, Zenon
    <3>2. CASE t \in Granted(k, b)
      BY <2>2, <2>4, <3>1, <3>2
    <3>3. CASE t \notin Granted(k, b)
      BY <2>2, <2>4, <3>1, <3>3
    <3> QED BY <3>2, <3>3, Zenon
  <2> DEFINE sum == allowed[k][b] + Cardinality(Granted(k, b))
             sum2 == allowed'[k][b] + Cardinality(Granted(k, b)')
             most == Limit * late[k] + Used(k, b)
  <2>7. sum <= most /\ sum \in Nat /\ most \in Nat
    BY CoveredTypes DEF Covered
  <2>8. (Covered(k, b)') <=> sum2 <= most
    BY <1>4, <2>5, Zenon DEF Covered
  <2> HIDE DEF sum, most
  <2>9. sum2 <= sum /\ sum2 \in Nat
    BY <2>6 DEF sum
  <2> HIDE DEF sum2
  <2> QED BY <2>7, <2>8, <2>9
<1> QED BY <1>6, <1>7, <1>8, Zenon DEF LimiterInv, Covered

\* When a minute ends its counter may go, so it counts as used up.
LEMMA NextMinuteStep ==
  ASSUME LimiterInv, NextMinute
  PROVE  LimiterInv'
<1>1. LimiterTypeOK /\ minute \in Nat
  BY LimiterInvTypes
<1>2. /\ minute < MaxMinute /\ minute' = minute + 1
      /\ UNCHANGED <<backend, map, redis, asking, calls, allowed, late>>
  BY DEF NextMinute
<1>3. minute' \in Minutes
  BY <1>1, <1>2, LimiterAssumption DEF Minutes
<1>4. LimiterTypeOK'
  BY <1>1, <1>2, <1>3 DEF LimiterTypeOK
<1>5. /\ \A t \in Callers : asking[t].bucket \in Nat
      /\ \A k \in Keys : map[k].ts \in Nat
  <2>1. /\ \A t \in Callers : asking[t].bucket \in Minutes
        /\ \A k \in Keys : map[k].ts \in Minutes
    BY <1>1, Zenon DEF LimiterTypeOK
  <2> QED BY <2>1, LimiterAssumption DEF Minutes
<1>6. /\ \A t \in Callers : asking'[t].bucket <= minute'
      /\ \A k \in Keys : map'[k].ts <= minute'
      /\ backend' = "InMemory" => \A t \in Callers : asking'[t].at # "expiring"
  BY <1>1, <1>2, <1>5 DEF LimiterInv
<1>7. ASSUME NEW k \in Keys, NEW b \in Minutes
      PROVE  Covered(k, b)'
  <2>1. Granted(k, b)' = Granted(k, b)
    BY <1>2, Zenon DEF Granted
  <2>2. Used(k, b) <= Used(k, b)' /\ Used(k, b)' \in Nat
    <3>1. redis[k][b] \in Nat /\ b \in Nat /\ Limit \in Nat
      BY CoveredTypes
    <3>2. map[k].count \in Nat
      BY <1>1 DEF LimiterTypeOK
    <3> QED BY <1>1, <1>2, <1>5, <3>1, <3>2 DEF Used, Shown
  <2>3. allowed'[k] = allowed[k] /\ late'[k] = late[k]
    BY <1>2
  <2> QED BY <2>1, <2>2, <2>3, CoveredStays, Zenon
<1> QED BY <1>4, <1>6, <1>7, Zenon DEF LimiterInv, Covered

\* A counter that Redis drops was of an earlier minute.
LEMMA RedisForgetsStep ==
  ASSUME LimiterInv, NEW q \in Keys, NEW d \in Minutes, RedisForgets(q, d)
  PROVE  LimiterInv'
<1>1. LimiterTypeOK /\ minute \in Nat
  BY LimiterInvTypes
<1>2. /\ d < minute /\ redis' = [redis EXCEPT ![q][d] = 0]
      /\ UNCHANGED <<backend, map, minute, asking, calls, allowed, late>>
  BY DEF RedisForgets
<1>3. LimiterTypeOK'
  <2>1. redis' \in [Keys -> [Minutes -> Nat]]
    BY <1>1, <1>2 DEF LimiterTypeOK
  <2> QED BY <1>1, <1>2, <2>1, Zenon DEF LimiterTypeOK
<1>4. ASSUME NEW k \in Keys, NEW b \in Minutes
      PROVE  Covered(k, b)'
  <2>1. Granted(k, b)' = Granted(k, b)
    BY <1>2 DEF Granted
  <2>2. redis'[k][b] = redis[k][b] \/ (redis'[k][b] = 0 /\ b < minute)
    BY <1>1, <1>2, Zenon DEF LimiterTypeOK
  <2>3. Used(k, b) <= Used(k, b)' /\ Used(k, b)' \in Nat
    <3>1. redis[k][b] \in Nat /\ b \in Nat /\ Limit \in Nat
      BY CoveredTypes, Zenon
    <3>2. map[k].count \in Nat
      BY <1>1 DEF LimiterTypeOK
    <3> QED BY <1>1, <1>2, <2>2, <3>1, <3>2 DEF Used, Shown
  <2>4. allowed'[k] = allowed[k] /\ late'[k] = late[k]
    BY <1>2
  <2> QED BY <2>1, <2>3, <2>4, CoveredStays, Zenon
<1> QED BY <1>2, <1>3, <1>4, Zenon DEF LimiterInv, Covered

\* Every step of the rate limiter keeps the invariant.
LEMMA LimiterInvStep ==
  ASSUME LimiterInv, [LimiterNext]_limiterVars
  PROVE  LimiterInv'
<1>1. CASE UNCHANGED limiterVars
  <2>1. \A k \in Keys, b \in Minutes : Granted(k, b)' = Granted(k, b) /\ Used(k, b)' = Used(k, b)
    <3> SUFFICES ASSUME NEW k \in Keys, NEW b \in Minutes
                 PROVE  Granted(k, b)' = Granted(k, b) /\ Used(k, b)' = Used(k, b)
      OBVIOUS
    <3>1. backend' = backend /\ redis' = redis /\ map' = map /\ minute' = minute /\ asking' = asking
      BY <1>1 DEF limiterVars
    <3>2. Granted(k, b)' = Granted(k, b)
      BY <3>1 DEF Granted
    <3>3. Used(k, b)' = Used(k, b)
      BY <3>1, Zenon DEF Used
    <3> QED BY <3>2, <3>3
  <2>2. LimiterTypeOK'
    BY <1>1 DEF limiterVars, LimiterInv, LimiterTypeOK
  <2> QED BY <1>1, <2>1, <2>2, Zenon DEF limiterVars, LimiterInv
<1>2. CASE LimiterNext
  BY <1>2, AllowStep, CountInMemoryStep, RedisIncrStep, RedisExpireStep, NextMinuteStep,
     RedisForgetsStep DEF LimiterNext
<1> QED BY <1>1, <1>2

\* A client gets at most Limit requests through in a minute, and once more as many
\* for every one of its requests that allow counted after its own minute was over:
\* for any number of tasks, clients and minutes, whatever Redis drops or fails to do.
THEOREM RateLimit == LimiterSpec => []RateLimitHolds
<1>1. LimiterInv => RateLimitHolds
  <2> SUFFICES ASSUME LimiterInv, NEW k \in Keys, NEW b \in Minutes
               PROVE  allowed[k][b] <= Limit * (1 + late[k])
    BY Zenon DEF RateLimitHolds
  <2>1. late[k] \in Nat
    BY CoveredTypes
  <2>2. Limit * (1 + late[k]) = Limit * late[k] + Limit
    BY <2>1, LimitTimes
  <2> QED BY <2>2, CoveredTypes DEF Covered
<1> QED BY <1>1, LimiterInvInit, LimiterInvStep, PTL DEF LimiterSpec
=============================================================================
