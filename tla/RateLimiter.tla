---------------------------- MODULE RateLimiter -----------------------------
(***************************************************************************)
(* The rate limiter (network-node/src/rate_limiter.rs) under concurrent    *)
(* requests of the HTTP server, with a Redis or an in-memory backend.      *)
(*                                                                         *)
(* A request works out its minute first and counts itself later, when it   *)
(* gets the mutex or when Redis answers.  Redis drops the counter of a     *)
(* minute some time after that minute is over.                             *)
(***************************************************************************)
EXTENDS Integers, FiniteSets

CONSTANTS
  Keys,                 \* the clients' addresses
  NumCallers,           \* the tasks that call allow are 1..NumCallers
  Limit,                \* limit_per_minute
  MaxMinute, MaxCalls   \* bounds: the last minute, all calls of allow

VARIABLES
  backend,              \* "Redis" or "InMemory"
  map,                  \* in memory: count and bucket of each key, count 0 for no entry
  redis,                \* in Redis: the counter of each key and bucket
  minute,               \* SystemTime::now, in minutes
  asking,               \* the call of each task
  calls,
  allowed,              \* observer: requests let through, by key and bucket
  late                  \* observer: requests counted after their minute, by key

limiterVars == <<backend, map, redis, minute, asking, calls, allowed, late>>

Callers == 1..NumCallers
Minutes == 0..MaxMinute
NoCall == [at |-> "idle", key |-> CHOOSE k \in Keys : TRUE, bucket |-> 0, count |-> 0]

ASSUME LimiterAssumption ==
  /\ Keys # {} /\ NumCallers \in Nat /\ Limit \in Nat
  /\ MaxMinute \in Nat /\ MaxCalls \in Nat

\* Without a Redis that answers, new falls back to memory.
LimiterInit ==
  /\ backend \in {"Redis", "InMemory"}
  /\ map = [k \in Keys |-> [count |-> 0, ts |-> 0]]
  /\ redis = [k \in Keys |-> [b \in Minutes |-> 0]]
  /\ minute = 0 /\ calls = 0
  /\ asking = [t \in Callers |-> NoCall]
  /\ allowed = [k \in Keys |-> [b \in Minutes |-> 0]]
  /\ late = [k \in Keys |-> 0]

-----------------------------------------------------------------------------
\* The minute is read; then the mutex, or Redis, is waited for.
allow(t, k) ==
  /\ asking[t].at = "idle" /\ calls < MaxCalls
  /\ calls' = calls + 1
  /\ asking' = [asking EXCEPT ![t] =
       [at |-> "counting", key |-> k, bucket |-> minute, count |-> 0]]
  /\ UNCHANGED <<backend, map, redis, minute, allowed, late>>

\* The request is let through when its count is within the limit.
Answer(t, count) ==
  /\ allowed' = IF count <= Limit
                THEN [allowed EXCEPT ![asking[t].key][asking[t].bucket] = @ + 1]
                ELSE allowed
  /\ asking' = [asking EXCEPT ![t] = NoCall]

NoteLate(c) == late' = IF c.bucket < minute THEN [late EXCEPT ![c.key] = @ + 1] ELSE late

\* Mutant: an entry of an older minute starts over, but keeps its minute.
KeepBucket(entry, bucket) ==
  IF entry.count # 0 /\ entry.ts = bucket
  THEN [entry EXCEPT !.count = @ + 1]
  ELSE [entry EXCEPT !.count = 1]

\* The entry after a request of a bucket; of any other bucket it starts over.
Count(entry, bucket) ==
  IF entry.count # 0 /\ entry.ts = bucket
  THEN [entry EXCEPT !.count = @ + 1]
  ELSE [count |-> 1, ts |-> bucket]

CountInMemory(t) ==
  LET c == asking[t]
      entry == Count(map[c.key], c.bucket)
  IN  /\ backend = "InMemory" /\ c.at = "counting"
      /\ map' = [map EXCEPT ![c.key] = entry]
      /\ Answer(t, entry.count) /\ NoteLate(c)
      /\ UNCHANGED <<backend, redis, minute, calls>>

\* INCR counts the request, or fails and counts nothing.
RedisIncr(t) ==
  LET c == asking[t]
  IN  /\ backend = "Redis" /\ c.at = "counting"
      /\ \/ /\ redis' = [redis EXCEPT ![c.key][c.bucket] = @ + 1]
            /\ asking' = [asking EXCEPT ![t].at = "expiring", ![t].count = redis'[c.key][c.bucket]]
            /\ NoteLate(c)
         \/ asking' = [asking EXCEPT ![t] = NoCall] /\ UNCHANGED <<redis, late>>
      /\ UNCHANGED <<backend, map, minute, calls, allowed>>

\* EXPIRE comes second; if it fails the request is refused although it was counted.
RedisExpire(t) ==
  /\ asking[t].at = "expiring"
  /\ \/ Answer(t, asking[t].count)
     \/ asking' = [asking EXCEPT ![t] = NoCall] /\ UNCHANGED allowed
  /\ UNCHANGED <<backend, map, redis, minute, calls, late>>

-----------------------------------------------------------------------------
NextMinute ==
  /\ minute < MaxMinute /\ minute' = minute + 1
  /\ UNCHANGED <<backend, map, redis, asking, calls, allowed, late>>

\* 70 seconds after the last EXPIRE the counter goes; its minute is over by then.
RedisForgets(k, b) ==
  /\ b < minute /\ redis[k][b] # 0
  /\ redis' = [redis EXCEPT ![k][b] = 0]
  /\ UNCHANGED <<backend, map, minute, asking, calls, allowed, late>>

LimiterNext ==
  \/ \E t \in Callers : \/ \E k \in Keys : allow(t, k)
                        \/ CountInMemory(t) \/ RedisIncr(t) \/ RedisExpire(t)
  \/ NextMinute
  \/ \E k \in Keys, b \in Minutes : RedisForgets(k, b)

LimiterSpec == LimiterInit /\ [][LimiterNext]_limiterVars
-----------------------------------------------------------------------------
LimiterTypeOK ==
  /\ backend \in {"Redis", "InMemory"} /\ minute \in Minutes /\ calls \in 0..MaxCalls
  /\ map \in [Keys -> [count : Nat, ts : Minutes]]
  /\ redis \in [Keys -> [Minutes -> Nat]] /\ allowed \in [Keys -> [Minutes -> Nat]]
  /\ late \in [Keys -> Nat]
  /\ asking \in [Callers -> [at : {"idle", "counting", "expiring"}, key : Keys,
                             bucket : Minutes, count : Nat]]

\* A client gets at most Limit requests through in a minute, and once more as many
\* for every request that was counted after its own minute was over: such a request
\* starts the one in-memory entry of its key over, or finds its counter forgotten.
RateLimitHolds ==
  \A k \in Keys, b \in Minutes : allowed[k][b] <= Limit * (1 + late[k])
=============================================================================
