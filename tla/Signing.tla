------------------------------ MODULE Signing -------------------------------
(***************************************************************************)
(* The SigningService with its public-key cache (network-node/src/         *)
(* signing.rs) over the signers it manages: local keys, AWS KMS without    *)
(* retries (aws_kms_signer.rs), AWS KMS with retries (amazon_eks.rs), and  *)
(* the HSM placeholder.                                                    *)
(*                                                                         *)
(* A public key is the number of keys its id has had before.  add_signer   *)
(* and set_default_signer borrow the service mutably: no other call is in  *)
(* progress, and each is one step.  The other methods run concurrently and *)
(* hold no guard while a signer is asked, which may take any time.         *)
(***************************************************************************)
EXTENDS Integers, FiniteSetsExt

CONSTANTS
  KeyIds,               \* the ids of signers
  Setups,               \* what kind of signer each id may have
  NoKey,                \* default_signer_key = None
  NumClients,           \* the tasks that call the service are 1..NumClients
  TtlSeconds,           \* default_ttl_seconds
  MaxRetries,           \* max_retries of the signer in amazon_eks.rs
  MaxKey, MaxSeconds    \* bounds: keys an id has had, the last clock reading

VARIABLES
  registered,           \* the ids in the signers map
  default_signer_key,
  key,                  \* the public key that each signer has now
  cache,                \* the public-key cache; key 0 for no entry
  stage, query,         \* where each task is, and its locals
  current_since,        \* observer: the oldest key an invalidation may leave
  utc,                  \* chrono::Utc::now()
  kind                  \* what kind of signer each id has

signing_vars == <<registered, default_signer_key, key, cache, stage, query, current_since, utc, kind>>

Clients == 1..NumClients
Kinds == {"local", "kms", "kms_retry", "hsm"}
CacheEntry == [key : 0..MaxKey, cached_at : 0..MaxSeconds]
NoEntry == [key |-> 0, cached_at |-> 0]
Query == [id : KeyIds, key : 0..MaxKey, attempt : Nat]

ASSUME SigningAssumption ==
  /\ KeyIds # {} /\ NoKey \notin KeyIds /\ Setups \subseteq [KeyIds -> Kinds]
  /\ NumClients \in Nat /\ TtlSeconds \in Nat /\ MaxRetries \in Nat
  /\ MaxKey \in Nat \ {0} /\ MaxSeconds \in Nat

NoQuery == [id |-> CHOOSE k \in KeyIds : TRUE, key |-> 0, attempt |-> 0]

entry_is_expired(entry) == utc > entry.cached_at + TtlSeconds

SigningInit ==
  /\ registered = {} /\ default_signer_key = NoKey
  /\ key = [k \in KeyIds |-> 1]
  /\ cache = [k \in KeyIds |-> NoEntry]
  /\ stage = [t \in Clients |-> "idle"]
  /\ query = [t \in Clients |-> NoQuery]
  /\ current_since = [k \in KeyIds |-> 1]
  /\ utc = 0
  /\ kind \in Setups

-----------------------------------------------------------------------------
(* The signers *)

\* What asking KMS may end in: errors of the service, and its own time-out.
KmsErrors == {"NotFound", "Disabled", "Internal", "DependencyTimeout", "LimitExceeded",
              "Throttling", "Elapsed"}

\* The NetworkError it becomes.  Texts are kept where should_retry reads them.
handle_kms_error(e) ==
  CASE e \in {"DependencyTimeout", "Elapsed"} -> "KmsTimeout"
    [] e = "LimitExceeded" -> "KmsRateLimit"
    [] e = "Throttling" -> "Kms: Throttling"
    [] OTHER -> "Kms"

should_retry(error) == error \in {"KmsTimeout", "Kms: Throttling"}

\* A local signer never fails; both KMS signers may, in every way.
Errors(k) == IF kind[k] \in {"kms", "kms_retry"} THEN KmsErrors ELSE {}

Return(t) == stage' = [stage EXCEPT ![t] = "idle"] /\ query' = [query EXCEPT ![t] = NoQuery]

\* Between two attempts a task sleeps.
Sleep(at) == IF at = "fetch" THEN "fetch_sleep" ELSE "sign_sleep"

\* Mutant: an attempt that is retried is not counted.
RetryUncounted(t, e) ==
  IF kind[query[t].id] = "kms_retry" /\ should_retry(handle_kms_error(e))
       /\ query[t].attempt < MaxRetries
  THEN stage' = [stage EXCEPT ![t] = Sleep(@)] /\ UNCHANGED query
  ELSE Return(t)

\* After an error only the signer of amazon_eks.rs may try again.
AfterError(t, e) ==
  IF kind[query[t].id] = "kms_retry" /\ should_retry(handle_kms_error(e))
       /\ query[t].attempt < MaxRetries
  THEN stage' = [stage EXCEPT ![t] = Sleep(@)] /\ query' = [query EXCEPT ![t].attempt = @ + 1]
  ELSE Return(t)

\* The KMS key behind an alias is replaced.
ReplaceKmsKey(k) ==
  /\ kind[k] \in {"kms", "kms_retry"} /\ key[k] < MaxKey
  /\ key' = [key EXCEPT ![k] = @ + 1]
  /\ UNCHANGED <<registered, default_signer_key, cache, stage, query, current_since, utc, kind>>

-----------------------------------------------------------------------------
(* The service *)

\* A local signer is always healthy, a KMS signer when its public key can be
\* fetched (reached), and the HSM placeholder never.
health_check(k, reached) == kind[k] = "local" \/ (kind[k] \in {"kms", "kms_retry"} /\ reached)

\* Creating a local signer generates a key pair: one that is created again under
\* the same id has a new key.
CreateKey(k) ==
  IF kind[k] = "local" /\ k \in registered
  THEN key[k] < MaxKey /\ key' = [key EXCEPT ![k] = @ + 1]
  ELSE UNCHANGED key

Exclusive == \A t \in Clients : stage[t] = "idle"

\* Mutant: the first signer becomes the default before its health is checked.
DefaultFirst(k, reached) ==
  /\ Exclusive
  /\ default_signer_key' = IF default_signer_key = NoKey THEN k ELSE default_signer_key
  /\ IF health_check(k, reached)
     THEN registered' = registered \cup {k} /\ CreateKey(k)
     ELSE UNCHANGED <<registered, key>>
  /\ UNCHANGED <<cache, stage, query, current_since, utc, kind>>

\* An unhealthy signer is refused.  The cache is not told of a new signer.
add_signer(k, reached) ==
  /\ Exclusive
  /\ health_check(k, reached)
  /\ registered' = registered \cup {k} /\ CreateKey(k)
  /\ default_signer_key' = IF default_signer_key = NoKey THEN k ELSE default_signer_key
  /\ UNCHANGED <<cache, stage, query, current_since, utc, kind>>

set_default_signer(k) ==
  /\ Exclusive
  /\ k \in registered
  /\ default_signer_key' = k
  /\ UNCHANGED <<registered, key, cache, stage, query, current_since, utc, kind>>

\* get_public_key and get_default_public_key.  A cached key that is not expired
\* is returned at once and changes nothing; otherwise the signer is asked (with
\* max_retries = 0 the call fails without a request).
get_public_key(t, k) ==
  /\ stage[t] = "idle" /\ k \in registered
  /\ cache[k].key = 0 \/ entry_is_expired(cache[k])
  /\ ~(kind[k] = "kms_retry" /\ MaxRetries = 0)
  /\ stage' = [stage EXCEPT ![t] = "fetch"]
  /\ query' = [query EXCEPT ![t] = [id |-> k, key |-> 0, attempt |-> 1]]
  /\ UNCHANGED <<registered, default_signer_key, key, cache, current_since, utc, kind>>

\* The signer answers with the key that it has at that moment.
FetchAnswer(t) ==
  /\ stage[t] = "fetch"
  /\ query' = [query EXCEPT ![t].key = key[query[t].id]]
  /\ stage' = [stage EXCEPT ![t] = "insert"]
  /\ UNCHANGED <<registered, default_signer_key, key, cache, current_since, utc, kind>>

\* The entry is made, and its key returned.
InsertFetched(t) ==
  /\ stage[t] = "insert"
  /\ cache' = [cache EXCEPT ![query[t].id] = [key |-> query[t].key, cached_at |-> utc]]
  /\ Return(t)
  /\ UNCHANGED <<registered, default_signer_key, key, current_since, utc, kind>>

\* sign (with the default signer) and sign_with; the answer is a signature.
sign_with(t, k) ==
  /\ stage[t] = "idle" /\ k \in registered
  /\ ~(kind[k] = "kms_retry" /\ MaxRetries = 0)
  /\ stage' = [stage EXCEPT ![t] = "sign"]
  /\ query' = [query EXCEPT ![t] = [id |-> k, key |-> 0, attempt |-> 1]]
  /\ UNCHANGED <<registered, default_signer_key, key, cache, current_since, utc, kind>>

SignAnswer(t) ==
  /\ stage[t] = "sign"
  /\ Return(t)
  /\ UNCHANGED <<registered, default_signer_key, key, cache, current_since, utc, kind>>

\* Either request to the signer fails.
SignerError(t, e) ==
  /\ stage[t] \in {"fetch", "sign"}
  /\ e \in Errors(query[t].id)
  /\ AfterError(t, e)
  /\ UNCHANGED <<registered, default_signer_key, key, cache, current_since, utc, kind>>

\* The next attempt begins.
Wake(t) ==
  /\ stage[t] \in {"fetch_sleep", "sign_sleep"}
  /\ stage' = [stage EXCEPT ![t] = IF @ = "fetch_sleep" THEN "fetch" ELSE "sign"]
  /\ UNCHANGED <<registered, default_signer_key, key, cache, query, current_since, utc, kind>>

\* The oldest key for k that can still be cached: the one it has now, or one that
\* a task has fetched and not inserted yet.
OldestInFlight(k) ==
  Min({key[k]} \cup {query[t].key : t \in {u \in Clients : stage[u] = "insert" /\ query[u].id = k}})

\* Mutant: the entry is left in place.
InvalidateNothing(k) ==
  /\ current_since' = [current_since EXCEPT ![k] = OldestInFlight(k)]
  /\ UNCHANGED <<registered, default_signer_key, key, cache, stage, query, utc, kind>>

invalidate_cache(k) ==
  /\ cache' = [cache EXCEPT ![k] = NoEntry]
  /\ current_since' = [current_since EXCEPT ![k] = OldestInFlight(k)]
  /\ UNCHANGED <<registered, default_signer_key, key, stage, query, utc, kind>>

\* The caller drops its call at an await.
DropCall(t) ==
  /\ stage[t] # "idle"
  /\ Return(t)
  /\ UNCHANGED <<registered, default_signer_key, key, cache, current_since, utc, kind>>

SecondPasses ==
  /\ utc < MaxSeconds
  /\ utc' = utc + 1
  /\ UNCHANGED <<registered, default_signer_key, key, cache, stage, query, current_since,
                 kind>>

Proceed(t) ==
  \/ FetchAnswer(t) \/ InsertFetched(t) \/ SignAnswer(t) \/ Wake(t)
  \/ \E e \in KmsErrors : SignerError(t, e)

SigningNext ==
  \/ \E k \in KeyIds : \/ \E reached \in BOOLEAN : add_signer(k, reached)
                       \/ set_default_signer(k) \/ invalidate_cache(k) \/ ReplaceKmsKey(k)
  \/ \E t \in Clients : Proceed(t) \/ DropCall(t)
                      \/ \E k \in KeyIds : get_public_key(t, k) \/ sign_with(t, k)
  \/ SecondPasses

\* A request to KMS is answered, fails, or is cut off by its time-out.
SigningFairness == \A t \in Clients : WF_signing_vars(Proceed(t))

SigningSpec == SigningInit /\ [][SigningNext]_signing_vars /\ SigningFairness
-----------------------------------------------------------------------------
SigningTypeOK ==
  /\ registered \subseteq KeyIds /\ default_signer_key \in KeyIds \cup {NoKey}
  /\ key \in [KeyIds -> 1..MaxKey] /\ cache \in [KeyIds -> CacheEntry]
  /\ stage \in [Clients -> {"idle", "fetch", "fetch_sleep", "insert", "sign",
                        "sign_sleep"}] /\ query \in [Clients -> Query]
  /\ current_since \in [KeyIds -> 1..MaxKey] /\ utc \in 0..MaxSeconds /\ kind \in Setups

\* After invalidate_cache neither the cache nor any later answer has a key older
\* than the one the signer had then (an answer comes from the cache or from the
\* insertion of a fetched key), except a key that a fetch already in flight brings
\* back: get_or_fetch inserts what it fetched before the invalidation.
InvalidationHolds ==
  /\ \A k \in KeyIds : cache[k].key # 0 => cache[k].key >= current_since[k]
  /\ \A t \in Clients : stage[t] = "insert" => query[t].key >= current_since[query[t].id]

\* The default signer can be looked up, whichever signers were refused as
\* unhealthy or replaced, so that `sign` fails only for want of any signer.
DefaultIsRegistered ==
  IF default_signer_key = NoKey THEN registered = {} ELSE default_signer_key \in registered

\* Every call comes to an end: no combination of errors, time-outs and retries
\* keeps a task asking its signer for ever.
CallsReturn == \A t \in Clients : stage[t] # "idle" ~> stage[t] = "idle"
=============================================================================
