# Axionvera network: TLA+ specifications and proofs

This directory holds a formal model of the Axionvera repository. Its modules
are model-checked by TLC on small instances, and every safety property that a
passing run checks is also proved with TLAPS for every number of users, tasks,
providers or requests, every input and every limit. Paths below are relative to the repository's root.

## The system and its parts

The repository has two programs.

**The vault contract** (`contracts/vault-contract`, Soroban). Users deposit one
token and earn another. Deposits can be locked for a time; the admin
distributes rewards, which a global index shares out in proportion to the
balances and which vest over a period. A second group of operations does the
same for further assets, with one index per asset and all rewards paid in the
one reward token. `contracts/vault-contract-v2` only demonstrates an upgrade.

**The network node** (`network-node`, Tokio). A set of services around shared
state behind `RwLock`s and channels:

| part | source under `network-node/src` | modules |
|---|---|---|
| consensus: proposals, votes, a threshold, a maintenance task | `consensus.rs` | `Consensus` |
| chain parameters: upgrades scheduled at heights, roles | `chain_params.rs` | `ChainParams`, `ParameterSchedule` |
| governance: proposals that operators vote on | `governance.rs` | `Governance` |
| gRPC requests that upgrade parameters | `grpc/server.rs`, `grpc/network_service.rs`, `grpc/gateway_service.rs` | `UpgradeService` |
| signature verification: workers and a batching loop | `crypto.rs` | `CryptoPool` |
| signing: signers, a public-key cache, KMS calls | `signing.rs`, `aws_kms_signer.rs`, `amazon_eks.rs` | `Signing` |
| Horizon client: providers with breakers, fail-over | `horizon_client.rs`, `stellar_service.rs` | `HorizonClient` |
| Soroban RPC client, service and event indexer | `soroban_rpc_client.rs`, `soroban_service.rs`, `indexer.rs` | `EventIndexer` |
| node lifecycle, HTTP server, database pool | `lib.rs`, `main.rs`, `shutdown.rs`, `database.rs`, `enhanced_server.rs` | `Node` |
| rate limiter | `rate_limiter.rs` | `RateLimiter` |
| error middleware | `error_middleware.rs` | `ErrorMiddleware` |
| peer-to-peer, state trie, configuration, observability | `p2p.rs`, `state_trie.rs`, `config.rs` and others | see "Not modelled" |

The node talks to the vault only through the Stellar network: the indexer
reads its events, the Stellar service submits transactions. Inside the node,
governance and the gRPC services act on one chain-parameter registry
(`UpgradeService` composes the three), and the HTTP server, the gRPC server, the
indexer and the database pool meet in the shutdown (`Node` composes the four).
The other parts share no state with each other. `PROJECT.json` lists each part
with its status and each hazard with the line where it bites.

At this commit the contract does not compile: `Lock`, `MultiplierPoint` and the
storage keys `UserLiquidBalance` and `UserLocks` are used and not declared. The
model follows the evident meaning of the uses: a lock has an amount and an
unlock timestamp, a point has a utilization and a multiplier, and the two keys
hold a user's liquid balance and list of locks.

## Modules

| module | contents |
|---|---|
| `Sums` | the sum of a function over `1..n` |
| `Vault` | the single-asset vault: state, every operation, properties |
| `VaultAssets` | the whole contract: `Vault` and the multi-asset operations over one set of token balances |
| `Consensus` | the tasks of one node's consensus engine over its two locks |
| `ChainParams`, `Governance`, `UpgradeService` | the parameter registry, the governance service over it, and both with the gRPC requests |
| `ParameterSchedule` | the abstract schedule that `UpgradeService` implements |
| `CryptoPool`, `Signing` | the verification pool; the signing service and its signers |
| `HorizonClient`, `EventIndexer` | the clients of Horizon and of Soroban RPC |
| `Node`, `RateLimiter`, `ErrorMiddleware` | the life of a node, and the two stateful layers of its HTTP server |
| `SumTheorems` | lemmas on sums and on induction over sets of naturals |
| `VaultLemmas`, `VaultProofs`, `AssetProofs` | the invariant of `Vault` and that each operation keeps it; the theorems on `Vault`; those on `VaultAssets` |
| `UpgradeProofs` | the theorems on `UpgradeService` |
| `RequestProofs` | the theorems on `HorizonClient` and `CryptoPool` |
| `ServerProofs` | the theorems on `Node` and `RateLimiter` |
| `ServiceProofs` | the theorems on `Consensus`, `ErrorMiddleware`, `EventIndexer` and `Signing` |
| `MC...` | instances for TLC |

### Vault

An invocation of a Soroban contract is atomic, and one that returns an error or
panics is rolled back. An action is therefore one successful invocation, and
its guard is the conjunction of all that would make it fail, checked arithmetic
and the token client's `transfer` included. The re-entrancy guard
(`enter_non_reentrant`) and the extension of storage lifetimes disappear in
this view; events and error codes are output only.

| variable | code |
|---|---|
| `config` | the entries only `initialize` writes: tokens, vesting period, target deposits, multiplier curve |
| `admin`, `pending_admin`, `is_paused` | the admin entries and the pause flag |
| `total_deposits`, `reward_index` | `TotalDeposits`, `RewardIndex` |
| `liquid_balance`, `user_locks` | `UserLiquidBalance(user)`, `UserLocks(user)` |
| `user_position` | `UserRewardIndex`, `UserAccruedRewards`, `UserLastRewardTimestamp` |
| `token_balance` | the ledgers of the token contracts (external) |
| `timestamp` | the ledger's clock (external) |

The actions carry the names of the entry points in `lib.rs`: `Initialize`,
`ProposeNewAdmin`, `AcceptAdmin`, `SetPaused` (pause and unpause), `Deposit`,
`Withdraw`, `Lock`, `UnlockExpired`, `DistributeRewards`, `ClaimRewards`; `Tick`
advances the clock. The first state of the clock is 1, because the contract uses
timestamp 0 for "never accrued". An entry point that must be authorised by an
address is an action of that address, so authorisation itself is not a property
here. Nobody is taken to transfer deposit tokens to the contract except by
`deposit` (or, in `VaultAssets`, `deposit_asset`); it would then hold more than
`DepositsBacked` says.

Integers are unbounded in TLA+, so each checked operation has a guard `Fits`
against `I128_MAX` (or the `u128` and `u64` limits), and the utilization, which
the code casts with `as u32`, is taken modulo `U32_SIZE`. Divisions truncate as
in the code, since all their operands are non-negative.

### VaultAssets

Adds the supported assets (some of the constant `AssetList`, which names no token
twice) and, per asset, the total, the index, the balances and
the positions. Its next-state relation is a step of `Vault` that leaves the
assets alone, or one of `AddAsset`, `DepositAsset`, `WithdrawAsset`,
`DistributeRewardsForAsset`, `ClaimRewardsForAsset`. Both halves share
`token_balance`: this is where they interact, since an asset may be the vault's
deposit token or reward token.

### How the node is modelled

The node is asynchronous Rust. A task runs without interruption from one `await`
to the next, so that stretch is one action; `pc`, `stage` or a like variable says at
which `await` a task is, and `job`, `call` or `query` holds its locals. A lock guard that is
dropped before the next `await` leaves no trace in the state. One that is held
across an `await` is derived from where its holder is. Tokio's `RwLock` serves in
order of arrival, so a reader waits behind a queued writer. A future may be
dropped at an `await` (a client disconnects, a `select!` takes another branch);
where that matters there is an action for it.

Some files are modelled as their own tests and callers use them, because the
crate does not reach them: `governance.rs` and `amazon_eks.rs` are missing from
the module list of `lib.rs`.

### Consensus

`proposals` and `votes` are the two maps; a vote is its voter, because the kind
of a vote only matters to an outcome no task reaches. `vote` and `process_vote`
are a chain of actions, one per guard: `BeginVote` (`can_vote`, on a copy),
`CheckVoted`, `StoreVote`, `CountVote`, and then `FinalizeRead`, which waits for
a read guard under the task's own write guard. `create_proposal`,
`process_proposal`/`InsertProposal` (for what `PeerProposes` announced, and which
may be delivered more than once),
`CleanupScan`/`CleanupMark`, `StatsProposals`/`StatsVotes`, `MaintenanceTick`,
`DropReceiver` and `Tick` are the rest. Peers are taken to run this code with the
same threshold and time to live: a proposal that is received is one that
`create_proposal` made and sent, and it is stored as it was sent, without votes.
In the maintenance task line 506 of `consensus.rs` gives the read guard the name of
the lock, and line 516 calls `write` on that name, which does not type-check as it
stands. The model follows the evident meaning, a write guard on the lock while the
read guard is in scope.

### ChainParams, Governance, UpgradeService

`registry` is one record, and each method of the registry an operator on it, so
that a governance tick can submit several upgrades in one step. An address is a
name and a spelling, because the code normalises an address in most places and
looks at the raw string in others. `UpgradeService` adds the interceptor with its
headers and the two services, and lets requests, votes, ticks, roles and the tip
change in any order. `ParameterSchedule` has two variables, the tip and the
parameters of each height, and one rule: an announcement changes no height below
the tip plus `MinDelay` (`min_activation_delay_blocks`, which may be 0: then the
height of the tip itself may change). The tip may go back, and what was announced
above the new tip may then be changed again. `UpgradeService` implements it under the mapping

    tip      <- registry.current_height
    schedule <- [h |-> effective_parameters_at(registry, h)]

`Heights` ends at `MaxHeight`, which stands for `u64::MAX`: the sum of tip and
delay saturates there, and the rule makes an exception for that height.

### CryptoPool and Signing

`CryptoPool`: one queue, from which workers (`WorkerReceive`, `WorkerVerify`) and
the batch processor (`BatchReceive`, `BatchTimeout`) take requests; a result
channel that the caller of `verify_batch` (`ReceiveResult`) and the result
processor (`ProcessResult`) share. `crypto.rs` clones the receivers, which
Tokio's unbounded receivers do not offer; a clone is taken to be a second handle
on one queue. Whether a signature is valid is a constant.

`Signing`: the `signers` map, the default, the cache with its times, and tasks in
`get_public_key` and `sign_with`. A public key is the number of keys its id has
had before, so "older" is "smaller". The signers differ in their errors and
retries: local, KMS without retries, KMS with retries, and the HSM placeholder.
`current_since` is an observer: the oldest key an invalidation may leave behind.

### HorizonClient and EventIndexer

`HorizonClient`: `providers`, the current index, and per request the provider it
is at and those it has asked. A request goes through `GetProvider`, `Answer`,
`record_provider_success` or `record_provider_failure`, and `SwitchForRequest`.
`health_check_all` keeps its read guard while it pings (`AllAnswered` ends that) and
then asks for the write guard (`UpdateStatuses`, which is never enabled);
`switch_horizon_provider` forces a switch. The configuration's
`enable_circuit_breaker` is taken to be true. Failure counts are natural numbers;
`FailuresBounded` says when the code's `u8` suffices. A threshold of 0, which the
configuration allows, opens a breaker at the first failure (`Strikes`).

`EventIndexer`: ledger `l` has event `l`, endpoints lag behind each other and
fail in each of the ways the client distinguishes; `Failover` goes to the next
endpoint until the last. `RestartNode` is a crash: the cursor is a local variable
and starts over. The observer `cut` has the events of a poll that did not fit its
page: the cursor moves past them, so they are lost. The retries inside the HTTP library are part of one attempt.

### Node, RateLimiter, ErrorMiddleware

`Node`: `main` is where `NetworkNode::start` is, from the TLS set-up of both
servers through the `select!`, the two waits (`wait_for_connections_to_complete`,
`wait_for_database_operations`), the grace period that may cut them short, the
closing of the pool under its write guard, to the exit. HTTP requests pass the
layers in the order the server stacks them; the signal may also come while the
servers start, since the handler is installed before them; one that is dropped inside stays
counted for ever. gRPC calls query the same pool, with or without a guard.

`RateLimiter`: a request works out its minute first and counts itself later, in
the one entry of its key or in Redis, which may fail at either command. The system
clock is taken never to go back.
`ErrorMiddleware`: `handle_error` takes the two locks one after the other;
`record_success` and the resets come at any time, although in this repository only
a test calls a reset and nothing calls `record_success`.

## Runs

| run | instance | shows |
|---|---|---|
| `custody` | 2 users, 2 tokens each, 2 locks per user, 4 time steps; a local and a remote signer of each kind, 2 tasks, 2 attempts | `TypeOK`, `DepositsBacked`, `LocksHonoured`; `InvalidationHolds`, `DefaultIsRegistered`, `CallsReturn` |
| `vault_rewards` | 2 users, curve below 1.0x or a vesting period, 4 reward tokens | `PositionsBehind`, `RewardsSolvent`, `ExitLiquidity`, `RewardAccounting`, `PauseFreezesFunds` |
| `vault_assets` | the vault and two assets, which are its deposit and its reward token | `HoldingsCoverClaims`, `AssetExit`, `AssetRewardAccounting` |
| `upgrades` | 3 heights, 2 fields, admin keys or DAO, 2 upgrades, 1 proposal | `HistoryExplainsParameters`, `UpgradesAccountedFor`, `DecidedIsFinal`, refinement `ScheduleSpec` |
| `clients` | 3 providers, 2 requests, threshold 2; 2 endpoints, 4 ledgers, 1 restart | `EachProviderOnce`, `FailuresBounded`, `RequestsReturn`; `NoGapsBehindCursor`, `RpcCallsEnd` |
| `node` | 2 HTTP requests, a gRPC call, every TLS set-up; 3 callers of the limiter; 2 error handlers; 1 proposal, 2 voters, 2 tasks, quorum 3, which only duplicate records reach; 5 signatures, 2 workers, batches of 2 | `DrainedMeansQuiet`, `ClientAuthAsConfigured`, `ExitsAfterSignal`; `RateLimitHolds`; `BreakerAccounts`; `VotesBackCounts`, `DuplicatesBounded`, `ExpiredVotesDrain`, `OperationsReturn`; `VerifiedOnce`, `PendingIsAllButWorked`, `QueuedIsVerified`, `BatchAnswersCaller` |
| `vault_expired_locks` | 1 user, the limits of the code | violation of `ExpiredLocksWithdrawable` |
| `vault_vesting` | 2 users, vesting period 2 | violation of `VestsWithinPeriod` |
| `consensus_quorum` | 1 proposal, 2 voters, 2 tasks, quorum 2 | violation of `QuorumDecides` |
| `upgrade_votes` | as `upgrades` | violation of `PassedIsExecuted` |
| `upgrade_dao` | as `upgrades`, called by the members of a DAO or without a proposer | violation of `DaoApprovalSuffices` |
| `horizon_health` | 2 providers, 1 request, threshold 1 | violation of `HealthChecksContinue` |

In plain words, what the runs on the node show:

- **Consensus.** Counted votes are always backed by recorded ones. The check for
  an earlier vote and the recording are separate steps, so a voter may be
  recorded more than once, but never more often than tasks raced. Votes that
  arrive after expiry come only from tasks that had begun before. A task that waits
  behind the finalization of a quorum or behind the maintenance task's upgrade of
  its guard is excused in `OperationsReturn` (`consensus_quorum` is about the first);
  apart from these two no task is ever stuck.
- **Upgrades.** No upgrade changes the parameters of a height below the tip plus the
  delay; the history explains the parameters of every height; every upgrade comes
  from an executed proposal or from a client with the configured token; and a
  proposal is decided once.
- **Crypto pool.** Every request is verified once and in the end, even the last
  one of a batch that never fills. The statistics count a request as pending for
  ever if the batch processor had it: `PendingIsAllButWorked` records this leak as
  what the code does, and excludes any other. A caller is answered if the batch processor
  has a request while it waits and no result processor competes.
- **Signing.** After `invalidate_cache` no key older than the one the signer had
  then is cached or returned, except by a fetch that was already in flight.
  The default signer can be looked up, and every call ends.
- **Clients.** A request never asks a provider twice, so a transaction is posted at
  most once to each; counts stay within threshold and callers. `RequestsReturn`
  says nothing of a request that a health round meets. In the deployed node that is
  every request soon, as the checker's interval ticks at once and its first round
  never ends (`horizon_health`); what it shows is that fail-over itself always ends.
  The indexer leaves no gap behind its cursor except what a full page cut off;
  every RPC call ends and so a cancelled indexer stops.
- **Node.** If the shutdown has seen no active connection, no request is inside a
  handler or gets there. Both servers demand client certificates exactly as
  configured. After a signal the process ends if the database answers. A client
  gets at most the limit through in a minute, and once more for each request that
  was counted after its minute was over. A closed breaker is below its threshold,
  and each closing was paid for by three successes.

**Bounds of the contract.** The precision factor and the basis points are 2
instead of 10^9 and 10000, so that one unit of rounding in the index, in an
accrual or in the multiplier is a large part of every amount. In the runs about
rewards `I128_MAX` is 8, exactly what `SuppliesFit` needs for the tokens in
circulation: the limits on the scaled arithmetic are met with nothing to spare.
The limit of `withdraw` on expired locks is 1 with up to two locks, so that a pass
stops halfway. Two users are enough for one to be affected by another; the time
bounds let a lock be taken, expire, be processed late and be followed by another.
`MaxTime` and `MaxLocks` bound the clock and the number of locks; they are guards,
and the theorems hold for every value of them. Inputs include the refused ones:
zero amounts, zero durations, a limit that is too large, equal tokens, an unsorted
curve, a distribution below the minimum.

**Bounds of the node.** Two tasks are enough for every pair of steps to
interleave: no hazard listed here needs three tasks inside the same methods,
except a third caller of the rate limiter, which the instance has. Proposals of the
consensus engine meet only in its locks, so one is enough; the theorems cover any
number. Thresholds are 2, so that one error leaves a breaker closed and the next opens it. Three
providers let a request fail over twice. Waits of two rounds and one round stand
for 60 and 30: they end, run out, or are cut by the grace period. Clocks run two
or three steps past a time to live of 1. The heights end at 2 with a delay of 1,
so that the saturating sum is met. The counters that bound a run (`MaxTime`,
`MaxErrors`, `MaxCalls`, `MaxUpgrades`, `MaxRestarts`, `MaxLeaks` and others) are
guards with these names.

`MCCustody`, `MCClients` and `MCNode` put parts that share no state into one run.
The variable `part` says which of them a behaviour exercises; the others keep their
initial states, and nothing that is fair in one of them is enabled there.

**Deadlock** is checked in the runs `custody`, `vault_rewards`, `vault_assets` and
`upgrades`, and in `node` for the verification pool. The other parts of `node` may
rest (`Rest`), and `clients` is not checked, because there the system may really
stop: the consensus engine and the Horizon client can lock themselves, and a node
exits.

**Fairness.** None for the vault and for governance: nothing obliges a user, an
admin or a client to call. Funds being available is stated as safety
instead (`ExitLiquidity`, `AssetExit`): the call that takes them out would succeed.
For the node, only what its runtime does is fair, never what others do:

| spec | assumed | because |
|---|---|---|
| `Consensus` | strong fairness of a task inside a method | the runtime polls it, and the lock serves waiters in order, so later ones do not pass it for ever |
| `CryptoPool` | weak fairness of each step of the pool and of a waiting caller; none of `WorkerReceive` | ready tasks run, sleeps end; which receiver gets a request is left open |
| `Signing` | weak fairness of a call's next step | a KMS request is answered, fails or times out |
| `HorizonClient` | strong fairness of a request's steps inside the client, none of a provider's answer | the Stellar service asks with HTTP clients that have no time-out; `RequestsReturn` supposes answers |
| `HorizonClient` (`CheckingSpec`) | strong fairness of a health round's beginning, of its pings' end and of its status update | the interval ticks, pings time out after 30 seconds, and the lock serves waiters in order |
| `EventIndexer` | weak fairness of the poll and of answers; strong fairness of `StopIndexer` | requests time out after 30 seconds and three retries; `select!` picks among ready branches at random |
| `Node` | weak fairness of the main task | sleeps and time-outs end; `ExitsAfterSignal` supposes that queries end |

### What the violations show

`vault_expired_locks`: a user with six expired locks cannot withdraw the whole
balance in one call. `store_withdraw` releases at most five of them and then
fails for lack of liquid balance, where `docs/contract-spec.md:62` says
that `withdraw` "automatically processes expired locks" first. The funds are not
lost: `unlock_expired` releases more.

`vault_vesting`: `accrue_position_rewards` stamps a position with the time of
the accrual. A user who has not interacted since a distribution has nothing
vested at any later time, because the view accrues at the time it is asked;
`test_vesting` in `contracts/vault-contract/src/test.rs` expects the full amount
once the period has passed since the distribution.

`consensus_quorum`: a proposal that reaches its quorum is never decided.
`vote` and `process_vote` call `finalize_proposal` while their write guard on the
proposals is in scope, and `finalize_proposal` waits for a read guard on the same
lock; the comment at `consensus.rs:352` says "Finalize a proposal when quorum is
reached". The run states it as liveness, with the two steps of the finalization
in the next-state relation and fair.

`upgrade_votes`: under admin keys a proposal that somebody approved passes and is
not executed, although its proposer could submit the same upgrade without a vote.
`tick` hands the voters to `submit_parameter_upgrade`, and `authorize_upgrade`
refuses any voter under admin keys. `governance.rs:128` says that `tick` "executes
those that passed", and line 161 that voting under admin keys is supported "for
uniformity". Proposals that somebody disapproved are left out of the property.

`upgrade_dao`: under DAO governance an upgrade is refused although enough distinct
members approve it. Roles are given to admin keys only (`chain_params.rs:137`), only
an admin grants them, and `submit_parameter_upgrade` asks the proposer for one. The
test `dao_requires_distinct_members` unwraps the result of such a call
(`chain_params.rs:442-443`), and `proto/network.proto:235` describes it.

`horizon_health`: the health checker never ends its first round.
`health_check_all` asks for the write guard on the providers under its own read
guard (`horizon_client.rs:264` and `289`); `docs/horizon-fallback.md:23-24` says
"Continuous health checks every 60 seconds" and "Automatic provider health status
updates". The run has the status update in the next-state relation and fair, and it
supposes that pings end and intervals tick.

## Proofs

Every theorem holds for every value of the constants that satisfies the named
assumptions of the module it is about. They are types and positive sizes, and for
`Vault` also that the contract holds no tokens at deployment.

### The vault (`VaultLemmas`, `VaultProofs`, `AssetProofs`)

| theorem | statement |
|---|---|
| `TypeCorrect` | `Spec => []TypeOK` |
| `PositionsStayBehind` | `Spec => []PositionsBehind` |
| `DepositsStayBacked` | `Spec => []DepositsBacked` |
| `RewardsStaySolvent` | `Spec => []RewardsSolvent` |
| `ExitGuaranteed` | `Spec => []ExitLiquidity` |
| `PauseFreezes` | `Spec => PauseFreezesFunds` |
| `LocksAreHonoured` | `Spec => LocksHonoured` |
| `RewardsAreAccountedFor` | `Spec => RewardAccounting` |
| `ClaimsStayCovered` | `AssetsSpec => []HoldingsCoverClaims` |
| `AssetExitGuaranteed` | `AssetsSpec => []AssetExit` |
| `AssetRewardsAreAccountedFor` | `AssetsSpec => AssetRewardAccounting` |

**The single-asset vault.** The first five theorems follow from one inductive
invariant, `IInv`. It has two halves. `Books` is what an operation keeps
whatever else the contract holds tokens for: `TypeOK`, `PositionsBehind`,
`TotalDeposits` being the sum of the balances, and three auxiliary facts. Before
`initialize` the contract is in its initial state (`Fresh`); afterwards the two
tokens differ, so that a payment of rewards cannot touch deposits (`Configured`);
transfers keep each token's supply (`SupplyKept`). The other half is
`DepositsBacked` and `RewardsSolvent`, about the tokens held. None of these is
inductive alone. That a settlement adds a non-negative reward needs
`PositionsBehind`; that a claim does not overdraw the reward tokens needs
`RewardsSolvent`; and the exit guarantee needs `SupplyKept` to bound balance
times index by the supply.

An operation of one user changes one term of the sums over users, so it
suffices to compare that term with the tokens moved. `AccrueFacts` says that
settling never increases what is owed, `UnlockPassSplits` that a pass over the
locks conserves their total, and `DistributeRewardsKeeps` that the increment,
rounded down, times the total is at most the amount paid in. Sums and the pass
over the locks are recursive functions; their equations are derived from an
explicit existence proof by induction over sets of naturals (`SetInduction` in
`SumTheorems`).

`LocksAreHonoured` follows from what a pass leaves behind: it removes expired
locks only, whatever its limit, so the unexpired amount changes only as the clock
does. `RewardsAreAccountedFor` compares what a user has pending before and after a
step (`PendingStep`): settling leaves it as it is (`SettledIsPending`), a step of
another user or of the clock too (`PendingKept`), a larger index can only raise it
(`PendingGrows`), and a claim deducts what it transfers.

**The whole contract.** In `VaultAssets` the two halves of `IInv` come apart: an
asset may be the deposit token, and then the contract holds more of it than the
vault's deposits. So the lemmas say of each operation of the vault that it keeps
`Books` and *moves* the holdings correctly (`HoldingsFollow`: deposits change as
the deposit tokens held, what is owed changes by no more than the reward tokens
held, no other token moves). From this both instances follow: `IInv` for the vault
alone, and `AssetsInv` for the contract. `AssetsInv` is `Books`, the same facts for
the book of every asset (`AssetsKept`: its total is the sum of its balances, no
position is ahead of its index, an asset never added owes nothing) and `Covered`:
each token held covers the deposits in it and, if it is the reward token, the
rewards owed by the vault and by all the assets. A step on one asset changes one
book; `AssetStepKeeps` reduces each operation that moves tokens to what it does to
that book and to the tokens. `AssetExitGuaranteed` then bounds a user's part by the
supply, as in the vault.

`RewardsSolvent`, `HoldingsCoverClaims` and what depends on them assume that no
multiplier exceeds 1.0x (`NoBoost`). `initialize` does not require it; with a larger
multiplier more is promised than paid in. `ExitLiquidity` and `AssetExit` also assume
that the supplies fit the arithmetic (`SuppliesFit`).

### The node

| module | theorem | statement |
|---|---|---|
| `UpgradeProofs` | `RegistryImplementsSchedule` | `Spec => ScheduleSpec` |
| | `HistoryExplains` | `Spec => []HistoryExplainsParameters` |
| | `HistoryIsAccountedFor` | `Spec => []UpgradesAccountedFor` |
| | `DecisionsAreFinal` | `Spec => DecidedIsFinal` |
| `RequestProofs` | `AsksEachProviderOnce` | `HorizonSpec => EachProviderOnce` |
| | `FailureCountBounded` | `HorizonSpec => []FailuresBounded` |
| | `RequestsAreVerifiedOnce` | `CryptoSpec => []VerifiedOnce` |
| | `PendingIsExact` | `CryptoSpec => []PendingIsAllButWorked` |
| `ServerProofs` | `DrainLeavesQuiet` | `NodeSpec => []DrainedMeansQuiet` |
| | `ServersDemandAsConfigured` | `NodeSpec => []ClientAuthAsConfigured` |
| | `RateLimit` | `LimiterSpec => []RateLimitHolds` |
| `ServiceProofs` | `CountsAreBacked` | `Spec => []VotesBackCounts` (of `Consensus`) |
| | `RecordsPerVoterBounded` | `Spec => []DuplicatesBounded` (of `Consensus`) |
| | `ExpiredVotesNeverGrow` | `Spec => ExpiredVotesDrain` (of `Consensus`) |
| | `BreakersAccount` | `ErrorSpec => []BreakerAccounts` |
| | `IndexerLeavesNoGaps` | `IndexerSpec => []NoGapsBehindCursor` |
| | `InvalidationIsKept` | `SigningSpec => []InvalidationHolds` |
| | `DefaultStaysRegistered` | `SigningSpec => []DefaultIsRegistered` |

- **Consensus.** `VotingInv` holds the tallies together. `VotesBackCounts` is
  inductive with types. `DuplicatesBounded` is not: it has to count the tasks that
  are past the check as well (`RecordsBounded`), and a task that passes the check
  has seen no record, so that the tasks alone bound the sum. A tally is a sum over
  tasks, of which a step changes one term (`TallyStep`).
- **Upgrades.** `UpgradeInv` is `UpgradesAccountedFor` with types and
  `HistoryMatches`: the patch scheduled at a height sets a field if and only if some
  upgrade of the history for that height does, and to the value of the last of
  these. Applying the patches up to a height is a
  recursive function; an induction shows that the last height to set a field
  decides it, and with `HistoryMatches` that is the last announcement. One tick
  executes several proposals; `LoopInv` is the invariant of that loop, for any order:
  the history has grown by exactly the proposals executed so far. For the
  refinement, an accepted upgrade lies at the tip plus the delay or above (or at
  `MaxHeight`, where the sum saturates), and a patch has no effect below its height.
- **Signing.** `CacheInv` is `InvalidationHolds` with types and the fact that no
  id's current key is older than what an invalidation may leave, so that a fetch
  that starts later brings nothing older. `OldestIsLeast` says what the minimum
  over the fetches in flight is.
- **Crypto pool.** `CryptoInv` is `VerifiedOnce` and `PendingIsAllButWorked` with
  types and that a call in progress has a request left to send. `VerifiedOnce` is
  restated (`VerifiedOnceIs`) as six disjoint places that make up the requests sent
  and that hold none twice; each step takes one request, or one batch, from one place
  to the next.
- **Horizon.** `AskedAreOpen`: no breaker is ever half open, a request that moves
  on leaves an open breaker behind, and an open breaker stays open. The next
  provider is a usable one (`CurrentIsUsable`), hence not one already asked.
  `FailuresAccounted` adds to a provider's failures the requests under way with it;
  only a closed breaker, whose failures are below `Strikes`, gets a new one.
- **Indexer.** `NoGapsBehindCursor` is inductive with types (`IndexerInv`): a page
  reads every ledger from the cursor to the latest its endpoint has, or says which
  ones the limit cut off, and the cursor goes no further than that latest ledger.
- **Node.** `DrainInv`: the active connections are at least the requests in flight
  (dropped ones stay counted), and the server does not accept while and after it
  drains. So a count of 0 means that no request is in flight, and one that comes
  later is turned away.
- **Rate limiter.** `RateLimitHolds` counts what was let through and says nothing of
  the counters. `LimiterInv` relates the two: what was let through in a minute, and
  what Redis has granted and is about to be let through (`Granted`), is at most what
  the counter shows (`Used`) and one limit for each late request. A late request
  takes the entry away from a later minute, which then starts from nothing; it
  pays for that with its own limit.
- **Errors.** `AccountsInv` is `BreakerAccounts` with the types it needs;
  `FailKeepsAccount` and `SucceedKeepsAccount` say what one error and one success
  do to a breaker.

**Model-checked only.** The liveness properties (`OperationsReturn`,
`QueuedIsVerified`, `BatchAnswersCaller`, `CallsReturn`, `RequestsReturn`,
`RpcCallsEnd`, `ExitsAfterSignal`): they rest on fairness and so on `ENABLED`, which
the prover does not treat. The six violations are TLC's counterexamples.

## Not modelled

- **In the contract**: events, error codes, storage lifetimes, the WASM upgrade;
  `vault-contract-v2`, which has no other operation that changes state.
- **Peer-to-peer** (`p2p.rs`): a map of connected peers with single-step insertions,
  removals and reads; no connection is opened and nothing is sent. Nothing calls
  the routing table's `update`, and bootstrap, ping and maintenance are stubs.
- **State trie** (`state_trie.rs`): the node never inserts, so the root keeps its
  initial value; the root is an exclusive-or of hashes and means nothing without
  the hash function.
- **HTTP and gRPC handlers that only read** state or answer with mock data, the
  health watch stream, and how the Soroban service translates an answer into a
  status (`soroban_service.rs:35-55`).
- **`server.rs` and `gateway.rs`**: not in the module list of `lib.rs`, so not part
  of the node.
- **Client certificates that are presented but not demanded.** A server of the model
  demands certificates or does not. `docs/MTLS_IMPLEMENTATION.md:23` says that with a
  client CA and `TLS_REQUIRE_CLIENT_AUTH=false` a presented one is still validated;
  the code builds that server `with_no_client_auth()` and asks for none
  (`enhanced_server.rs:227`, `grpc/server.rs:324`). `ClientAuthAsConfigured` does not
  tell the two apart.
- **Configuration, error types, metrics, profiling, telemetry, OpenAPI**: no
  behaviour to check.
- **Assumed rather than modelled**: that AWS KMS, Redis, Horizon, the RPC endpoints
  and the token contracts behave as the code that calls them expects (they may
  fail, lag and forget, as described above).

Hazards without a property are listed in `PROJECT.json` with the reason. Most are
what the code does where nothing in the repository says otherwise, such as a
proposal that is inserted again and loses its count, a key fetched before an
invalidation and cached after it, or a batch result that goes to another caller; the
property named in the note bounds the effect. Two are
worth knowing: a multiplier above 1.0x promises more rewards than are paid in, and
the reset of an open Horizon breaker (`should_attempt_reset`) is never called, so
that a provider whose breaker has opened is not used again, although
`docs/horizon-fallback.md:19` names a recovery timeout.
