------------------------------- MODULE Vault --------------------------------
(***************************************************************************)
(* The vault contract, contracts/vault-contract: deposits, time locks,     *)
(* reward distribution by a global index, vesting, the pause flag and the  *)
(* two-step admin transfer.  A contract invocation is atomic: one that     *)
(* returns an error or panics leaves no trace in the ledger, so an action  *)
(* is an invocation that returns Ok, and its guard is the conjunction of   *)
(* everything that would make it fail.  An address that must authorise a   *)
(* call is the one that makes it.                                          *)
(***************************************************************************)
EXTENDS Integers, Sequences, Sums

CONSTANTS
  NumUsers,             \* the accounts are 1..NumUsers
  Tokens,               \* the token contracts
  InitialBalances,      \* what the accounts hold of each token at deployment
  Admins,               \* the accounts the admin role is given to
  ConfigArgs,           \* the configurations `initialize` is called with
  Amounts,              \* amounts of deposits, withdrawals and locks
  RewardAmounts,        \* amounts of reward distributions
  Durations,            \* lock durations
  Limits,               \* limits passed to `unlock_expired`
  PRECISION_FACTOR,     \* the scale of the reward index; 10^9 in the code
  BASIS_POINTS,         \* 10000 in the code
  MIN_REWARD_DISTRIBUTION,  \* 100000 in the code
  WITHDRAW_UNLOCK_LIMIT,    \* 5 in the code
  MAX_UNLOCK_LIMIT,     \* 50 in the code
  I128_MAX,             \* checked i128 arithmetic fails above this
  U64_MAX,              \* checked u64 arithmetic fails above this
  U32_SIZE,             \* 2^32: what `as u32` wraps at
  NoConfig, NoAdmin,    \* unset storage entries
  MaxTime,              \* bound: the last ledger timestamp
  MaxLocks              \* bound: locks a user holds at a time

Accounts == 1..NumUsers
Contract == 0           \* the vault's own address
Holders == 0..NumUsers
Point == [utilization_bps : Nat, multiplier_bps : Nat]
Config == [deposit_token : Tokens, reward_token : Tokens, vesting_period : Nat,
           target_deposits : Int, utilization_multipliers : Seq(Point)]
Position == [reward_index : Nat, accrued_rewards : Nat, last_reward_timestamp : Nat]
NoPosition == [reward_index |-> 0, accrued_rewards |-> 0, last_reward_timestamp |-> 0]
LockEntry == [amount : Nat \ {0}, unlock_timestamp : Nat]

ASSUME NumUsersAssumption == NumUsers \in Nat
ASSUME ConfigAssumption == ConfigArgs \subseteq Config /\ NoConfig \notin Config
ASSUME AdminAssumption == Admins \subseteq Accounts /\ NoAdmin \notin Accounts
ASSUME BalancesAssumption ==
  /\ InitialBalances \in [Tokens -> [Holders -> Nat]]
  /\ \A t \in Tokens : InitialBalances[t][Contract] = 0
ASSUME InputAssumption ==
  /\ Amounts \subseteq Int /\ RewardAmounts \subseteq Int
  /\ Durations \subseteq Nat /\ Limits \subseteq Nat
ASSUME ScaleAssumption ==
  /\ PRECISION_FACTOR \in Nat \ {0} /\ BASIS_POINTS \in Nat \ {0, 1}
  /\ U32_SIZE \in Nat \ {0} /\ I128_MAX \in Nat /\ U64_MAX \in Nat
  /\ MIN_REWARD_DISTRIBUTION \in Nat
  /\ WITHDRAW_UNLOCK_LIMIT \in Nat /\ MAX_UNLOCK_LIMIT \in Nat
  /\ MaxTime \in Nat /\ MaxLocks \in Nat

VARIABLES
  config,               \* the entries only `initialize` writes, or NoConfig
  admin, pending_admin,
  is_paused,
  total_deposits, reward_index,
  liquid_balance,       \* UserLiquidBalance(user)
  user_locks,           \* UserLocks(user)
  user_position,        \* UserRewardIndex, UserAccruedRewards and
                        \* UserLastRewardTimestamp of each user
  token_balance,        \* the token contracts' ledgers
  timestamp             \* the ledger's clock

adminVars == <<config, admin, pending_admin, is_paused>>
fundVars == <<liquid_balance, user_locks, total_deposits>>
vars == <<adminVars, user_position, fundVars, reward_index, token_balance,
          timestamp>>

-----------------------------------------------------------------------------
(***************************************************************************)
(* Checked arithmetic fails the invocation when a result leaves its range. *)
(***************************************************************************)
Fits(x) == x <= I128_MAX
FitsU128(x) == x <= 2 * I128_MAX + 1

Initialized == config # NoConfig
\* Mutant: the pause flag is not consulted.
ActiveIgnoringPause == Initialized

Active == Initialized /\ ~is_paused

Moved(balances, from, to, amount) ==
  [balances EXCEPT ![from] = @ - amount, ![to] = @ + amount]

\* A token client's `transfer`; it panics when `from` holds too little.
Transfer(t, from, to, amount) ==
  /\ token_balance[t][from] >= amount
  /\ token_balance' = [token_balance EXCEPT ![t] = Moved(@, from, to, amount)]

LockAmounts(locks) == [i \in 1..Len(locks) |-> locks[i].amount]
LockTotal(locks) == Sum(LockAmounts(locks), Len(locks))

\* The balance of a user position: liquid and locked funds together.
UserBalance(u) == liquid_balance[u] + LockTotal(user_locks[u])

-----------------------------------------------------------------------------
(***************************************************************************)
(* Reward accrual.  A position is owed balance * (global index - the index *)
(* it was last settled at) / PRECISION_FACTOR on top of its accrued        *)
(* rewards.                                                                *)
(***************************************************************************)
NewRewards(p, balance, index) ==
  (balance * (index - p.reward_index)) \div PRECISION_FACTOR

\* Accruing new rewards restarts the position's vesting clock.
Accrue(p, balance, index) ==
  [reward_index |-> index,
   accrued_rewards |-> p.accrued_rewards + NewRewards(p, balance, index),
   last_reward_timestamp |->
     IF NewRewards(p, balance, index) > 0 THEN timestamp
                                          ELSE p.last_reward_timestamp]

\* Mutant: the whole index is scaled before the difference is taken.
AccrualFitsFullIndex(p, balance, index) ==
  /\ Fits(balance)
  /\ Fits(balance * index)
  /\ Fits(Accrue(p, balance, index).accrued_rewards)

AccrualFits(p, balance, index) ==
  /\ Fits(balance)
  /\ Fits(balance * (index - p.reward_index))
  /\ Fits(Accrue(p, balance, index).accrued_rewards)

Elapsed(p) ==
  IF timestamp >= p.last_reward_timestamp THEN timestamp - p.last_reward_timestamp
                                          ELSE 0

CalculateVested(p) ==
  IF config.vesting_period = 0 THEN p.accrued_rewards
  ELSE IF p.last_reward_timestamp = 0 THEN 0
  ELSE IF Elapsed(p) >= config.vesting_period THEN p.accrued_rewards
  ELSE (p.accrued_rewards * Elapsed(p)) \div config.vesting_period

VestingFits(p) ==
  \/ p.last_reward_timestamp = 0
  \/ Elapsed(p) >= config.vesting_period
  \/ FitsU128(p.accrued_rewards * Elapsed(p))

\* What is left in a position when its vested rewards are claimed.
Claimed(p) == [p EXCEPT !.accrued_rewards = @ - CalculateVested(p)]

\* Mutant: the index increment is rounded up.
IndexIncrementRoundedUp(amount, total) ==
  (amount * PRECISION_FACTOR + total - 1) \div total

IndexIncrement(amount, total) == (amount * PRECISION_FACTOR) \div total

IncrementFits(amount, total, index) ==
  /\ total > 0
  /\ Fits(amount * PRECISION_FACTOR)
  /\ IndexIncrement(amount, total) > 0
  /\ Fits(index + IndexIncrement(amount, total))

\* The position of u, brought up to date; the views `pending_rewards` and
\* `vested_rewards` are computed from it.
Settled(u) == Accrue(user_position[u], UserBalance(u), reward_index)
SettlementFits(u) == AccrualFits(user_position[u], UserBalance(u), reward_index)
PendingRewards(u) == Settled(u).accrued_rewards
VestedRewards(u) == CalculateVested(Settled(u))

\* The multiplier of the first point of the curve that the utilization does
\* not exceed, else of the last point.
UtilizationMultiplier ==
  LET points == config.utilization_multipliers
      utilization ==
        ((total_deposits * BASIS_POINTS) \div config.target_deposits) % U32_SIZE
      reached == {i \in 1..Len(points) : utilization <= points[i].utilization_bps}
  IN  IF config.target_deposits <= 0 \/ points = <<>> THEN BASIS_POINTS
      ELSE IF reached = {} THEN points[Len(points)].multiplier_bps
      ELSE points[CHOOSE i \in reached : \A j \in reached : i <= j].multiplier_bps

UtilizationFits ==
  \/ config.target_deposits <= 0 \/ config.utilization_multipliers = <<>>
  \/ Fits(total_deposits * BASIS_POINTS)

EffectiveAmount(amount) == (amount * UtilizationMultiplier) \div BASIS_POINTS

-----------------------------------------------------------------------------
(***************************************************************************)
(* `unlock_expired_locks`: one pass over the locks in order; the first     *)
(* `limit` expired ones are released and every other lock is kept.         *)
(***************************************************************************)
UnlockStart == [kept |-> <<>>, unlocked |-> 0, processed |-> 0]

\* Mutant: expired locks beyond the limit are dropped.
UnlockStepDropping(lock, before, limit) ==
  IF lock.unlock_timestamp > timestamp THEN [before EXCEPT !.kept = Append(@, lock)]
  ELSE IF before.processed < limit
  THEN [before EXCEPT !.unlocked = @ + lock.amount, !.processed = @ + 1]
  ELSE before

\* Mutant: a lock expires one second early.
UnlockStepEarly(lock, before, limit) ==
  IF lock.unlock_timestamp <= timestamp + 1 /\ before.processed < limit
  THEN [before EXCEPT !.unlocked = @ + lock.amount, !.processed = @ + 1]
  ELSE [before EXCEPT !.kept = Append(@, lock)]

UnlockStep(lock, before, limit) ==
  IF lock.unlock_timestamp <= timestamp /\ before.processed < limit
  THEN [before EXCEPT !.unlocked = @ + lock.amount, !.processed = @ + 1]
  ELSE [before EXCEPT !.kept = Append(@, lock)]

UnlockPass(locks, limit) ==
  LET pass[i \in 0..Len(locks)] ==
        IF i = 0 THEN UnlockStart ELSE UnlockStep(locks[i], pass[i - 1], limit)
  IN  pass[Len(locks)]

\* The liquid balance and the locks of u after the pass.
LiquidAfterUnlock(u, limit) ==
  liquid_balance[u] + UnlockPass(user_locks[u], limit).unlocked

LocksAfterUnlock(u, limit) ==
  LET pass == UnlockPass(user_locks[u], limit)
  IN  IF pass.unlocked > 0 THEN pass.kept ELSE user_locks[u]

-----------------------------------------------------------------------------
Init ==
  /\ config = NoConfig
  /\ admin = NoAdmin /\ pending_admin = NoAdmin
  /\ is_paused = FALSE
  /\ total_deposits = 0 /\ reward_index = 0
  /\ liquid_balance = [u \in Accounts |-> 0]
  /\ user_locks = [u \in Accounts |-> <<>>]
  /\ user_position = [u \in Accounts |-> NoPosition]
  /\ token_balance = InitialBalances
  /\ timestamp = 1

SortedPoints(points) ==
  \A i \in 1..(Len(points) - 1) :
    points[i].utilization_bps <= points[i + 1].utilization_bps

Initialize(a, c) ==
  /\ ~is_paused /\ ~Initialized
  /\ c.deposit_token # c.reward_token
  /\ SortedPoints(c.utilization_multipliers)
  /\ config' = c
  /\ admin' = a /\ pending_admin' = NoAdmin
  /\ is_paused' = FALSE
  /\ total_deposits' = 0 /\ reward_index' = 0
  /\ UNCHANGED <<user_position, liquid_balance, user_locks, token_balance, timestamp>>

ProposeNewAdmin(a) ==
  /\ Initialized
  /\ pending_admin' = a
  /\ UNCHANGED <<config, admin, is_paused, user_position, fundVars, reward_index,
                 token_balance, timestamp>>

AcceptAdmin(a) ==
  /\ Initialized
  /\ pending_admin = a
  /\ admin' = a /\ pending_admin' = NoAdmin
  /\ UNCHANGED <<config, is_paused, user_position, fundVars, reward_index,
                 token_balance, timestamp>>

SetPaused(p) ==
  /\ Initialized
  /\ is_paused' = p
  /\ UNCHANGED <<config, admin, pending_admin, user_position, fundVars,
                 reward_index, token_balance, timestamp>>

\* Mutant: the balance grows without the position being settled first.
DepositUnsettled(u, amount) ==
  /\ Active /\ amount > 0
  /\ Transfer(config.deposit_token, u, Contract, amount)
  /\ SettlementFits(u)
  /\ Fits(UserBalance(u) + amount) /\ Fits(total_deposits + amount)
  /\ liquid_balance' = [liquid_balance EXCEPT ![u] = @ + amount]
  /\ total_deposits' = total_deposits + amount
  /\ UNCHANGED <<adminVars, user_position, user_locks, reward_index, timestamp>>

Deposit(u, amount) ==
  /\ Active /\ amount > 0
  /\ Transfer(config.deposit_token, u, Contract, amount)
  /\ SettlementFits(u)
  /\ Fits(UserBalance(u) + amount) /\ Fits(total_deposits + amount)
  /\ user_position' = [user_position EXCEPT ![u] = Settled(u)]
  /\ liquid_balance' = [liquid_balance EXCEPT ![u] = @ + amount]
  /\ total_deposits' = total_deposits + amount
  /\ UNCHANGED <<adminVars, user_locks, reward_index, timestamp>>

\* Mutant: the user's own balance is not checked.
CanWithdrawUnchecked(u, amount) ==
  /\ Active /\ amount > 0
  /\ SettlementFits(u)
  /\ Fits(LiquidAfterUnlock(u, WITHDRAW_UNLOCK_LIMIT))
  /\ token_balance[config.deposit_token][Contract] >= amount

CanWithdraw(u, amount) ==
  /\ Active /\ amount > 0
  /\ SettlementFits(u)
  /\ Fits(LiquidAfterUnlock(u, WITHDRAW_UNLOCK_LIMIT))
  /\ LiquidAfterUnlock(u, WITHDRAW_UNLOCK_LIMIT) >= amount
  /\ token_balance[config.deposit_token][Contract] >= amount

Withdraw(u, amount) ==
  /\ CanWithdraw(u, amount)
  /\ user_position' = [user_position EXCEPT ![u] = Settled(u)]
  /\ liquid_balance' = [liquid_balance EXCEPT ![u] =
                          LiquidAfterUnlock(u, WITHDRAW_UNLOCK_LIMIT) - amount]
  /\ user_locks' = [user_locks EXCEPT ![u] =
                      LocksAfterUnlock(u, WITHDRAW_UNLOCK_LIMIT)]
  /\ total_deposits' = total_deposits - amount
  /\ Transfer(config.deposit_token, Contract, u, amount)
  /\ UNCHANGED <<adminVars, reward_index, timestamp>>

Lock(u, amount, duration) ==
  /\ Active /\ amount > 0 /\ duration # 0
  /\ timestamp + duration <= U64_MAX
  /\ Len(user_locks[u]) < MaxLocks
  /\ SettlementFits(u)
  /\ liquid_balance[u] >= amount
  /\ user_position' = [user_position EXCEPT ![u] = Settled(u)]
  /\ liquid_balance' = [liquid_balance EXCEPT ![u] = @ - amount]
  /\ user_locks' = [user_locks EXCEPT ![u] =
       Append(@, [amount |-> amount, unlock_timestamp |-> timestamp + duration])]
  /\ UNCHANGED <<adminVars, total_deposits, reward_index, token_balance, timestamp>>

UnlockExpired(u, limit) ==
  /\ Active
  /\ limit <= MAX_UNLOCK_LIMIT
  /\ Fits(LiquidAfterUnlock(u, limit))
  /\ liquid_balance' = [liquid_balance EXCEPT ![u] = LiquidAfterUnlock(u, limit)]
  /\ user_locks' = [user_locks EXCEPT ![u] = LocksAfterUnlock(u, limit)]
  /\ UNCHANGED <<adminVars, user_position, total_deposits, reward_index,
                 token_balance, timestamp>>

\* Mutant: the increment replaces the index.
DistributeRewardsOverwriting(amount) ==
  /\ Initialized
  /\ amount > 0 /\ amount >= MIN_REWARD_DISTRIBUTION
  /\ UtilizationFits
  /\ FitsU128(amount * UtilizationMultiplier)
  /\ IncrementFits(EffectiveAmount(amount), total_deposits, reward_index)
  /\ Transfer(config.reward_token, admin, Contract, amount)
  /\ reward_index' = IndexIncrement(EffectiveAmount(amount), total_deposits)
  /\ UNCHANGED <<adminVars, user_position, fundVars, timestamp>>

\* Not gated by the pause flag.
DistributeRewards(amount) ==
  /\ Initialized
  /\ amount > 0 /\ amount >= MIN_REWARD_DISTRIBUTION
  /\ UtilizationFits
  /\ FitsU128(amount * UtilizationMultiplier)
  /\ IncrementFits(EffectiveAmount(amount), total_deposits, reward_index)
  /\ Transfer(config.reward_token, admin, Contract, amount)
  /\ reward_index' = reward_index
                       + IndexIncrement(EffectiveAmount(amount), total_deposits)
  /\ UNCHANGED <<adminVars, user_position, fundVars, timestamp>>

\* A claim with nothing vested returns Ok(0) and still saves the position.
ClaimRewards(u) ==
  /\ Active
  /\ SettlementFits(u)
  /\ VestingFits(Settled(u))
  /\ user_position' = [user_position EXCEPT ![u] = Claimed(Settled(u))]
  /\ IF VestedRewards(u) > 0
     THEN Transfer(config.reward_token, Contract, u, VestedRewards(u))
     ELSE UNCHANGED token_balance
  /\ UNCHANGED <<adminVars, fundVars, reward_index, timestamp>>

Tick ==
  /\ timestamp < MaxTime
  /\ timestamp' = timestamp + 1
  /\ UNCHANGED <<adminVars, user_position, fundVars, reward_index, token_balance>>

Next ==
  \/ \E a \in Admins, c \in ConfigArgs : Initialize(a, c)
  \/ \E a \in Admins : ProposeNewAdmin(a)
  \/ \E a \in Accounts : AcceptAdmin(a)
  \/ \E p \in BOOLEAN : SetPaused(p)
  \/ \E u \in Accounts, amount \in Amounts : Deposit(u, amount)
  \/ \E u \in Accounts, amount \in Amounts : Withdraw(u, amount)
  \/ \E u \in Accounts, amount \in Amounts, d \in Durations : Lock(u, amount, d)
  \/ \E u \in Accounts, limit \in Limits : UnlockExpired(u, limit)
  \/ \E amount \in RewardAmounts : DistributeRewards(amount)
  \/ \E u \in Accounts : ClaimRewards(u)
  \/ Tick

Spec == Init /\ [][Next]_vars

-----------------------------------------------------------------------------
(***************************************************************************)
(* Properties.                                                             *)
(***************************************************************************)

\* The stored entries have the types the contract declares for them, amounts
\* and indices are never negative, and every lock holds a positive amount.
TypeOK ==
  /\ config \in Config \cup {NoConfig}
  /\ admin \in Accounts \cup {NoAdmin}
  /\ pending_admin \in Accounts \cup {NoAdmin}
  /\ is_paused \in BOOLEAN
  /\ total_deposits \in Nat /\ reward_index \in Nat
  /\ liquid_balance \in [Accounts -> Nat]
  /\ user_locks \in [Accounts -> Seq(LockEntry)]
  /\ user_position \in [Accounts -> Position]
  /\ token_balance \in [Tokens -> [Holders -> Nat]]
  /\ timestamp \in Nat

\* No position is settled at an index ahead of the global reward index, or at
\* a time ahead of the ledger's clock: the difference in the accrual is never
\* negative (`accrued > 0` would skip it) and neither is a vesting time.
PositionsBehind ==
  \A u \in Accounts : /\ user_position[u].reward_index <= reward_index
                      /\ user_position[u].last_reward_timestamp <= timestamp

TotalBalance == Sum([u \in Accounts |-> UserBalance(u)], NumUsers)

\* TotalDeposits is the sum of every user's liquid and locked balance, and the
\* contract holds exactly that much of the deposit token: moving funds between
\* the liquid balance and the locks, in whatever batches, creates and loses
\* nothing (`store_deposit`, `store_withdraw`, `store_lock`,
\* `unlock_expired_locks`).  Tokens that somebody transfers to the contract
\* without `deposit` are left out: the contract would hold that much more.
DepositsBacked ==
  /\ total_deposits = TotalBalance
  /\ Initialized => token_balance[config.deposit_token][Contract] = total_deposits

\* The multiplier curve never pays out more than was distributed.
NoBoost ==
  \A i \in 1..Len(config.utilization_multipliers) :
    config.utilization_multipliers[i].multiplier_bps <= BASIS_POINTS

\* What the contract owes in rewards, in units of 1 / PRECISION_FACTOR.
Owed(u) == PRECISION_FACTOR * user_position[u].accrued_rewards
             + UserBalance(u) * (reward_index - user_position[u].reward_index)

TotalOwed == Sum([u \in Accounts |-> Owed(u)], NumUsers)

\* As long as no multiplier exceeds 1.0x, the reward tokens the contract holds
\* cover everything accrued and still to be accrued by every user, whatever
\* deposits, locks and claims come between the distributions: the rounding of
\* the index and of each accrual is always in the vault's favour
\* (`store_reward_distribution`, `accrue_position_rewards`).
RewardsSolvent ==
  Initialized /\ NoBoost =>
    TotalOwed <= PRECISION_FACTOR * token_balance[config.reward_token][Contract]

Supply(balances) == balances[Contract] + Sum([a \in Accounts |-> balances[a]], NumUsers)

\* The token supplies, scaled by the precision factor, stay in the i128 range.
SuppliesFit ==
  \A t \in Tokens : PRECISION_FACTOR * Supply(InitialBalances[t]) <= I128_MAX

\* A user can take out the whole liquid balance whenever the contract is not
\* paused: neither the token holdings nor the reward arithmetic that `withdraw`
\* runs first can make it fail, provided the token supplies are small enough
\* for the scaled arithmetic (SuppliesFit).
ExitLiquidity ==
  Active /\ NoBoost /\ SuppliesFit =>
    \A u \in Accounts :
      liquid_balance[u] > 0 => CanWithdraw(u, liquid_balance[u])

\* A user's pending rewards rise only in a step that distributes rewards, and
\* fall only by what the step pays out to that user in reward tokens: no
\* deposit, withdrawal, lock or unlock, of that user or another, earns or loses
\* rewards already accrued.
RewardAccounting ==
  [][\A u \in Accounts :
       /\ PendingRewards(u)' > PendingRewards(u) => reward_index' > reward_index
       /\ PendingRewards(u)' < PendingRewards(u) =>
            token_balance'[config.reward_token][u]
              = token_balance[config.reward_token][u]
                  + PendingRewards(u) - PendingRewards(u)']_vars

\* What of u's funds is in locks that have not expired; the view
\* `locked_balance`.
LockedBalance(u) ==
  LET locks == user_locks[u]
  IN  Sum([i \in 1..Len(locks) |->
             IF locks[i].unlock_timestamp > timestamp THEN locks[i].amount ELSE 0],
          Len(locks))

\* Locked funds are not withdrawable: the unexpired locked balance of a user
\* falls only when the clock advances, never by an operation.
LocksHonoured ==
  [][\A u \in Accounts :
       LockedBalance(u)' < LockedBalance(u) => timestamp' > timestamp]_vars

\* While the contract stays paused no user's funds, position or deposit-token
\* holding changes; only the admin's operations and the clock go on.
PauseFreezesFunds ==
  [][is_paused /\ is_paused' =>
       /\ UNCHANGED <<fundVars, user_position>>
       /\ UNCHANGED token_balance[config.deposit_token]]_vars

\* Every lock's funds are free to withdraw in one call once all of the user's
\* locks have expired, the flow the documentation gives for `withdraw`.
ExpiredLocksWithdrawable ==
  \A u \in Accounts :
    Active /\ UserBalance(u) > 0 /\ LockedBalance(u) = 0
      => CanWithdraw(u, UserBalance(u))
=============================================================================
