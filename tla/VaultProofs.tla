---------------------------- MODULE VaultProofs -----------------------------
(***************************************************************************)
(* The properties of Vault, for every number of users, every configuration *)
(* and every amount.                                                       *)
(***************************************************************************)
EXTENDS VaultLemmas

\* Nothing is stored or held at deployment.
LEMMA InitHolds == Init => IInv
BY BooksInit DEF IInv, Books, DepositsBacked, RewardsSolvent

\* Alone, the vault holds exactly its deposits, and what it holds covers what it owes.
LEMMA NextKeeps == IInv /\ [Next]_vars => IInv'
<1> SUFFICES ASSUME IInv, [Next]_vars PROVE IInv'
  OBVIOUS
<1>1. /\ Books /\ Books'
      /\ Initialized => HoldingsFollow
      /\ ~Initialized => ~Initialized' \/ JustInitialized'
  BY BooksStep DEF IInv
<1>2. CASE ~Initialized'
  BY <1>1, <1>2 DEF IInv, DepositsBacked, RewardsSolvent, Books
<1>3. CASE Initialized' /\ JustInitialized'
  <2>1. config'.deposit_token \in Tokens /\ config'.reward_token \in Tokens
    BY <1>1, <1>3, Zenon DEF Books, TypeOK, Initialized, Config
  <2>2. PRECISION_FACTOR * 0 = 0
    BY ScaleAssumption
  <2> QED
    BY <1>1, <1>3, <2>1, <2>2 DEF IInv, DepositsBacked, RewardsSolvent, Books, JustInitialized
<1>4. CASE Initialized /\ Initialized'
  <2>1. /\ HoldingsFollow /\ config' = config /\ total_deposits \in Nat /\ total_deposits' \in Nat
        /\ \A t \in Tokens : token_balance[t][Contract] \in Nat /\ token_balance'[t][Contract] \in Nat
    <3>1. Contract \in Holders
      BY NumUsersAssumption DEF Contract, Holders
    <3> QED
      BY <1>1, <1>4, <3>1 DEF HoldingsFollow, Books, TypeOK
  <2>2. config.deposit_token \in Tokens /\ config.reward_token \in Tokens
    BY <1>1, <1>4, SetupFacts
  <2>3. token_balance[config.deposit_token][Contract] = total_deposits
    BY <1>4 DEF IInv, DepositsBacked
  <2>4. DepositsBacked'
    BY <1>1, <2>1, <2>2, <2>3 DEF DepositsBacked, HoldingsFollow, Books
  <2>5. RewardsSolvent'
    <3> SUFFICES ASSUME NoBoost'
                 PROVE  TotalOwed' <= PRECISION_FACTOR * token_balance'[config.reward_token][Contract]
      BY <2>1 DEF RewardsSolvent
    <3> DEFINE held == PRECISION_FACTOR * token_balance[config.reward_token][Contract]
               then == PRECISION_FACTOR * token_balance'[config.reward_token][Contract]
    <3>1. NoBoost
      BY <2>1 DEF NoBoost
    <3>2. TotalOwed <= held
      BY <1>4, <3>1 DEF IInv, RewardsSolvent
    <3>3. TotalOwed' + held <= TotalOwed + then
      BY <2>1, <3>1 DEF HoldingsFollow
    <3>4. held \in Nat /\ then \in Nat
      BY <2>1, <2>2, ScaleAssumption, Product
    <3>5. TypeOK /\ PositionsBehind /\ TypeOK' /\ PositionsBehind'
      BY <1>1 DEF Books
    <3>6. OwedFacts /\ OwedFacts'
      BY <3>5, OwedNat, PTL
    <3>7. TotalOwed \in Nat /\ TotalOwed' \in Nat
      BY <3>6 DEF OwedFacts
    <3> HIDE DEF held, then
    <3>8. \A a, b, c, d \in Nat : a <= b /\ c + b <= a + d => c <= d
      OBVIOUS
    <3>9. TotalOwed' <= then
      BY <3>2, <3>3, <3>4, <3>7, <3>8, Zenon
    <3> QED
      BY <3>9 DEF then
  <2> QED
    BY <1>1, <2>4, <2>5 DEF IInv
<1> QED
  BY <1>1, <1>2, <1>3, <1>4

\* The inductive invariant holds in every reachable state of the contract.
THEOREM Invariance == Spec => []IInv
BY InitHolds, NextKeeps, PTL DEF Spec

\* Stored entries keep their types: no amount or index ever goes negative.
THEOREM TypeCorrect == Spec => []TypeOK
<1>1. IInv => TypeOK
  BY DEF IInv, Books
<1> QED
  BY Invariance, <1>1, PTL

\* No position is ahead of the global index or of the clock.
THEOREM PositionsStayBehind == Spec => []PositionsBehind
<1>1. IInv => PositionsBehind
  BY DEF IInv, Books
<1> QED
  BY Invariance, <1>1, PTL

\* TotalDeposits is the sum of the balances and is fully backed by tokens.
THEOREM DepositsStayBacked == Spec => []DepositsBacked
<1>1. IInv => DepositsBacked
  BY DEF IInv
<1> QED
  BY Invariance, <1>1, PTL

\* Without a multiplier above 1.0x the vault can pay every reward it owes.
THEOREM RewardsStaySolvent == Spec => []RewardsSolvent
<1>1. IInv => RewardsSolvent
  BY DEF IInv
<1> QED
  BY Invariance, <1>1, PTL

\* With supplies in range nothing `withdraw` computes can overflow.
LEMMA ExitFromInvariant == IInv => ExitLiquidity
<1> SUFFICES ASSUME IInv, Active, NoBoost, SuppliesFit,
                    NEW u \in Accounts, liquid_balance[u] > 0
             PROVE  CanWithdraw(u, liquid_balance[u])
  BY DEF ExitLiquidity
<1> DEFINE P == PRECISION_FACTOR
           d == config.deposit_token
           r == config.reward_token
           balance == UserBalance(u)
           accrued == Settled(u).accrued_rewards
           gap == reward_index - user_position[u].reward_index
<1>1. Initialized /\ TypeOK /\ PositionsBehind /\ Books
  BY DEF Active, IInv, Books
<1>2. d \in Tokens /\ r \in Tokens
  BY <1>1, SetupFacts
<1>3. /\ token_balance[d][Contract] \in Nat /\ token_balance[r][Contract] \in Nat
      /\ P * token_balance[d][Contract] <= I128_MAX
      /\ P * token_balance[r][Contract] <= I128_MAX
  <2> SUFFICES ASSUME NEW t \in Tokens
               PROVE  /\ token_balance[t][Contract] \in Nat
                      /\ P * token_balance[t][Contract] <= I128_MAX
    BY <1>2
  <2>1. /\ token_balance[t][Contract] \in Nat
        /\ Supply(InitialBalances[t]) \in Nat
        /\ token_balance[t][Contract] <= Supply(InitialBalances[t])
    BY <1>1, HeldWithinSupply
  <2>2. P * Supply(InitialBalances[t]) <= I128_MAX
    BY DEF SuppliesFit
  <2>3. P \in Nat /\ I128_MAX \in Nat
    BY ScaleAssumption
  <2>4. P * token_balance[t][Contract] <= P * Supply(InitialBalances[t])
    BY <2>1, <2>3, Product
  <2>5. P * token_balance[t][Contract] \in Nat /\ P * Supply(InitialBalances[t]) \in Nat
    BY <2>1, <2>3, Product
  <2> QED
    BY <2>1, <2>2, <2>3, <2>4, <2>5
<1>4. balance \in Nat /\ balance <= token_balance[d][Contract]
  <2>1. BalanceFacts
    BY <1>1, BalanceNat DEF TypeOK, FundsOK
  <2>2. TotalBalance = token_balance[d][Contract]
    BY <1>1 DEF IInv, DepositsBacked
  <2> QED
    BY <2>1, <2>2 DEF BalanceFacts
<1>5. /\ balance * gap \in Nat /\ P * user_position[u].accrued_rewards \in Nat
      /\ Owed(u) = P * user_position[u].accrued_rewards + balance * gap
      /\ Owed(u) <= P * token_balance[r][Contract]
  <2>1. OwedFacts
    BY <1>1, OwedNat
  <2>2. TotalOwed <= P * token_balance[r][Contract]
    BY <1>1 DEF IInv, RewardsSolvent
  <2>3. P * token_balance[r][Contract] \in Nat
    BY <1>3, ScaleAssumption, Product
  <2>4. Owed(u) \in Nat /\ TotalOwed \in Nat /\ Owed(u) <= TotalOwed
    BY <2>1 DEF OwedFacts
  <2>5. Owed(u) <= P * token_balance[r][Contract]
    BY <2>2, <2>3, <2>4
  <2> QED
    BY <2>1, <2>5 DEF OwedFacts, Owed
<1>6. accrued \in Nat /\ P * accrued <= Owed(u)
  BY <1>1, SettledFacts, PositionFields
<1>7. /\ LiquidAfterUnlock(u, WITHDRAW_UNLOCK_LIMIT) \in Nat
      /\ LiquidAfterUnlock(u, WITHDRAW_UNLOCK_LIMIT) >= liquid_balance[u]
      /\ LiquidAfterUnlock(u, WITHDRAW_UNLOCK_LIMIT) <= balance
  BY <1>1, ScaleAssumption, UnlockKeepsBalance, Zenon
<1>8. liquid_balance[u] \in Nat
  BY <1>1 DEF TypeOK
<1>9. accrued = Accrue(user_position[u], balance, reward_index).accrued_rewards
  BY DEF Settled
<1> HIDE DEF P, d, r, balance, accrued, gap
<1>10. P \in Nat \ {0} /\ I128_MAX \in Nat
  BY ScaleAssumption DEF P
<1>11. /\ P * token_balance[d][Contract] \in Nat /\ P * token_balance[r][Contract] \in Nat
       /\ P * accrued \in Nat
  BY <1>3, <1>6, <1>10, Product
<1>12. token_balance[d][Contract] <= P * token_balance[d][Contract] /\ accrued <= P * accrued
  BY <1>3, <1>6, <1>10
<1>13. balance <= I128_MAX
  BY <1>3, <1>4, <1>10, <1>11, <1>12
<1>14. balance * gap <= I128_MAX /\ accrued <= I128_MAX
  BY <1>3, <1>5, <1>6, <1>10, <1>11, <1>12
<1>15. SettlementFits(u)
  BY <1>9, <1>13, <1>14 DEF SettlementFits, AccrualFits, Fits, balance, gap
<1>16. /\ LiquidAfterUnlock(u, WITHDRAW_UNLOCK_LIMIT) <= I128_MAX
       /\ token_balance[d][Contract] >= liquid_balance[u]
  BY <1>3, <1>4, <1>7, <1>8, <1>10, <1>13
<1> QED
  BY <1>7, <1>15, <1>16 DEF CanWithdraw, Fits, d

\* Liquid funds can always be withdrawn from an unpaused contract.
THEOREM ExitGuaranteed == Spec => []ExitLiquidity
BY Invariance, ExitFromInvariant, PTL

\* A contract that stays paused leaves every user's funds as they are.
THEOREM PauseFreezes == Spec => PauseFreezesFunds
<1> DEFINE Frozen == is_paused /\ is_paused' =>
                       /\ UNCHANGED <<fundVars, user_position>>
                       /\ UNCHANGED token_balance[config.deposit_token]
<1>1. IInv /\ [Next]_vars => [Frozen]_vars
  <2> SUFFICES ASSUME IInv, Next, is_paused, is_paused'
               PROVE  /\ UNCHANGED <<fundVars, user_position>>
                      /\ UNCHANGED token_balance[config.deposit_token]
    OBVIOUS
  <2> DEFINE Goal == /\ UNCHANGED <<fundVars, user_position>>
                     /\ UNCHANGED token_balance[config.deposit_token]
  <2>1. ~Active
    BY Zenon DEF Active
  <2>2. ASSUME NEW a \in Admins, NEW c \in ConfigArgs, Initialize(a, c) PROVE Goal
    BY <2>2 DEF Initialize
  <2>3. ASSUME NEW a \in Admins, ProposeNewAdmin(a) PROVE Goal
    BY <2>3 DEF ProposeNewAdmin
  <2>4. ASSUME NEW a \in Accounts, AcceptAdmin(a) PROVE Goal
    BY <2>4 DEF AcceptAdmin
  <2>5. ASSUME NEW p \in BOOLEAN, SetPaused(p) PROVE Goal
    BY <2>5 DEF SetPaused
  <2>6. ASSUME NEW u \in Accounts, NEW amount \in Amounts,
               Deposit(u, amount) \/ Withdraw(u, amount)
        PROVE  Goal
    BY <2>1, <2>6, Zenon DEF Deposit, Withdraw, CanWithdraw
  <2>7. ASSUME NEW u \in Accounts, NEW amount \in Amounts, NEW d \in Durations,
               Lock(u, amount, d)
        PROVE  Goal
    BY <2>1, <2>7, Zenon DEF Lock
  <2>8. ASSUME NEW u \in Accounts, NEW limit \in Limits, UnlockExpired(u, limit) PROVE Goal
    BY <2>1, <2>8, Zenon DEF UnlockExpired
  <2>9. ASSUME NEW amount \in RewardAmounts, DistributeRewards(amount) PROVE Goal
    <3>1. /\ Transfer(config.reward_token, admin, Contract, amount) /\ Initialized
          /\ UNCHANGED <<adminVars, user_position, fundVars>>
      BY <2>9 DEF DistributeRewards
    <3>2. /\ config.deposit_token \in Tokens /\ config.reward_token \in Tokens
          /\ config.deposit_token # config.reward_token
      BY <3>1, SetupFacts, Zenon DEF IInv
    <3>3. token_balance'[config.deposit_token] = token_balance[config.deposit_token]
      BY <3>1, <3>2 DEF Transfer, IInv, Books, TypeOK
    <3> QED
      BY <3>1, <3>3 DEF adminVars
  <2>10. ASSUME NEW u \in Accounts, ClaimRewards(u) PROVE Goal
    BY <2>1, <2>10, Zenon DEF ClaimRewards
  <2>11. ASSUME Tick PROVE Goal
    BY <2>11 DEF Tick, adminVars
  <2> HIDE DEF Goal
  <2>12. Goal
    BY <2>2, <2>3, <2>4, <2>5, <2>6, <2>7, <2>8, <2>9, <2>10, <2>11, Zenon DEF Next
  <2> QED
    BY <2>12 DEF Goal
<1> QED
  BY Invariance, <1>1, PTL DEF Spec, PauseFreezesFunds

-----------------------------------------------------------------------------
(* What a step may not do *)

\* What of some locks has not expired; the view `locked_balance` of those locks.
Unexpired(locks) ==
  [i \in 1..Len(locks) |->
     IF locks[i].unlock_timestamp > timestamp THEN locks[i].amount ELSE 0]
LockedIn(locks) == Sum(Unexpired(locks), Len(locks))

\* It is a sum of naturals, to which a new lock adds its amount unless it has expired.
LEMMA LockedInAppend ==
  ASSUME NEW locks \in Seq(LockEntry), NEW lock \in LockEntry, timestamp \in Nat
  PROVE  /\ Unexpired(locks) \in [1..Len(locks) -> Nat] /\ LockedIn(locks) \in Nat
         /\ LockedIn(Append(locks, lock))
              = LockedIn(locks) + (IF lock.unlock_timestamp > timestamp THEN lock.amount ELSE 0)
<1> DEFINE n == Len(locks)
           more == Append(locks, lock)
           s == Unexpired(locks)
           t == Unexpired(more)
<1>1. /\ n \in Nat /\ Len(more) = n + 1 /\ more \in Seq(LockEntry)
      /\ more[n + 1] = lock /\ \A i \in 1..n : more[i] = locks[i]
  OBVIOUS
<1>2. \A x \in LockEntry : (IF x.unlock_timestamp > timestamp THEN x.amount ELSE 0) \in Nat
  BY LockFields
<1>3. s \in [1..n -> Nat]
  <2>1. \A i \in 1..n : locks[i] \in LockEntry
    OBVIOUS
  <2> QED
    BY <1>2, <2>1 DEF Unexpired
<1>4. t \in [1..(n + 1) -> Nat]
  <2> HIDE DEF more
  <2>1. \A i \in 1..(n + 1) : more[i] \in LockEntry
    BY <1>1
  <2> QED
    BY <1>1, <1>2, <2>1 DEF Unexpired
<1>5. /\ \A i \in 1..n : t[i] = s[i]
      /\ t[n + 1] = IF lock.unlock_timestamp > timestamp THEN lock.amount ELSE 0
  <2> HIDE DEF more
  <2> QED
    BY <1>1 DEF Unexpired
<1>6. LockedIn(locks) = Sum(s, n) /\ LockedIn(more) = Sum(t, n + 1)
  BY <1>1 DEF LockedIn
<1> HIDE DEF n, more, s, t
<1>7. Sum(s, n) \in Nat
  BY <1>1, <1>3, SumNat
<1>8. Sum(t, n + 1) = Sum(s, n) + t[n + 1]
  <2>1. s \in [1..n -> Int] /\ t \in [1..(n + 1) -> Int]
    BY <1>3, <1>4
  <2> QED
    BY <1>1, <1>5, <2>1, SumExtend, Zenon
<1> QED
  BY <1>3, <1>5, <1>6, <1>7, <1>8 DEF more, n, s

\* `unlock_expired_locks` keeps every lock that has not expired.
LEMMA UnlockKeepsLocked ==
  ASSUME NEW locks \in Seq(LockEntry), NEW limit \in Nat, timestamp \in Nat
  PROVE  LockedIn(UnlockPass(locks, limit).kept) = LockedIn(locks)
<1> DEFINE n == Len(locks)
           s == Unexpired(locks)
<1>1. PICK w : IsPass(w, locks, limit, n) /\ UnlockPass(locks, limit) = w[n]
  BY PassIs
<1>2. PICK lock0 : lock0 \in LockEntry
  <2>1. [amount |-> 1, unlock_timestamp |-> 0] \in LockEntry
    BY DEF LockEntry
  <2> QED
    BY <2>1
<1>3. n \in Nat /\ s \in [1..n -> Int]
  BY <1>2, LockedInAppend
<1>4. PICK p : IsPartial(p, s, n) /\ LockedIn(locks) = p[n]
  BY <1>3, PartialSums DEF LockedIn
<1> DEFINE Good(i) == w[i] \in Progress /\ LockedIn(w[i].kept) = p[i]
           A == {i \in Nat : i \in 0..n => Good(i)}
<1>5. 0 \in A
  <2>1. w[0] = UnlockStart /\ p[0] = 0
    BY <1>1, <1>3, <1>4 DEF IsPass, IsPartial
  <2>2. UnlockStart \in Progress /\ UnlockStart.kept = <<>>
    BY DEF UnlockStart, Progress
  <2>3. Unexpired(<<>>) = [i \in 1..0 |-> 0] /\ Len(<<>>) = 0
    BY DEF Unexpired
  <2>4. Sum([i \in 1..0 |-> 0], 0) = 0
    BY SumZero, Zenon
  <2>5. LockedIn(<<>>) = 0
    BY <2>3, <2>4 DEF LockedIn
  <2> QED
    BY <2>1, <2>2, <2>5
<1>6. \A i \in Nat : i \in A => i + 1 \in A
  <2> SUFFICES ASSUME NEW i \in Nat, i \in A, i + 1 \in 0..n PROVE Good(i + 1)
    OBVIOUS
  <2> DEFINE lock == locks[i + 1]
             before == w[i]
             locked == IF lock.unlock_timestamp > timestamp THEN lock.amount ELSE 0
  <2>1. i + 1 \in 1..n /\ i + 1 # 0 /\ (i + 1) - 1 = i /\ i \in 0..n
    BY <1>3
  <2>2. lock \in LockEntry
    BY <2>1
  <2>3. lock.amount \in Nat /\ lock.unlock_timestamp \in Nat
    BY <2>2, LockFields
  <2>4. before \in Progress /\ LockedIn(before.kept) = p[i]
    BY <2>1
  <2>5. w[i + 1] = UnlockStep(lock, before, limit)
    BY <1>1, <2>1 DEF IsPass
  <2>6. p[i + 1] = p[i] + locked /\ p[i] \in Int
    BY <1>3, <1>4, <2>1, Zenon DEF IsPartial, Unexpired
  <2>7. before.kept \in Seq(LockEntry) /\ before.unlocked \in Nat /\ before.processed \in Nat
    BY <2>4 DEF Progress
  <2> HIDE DEF lock, before
  <2>8. CASE lock.unlock_timestamp <= timestamp /\ before.processed < limit
    <3>1. w[i + 1] = [before EXCEPT !.unlocked = @ + lock.amount, !.processed = @ + 1]
      BY <2>5, <2>8 DEF UnlockStep
    <3>2. before.unlocked + lock.amount \in Nat /\ before.processed + 1 \in Nat
      <4>1. \A a \in Nat, b \in Nat : a + b \in Nat /\ a + 1 \in Nat
        OBVIOUS
      <4> QED BY <2>3, <2>7, <4>1, Zenon
    <3>3. w[i + 1] \in Progress /\ w[i + 1].kept = before.kept
      BY <2>4, <3>1, <3>2, Zenon DEF Progress
    <3>4. locked = 0
      BY <2>3, <2>8
    <3> QED
      BY <2>4, <2>6, <3>3, <3>4
  <2>9. CASE ~(lock.unlock_timestamp <= timestamp /\ before.processed < limit)
    <3>1. w[i + 1] = [before EXCEPT !.kept = Append(@, lock)]
      BY <2>5, <2>9 DEF UnlockStep
    <3>2. Append(before.kept, lock) \in Seq(LockEntry)
      BY <2>2, <2>7
    <3>3. LockedIn(Append(before.kept, lock)) = LockedIn(before.kept) + locked
      BY <2>2, <2>7, LockedInAppend
    <3>4. w[i + 1] \in Progress /\ w[i + 1].kept = Append(before.kept, lock)
      BY <2>4, <3>1, <3>2, Zenon DEF Progress
    <3> QED
      BY <2>4, <2>6, <3>3, <3>4
  <2> QED
    BY <2>8, <2>9
<1>7. Nat \subseteq A
  <2> HIDE DEF A
  <2> QED
    BY <1>5, <1>6, SetInduction
<1>8. Good(n)
  BY <1>3, <1>7
<1> QED
  BY <1>1, <1>4, <1>8

\* Releasing expired locks leaves the unexpired ones of the user alone.
LEMMA LocksAfterUnlockFacts ==
  ASSUME Books, NEW u \in Accounts, NEW limit \in Nat
  PROVE  LockedIn(LocksAfterUnlock(u, limit)) = LockedIn(user_locks[u])
<1>1. user_locks[u] \in Seq(LockEntry) /\ timestamp \in Nat
  BY DEF Books, TypeOK
<1>2. LockedIn(UnlockPass(user_locks[u], limit).kept) = LockedIn(user_locks[u])
  BY <1>1, UnlockKeepsLocked
<1> QED
  BY <1>2 DEF LocksAfterUnlock

\* No operation lowers what a user has in unexpired locks.
LEMMA LockedStep ==
  ASSUME Books, Next, NEW u \in Accounts, LockedBalance(u)' < LockedBalance(u)
  PROVE  timestamp' > timestamp
<1> SUFFICES ASSUME ~(timestamp' > timestamp) PROVE FALSE
  OBVIOUS
<1>1. user_locks \in [Accounts -> Seq(LockEntry)] /\ timestamp \in Nat
  BY DEF Books, TypeOK
<1>2. timestamp' = timestamp
  BY <1>1, ClockStep
<1>3. LockedBalance(u) = LockedIn(user_locks[u]) /\ LockedBalance(u)' = LockedIn(user_locks'[u])
  BY <1>2 DEF LockedBalance, LockedIn, Unexpired
<1>4. LockedIn(user_locks[u]) \in Nat
  <2>1. [amount |-> 1, unlock_timestamp |-> 0] \in LockEntry
    BY DEF LockEntry
  <2> QED
    BY <1>1, <2>1, LockedInAppend
<1>5. user_locks'[u] # user_locks[u]
  BY <1>3, <1>4
<1>6. ASSUME NEW v \in Accounts, NEW limit \in Nat,
             user_locks' = [user_locks EXCEPT ![v] = LocksAfterUnlock(v, limit)]
      PROVE  FALSE
  <2>1. u = v /\ user_locks'[u] = LocksAfterUnlock(u, limit)
    BY <1>1, <1>5, <1>6
  <2> QED
    BY <1>3, <1>4, <2>1, LocksAfterUnlockFacts
<1>7. ASSUME NEW v \in Accounts, NEW amount \in Amounts, Withdraw(v, amount) PROVE FALSE
  BY <1>6, <1>7, ScaleAssumption, Zenon DEF Withdraw
<1>8. ASSUME NEW v \in Accounts, NEW limit \in Limits, UnlockExpired(v, limit) PROVE FALSE
  BY <1>6, <1>8, InputAssumption, Zenon DEF UnlockExpired
<1>9. ASSUME NEW v \in Accounts, NEW amount \in Amounts, NEW d \in Durations, Lock(v, amount, d)
      PROVE  FALSE
  <2> DEFINE lock == [amount |-> amount, unlock_timestamp |-> timestamp + d]
  <2>1. user_locks' = [user_locks EXCEPT ![v] = Append(@, lock)] /\ amount > 0
    BY <1>9 DEF Lock
  <2>2. timestamp + d \in Nat /\ amount \in Nat \ {0}
    BY <1>1, <2>1, InputAssumption
  <2>3. lock \in LockEntry
    BY <2>2 DEF LockEntry
  <2>4. u = v /\ user_locks'[u] = Append(user_locks[u], lock)
    BY <1>1, <1>5, <2>1
  <2>5. lock.amount = amount
    OBVIOUS
  <2> HIDE DEF lock
  <2>6. LockedIn(Append(user_locks[u], lock))
          = LockedIn(user_locks[u]) + (IF lock.unlock_timestamp > timestamp THEN lock.amount ELSE 0)
    BY <1>1, <2>3, LockedInAppend, Zenon
  <2> QED
    BY <1>3, <1>4, <2>2, <2>4, <2>5, <2>6
<1>10. UNCHANGED user_locks \/ \E v \in Accounts :
         \/ \E amount \in Amounts : Withdraw(v, amount)
         \/ \E limit \in Limits : UnlockExpired(v, limit)
         \/ \E amount \in Amounts, d \in Durations : Lock(v, amount, d)
  BY DEF Next, Initialize, ProposeNewAdmin, AcceptAdmin, SetPaused, Deposit,
         DistributeRewards, ClaimRewards, Tick, fundVars
<1> QED
  BY <1>5, <1>7, <1>8, <1>9, <1>10

\* Locked funds stay locked: what a user has in unexpired locks falls only as the ledger's
\* clock advances, for any number of locks and any limits of the unlocking passes.
THEOREM LocksAreHonoured == Spec => LocksHonoured
<1> DEFINE Honoured == \A u \in Accounts : LockedBalance(u)' < LockedBalance(u) => timestamp' > timestamp
<1>1. IInv /\ [Next]_vars => [Honoured]_vars
  BY LockedStep DEF IInv
<1> QED
  BY Invariance, <1>1, PTL DEF Spec, LocksHonoured

\* What a user has pending is natural.
PendingFacts == \A u \in Accounts : PendingRewards(u) \in Nat

\* Settling a position that is behind the index leaves a natural number pending.
LEMMA PendingNat == TypeOK /\ PositionsBehind => PendingFacts
BY SettledFacts, PositionFields DEF PendingRewards, PendingFacts

\* A step of one user, or of none, that leaves the index alone.
LEMMA PendingKept ==
  ASSUME Books, Books', NEW u \in Accounts, UNCHANGED reward_index,
         \/ user_position'[u] = user_position[u] /\ UserBalance(u)' = UserBalance(u)
         \/ user_position'[u] = Settled(u)
  PROVE  PendingRewards(u)' = PendingRewards(u)
<1>1. CASE user_position'[u] = user_position[u] /\ UserBalance(u)' = UserBalance(u)
  BY <1>1, Zenon DEF PendingRewards, Settled, Accrue, NewRewards
<1>2. CASE user_position'[u] = Settled(u)
  <2>1. Settled(u) \in Position /\ Settled(u).reward_index = reward_index
    BY SettledFacts DEF Books
  <2>2. FundsOK'
    BY Zenon DEF Books, TypeOK, FundsOK
  <2>3. BalanceFacts'
    BY <2>2, BalanceNat, PTL
  <2>4. UserBalance(u)' \in Nat /\ reward_index \in Nat
    BY <2>3 DEF BalanceFacts, Books, TypeOK
  <2>5. Accrue(Settled(u), UserBalance(u)', reward_index).accrued_rewards = Settled(u).accrued_rewards
    BY <2>1, <2>4, SettledIsPending, Zenon
  <2>6. PendingRewards(u)' = Accrue(Settled(u), UserBalance(u)', reward_index).accrued_rewards
    BY <1>2 DEF PendingRewards, Settled, Accrue, NewRewards
  <2> QED
    BY <2>5, <2>6 DEF PendingRewards
<1> QED
  BY <1>1, <1>2, Zenon

\* Which steps change what u has pending, and how.
Accounted(u) ==
  /\ PendingRewards(u)' > PendingRewards(u) => reward_index' > reward_index
  /\ PendingRewards(u)' < PendingRewards(u) =>
       token_balance'[config.reward_token][u]
         = token_balance[config.reward_token][u] + PendingRewards(u) - PendingRewards(u)'

\* One step of the vault accounts for every user's rewards.
LEMMA PendingStep ==
  ASSUME Books, Books', Next, NEW u \in Accounts
  PROVE  Accounted(u)
<1>1. /\ user_position \in [Accounts -> Position] /\ reward_index \in Nat /\ timestamp \in Nat
      /\ liquid_balance \in [Accounts -> Nat] /\ user_locks \in [Accounts -> Seq(LockEntry)]
  BY Zenon DEF Books, TypeOK
<1>2. PendingRewards(u) \in Nat
  BY PendingNat DEF Books, PendingFacts
<1>3. PendingRewards(u)' = PendingRewards(u) => Accounted(u)
  BY <1>2 DEF Accounted
\* A step that leaves the balance of u alone.
<1>4. ASSUME UNCHANGED reward_index, user_position'[u] = user_position[u],
             liquid_balance'[u] = liquid_balance[u], user_locks'[u] = user_locks[u]
      PROVE  Accounted(u)
  BY <1>3, <1>4, PendingKept, Zenon DEF UserBalance
<1>5. ASSUME NEW a \in Admins, NEW c \in ConfigArgs, Initialize(a, c) PROVE Accounted(u)
  <2>1. reward_index = 0
    BY <1>5, InitializeKeeps DEF Books, Fresh
  <2> QED
    BY <1>4, <1>5, <2>1, Zenon DEF Initialize
<1>6. ASSUME UNCHANGED <<reward_index, user_position, liquid_balance, user_locks>> PROVE Accounted(u)
  BY <1>4, <1>6
<1>7. ASSUME NEW v \in Accounts, UNCHANGED reward_index,
             user_position' = [user_position EXCEPT ![v] = Settled(v)],
             \A w \in Accounts \ {v} :
               liquid_balance'[w] = liquid_balance[w] /\ user_locks'[w] = user_locks[w]
      PROVE  Accounted(u)
  <2>1. CASE u = v
    BY <1>1, <1>3, <1>7, <2>1, PendingKept, Zenon
  <2>2. CASE u # v
    BY <1>1, <1>4, <1>7, <2>2
  <2> QED
    BY <2>1, <2>2, Zenon
<1>8. ASSUME NEW v \in Accounts, NEW amount \in Amounts, Deposit(v, amount) PROVE Accounted(u)
  BY <1>1, <1>7, <1>8, Zenon DEF Deposit
<1>9. ASSUME NEW v \in Accounts, NEW amount \in Amounts, Withdraw(v, amount) PROVE Accounted(u)
  BY <1>1, <1>7, <1>9, Zenon DEF Withdraw
<1>10. ASSUME NEW v \in Accounts, NEW amount \in Amounts, NEW d \in Durations, Lock(v, amount, d)
       PROVE  Accounted(u)
  BY <1>1, <1>7, <1>10, Zenon DEF Lock
<1>11. ASSUME NEW v \in Accounts, NEW limit \in Limits, UnlockExpired(v, limit) PROVE Accounted(u)
  <2>1. /\ liquid_balance' = [liquid_balance EXCEPT ![v] = LiquidAfterUnlock(v, limit)]
        /\ user_locks' = [user_locks EXCEPT ![v] = LocksAfterUnlock(v, limit)]
        /\ UNCHANGED <<user_position, reward_index>>
    BY <1>11 DEF UnlockExpired
  <2>2. CASE u # v
    BY <1>1, <1>4, <2>1, <2>2, Zenon
  <2>3. CASE u = v
    <3>1. LiquidAfterUnlock(u, limit) + LockTotal(LocksAfterUnlock(u, limit)) = UserBalance(u)
      BY UnlockKeepsBalance, InputAssumption DEF Books
    <3>2. UserBalance(u)' = UserBalance(u)
      BY <1>1, <2>1, <2>3, <3>1, Zenon DEF UserBalance
    <3> QED
      BY <1>3, <2>1, <3>2, PendingKept, Zenon
  <2> QED
    BY <2>2, <2>3
<1>12. ASSUME NEW amount \in RewardAmounts, DistributeRewards(amount) PROVE Accounted(u)
  <2>1. /\ UNCHANGED <<user_position, liquid_balance, user_locks>>
        /\ reward_index' = reward_index + IndexIncrement(EffectiveAmount(amount), total_deposits)
        /\ IndexIncrement(EffectiveAmount(amount), total_deposits) > 0
    BY <1>12 DEF DistributeRewards, IncrementFits, fundVars
  <2>2. reward_index' \in Nat
    BY DEF Books, TypeOK
  <2>3. reward_index' > reward_index
    <3>1. IndexIncrement(EffectiveAmount(amount), total_deposits) \in Nat
      BY <1>12, IncrementFacts, Zenon
    <3> QED
      BY <1>1, <2>1, <3>1
  <2>4. PendingRewards(u)' = Accrue(user_position[u], UserBalance(u), reward_index').accrued_rewards
    BY <2>1, Zenon DEF PendingRewards, Settled, Accrue, NewRewards, UserBalance
  <2>5. UserBalance(u) \in Nat
    BY BalanceNat, Zenon DEF Books, TypeOK, FundsOK, BalanceFacts
  <2>6. user_position[u] \in Position /\ user_position[u].reward_index <= reward_index
    BY <1>1 DEF Books, PositionsBehind
  <2>7. PendingRewards(u)' >= PendingRewards(u)
    BY <1>1, <2>2, <2>3, <2>4, <2>5, <2>6, PendingGrows DEF PendingRewards, Settled
  <2>8. PendingRewards(u)' \in Nat
    <3>1. TypeOK' /\ PositionsBehind'
      BY DEF Books
    <3>2. PendingFacts'
      BY <3>1, PendingNat, PTL
    <3> QED
      BY <3>2 DEF PendingFacts
  <2> QED
    BY <1>2, <2>3, <2>7, <2>8 DEF Accounted

<1>13. ASSUME NEW v \in Accounts, ClaimRewards(v) PROVE Accounted(u)
  <2>1. /\ user_position' = [user_position EXCEPT ![v] = Claimed(Settled(v))]
        /\ UNCHANGED <<reward_index, liquid_balance, user_locks>>
        /\ Initialized
    BY <1>13 DEF ClaimRewards, fundVars, Active
  <2>2. CASE u # v
    BY <1>1, <1>4, <2>1, <2>2, Zenon
  <2>3. CASE u = v
    <3> DEFINE q == Settled(u)
    <3>1. q \in Position /\ q.reward_index = reward_index
      BY SettledFacts DEF Books
    <3>2. config \in Config
      BY <2>1 DEF Books, TypeOK, Initialized
    <3>3. /\ Claimed(q) \in Position /\ Claimed(q).reward_index = reward_index
          /\ Claimed(q).accrued_rewards = q.accrued_rewards - VestedRewards(u)
          /\ VestedRewards(u) \in Nat
      BY <1>1, <3>1, <3>2, ClaimFacts, Zenon DEF VestedRewards
    <3>4. UserBalance(u) \in Nat
      BY BalanceNat DEF Books, TypeOK, FundsOK, BalanceFacts
    <3>5. Accrue(Claimed(q), UserBalance(u), reward_index).accrued_rewards = Claimed(q).accrued_rewards
      BY <1>1, <3>3, <3>4, SettledIsPending, Zenon
    <3>6. PendingRewards(u)' = Accrue(Claimed(q), UserBalance(u), reward_index).accrued_rewards
      BY <1>1, <2>1, <2>3 DEF PendingRewards, Settled, Accrue, NewRewards, UserBalance
    <3>7. PendingRewards(u)' = PendingRewards(u) - VestedRewards(u)
      BY <3>3, <3>5, <3>6, Zenon DEF PendingRewards
    <3>8. CASE VestedRewards(u) > 0
      <4>1. Transfer(config.reward_token, Contract, u, VestedRewards(u))
        BY <1>13, <2>3, <3>8 DEF ClaimRewards
      <4>2. config.reward_token \in Tokens
        BY <3>2 DEF Config
      <4>3. token_balance'[config.reward_token][u]
              = token_balance[config.reward_token][u] + VestedRewards(u)
        BY <2>1, <3>3, <4>1, <4>2, TransferOut, Zenon
      <4>4. token_balance[config.reward_token][u] \in Nat
        BY <2>1, <4>2, SetupFacts
      <4>5. VestedRewards(u) = PendingRewards(u) - PendingRewards(u)'
        BY <1>2, <3>3, <3>7
      <4>6. ~(PendingRewards(u)' > PendingRewards(u))
        BY <1>2, <3>3, <3>7
      <4>7. PendingRewards(u)' \in Int
        BY <1>2, <3>3, <3>7
      <4>8. \A a, b, c, d \in Int : d = b - c => a + d = a + b - c
        OBVIOUS
      <4> HIDE DEF q
      <4>9. token_balance'[config.reward_token][u]
              = token_balance[config.reward_token][u] + PendingRewards(u) - PendingRewards(u)'
        BY <1>2, <3>3, <4>3, <4>4, <4>5, <4>7, <4>8, Zenon
      <4> QED
        BY <4>6, <4>9 DEF Accounted
    <3>9. CASE VestedRewards(u) = 0
      BY <1>2, <1>3, <3>7, <3>9
    <3> QED
      BY <3>3, <3>8, <3>9
  <2> QED
    BY <2>2, <2>3
<1>14. ASSUME NEW a \in Accounts \cup Admins, NEW p \in BOOLEAN,
              ProposeNewAdmin(a) \/ AcceptAdmin(a) \/ SetPaused(p) \/ Tick
       PROVE  Accounted(u)
  BY <1>6, <1>14 DEF ProposeNewAdmin, AcceptAdmin, SetPaused, Tick, fundVars
<1> QED
  BY <1>5, <1>8, <1>9, <1>10, <1>11, <1>12, <1>13, <1>14, AdminAssumption, Zenon DEF Next

\* Rewards are earned only by distributions and lost only by being paid out, for
\* every number of users and tokens and every sequence of operations: `deposit`,
\* `withdraw` and `lock` settle the position before they touch the balance, and
\* `claim_rewards` deducts exactly what it transfers.
THEOREM RewardsAreAccountedFor == Spec => RewardAccounting
<1>1. Books /\ Books' /\ [Next]_vars => [\A u \in Accounts : Accounted(u)]_vars
  BY PendingStep
<1>2. [\A u \in Accounts : Accounted(u)]_vars
        <=> [\A u \in Accounts :
               /\ PendingRewards(u)' > PendingRewards(u) => reward_index' > reward_index
               /\ PendingRewards(u)' < PendingRewards(u) =>
                    token_balance'[config.reward_token][u]
                      = token_balance[config.reward_token][u]
                          + PendingRewards(u) - PendingRewards(u)']_vars
  BY Zenon DEF Accounted
<1>3. IInv => Books
  BY DEF IInv
<1> QED
  BY <1>1, <1>2, <1>3, Invariance, PTL DEF Spec, RewardAccounting

=============================================================================
