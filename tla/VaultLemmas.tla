---------------------------- MODULE VaultLemmas -----------------------------
(***************************************************************************)
(* What the operators of Vault compute, the inductive invariant of the     *)
(* vault, and that every operation keeps it.                               *)
(***************************************************************************)
EXTENDS Vault, SumTheorems

-----------------------------------------------------------------------------
(***************************************************************************)
(* Arithmetic.                                                             *)
(***************************************************************************)

\* Integer division rounds down.
LEMMA Division ==
  ASSUME NEW a \in Nat, NEW b \in Nat \ {0}
  PROVE  /\ a \div b \in Nat
         /\ b * (a \div b) <= a
         /\ \A c \in Nat : c <= a => c \div b <= a \div b
OBVIOUS

\* A product with natural factors.
LEMMA Product ==
  ASSUME NEW a \in Nat, NEW b \in Nat
  PROVE  /\ a * b \in Nat
         /\ \A c \in Nat : c <= b => a * c <= a * b
OBVIOUS

\* The vested part of the rewards is at most all of them.
LEMMA Fraction ==
  ASSUME NEW a \in Nat, NEW b \in Nat \ {0}, NEW c \in Nat, c <= b
  PROVE  (a * c) \div b \in 0..a
OBVIOUS

-----------------------------------------------------------------------------
(***************************************************************************)
(* Locks.                                                                  *)
(***************************************************************************)
\* The fields of a stored lock; `store_lock` never stores an empty one.
LEMMA LockFields ==
  ASSUME NEW lock \in LockEntry
  PROVE  lock.amount \in Nat /\ lock.amount > 0 /\ lock.unlock_timestamp \in Nat
BY DEF LockEntry

\* The locked total is a sum of naturals.
LEMMA LockTotalNat ==
  ASSUME NEW locks \in Seq(LockEntry)
  PROVE  /\ LockAmounts(locks) \in [1..Len(locks) -> Nat]
         /\ LockTotal(locks) \in Nat
<1>0. \A i \in 1..Len(locks) : locks[i] \in LockEntry
  OBVIOUS
<1>1. LockAmounts(locks) \in [1..Len(locks) -> Nat] /\ Len(locks) \in Nat
  BY <1>0, LockFields DEF LockAmounts
<1> QED
  BY <1>1, SumNat, Zenon DEF LockTotal

\* A user without locks has nothing locked.
LEMMA LockTotalEmpty == LockTotal(<<>>) = 0
<1>1. Sum([i \in 1..0 |-> 0], 0) = 0
  BY SumZero, Zenon
<1>2. LockAmounts(<<>>) = [i \in 1..0 |-> 0] /\ Len(<<>>) = 0
  BY DEF LockAmounts
<1> QED
  BY <1>1, <1>2 DEF LockTotal

\* A new lock adds its amount to the locked total.
LEMMA LockTotalAppend ==
  ASSUME NEW locks \in Seq(LockEntry), NEW lock \in LockEntry
  PROVE  /\ Append(locks, lock) \in Seq(LockEntry)
         /\ LockTotal(Append(locks, lock)) = LockTotal(locks) + lock.amount
<1> DEFINE n == Len(locks)
           s == LockAmounts(locks)
           t == LockAmounts(Append(locks, lock))
<1>1. n \in Nat /\ Len(Append(locks, lock)) = n + 1 /\ Append(locks, lock) \in Seq(LockEntry)
  OBVIOUS
<1>2. s \in [1..n -> Int]
  BY LockTotalNat
<1>3. t \in [1..(n + 1) -> Int]
  <2>1. t \in [1..Len(Append(locks, lock)) -> Nat]
    BY <1>1, LockTotalNat, Zenon
  <2> QED
    BY <1>1, <2>1
<1>4. \A i \in 1..n : t[i] = s[i]
  BY <1>1 DEF LockAmounts
<1>5. t[n + 1] = lock.amount
  BY <1>1 DEF LockAmounts
<1> HIDE DEF n, s, t
<1>6. Sum(t, n + 1) = Sum(s, n) + t[n + 1]
  BY <1>1, <1>2, <1>3, <1>4, SumExtend, Zenon
<1> QED
  BY <1>1, <1>5, <1>6 DEF LockTotal, n, s, t

\* The states the unlock pass goes through.
Progress == [kept : Seq(LockEntry), unlocked : Nat, processed : Nat]

IsPass(w, locks, limit, m) ==
  w = [i \in 0..m |-> IF i = 0 THEN UnlockStart ELSE UnlockStep(locks[i], w[i - 1], limit)]

\* The pass is defined over every prefix of the locks.
LEMMA PassExists ==
  ASSUME NEW n \in Nat, NEW locks, NEW limit
  PROVE  \E w : IsPass(w, locks, limit, n)
<1> DEFINE A == {m \in Nat : \E w : IsPass(w, locks, limit, m)}
<1>1. 0 \in A
  <2>1. IsPass([i \in 0..0 |-> UnlockStart], locks, limit, 0)
    BY DEF IsPass
  <2> QED
    BY <2>1
<1>2. \A m \in Nat : m \in A => m + 1 \in A
  <2> SUFFICES ASSUME NEW m \in Nat, m \in A
               PROVE  \E w : IsPass(w, locks, limit, m + 1)
    OBVIOUS
  <2>1. PICK w : IsPass(w, locks, limit, m)
    OBVIOUS
  <2> DEFINE v == [i \in 0..(m + 1) |->
                     IF i <= m THEN w[i] ELSE UnlockStep(locks[m + 1], w[m], limit)]
  <2>2. \A i \in 0..(m + 1) : v[i] = IF i = 0 THEN UnlockStart
                                     ELSE UnlockStep(locks[i], v[i - 1], limit)
    <3> SUFFICES ASSUME NEW i \in 0..(m + 1)
                 PROVE  v[i] = IF i = 0 THEN UnlockStart
                               ELSE UnlockStep(locks[i], v[i - 1], limit)
      OBVIOUS
    <3>1. CASE i <= m
      <4>1. v[i] = w[i] /\ (i # 0 => v[i - 1] = w[i - 1])
        BY <3>1
      <4>2. w[i] = IF i = 0 THEN UnlockStart ELSE UnlockStep(locks[i], w[i - 1], limit)
        BY <2>1, <3>1 DEF IsPass
      <4> QED
        BY <4>1, <4>2
    <3>2. CASE i = m + 1
      <4>1. v[i] = UnlockStep(locks[i], w[m], limit) /\ v[i - 1] = w[m] /\ i # 0
        BY <3>2
      <4> QED
        BY <4>1
    <3> QED
      BY <3>1, <3>2
  <2>3. IsPass(v, locks, limit, m + 1)
    BY <2>2 DEF IsPass
  <2> QED
    BY <2>3
<1>3. Nat \subseteq A
  <2> HIDE DEF A
  <2> QED
    BY <1>1, <1>2, SetInduction
<1> QED
  BY <1>3

\* `UnlockPass` is the last state of such a pass.
LEMMA PassIs ==
  ASSUME NEW locks \in Seq(LockEntry), NEW limit
  PROVE  \E w : /\ IsPass(w, locks, limit, Len(locks))
                /\ UnlockPass(locks, limit) = w[Len(locks)]
<1> DEFINE n == Len(locks)
           pass[i \in 0..Len(locks)] ==
             IF i = 0 THEN UnlockStart ELSE UnlockStep(locks[i], pass[i - 1], limit)
<1>1. \E g : g = [i \in 0..Len(locks) |->
                    IF i = 0 THEN UnlockStart ELSE UnlockStep(locks[i], g[i - 1], limit)]
  <2>1. n \in Nat
    OBVIOUS
  <2> HIDE DEF n
  <2>2. PICK g : IsPass(g, locks, limit, n)
    BY <2>1, PassExists
  <2> QED
    BY <2>2 DEF IsPass, n
<1>2. pass = [i \in 0..Len(locks) |->
                IF i = 0 THEN UnlockStart ELSE UnlockStep(locks[i], pass[i - 1], limit)]
  BY <1>1, Zenon
<1>3. UnlockPass(locks, limit) = pass[Len(locks)]
  BY DEF UnlockPass
<1> HIDE DEF pass
<1> QED
  BY <1>2, <1>3, Zenon DEF IsPass

\* The pass of `unlock_expired_locks` splits the locks without loss: what it
\* releases and what it keeps add up to what was locked.
LEMMA UnlockPassSplits ==
  ASSUME NEW locks \in Seq(LockEntry), NEW limit \in Nat, timestamp \in Nat
  PROVE  /\ UnlockPass(locks, limit) \in Progress
         /\ LockTotal(UnlockPass(locks, limit).kept) + UnlockPass(locks, limit).unlocked
              = LockTotal(locks)
<1> DEFINE n == Len(locks)
<1>1. PICK w : IsPass(w, locks, limit, n) /\ UnlockPass(locks, limit) = w[n]
  BY PassIs
<1>2. n \in Nat /\ LockAmounts(locks) \in [1..n -> Int]
  BY LockTotalNat
<1>3. PICK p : IsPartial(p, LockAmounts(locks), n) /\ LockTotal(locks) = p[n]
  BY <1>2, PartialSums DEF LockTotal
<1> DEFINE Good(i) == w[i] \in Progress /\ LockTotal(w[i].kept) + w[i].unlocked = p[i]
           A == {i \in Nat : i \in 0..n => Good(i)}
<1>4. 0 \in A
  <2>1. w[0] = UnlockStart /\ p[0] = 0
    BY <1>1, <1>2, <1>3 DEF IsPass, IsPartial
  <2>2. UnlockStart \in Progress /\ UnlockStart.kept = <<>> /\ UnlockStart.unlocked = 0
    BY DEF UnlockStart, Progress
  <2> QED
    BY <2>1, <2>2, LockTotalEmpty
<1>5. \A i \in Nat : i \in A => i + 1 \in A
  <2> SUFFICES ASSUME NEW i \in Nat, i \in A, i + 1 \in 0..n PROVE Good(i + 1)
    OBVIOUS
  <2> DEFINE lock == locks[i + 1]
             before == w[i]
  <2>1. i + 1 \in 1..n /\ i + 1 # 0 /\ (i + 1) - 1 = i /\ i \in 0..n
    BY <1>2
  <2>2. lock \in LockEntry /\ lock.amount \in Nat
    <3>1. lock \in LockEntry
      BY <2>1
    <3> QED
      BY <3>1, LockFields
  <2>3. before \in Progress /\ LockTotal(before.kept) + before.unlocked = p[i]
    BY <2>1
  <2>4. w[i + 1] = UnlockStep(lock, before, limit)
    BY <1>1, <2>1 DEF IsPass
  <2>5. p[i + 1] = p[i] + lock.amount /\ p[i] \in Int
    BY <1>2, <1>3, <2>1, Zenon DEF IsPartial, LockAmounts
  <2>6. LockTotal(before.kept) \in Nat
    BY <2>3, LockTotalNat DEF Progress
  <2> HIDE DEF lock, before
  <2>7. CASE lock.unlock_timestamp <= timestamp /\ before.processed < limit
    <3>1. w[i + 1] = [before EXCEPT !.unlocked = @ + lock.amount, !.processed = @ + 1]
      BY <2>4, <2>7 DEF UnlockStep
    <3>2. w[i + 1] \in Progress /\ w[i + 1].kept = before.kept
            /\ w[i + 1].unlocked = before.unlocked + lock.amount
      <4>1. before.unlocked \in Nat /\ before.processed \in Nat
        BY <2>3 DEF Progress
      <4>2. before.unlocked + lock.amount \in Nat /\ before.processed + 1 \in Nat
        <5>1. \A x \in Nat, y \in Nat : x + y \in Nat /\ x + 1 \in Nat
          OBVIOUS
        <5> QED
          BY <2>2, <4>1, <5>1, Zenon
      <4> QED
        BY <2>3, <3>1, <4>2, Zenon DEF Progress
    <3> QED
      BY <2>2, <2>3, <2>5, <2>6, <3>2 DEF Progress
  <2>8. CASE ~(lock.unlock_timestamp <= timestamp /\ before.processed < limit)
    <3>1. w[i + 1] = [before EXCEPT !.kept = Append(@, lock)]
      BY <2>4, <2>8 DEF UnlockStep
    <3>2. /\ Append(before.kept, lock) \in Seq(LockEntry)
          /\ LockTotal(Append(before.kept, lock)) = LockTotal(before.kept) + lock.amount
      BY <2>2, <2>3, LockTotalAppend DEF Progress
    <3>3. w[i + 1] \in Progress /\ w[i + 1].kept = Append(before.kept, lock)
            /\ w[i + 1].unlocked = before.unlocked
      BY <2>3, <3>1, <3>2, Zenon DEF Progress
    <3> QED
      BY <2>2, <2>3, <2>5, <2>6, <3>2, <3>3 DEF Progress
  <2> QED
    BY <2>7, <2>8
<1>6. Nat \subseteq A
  <2> HIDE DEF A
  <2> QED
    BY <1>4, <1>5, SetInduction
<1>7. Good(n)
  BY <1>2, <1>6
<1> QED
  BY <1>1, <1>3, <1>7

-----------------------------------------------------------------------------
(***************************************************************************)
(* Positions.                                                              *)
(***************************************************************************)
\* The fields of a stored position.
LEMMA PositionFields ==
  ASSUME NEW p \in Position
  PROVE  /\ p.reward_index \in Nat
         /\ p.accrued_rewards \in Nat
         /\ p.last_reward_timestamp \in Nat
BY DEF Position

\* Accruing keeps the position well formed, settles it at the index, loses
\* nothing already accrued, and never credits more than balance * gap in
\* scaled units.
LEMMA AccrueFacts ==
  ASSUME NEW p \in Position, NEW balance \in Nat, NEW index \in Nat,
         p.reward_index <= index, timestamp \in Nat,
         p.last_reward_timestamp <= timestamp
  PROVE  LET q == Accrue(p, balance, index)
         IN  /\ q \in Position
             /\ q.reward_index = index
             /\ q.accrued_rewards >= p.accrued_rewards
             /\ q.last_reward_timestamp <= timestamp
             /\ PRECISION_FACTOR * q.accrued_rewards
                  <= PRECISION_FACTOR * p.accrued_rewards
                       + balance * (index - p.reward_index)
<1> DEFINE gap == index - p.reward_index
           new == NewRewards(p, balance, index)
           q == Accrue(p, balance, index)
<1>1. /\ p.reward_index \in Nat
      /\ p.accrued_rewards \in Nat
      /\ p.last_reward_timestamp \in Nat
  BY PositionFields
<1>2. gap \in Nat /\ balance * gap \in Nat
  BY <1>1, Product
<1>3. PRECISION_FACTOR \in Nat \ {0}
  BY ScaleAssumption
<1>4. new \in Nat /\ PRECISION_FACTOR * new <= balance * gap
  BY <1>2, <1>3, Division, Zenon DEF NewRewards
<1>5. /\ q.reward_index = index
      /\ q.accrued_rewards = p.accrued_rewards + new
      /\ q.last_reward_timestamp \in {timestamp, p.last_reward_timestamp}
  BY DEF Accrue
<1>6. q \in Position
  <2>1. p.accrued_rewards + new \in Nat
    BY <1>1, <1>4
  <2> HIDE DEF new
  <2> QED
    BY <1>1, <2>1 DEF Accrue, Position, new
<1>7. PRECISION_FACTOR * (p.accrued_rewards + new)
        = PRECISION_FACTOR * p.accrued_rewards + PRECISION_FACTOR * new
  BY <1>1, <1>3, <1>4
<1>8. PRECISION_FACTOR * p.accrued_rewards \in Nat /\ PRECISION_FACTOR * new \in Nat
  BY <1>1, <1>3, <1>4, Product
<1> HIDE DEF new, q, gap
<1>9. PRECISION_FACTOR * q.accrued_rewards
        <= PRECISION_FACTOR * p.accrued_rewards + balance * gap
  BY <1>2, <1>4, <1>5, <1>7, <1>8
<1> QED
  BY <1>1, <1>4, <1>5, <1>6, <1>9 DEF q, gap

\* A claim pays between nothing and everything accrued, and the rest stays.
LEMMA ClaimFacts ==
  ASSUME NEW q \in Position, config \in Config, timestamp \in Nat
  PROVE  /\ CalculateVested(q) \in Nat
         /\ Claimed(q) \in Position
         /\ Claimed(q).reward_index = q.reward_index
         /\ Claimed(q).last_reward_timestamp = q.last_reward_timestamp
         /\ Claimed(q).accrued_rewards = q.accrued_rewards - CalculateVested(q)
         /\ CalculateVested(q) <= q.accrued_rewards
<1>1. /\ q.reward_index \in Nat
      /\ q.accrued_rewards \in Nat
      /\ q.last_reward_timestamp \in Nat
  BY PositionFields
<1>2. config.vesting_period \in Nat
  BY DEF Config
<1>3. Elapsed(q) \in Nat
  BY <1>1 DEF Elapsed
<1>4. CalculateVested(q) \in 0..q.accrued_rewards
  <2>1. CASE config.vesting_period # 0 /\ Elapsed(q) < config.vesting_period
    <3>1. (q.accrued_rewards * Elapsed(q)) \div config.vesting_period
            \in 0..q.accrued_rewards
      BY <1>1, <1>2, <1>3, <2>1, Fraction
    <3> QED
      BY <1>1, <1>2, <1>3, <2>1, <3>1 DEF CalculateVested
  <2>2. CASE ~(config.vesting_period # 0 /\ Elapsed(q) < config.vesting_period)
    BY <1>1, <1>2, <1>3, <2>2 DEF CalculateVested
  <2> QED
    BY <2>1, <2>2
<1>5. CalculateVested(q) \in Nat /\ q.accrued_rewards - CalculateVested(q) \in Nat
  BY <1>1, <1>4
<1> QED
  BY <1>1, <1>4, <1>5 DEF Claimed, Position

-----------------------------------------------------------------------------
(***************************************************************************)
(* Balances in a well-typed state.                                         *)
(***************************************************************************)
FundsOK ==
  /\ liquid_balance \in [Accounts -> Nat]
  /\ user_locks \in [Accounts -> Seq(LockEntry)]

BalanceFacts ==
  /\ \A u \in Accounts : UserBalance(u) \in Nat
  /\ [u \in Accounts |-> UserBalance(u)] \in [1..NumUsers -> Nat]
  /\ TotalBalance \in Nat
  /\ \A u \in Accounts : UserBalance(u) <= TotalBalance

\* Balances are natural, and none exceeds their total.
LEMMA BalanceNat == FundsOK => BalanceFacts
<1> SUFFICES ASSUME FundsOK PROVE BalanceFacts
  OBVIOUS
<1>1. \A u \in Accounts : liquid_balance[u] \in Nat /\ user_locks[u] \in Seq(LockEntry)
  BY DEF FundsOK
<1>2. \A u \in Accounts : LockTotal(user_locks[u]) \in Nat
  BY <1>1, LockTotalNat
<1>3. \A u \in Accounts : UserBalance(u) \in Nat
  BY <1>1, <1>2 DEF UserBalance
<1> DEFINE f == [u \in Accounts |-> UserBalance(u)]
<1>4. f \in [1..NumUsers -> Nat] /\ \A u \in Accounts : f[u] = UserBalance(u)
  BY <1>3 DEF Accounts
<1> HIDE DEF f
<1>5. Sum(f, NumUsers) \in Nat /\ \A u \in 1..NumUsers : f[u] <= Sum(f, NumUsers)
  BY <1>4, NumUsersAssumption, SumNat
<1> QED
  BY <1>3, <1>4, <1>5 DEF f, TotalBalance, Accounts, BalanceFacts

\* Releasing expired locks moves funds within the user's balance.
LEMMA UnlockKeepsBalance ==
  ASSUME TypeOK, NEW u \in Accounts, NEW limit \in Nat
  PROVE  /\ LiquidAfterUnlock(u, limit) \in Nat
         /\ LiquidAfterUnlock(u, limit) >= liquid_balance[u]
         /\ LocksAfterUnlock(u, limit) \in Seq(LockEntry)
         /\ LiquidAfterUnlock(u, limit) + LockTotal(LocksAfterUnlock(u, limit))
              = UserBalance(u)
         /\ LiquidAfterUnlock(u, limit) <= UserBalance(u)
<1> DEFINE pass == UnlockPass(user_locks[u], limit)
<1>1. liquid_balance[u] \in Nat /\ user_locks[u] \in Seq(LockEntry) /\ timestamp \in Nat
  BY DEF TypeOK
<1>2. pass \in Progress /\ LockTotal(pass.kept) + pass.unlocked = LockTotal(user_locks[u])
  BY <1>1, UnlockPassSplits
<1>3. pass.unlocked \in Nat /\ pass.kept \in Seq(LockEntry)
  BY <1>2 DEF Progress
<1>4. LockTotal(pass.kept) \in Nat /\ LockTotal(user_locks[u]) \in Nat
  BY <1>1, <1>3, LockTotalNat
<1>5. LiquidAfterUnlock(u, limit) = liquid_balance[u] + pass.unlocked
  BY DEF LiquidAfterUnlock
<1>6. LocksAfterUnlock(u, limit) = IF pass.unlocked > 0 THEN pass.kept ELSE user_locks[u]
  BY DEF LocksAfterUnlock
<1> HIDE DEF pass
<1> QED
  BY <1>1, <1>2, <1>3, <1>4, <1>5, <1>6 DEF UserBalance

\* What a user is owed, and what all of them are.
OwedFacts ==
  /\ \A u \in Accounts :
       /\ UserBalance(u) * (reward_index - user_position[u].reward_index) \in Nat
       /\ PRECISION_FACTOR * user_position[u].accrued_rewards \in Nat
       /\ Owed(u) \in Nat
  /\ [u \in Accounts |-> Owed(u)] \in [1..NumUsers -> Nat]
  /\ TotalOwed \in Nat
  /\ \A u \in Accounts : Owed(u) <= TotalOwed

\* What is owed is natural, and nobody is owed more than the total.
LEMMA OwedNat == TypeOK /\ PositionsBehind => OwedFacts
<1> SUFFICES ASSUME TypeOK, PositionsBehind PROVE OwedFacts
  OBVIOUS
<1>1. ASSUME NEW u \in Accounts
      PROVE  /\ UserBalance(u) * (reward_index - user_position[u].reward_index) \in Nat
             /\ PRECISION_FACTOR * user_position[u].accrued_rewards \in Nat
             /\ Owed(u) \in Nat
  <2>1. UserBalance(u) \in Nat
    BY BalanceNat DEF TypeOK, FundsOK, BalanceFacts
  <2>2. /\ user_position[u].reward_index \in Nat
        /\ user_position[u].accrued_rewards \in Nat
    BY PositionFields DEF TypeOK
  <2>3. reward_index - user_position[u].reward_index \in Nat
    BY <2>2 DEF TypeOK, PositionsBehind
  <2>4. UserBalance(u) * (reward_index - user_position[u].reward_index) \in Nat
    BY <2>1, <2>3, Product
  <2>5. PRECISION_FACTOR * user_position[u].accrued_rewards \in Nat
    BY <2>2, ScaleAssumption, Product
  <2> QED
    BY <2>4, <2>5 DEF Owed
<1> DEFINE f == [u \in Accounts |-> Owed(u)]
<1>4. f \in [1..NumUsers -> Nat] /\ \A u \in Accounts : f[u] = Owed(u)
  BY <1>1 DEF Accounts
<1> HIDE DEF f
<1>5. Sum(f, NumUsers) \in Nat /\ \A u \in 1..NumUsers : f[u] <= Sum(f, NumUsers)
  BY <1>4, NumUsersAssumption, SumNat, Zenon
<1> QED
  BY <1>1, <1>4, <1>5 DEF f, TotalOwed, Accounts, OwedFacts

\* A user's settled position.
LEMMA SettledFacts ==
  ASSUME TypeOK, PositionsBehind, NEW u \in Accounts
  PROVE  /\ Settled(u) \in Position
         /\ Settled(u).reward_index = reward_index
         /\ Settled(u).accrued_rewards >= user_position[u].accrued_rewards
         /\ Settled(u).last_reward_timestamp <= timestamp
         /\ PRECISION_FACTOR * Settled(u).accrued_rewards <= Owed(u)
<1>1. user_position[u] \in Position /\ reward_index \in Nat /\ timestamp \in Nat
  BY DEF TypeOK
<1>2. UserBalance(u) \in Nat
  BY BalanceNat DEF TypeOK, FundsOK, BalanceFacts
<1>3. /\ user_position[u].reward_index <= reward_index
      /\ user_position[u].last_reward_timestamp <= timestamp
  BY DEF PositionsBehind
<1> QED
  BY <1>1, <1>2, <1>3, AccrueFacts DEF Settled, Owed

-----------------------------------------------------------------------------
(***************************************************************************)
(* The inductive invariant.                                                *)
(***************************************************************************)

\* Before `initialize` nothing is stored and nothing is held.
Fresh ==
  ~Initialized => /\ total_deposits = 0 /\ reward_index = 0
                  /\ \A u \in Accounts : user_position[u] = NoPosition
                  /\ \A t \in Tokens : token_balance[t][Contract] = 0

\* `initialize` sets an admin and two different tokens.
Configured ==
  Initialized => admin \in Accounts /\ config.deposit_token # config.reward_token

\* Transfers neither create nor destroy tokens.
SupplyKept ==
  \A t \in Tokens : Supply(token_balance[t]) = Supply(InitialBalances[t])

\* What every operation keeps, whatever else the contract holds tokens for.
Books == /\ TypeOK /\ PositionsBehind /\ Fresh /\ Configured /\ SupplyKept
         /\ total_deposits = TotalBalance

\* A step of a configured contract changes what it holds of the deposit token as it
\* changes the deposits, changes what it owes in rewards by no more than what it
\* holds of the reward token, and leaves its other tokens alone.
HoldingsFollow ==
  /\ config' = config
  /\ token_balance'[config.deposit_token][Contract] + total_deposits
       = token_balance[config.deposit_token][Contract] + total_deposits'
  /\ NoBoost => TotalOwed' + PRECISION_FACTOR * token_balance[config.reward_token][Contract]
                  <= TotalOwed + PRECISION_FACTOR * token_balance'[config.reward_token][Contract]
  /\ \A t \in Tokens \ {config.deposit_token, config.reward_token} :
       token_balance'[t][Contract] = token_balance[t][Contract]

IInv == Books /\ DepositsBacked /\ RewardsSolvent

\* A transfer between the contract and an account.
LEMMA TransferFacts ==
  ASSUME token_balance \in [Tokens -> [Holders -> Nat]],
         NEW t \in Tokens, NEW from \in Holders, NEW to \in Holders, NEW a \in Accounts,
         \/ from = a /\ to = Contract
         \/ from = Contract /\ to = a,
         NEW amount \in Nat, Transfer(t, from, to, amount)
  PROVE  /\ token_balance' \in [Tokens -> [Holders -> Nat]]
         /\ \A r \in Tokens : r # t => token_balance'[r] = token_balance[r]
         /\ token_balance'[t][from] = token_balance[t][from] - amount
         /\ token_balance'[t][to] = token_balance[t][to] + amount
         /\ \A h \in Holders : h # from /\ h # to => token_balance'[t][h] = token_balance[t][h]
         /\ \A r \in Tokens : Supply(token_balance'[r]) = Supply(token_balance[r])
<1> DEFINE b == token_balance[t]
           c == Moved(b, from, to, amount)
<1>1. b \in [Holders -> Nat] /\ b[from] >= amount /\ from # to /\ a # Contract
  BY NumUsersAssumption DEF Transfer, Accounts, Contract, Holders
<1>2. c \in [Holders -> Nat]
  BY <1>1 DEF Moved
<1>3. /\ c[from] = b[from] - amount
      /\ c[to] = b[to] + amount
      /\ \A h \in Holders : h # from /\ h # to => c[h] = b[h]
  BY <1>1 DEF Moved
<1>4. token_balance' = [token_balance EXCEPT ![t] = c]
  BY DEF Transfer
<1>5. Supply(c) = Supply(b)
  <2> DEFINE f == [x \in Accounts |-> b[x]]
             g == [x \in Accounts |-> c[x]]
  <2>1. /\ Accounts = 1..NumUsers /\ Accounts \subseteq Holders /\ Contract \in Holders
        /\ \A x \in Accounts : x # Contract
    BY NumUsersAssumption DEF Accounts, Holders, Contract
  <2>2. f \in [1..NumUsers -> Int] /\ g \in [1..NumUsers -> Int]
    BY <1>1, <1>2, <2>1
  <2>3. \A x \in 1..NumUsers : x # a => g[x] = f[x]
    <3> SUFFICES ASSUME NEW x \in Accounts, x # a PROVE c[x] = b[x]
      BY <2>1
    <3>1. x \in Holders /\ x # from /\ x # to
      BY <2>1
    <3> QED
      BY <1>3, <3>1
  <2>4. g[a] = c[a] /\ f[a] = b[a]
    OBVIOUS
  <2> HIDE DEF f, g, b, c
  <2>5. Sum(g, NumUsers) = Sum(f, NumUsers) + (g[a] - f[a])
    BY <2>1, <2>2, <2>3, NumUsersAssumption, SumUpdate, Zenon
  <2>6. Sum(f, NumUsers) \in Int
    BY <2>2, NumUsersAssumption, SumType
  <2>7. c[Contract] - b[Contract] = b[a] - c[a]
          /\ c[Contract] \in Int /\ b[Contract] \in Int /\ c[a] \in Int /\ b[a] \in Int
    <3>1. c[Contract] \in Nat /\ b[Contract] \in Nat /\ c[a] \in Nat /\ b[a] \in Nat
      BY <1>1, <1>2, <2>1
    <3>2. \/ c[a] = b[a] - amount /\ c[Contract] = b[Contract] + amount
          \/ c[a] = b[a] + amount /\ c[Contract] = b[Contract] - amount
      BY <1>3
    <3> QED
      BY <3>1, <3>2
  <2>8. Supply(c) = c[Contract] + Sum(g, NumUsers) /\ Supply(b) = b[Contract] + Sum(f, NumUsers)
    BY DEF Supply, f, g
  <2> QED
    BY <2>4, <2>5, <2>6, <2>7, <2>8
<1> HIDE DEF b, c
<1>6. token_balance'[t] = c /\ \A r \in Tokens : r # t => token_balance'[r] = token_balance[r]
  BY <1>4
<1>7. token_balance' \in [Tokens -> [Holders -> Nat]]
  BY <1>2, <1>4
<1> QED
  BY <1>3, <1>5, <1>6, <1>7 DEF b

\* The total balance follows the balance of the one user that a step touches.
LEMMA TotalBalanceStep ==
  ASSUME FundsOK, FundsOK', NEW u \in Accounts,
         \A v \in Accounts : v # u => UserBalance(v)' = UserBalance(v)
  PROVE  TotalBalance' = TotalBalance + (UserBalance(u)' - UserBalance(u))
<1> DEFINE f == [v \in Accounts |-> UserBalance(v)]
           g == [v \in Accounts |-> UserBalance(v)']
<1>1. BalanceFacts /\ BalanceFacts'
  BY BalanceNat, PTL
<1>2. f \in [1..NumUsers -> Int] /\ g \in [1..NumUsers -> Int]
  BY <1>1 DEF BalanceFacts
<1>3. \A v \in 1..NumUsers : v # u => g[v] = f[v]
  BY DEF Accounts
<1>4. g[u] = UserBalance(u)' /\ f[u] = UserBalance(u)
  OBVIOUS
<1>5. TotalBalance = Sum(f, NumUsers) /\ TotalBalance' = Sum(g, NumUsers)
  BY DEF TotalBalance
<1> HIDE DEF f, g
<1>6. Sum(g, NumUsers) = Sum(f, NumUsers) + (g[u] - f[u])
  BY <1>2, <1>3, NumUsersAssumption, SumUpdate, Zenon DEF Accounts
<1> QED
  BY <1>4, <1>5, <1>6

\* So does the total owed.
LEMMA TotalOwedStep ==
  ASSUME TypeOK, PositionsBehind, TypeOK', PositionsBehind', NEW u \in Accounts,
         \A v \in Accounts : v # u => Owed(v)' = Owed(v)
  PROVE  TotalOwed' = TotalOwed + (Owed(u)' - Owed(u))
<1> DEFINE f == [v \in Accounts |-> Owed(v)]
           g == [v \in Accounts |-> Owed(v)']
<1>1. OwedFacts /\ OwedFacts'
  BY OwedNat, PTL
<1>2. f \in [1..NumUsers -> Int] /\ g \in [1..NumUsers -> Int]
  BY <1>1 DEF OwedFacts
<1>3. \A v \in 1..NumUsers : v # u => g[v] = f[v]
  BY DEF Accounts
<1>4. g[u] = Owed(u)' /\ f[u] = Owed(u)
  OBVIOUS
<1>5. TotalOwed = Sum(f, NumUsers) /\ TotalOwed' = Sum(g, NumUsers)
  BY DEF TotalOwed
<1> HIDE DEF f, g
<1>6. Sum(g, NumUsers) = Sum(f, NumUsers) + (g[u] - f[u])
  BY <1>2, <1>3, NumUsersAssumption, SumUpdate, Zenon DEF Accounts
<1> QED
  BY <1>4, <1>5, <1>6

\* A step of user u that leaves l liquid, the locks k and the position q,
\* brings d deposit tokens in and pays out `paid` reward tokens.
UserStep(u, l, k, q, d, paid) ==
  /\ liquid_balance' = [liquid_balance EXCEPT ![u] = l]
  /\ user_locks' = [user_locks EXCEPT ![u] = k]
  /\ user_position' = [user_position EXCEPT ![u] = q]
  /\ total_deposits' = total_deposits + d
  /\ UNCHANGED <<adminVars, reward_index, timestamp>>
  /\ token_balance' \in [Tokens -> [Holders -> Nat]]
  /\ \A t \in Tokens : Supply(token_balance'[t]) = Supply(token_balance[t])
  /\ token_balance'[config.deposit_token][Contract]
       = token_balance[config.deposit_token][Contract] + d
  /\ token_balance'[config.reward_token][Contract]
       = token_balance[config.reward_token][Contract] - paid
  /\ \A t \in Tokens \ {config.deposit_token, config.reward_token} :
       token_balance'[t][Contract] = token_balance[t][Contract]

\* Such a step keeps the books if the balance moves with the deposits and
\* what stays owed to the user, with what is paid, is within what was owed.
LEMMA UserStepKeeps ==
  ASSUME Books, Initialized, NEW u \in Accounts,
         NEW l \in Nat, NEW k \in Seq(LockEntry), NEW q \in Position,
         NEW d \in Int, NEW paid \in Nat,
         l + LockTotal(k) = UserBalance(u) + d,
         q.reward_index <= reward_index, q.last_reward_timestamp <= timestamp,
         PRECISION_FACTOR * q.accrued_rewards
           + (l + LockTotal(k)) * (reward_index - q.reward_index)
           + PRECISION_FACTOR * paid <= Owed(u),
         UserStep(u, l, k, q, d, paid)
  PROVE  Books' /\ HoldingsFollow
<1>1. /\ liquid_balance \in [Accounts -> Nat]
      /\ user_locks \in [Accounts -> Seq(LockEntry)]
      /\ user_position \in [Accounts -> Position]
      /\ reward_index \in Nat /\ timestamp \in Nat /\ total_deposits \in Nat
      /\ FundsOK
  BY Zenon DEF Books, TypeOK, FundsOK
<1>2. /\ liquid_balance' \in [Accounts -> Nat]
      /\ user_locks' \in [Accounts -> Seq(LockEntry)]
      /\ user_position' \in [Accounts -> Position]
      /\ FundsOK'
  BY <1>1, Zenon DEF UserStep, FundsOK
<1>3. /\ liquid_balance'[u] = l /\ user_locks'[u] = k /\ user_position'[u] = q
      /\ \A v \in Accounts : v # u => /\ liquid_balance'[v] = liquid_balance[v]
                                      /\ user_locks'[v] = user_locks[v]
                                      /\ user_position'[v] = user_position[v]
  BY <1>1 DEF UserStep
<1>4. /\ UserBalance(u)' = l + LockTotal(k)
      /\ \A v \in Accounts : v # u => UserBalance(v)' = UserBalance(v)
  BY <1>3 DEF UserBalance
<1>5. BalanceFacts /\ BalanceFacts'
  BY <1>1, <1>2, BalanceNat, PTL
<1>6. TotalBalance' = TotalBalance + d
  <2>1. TotalBalance' = TotalBalance + (UserBalance(u)' - UserBalance(u))
    BY <1>1, <1>2, <1>4, TotalBalanceStep
  <2>2. UserBalance(u) \in Nat /\ TotalBalance \in Nat
    BY <1>5, Zenon DEF BalanceFacts
  <2> QED
    BY <1>4, <2>1, <2>2
<1>7. total_deposits' = TotalBalance' /\ total_deposits' \in Nat
  <2>1. total_deposits = TotalBalance
    BY DEF Books
  <2> QED
    BY <1>5, <1>6, <2>1 DEF UserStep, BalanceFacts
<1>8. TypeOK'
  BY <1>2, <1>7, Zenon DEF Books, TypeOK, UserStep, adminVars
<1>9. PositionsBehind'
  <2>1. ASSUME NEW v \in Accounts
        PROVE  /\ user_position'[v].reward_index <= reward_index'
               /\ user_position'[v].last_reward_timestamp <= timestamp'
    <3>1. reward_index' = reward_index /\ timestamp' = timestamp
      BY Zenon DEF UserStep
    <3>2. CASE v = u
      BY <1>3, <3>1, <3>2
    <3>3. CASE v # u
      BY <1>3, <3>1, <3>3, Zenon DEF Books, PositionsBehind
    <3> QED
      BY <3>2, <3>3
  <2> QED
    BY <2>1, Zenon DEF PositionsBehind
<1>10. Initialized' /\ config' = config /\ admin' = admin /\ reward_index' = reward_index
  BY DEF UserStep, adminVars, Initialized
<1>11. Fresh' /\ Configured' /\ SupplyKept'
  BY <1>10, Zenon DEF Fresh, Configured, SupplyKept, Books, UserStep
<1>12. /\ config.deposit_token \in Tokens /\ config.reward_token \in Tokens
       /\ \A t \in Tokens : token_balance[t][Contract] \in Nat
  <2>1. config.deposit_token \in Tokens /\ config.reward_token \in Tokens
    BY DEF Books, TypeOK, Initialized, Config
  <2>2. Contract \in Holders
    BY NumUsersAssumption DEF Contract, Holders
  <2> QED
    BY <2>1, <2>2 DEF Books, TypeOK
<1>13. token_balance'[config.deposit_token][Contract] + total_deposits
         = token_balance[config.deposit_token][Contract] + total_deposits'
  <2>1. /\ token_balance'[config.deposit_token][Contract]
             = token_balance[config.deposit_token][Contract] + d
        /\ total_deposits' = total_deposits + d
    BY DEF UserStep
  <2>2. token_balance[config.deposit_token][Contract] \in Nat
    BY <1>12, Zenon
  <2> QED
    BY <1>1, <2>1, <2>2
<1>14. TotalOwed' + PRECISION_FACTOR * token_balance[config.reward_token][Contract]
         <= TotalOwed + PRECISION_FACTOR * token_balance'[config.reward_token][Contract]
  <2> DEFINE held == token_balance[config.reward_token][Contract]
  <2>1. Owed(u)' = PRECISION_FACTOR * q.accrued_rewards
                     + (l + LockTotal(k)) * (reward_index - q.reward_index)
    BY <1>3, <1>4, <1>10, Zenon DEF Owed
  <2>2. \A v \in Accounts : v # u => Owed(v)' = Owed(v)
    BY <1>3, <1>4, <1>10 DEF Owed
  <2>3. TotalOwed' = TotalOwed + (Owed(u)' - Owed(u))
    BY <1>8, <1>9, <2>2, TotalOwedStep, Zenon DEF Books
  <2>4. OwedFacts /\ OwedFacts'
    BY <1>8, <1>9, OwedNat, PTL DEF Books
  <2>5. TotalOwed \in Nat /\ Owed(u) \in Nat /\ Owed(u)' \in Nat
    BY <2>4, Zenon DEF OwedFacts
  <2>6. PRECISION_FACTOR * paid \in Nat
    BY ScaleAssumption, Product, Zenon
  <2>7. held \in Nat /\ token_balance'[config.reward_token][Contract] = held - paid
    BY <1>12 DEF UserStep
  <2> HIDE DEF held
  <2>8. PRECISION_FACTOR * (held - paid) = PRECISION_FACTOR * held - PRECISION_FACTOR * paid
    BY <2>7, ScaleAssumption
  <2>9. PRECISION_FACTOR * held \in Nat
    BY <2>7, ScaleAssumption, Product, Zenon
  <2>10. Owed(u)' + PRECISION_FACTOR * paid <= Owed(u)
    BY <2>1
  <2>11. TotalOwed' + PRECISION_FACTOR * held <= TotalOwed + PRECISION_FACTOR * (held - paid)
    <3> DEFINE all == TotalOwed
               one == Owed(u)
               new == Owed(u)'
               p == PRECISION_FACTOR * paid
               h == PRECISION_FACTOR * held
    <3>1. /\ TotalOwed' = all + (new - one) /\ PRECISION_FACTOR * (held - paid) = h - p
          /\ all \in Nat /\ one \in Nat /\ new \in Nat /\ p \in Nat /\ h \in Nat /\ new + p <= one
      BY <2>3, <2>5, <2>6, <2>8, <2>9, <2>10, Zenon
    <3> HIDE DEF all, one, new, p, h
    <3>2. all + (new - one) + h <= all + (h - p)
      BY <3>1
    <3> QED
      BY <3>1, <3>2, Zenon DEF all, h
  <2> QED
    BY <2>7, <2>11 DEF held
<1>15. Books'
  BY <1>7, <1>8, <1>9, <1>11 DEF Books
<1>16. HoldingsFollow
  BY <1>10, <1>13, <1>14, Zenon DEF HoldingsFollow, UserStep
<1> QED
  BY <1>15, <1>16

\* The facts about a configured vault that every operation uses.
LEMMA SetupFacts ==
  ASSUME Books, Initialized
  PROVE  /\ config \in Config
         /\ config.deposit_token \in Tokens /\ config.reward_token \in Tokens
         /\ config.deposit_token # config.reward_token
         /\ admin \in Accounts
         /\ Contract \in Holders /\ Accounts \subseteq Holders
         /\ \A u \in Accounts : u # Contract
         /\ \A t \in Tokens, h \in Holders : token_balance[t][h] \in Nat
<1>1. config \in Config
  BY DEF Books, TypeOK, Initialized
<1>2. config.deposit_token \in Tokens /\ config.reward_token \in Tokens
  BY <1>1 DEF Config
<1>3. Contract \in Holders /\ Accounts \subseteq Holders /\ \A u \in Accounts : u # Contract
  BY NumUsersAssumption DEF Contract, Holders, Accounts
<1> QED
  BY <1>1, <1>2, <1>3 DEF Books, TypeOK, Configured

\* An account pays the contract, and the contract an account.
LEMMA TransferIn ==
  ASSUME Books, Initialized, NEW t \in Tokens, NEW a \in Accounts, NEW amount \in Nat,
         Transfer(t, a, Contract, amount)
  PROVE  /\ token_balance' \in [Tokens -> [Holders -> Nat]]
         /\ \A r \in Tokens : Supply(token_balance'[r]) = Supply(token_balance[r])
         /\ \A r \in Tokens : r # t => token_balance'[r] = token_balance[r]
         /\ token_balance'[t][Contract] = token_balance[t][Contract] + amount
<1>1. token_balance \in [Tokens -> [Holders -> Nat]]
  BY DEF Books, TypeOK
<1>2. a \in Holders /\ Contract \in Holders
  BY SetupFacts, Zenon
<1> QED
  BY <1>1, <1>2, TransferFacts

\* The same for a transfer from the contract to a user.
LEMMA TransferOut ==
  ASSUME Books, Initialized, NEW t \in Tokens, NEW a \in Accounts, NEW amount \in Nat,
         Transfer(t, Contract, a, amount)
  PROVE  /\ token_balance' \in [Tokens -> [Holders -> Nat]]
         /\ \A r \in Tokens : Supply(token_balance'[r]) = Supply(token_balance[r])
         /\ \A r \in Tokens : r # t => token_balance'[r] = token_balance[r]
         /\ token_balance'[t][Contract] = token_balance[t][Contract] - amount
         /\ token_balance'[t][a] = token_balance[t][a] + amount
<1>1. token_balance \in [Tokens -> [Holders -> Nat]]
  BY DEF Books, TypeOK
<1>2. a \in Holders /\ Contract \in Holders
  BY SetupFacts
<1> QED
  BY <1>1, <1>2, TransferFacts

\* A settled position leaves no index gap, so it keeps what was owed.
LEMMA SettledKeeps ==
  ASSUME Books, NEW u \in Accounts, NEW balance \in Nat
  PROVE  /\ Settled(u) \in Position
         /\ Settled(u).reward_index <= reward_index
         /\ Settled(u).last_reward_timestamp <= timestamp
         /\ PRECISION_FACTOR * Settled(u).accrued_rewards
              + balance * (reward_index - Settled(u).reward_index)
              + PRECISION_FACTOR * 0 <= Owed(u)
<1>1. /\ Settled(u) \in Position
      /\ Settled(u).reward_index = reward_index
      /\ Settled(u).last_reward_timestamp <= timestamp
      /\ PRECISION_FACTOR * Settled(u).accrued_rewards <= Owed(u)
  BY SettledFacts DEF Books
<1>2. reward_index \in Nat /\ PRECISION_FACTOR \in Nat
  BY ScaleAssumption DEF Books, TypeOK
<1>3. balance * (reward_index - Settled(u).reward_index) = 0 /\ PRECISION_FACTOR * 0 = 0
  BY <1>1, <1>2
<1>4. PRECISION_FACTOR * Settled(u).accrued_rewards \in Nat
  BY <1>1, <1>2, PositionFields, Product, Zenon
<1> QED
  BY <1>1, <1>2, <1>3, <1>4

-----------------------------------------------------------------------------
(***************************************************************************)
(* Every step keeps the books.                                             *)
(***************************************************************************)

\* `store_deposit` settles the position before the balance grows.
LEMMA DepositKeeps ==
  ASSUME Books, NEW u \in Accounts, NEW amount \in Amounts, Deposit(u, amount)
  PROVE  Books' /\ HoldingsFollow
<1> DEFINE l == liquid_balance[u] + amount
           k == user_locks[u]
<1>1. Initialized /\ amount \in Nat
  BY InputAssumption DEF Deposit, Active
<1>2. liquid_balance[u] \in Nat /\ k \in Seq(LockEntry) /\ LockTotal(k) \in Nat
  BY LockTotalNat, Zenon DEF Books, TypeOK
<1>3. l \in Nat /\ l + LockTotal(k) = UserBalance(u) + amount /\ l + LockTotal(k) \in Nat
  BY <1>1, <1>2 DEF UserBalance
<1>4. Transfer(config.deposit_token, u, Contract, amount)
  BY DEF Deposit
<1>5. /\ token_balance' \in [Tokens -> [Holders -> Nat]]
      /\ \A t \in Tokens : Supply(token_balance'[t]) = Supply(token_balance[t])
      /\ token_balance'[config.deposit_token][Contract]
           = token_balance[config.deposit_token][Contract] + amount
      /\ token_balance'[config.reward_token] = token_balance[config.reward_token]
      /\ \A t \in Tokens \ {config.deposit_token, config.reward_token} :
           token_balance'[t] = token_balance[t]
  BY <1>1, <1>4, SetupFacts, TransferIn, Zenon
<1>6. token_balance[config.reward_token][Contract] \in Nat
  BY <1>1, SetupFacts, Zenon
<1>7. UserStep(u, l, k, Settled(u), amount, 0)
  <2>1. /\ user_locks' = [user_locks EXCEPT ![u] = k]
        /\ liquid_balance' = [liquid_balance EXCEPT ![u] = l]
    BY DEF Deposit, Books, TypeOK
  <2>2. /\ user_position' = [user_position EXCEPT ![u] = Settled(u)]
        /\ total_deposits' = total_deposits + amount
        /\ UNCHANGED <<adminVars, reward_index, timestamp>>
    BY DEF Deposit
  <2> HIDE DEF l, k
  <2> QED
    BY <1>5, <1>6, <2>1, <2>2 DEF UserStep
<1> HIDE DEF l, k
<1>8. /\ Settled(u) \in Position
      /\ Settled(u).reward_index <= reward_index
      /\ Settled(u).last_reward_timestamp <= timestamp
      /\ PRECISION_FACTOR * Settled(u).accrued_rewards
           + (l + LockTotal(k)) * (reward_index - Settled(u).reward_index)
           + PRECISION_FACTOR * 0 <= Owed(u)
  BY <1>3, SettledKeeps
<1> QED
  BY <1>1, <1>2, <1>3, <1>7, <1>8, UserStepKeeps

\* `store_withdraw` settles, releases expired locks, then pays out.
LEMMA WithdrawKeeps ==
  ASSUME Books, NEW u \in Accounts, NEW amount \in Amounts, Withdraw(u, amount)
  PROVE  Books' /\ HoldingsFollow
<1> DEFINE l == LiquidAfterUnlock(u, WITHDRAW_UNLOCK_LIMIT) - amount
           k == LocksAfterUnlock(u, WITHDRAW_UNLOCK_LIMIT)
<1>1. /\ Initialized /\ amount \in Nat
      /\ LiquidAfterUnlock(u, WITHDRAW_UNLOCK_LIMIT) >= amount
  <2>1. CanWithdraw(u, amount)
    BY Zenon DEF Withdraw
  <2>2. Initialized /\ amount > 0 /\ LiquidAfterUnlock(u, WITHDRAW_UNLOCK_LIMIT) >= amount
    BY <2>1, Zenon DEF CanWithdraw, Active
  <2>3. amount \in Nat
    BY <2>2, InputAssumption
  <2> QED
    BY <2>2, <2>3, Zenon
<1>2. /\ LiquidAfterUnlock(u, WITHDRAW_UNLOCK_LIMIT) \in Nat
      /\ k \in Seq(LockEntry)
      /\ LiquidAfterUnlock(u, WITHDRAW_UNLOCK_LIMIT) + LockTotal(k) = UserBalance(u)
  BY ScaleAssumption, UnlockKeepsBalance DEF Books
<1>3. LockTotal(k) \in Nat
  BY <1>2, LockTotalNat, Zenon
<1>4. l \in Nat /\ l + LockTotal(k) = UserBalance(u) + (0 - amount) /\ l + LockTotal(k) \in Nat
  BY <1>1, <1>2, <1>3
<1>5. Transfer(config.deposit_token, Contract, u, amount)
  BY Zenon DEF Withdraw
<1>6. /\ token_balance' \in [Tokens -> [Holders -> Nat]]
      /\ \A t \in Tokens : Supply(token_balance'[t]) = Supply(token_balance[t])
      /\ token_balance'[config.deposit_token][Contract]
           = token_balance[config.deposit_token][Contract] - amount
      /\ token_balance'[config.reward_token] = token_balance[config.reward_token]
      /\ \A t \in Tokens \ {config.deposit_token, config.reward_token} :
           token_balance'[t] = token_balance[t]
  BY <1>1, <1>5, SetupFacts, TransferOut, Zenon
<1>7. /\ token_balance[config.reward_token][Contract] \in Nat
      /\ token_balance[config.deposit_token][Contract] \in Nat
  BY <1>1, SetupFacts
<1>8. UserStep(u, l, k, Settled(u), 0 - amount, 0)
  <2>1. /\ liquid_balance' = [liquid_balance EXCEPT ![u] = l]
        /\ user_locks' = [user_locks EXCEPT ![u] = k]
        /\ user_position' = [user_position EXCEPT ![u] = Settled(u)]
        /\ total_deposits' = total_deposits - amount
        /\ UNCHANGED <<adminVars, reward_index, timestamp>>
    BY Zenon DEF Withdraw
  <2>2. total_deposits \in Nat
    BY DEF Books, TypeOK
  <2> HIDE DEF l, k
  <2>3. total_deposits' = total_deposits + (0 - amount)
    BY <1>1, <2>1, <2>2
  <2>4. token_balance'[config.deposit_token][Contract]
          = token_balance[config.deposit_token][Contract] + (0 - amount)
    BY <1>1, <1>6, <1>7
  <2>5. token_balance'[config.reward_token][Contract]
          = token_balance[config.reward_token][Contract] - 0
    BY <1>6, <1>7
  <2> QED
    BY <1>6, <2>1, <2>3, <2>4, <2>5, Zenon DEF UserStep
<1> HIDE DEF l, k
<1>9. /\ Settled(u) \in Position
      /\ Settled(u).reward_index <= reward_index
      /\ Settled(u).last_reward_timestamp <= timestamp
      /\ PRECISION_FACTOR * Settled(u).accrued_rewards
           + (l + LockTotal(k)) * (reward_index - Settled(u).reward_index)
           + PRECISION_FACTOR * 0 <= Owed(u)
  BY <1>4, SettledKeeps, Zenon
<1>10. 0 - amount \in Int
  BY <1>1
<1> QED
  BY <1>1, <1>2, <1>4, <1>8, <1>9, <1>10, UserStepKeeps, Zenon

\* `store_lock` moves liquid funds into a new lock.
LEMMA LockKeeps ==
  ASSUME Books, NEW u \in Accounts, NEW amount \in Amounts, NEW duration \in Durations,
         Lock(u, amount, duration)
  PROVE  Books' /\ HoldingsFollow
<1> DEFINE lock == [amount |-> amount, unlock_timestamp |-> timestamp + duration]
           l == liquid_balance[u] - amount
           k == Append(user_locks[u], lock)
<1>1. Initialized /\ amount \in Nat \ {0} /\ liquid_balance[u] >= amount
  BY InputAssumption DEF Lock, Active
<1>2. lock \in LockEntry
  <2>1. timestamp + duration \in Nat
    BY InputAssumption DEF Books, TypeOK
  <2> QED
    BY <1>1, <2>1, Zenon DEF LockEntry
<1>3. liquid_balance[u] \in Nat /\ user_locks[u] \in Seq(LockEntry)
  BY Zenon DEF Books, TypeOK
<1>4. k \in Seq(LockEntry) /\ LockTotal(k) = LockTotal(user_locks[u]) + amount
  BY <1>2, <1>3, LockTotalAppend, Zenon
<1>5. LockTotal(user_locks[u]) \in Nat
  BY <1>3, LockTotalNat
<1>6. l \in Nat /\ l + LockTotal(k) = UserBalance(u) + 0 /\ l + LockTotal(k) \in Nat
  <2> DEFINE b == liquid_balance[u]
             t == LockTotal(user_locks[u])
             t2 == LockTotal(k)
  <2>1. /\ l = b - amount /\ amount <= b /\ amount \in Nat /\ b \in Nat
        /\ t \in Nat /\ t2 = t + amount /\ UserBalance(u) = b + t
    BY <1>1, <1>3, <1>4, <1>5, Zenon DEF UserBalance
  <2> HIDE DEF b, t, t2, l
  <2>2. l \in Nat /\ l + t2 = b + t /\ b + t + 0 = b + t /\ l + t2 \in Nat
    BY <2>1
  <2> QED
    BY <2>1, <2>2, Zenon DEF t2
<1>7. /\ token_balance[config.reward_token][Contract] \in Nat
      /\ token_balance[config.deposit_token][Contract] \in Nat
  BY <1>1, SetupFacts, Zenon
<1>8. UserStep(u, l, k, Settled(u), 0, 0)
  <2>1. /\ token_balance' = token_balance
        /\ token_balance \in [Tokens -> [Holders -> Nat]]
        /\ total_deposits' = total_deposits + 0
    BY DEF Lock, Books, TypeOK
  <2> QED
    BY <1>7, <2>1 DEF UserStep, Lock
<1> HIDE DEF l, k
<1>9. /\ Settled(u) \in Position
      /\ Settled(u).reward_index <= reward_index
      /\ Settled(u).last_reward_timestamp <= timestamp
      /\ PRECISION_FACTOR * Settled(u).accrued_rewards
           + (l + LockTotal(k)) * (reward_index - Settled(u).reward_index)
           + PRECISION_FACTOR * 0 <= Owed(u)
  BY <1>6, SettledKeeps, Zenon
<1> QED
  BY <1>1, <1>4, <1>6, <1>8, <1>9, UserStepKeeps

\* `unlock_expired` does not settle the position; the balance does not change.
LEMMA UnlockExpiredKeeps ==
  ASSUME Books, NEW u \in Accounts, NEW limit \in Limits, UnlockExpired(u, limit)
  PROVE  Books' /\ HoldingsFollow
<1> DEFINE l == LiquidAfterUnlock(u, limit)
           k == LocksAfterUnlock(u, limit)
           q == user_position[u]
<1>1. Initialized /\ limit \in Nat
  BY InputAssumption, Zenon DEF UnlockExpired, Active
<1>2. l \in Nat /\ k \in Seq(LockEntry) /\ l + LockTotal(k) = UserBalance(u)
  BY <1>1, UnlockKeepsBalance DEF Books
<1>3. /\ q \in Position
      /\ q.reward_index <= reward_index /\ q.last_reward_timestamp <= timestamp
  BY Zenon DEF Books, TypeOK, PositionsBehind
<1>4. OwedFacts /\ BalanceFacts
  BY OwedNat, BalanceNat DEF Books, TypeOK, FundsOK
<1>5. Owed(u) \in Nat /\ UserBalance(u) \in Nat
  BY <1>4, Zenon DEF OwedFacts, BalanceFacts
<1>6. PRECISION_FACTOR * q.accrued_rewards
        + (l + LockTotal(k)) * (reward_index - q.reward_index)
        + PRECISION_FACTOR * 0 <= Owed(u)
  <2>1. Owed(u) = PRECISION_FACTOR * q.accrued_rewards
                    + (l + LockTotal(k)) * (reward_index - q.reward_index)
    BY <1>2, Zenon DEF Owed
  <2>2. PRECISION_FACTOR * 0 = 0
    BY ScaleAssumption
  <2> HIDE DEF l, k, q
  <2> QED
    BY <1>5, <2>1, <2>2
<1>7. /\ token_balance[config.reward_token][Contract] \in Nat
      /\ token_balance[config.deposit_token][Contract] \in Nat
  BY <1>1, SetupFacts, Zenon
<1>8. UserStep(u, l, k, q, 0, 0)
  <2>1. /\ token_balance' = token_balance
        /\ token_balance \in [Tokens -> [Holders -> Nat]]
        /\ total_deposits' = total_deposits + 0
        /\ user_position' = [user_position EXCEPT ![u] = q]
    BY DEF UnlockExpired, Books, TypeOK
  <2>2. /\ liquid_balance' = [liquid_balance EXCEPT ![u] = l]
        /\ user_locks' = [user_locks EXCEPT ![u] = k]
        /\ UNCHANGED <<adminVars, reward_index, timestamp>>
    BY DEF UnlockExpired
  <2> HIDE DEF l, k, q
  <2> QED
    BY <1>7, <2>1, <2>2 DEF UserStep
<1>9. l + LockTotal(k) = UserBalance(u) + 0
  BY <1>2, <1>5
<1> HIDE DEF l, k, q
<1> QED
  BY <1>1, <1>2, <1>3, <1>6, <1>8, <1>9, UserStepKeeps

\* `claim_rewards` pays what has vested out of what is owed.
LEMMA ClaimRewardsKeeps ==
  ASSUME Books, NEW u \in Accounts, ClaimRewards(u)
  PROVE  Books' /\ HoldingsFollow
<1> DEFINE l == liquid_balance[u]
           k == user_locks[u]
           q == Claimed(Settled(u))
           paid == VestedRewards(u)
<1>1. Initialized
  BY Zenon DEF ClaimRewards, Active
<1>2. /\ Settled(u) \in Position
      /\ Settled(u).reward_index = reward_index
      /\ Settled(u).last_reward_timestamp <= timestamp
      /\ PRECISION_FACTOR * Settled(u).accrued_rewards <= Owed(u)
  BY SettledFacts DEF Books
<1>3. /\ paid \in Nat
      /\ q \in Position
      /\ q.reward_index = reward_index
      /\ q.last_reward_timestamp <= timestamp
      /\ q.accrued_rewards = Settled(u).accrued_rewards - paid
  BY <1>1, <1>2, SetupFacts, ClaimFacts, Zenon DEF VestedRewards, Books, TypeOK
<1>4. l \in Nat /\ k \in Seq(LockEntry) /\ LockTotal(k) \in Nat
  BY LockTotalNat, Zenon DEF Books, TypeOK
<1>5. l + LockTotal(k) = UserBalance(u) + 0 /\ l + LockTotal(k) \in Nat
  BY <1>4 DEF UserBalance
<1>6. PRECISION_FACTOR * q.accrued_rewards
        + (l + LockTotal(k)) * (reward_index - q.reward_index)
        + PRECISION_FACTOR * paid <= Owed(u)
  <2>1. reward_index \in Nat /\ PRECISION_FACTOR \in Nat
    BY ScaleAssumption DEF Books, TypeOK
  <2>2. q.accrued_rewards \in Nat /\ Settled(u).accrued_rewards \in Nat
    BY <1>2, <1>3, PositionFields, Zenon
  <2> HIDE DEF l, k, q, paid
  <2>3. (l + LockTotal(k)) * (reward_index - q.reward_index) = 0
    BY <1>3, <1>5, <2>1
  <2>4. PRECISION_FACTOR * Settled(u).accrued_rewards
          = PRECISION_FACTOR * q.accrued_rewards + PRECISION_FACTOR * paid
    <3>1. Settled(u).accrued_rewards = q.accrued_rewards + paid
      BY <1>3, <2>2
    <3> QED
      BY <1>3, <2>1, <2>2, <3>1
  <2>5. PRECISION_FACTOR * q.accrued_rewards \in Nat /\ PRECISION_FACTOR * paid \in Nat
    BY <1>3, <2>1, <2>2, Product, Zenon
  <2> QED
    BY <1>2, <2>3, <2>4, <2>5
<1>7. /\ token_balance[config.reward_token][Contract] \in Nat
      /\ token_balance[config.deposit_token][Contract] \in Nat
  BY <1>1, SetupFacts, Zenon
<1>8. /\ token_balance' \in [Tokens -> [Holders -> Nat]]
      /\ \A t \in Tokens : Supply(token_balance'[t]) = Supply(token_balance[t])
      /\ token_balance'[config.reward_token][Contract]
           = token_balance[config.reward_token][Contract] - paid
      /\ token_balance'[config.deposit_token] = token_balance[config.deposit_token]
      /\ \A t \in Tokens \ {config.deposit_token, config.reward_token} :
           token_balance'[t] = token_balance[t]
  <2>1. CASE paid > 0
    <3>1. Transfer(config.reward_token, Contract, u, paid)
      BY <2>1, Zenon DEF ClaimRewards
    <3> QED
      BY <1>1, <1>3, <3>1, SetupFacts, TransferOut, Zenon
  <2>2. CASE ~(paid > 0)
    <3>1. token_balance' = token_balance /\ paid = 0
      BY <1>3, <2>2 DEF ClaimRewards
    <3> QED
      BY <1>7, <3>1 DEF Books, TypeOK
  <2> QED
    BY <2>1, <2>2
<1>9. UserStep(u, l, k, q, 0, paid)
  <2>1. /\ total_deposits' = total_deposits + 0
        /\ liquid_balance' = [liquid_balance EXCEPT ![u] = l]
        /\ user_locks' = [user_locks EXCEPT ![u] = k]
    BY DEF ClaimRewards, fundVars, Books, TypeOK
  <2>2. user_position' = [user_position EXCEPT ![u] = q]
          /\ UNCHANGED <<adminVars, reward_index, timestamp>>
    BY DEF ClaimRewards
  <2> HIDE DEF paid, q, l, k
  <2> QED
    BY <1>7, <1>8, <2>1, <2>2 DEF UserStep
<1> HIDE DEF l, k, q, paid
<1>10. q.reward_index <= reward_index
  BY <1>3 DEF Books, TypeOK
<1> QED
  BY <1>1, <1>3, <1>4, <1>5, <1>6, <1>9, <1>10, UserStepKeeps

\* Nothing is deposited, held or owed.
JustInitialized ==
  /\ total_deposits = 0 /\ TotalOwed = 0
  /\ \A t \in Tokens : token_balance[t][Contract] = 0

\* `initialize` finds the contract as it was deployed.
LEMMA InitializeKeeps ==
  ASSUME Books, NEW a \in Admins, NEW c \in ConfigArgs, Initialize(a, c)
  PROVE  Books' /\ ~Initialized /\ JustInitialized'
<1>1. c \in Config /\ config' = c /\ a \in Accounts
  BY ConfigAssumption, AdminAssumption, Zenon DEF Initialize
<1>2. /\ ~Initialized /\ Initialized'
      /\ total_deposits = 0 /\ reward_index = 0
      /\ \A u \in Accounts : user_position[u] = NoPosition
      /\ \A t \in Tokens : token_balance[t][Contract] = 0
  BY <1>1, ConfigAssumption, Zenon DEF Initialize, Initialized, Books, Fresh
<1>3. /\ total_deposits' = total_deposits /\ reward_index' = reward_index
      /\ UNCHANGED <<user_position, liquid_balance, user_locks, token_balance, timestamp>>
  BY <1>2 DEF Initialize
<1>4. TypeOK'
  BY <1>1, <1>3, Zenon DEF Books, TypeOK, Initialize
<1>5. PositionsBehind' /\ SupplyKept'
  BY <1>3 DEF Books, PositionsBehind, SupplyKept
<1>6. Fresh' /\ Configured'
  BY <1>1, <1>2, Zenon DEF Fresh, Configured, Initialize
<1>7. total_deposits' = TotalBalance'
  <2>1. \A u \in Accounts : UserBalance(u)' = UserBalance(u)
    BY <1>3 DEF UserBalance
  <2>2. TotalBalance' = TotalBalance
    BY <2>1, Zenon DEF TotalBalance
  <2> QED
    BY <1>3, <2>2, Zenon DEF Books
<1>8. JustInitialized'
  <2>1. ASSUME NEW u \in Accounts PROVE Owed(u)' = 0
    <3>1. UserBalance(u)' \in Nat
      <4>1. FundsOK'
        BY <1>4 DEF TypeOK, FundsOK
      <4>2. BalanceFacts'
        BY <4>1, BalanceNat, PTL
      <4> QED
        BY <4>2 DEF BalanceFacts
    <3>2. /\ user_position'[u].accrued_rewards = 0
          /\ user_position'[u].reward_index = 0
          /\ reward_index' = 0
      BY <1>2, <1>3 DEF NoPosition
    <3> QED
      BY <3>1, <3>2, ScaleAssumption DEF Owed
  <2>2. TotalOwed' = Sum([i \in 1..NumUsers |-> 0], NumUsers)
    BY <2>1, Zenon DEF TotalOwed, Accounts
  <2>3. TotalOwed' = 0
    BY <2>2, NumUsersAssumption, SumZero, Zenon
  <2> QED
    BY <1>2, <1>3, <2>3, Zenon DEF JustInitialized
<1> QED
  BY <1>2, <1>4, <1>5, <1>6, <1>7, <1>8 DEF Books

\* The multiplier is one of the curve's, or 1.0x.
LEMMA MultiplierFacts ==
  ASSUME config \in Config
  PROVE  /\ UtilizationMultiplier \in Nat
         /\ NoBoost => UtilizationMultiplier <= BASIS_POINTS
<1> DEFINE points == config.utilization_multipliers
           utilization ==
             ((total_deposits * BASIS_POINTS) \div config.target_deposits) % U32_SIZE
           reached == {i \in 1..Len(points) : utilization <= points[i].utilization_bps}
           first == CHOOSE i \in reached : \A j \in reached : i <= j
<1>1. points \in Seq(Point) /\ Len(points) \in Nat
  BY DEF Config
<1>2. \A i \in 1..Len(points) : points[i].multiplier_bps \in Nat
  <2>1. \A i \in 1..Len(points) : points[i] \in Point
    BY <1>1
  <2> QED
    BY <2>1 DEF Point
<1>3. reached # {} => first \in 1..Len(points)
  <2> SUFFICES ASSUME reached # {} PROVE first \in reached
    BY Zenon
  <2>1. reached \subseteq Nat
    BY <1>1
  <2> HIDE DEF reached
  <2>2. \E i \in reached : \A j \in reached : i <= j
    BY <2>1, Least, Zenon
  <2> QED
    BY <2>2
<1>4. points # <<>> => Len(points) \in 1..Len(points)
  BY <1>1
<1>5. UtilizationMultiplier =
        IF config.target_deposits <= 0 \/ points = <<>> THEN BASIS_POINTS
        ELSE IF reached = {} THEN points[Len(points)].multiplier_bps
        ELSE points[first].multiplier_bps
  BY DEF UtilizationMultiplier
<1> HIDE DEF points, reached, first
<1>6. NoBoost => \A i \in 1..Len(points) : points[i].multiplier_bps <= BASIS_POINTS
  BY Zenon DEF NoBoost, points
<1> QED
  BY <1>2, <1>3, <1>4, <1>5, <1>6, ScaleAssumption

\* The increment a distribution adds to the index, rounded down.
LEMMA IncrementFacts ==
  ASSUME Books, NEW amount \in RewardAmounts, DistributeRewards(amount)
  PROVE  /\ EffectiveAmount(amount) \in Nat
         /\ NoBoost => EffectiveAmount(amount) <= amount
         /\ IndexIncrement(EffectiveAmount(amount), total_deposits) \in Nat
         /\ total_deposits * IndexIncrement(EffectiveAmount(amount), total_deposits)
              <= EffectiveAmount(amount) * PRECISION_FACTOR
<1> DEFINE mult == UtilizationMultiplier
           eff == EffectiveAmount(amount)
           inc == IndexIncrement(eff, total_deposits)
<1>1. Initialized /\ amount \in Nat
  BY InputAssumption DEF DistributeRewards
<1>2. config \in Config
  BY <1>1, SetupFacts, Zenon
<1>3. total_deposits \in Nat \ {0} /\ reward_index \in Nat
  BY DEF Books, TypeOK, DistributeRewards, IncrementFits
<1>4. mult \in Nat /\ (NoBoost => mult <= BASIS_POINTS)
  BY <1>2, MultiplierFacts
<1>5. eff \in Nat /\ (NoBoost => eff <= amount)
  <2>1. BASIS_POINTS \in Nat \ {0} /\ amount * mult \in Nat
    BY <1>1, <1>4, ScaleAssumption, Product
  <2> HIDE DEF mult
  <2>2. eff = (amount * mult) \div BASIS_POINTS
    BY DEF EffectiveAmount, mult
  <2>3. (amount * mult) \div BASIS_POINTS \in Nat
    BY <2>1, Division
  <2>4. mult <= BASIS_POINTS => (amount * mult) \div BASIS_POINTS \in 0..amount
    BY <1>1, <1>4, <2>1, Fraction, Zenon
  <2> QED
    BY <1>1, <1>4, <2>2, <2>3, <2>4
<1>6. inc \in Nat /\ total_deposits * inc <= eff * PRECISION_FACTOR
  <2>1. eff * PRECISION_FACTOR \in Nat
    BY <1>5, ScaleAssumption, Product, Zenon
  <2> HIDE DEF eff
  <2> QED
    BY <1>3, <2>1, Division DEF IndexIncrement
<1> QED
  BY <1>5, <1>6

\* `store_reward_distribution` raises what is owed by at most what comes in:
\* the index increment is rounded down.
LEMMA DistributeRewardsKeeps ==
  ASSUME Books, NEW amount \in RewardAmounts, DistributeRewards(amount)
  PROVE  Books' /\ HoldingsFollow
<1> DEFINE eff == EffectiveAmount(amount)
           inc == IndexIncrement(eff, total_deposits)
           held == token_balance[config.reward_token][Contract]
<1>1. Initialized /\ amount \in Nat
  BY InputAssumption DEF DistributeRewards
<1>2. /\ config \in Config /\ admin \in Accounts
      /\ config.deposit_token \in Tokens /\ config.reward_token \in Tokens
      /\ config.deposit_token # config.reward_token
      /\ held \in Nat
  BY <1>1, SetupFacts
<1>3. /\ token_balance' \in [Tokens -> [Holders -> Nat]]
      /\ \A t \in Tokens : Supply(token_balance'[t]) = Supply(token_balance[t])
      /\ token_balance'[config.deposit_token] = token_balance[config.deposit_token]
      /\ token_balance'[config.reward_token][Contract] = held + amount
      /\ \A t \in Tokens \ {config.deposit_token, config.reward_token} :
           token_balance'[t] = token_balance[t]
  <2>1. Transfer(config.reward_token, admin, Contract, amount)
    BY Zenon DEF DistributeRewards
  <2> QED
    BY <1>1, <1>2, <2>1, TransferIn, Zenon
<1>4. total_deposits \in Nat \ {0} /\ reward_index \in Nat
  BY DEF Books, TypeOK, DistributeRewards, IncrementFits
<1>6. eff \in Nat /\ (NoBoost => eff <= amount)
  BY IncrementFacts, Zenon
<1>7. inc \in Nat /\ total_deposits * inc <= eff * PRECISION_FACTOR
  BY IncrementFacts
<1>8. /\ reward_index' = reward_index + inc
      /\ UNCHANGED <<adminVars, user_position, fundVars, timestamp>>
  BY Zenon DEF DistributeRewards
<1> HIDE DEF eff, inc, held
<1>9. TypeOK'
  <2>1. reward_index' \in Nat
    BY <1>4, <1>7, <1>8
  <2> QED
    BY <1>3, <1>8, <2>1, Zenon DEF Books, TypeOK, adminVars, fundVars
<1>10. PositionsBehind'
  <2>1. ASSUME NEW u \in Accounts
        PROVE  /\ user_position'[u].reward_index <= reward_index'
               /\ user_position'[u].last_reward_timestamp <= timestamp'
    <3>1. user_position[u].reward_index \in Nat /\ user_position'[u] = user_position[u]
      BY <1>8, PositionFields, Zenon DEF Books, TypeOK
    <3>2. user_position[u].reward_index <= reward_index
      BY DEF Books, PositionsBehind
    <3>3. reward_index <= reward_index'
      BY <1>4, <1>7, <1>8
    <3>4. reward_index' \in Nat
      BY <1>4, <1>7, <1>8
    <3>5. user_position'[u].reward_index <= reward_index'
      BY <1>4, <3>1, <3>2, <3>3, <3>4
    <3>6. user_position[u].last_reward_timestamp <= timestamp
      BY Zenon DEF Books, PositionsBehind
    <3> QED
      BY <1>8, <3>1, <3>5, <3>6, Zenon
  <2> QED
    BY <2>1 DEF PositionsBehind
<1>11. /\ Initialized' /\ config' = config /\ admin' = admin
       /\ total_deposits' = total_deposits
       /\ liquid_balance' = liquid_balance /\ user_locks' = user_locks
  BY <1>1, <1>8 DEF adminVars, fundVars, Initialized
<1>12. Fresh' /\ Configured' /\ SupplyKept'
  <2>1. Fresh' /\ Configured'
    BY <1>1, <1>11, Zenon DEF Fresh, Configured, Books
  <2> QED
    BY <1>3, <2>1, Zenon DEF SupplyKept, Books
<1>13. \A u \in Accounts : UserBalance(u)' = UserBalance(u)
  BY <1>11 DEF UserBalance
<1>14. TotalBalance' = TotalBalance
  BY <1>13, Zenon DEF TotalBalance
<1>15. total_deposits' = TotalBalance'
  BY <1>11, <1>14 DEF Books
<1>16. ASSUME NoBoost
       PROVE  TotalOwed' + PRECISION_FACTOR * held <= TotalOwed + PRECISION_FACTOR * (held + amount)
  <2>1. OwedFacts /\ OwedFacts' /\ BalanceFacts
    <3>1. FundsOK /\ TypeOK /\ PositionsBehind
      BY Zenon DEF Books, TypeOK, FundsOK
    <3> QED
      BY <1>9, <1>10, <3>1, OwedNat, BalanceNat, PTL
  <2> DEFINE f == [u \in Accounts |-> Owed(u)]
             g == [u \in Accounts |-> UserBalance(u)]
             h == [u \in Accounts |-> Owed(u)']
  <2>2. /\ f \in [1..NumUsers -> Int]
        /\ g \in [1..NumUsers -> Int]
        /\ h \in [1..NumUsers -> Int]
    BY <2>1 DEF OwedFacts, BalanceFacts
  <2>3. ASSUME NEW u \in Accounts PROVE Owed(u)' = Owed(u) + inc * UserBalance(u)
    <3> DEFINE gap == reward_index - user_position[u].reward_index
    <3>1. user_position[u].reward_index \in Nat /\ gap \in Int
      BY <1>4, PositionFields DEF Books, TypeOK
    <3>2. reward_index' - user_position'[u].reward_index = gap + inc
      <4>1. \A a, b, c \in Nat : (a + b) - c = (a - c) + b
        OBVIOUS
      <4>2. reward_index' = reward_index + inc /\ user_position' = user_position
        BY <1>8, Zenon
      <4> QED
        BY <1>4, <1>7, <3>1, <4>1, <4>2, Zenon
    <3>3. UserBalance(u) \in Nat /\ PRECISION_FACTOR * user_position[u].accrued_rewards \in Nat
      BY <2>1, Zenon DEF OwedFacts, BalanceFacts
    <3>4. Owed(u) = PRECISION_FACTOR * user_position[u].accrued_rewards + UserBalance(u) * gap
      BY DEF Owed
    <3>5. Owed(u)' = PRECISION_FACTOR * user_position[u].accrued_rewards
                       + UserBalance(u) * (gap + inc)
      BY <1>8, <1>13, <3>2, Zenon DEF Owed
    <3> HIDE DEF gap
    <3>6. UserBalance(u) * (gap + inc) = UserBalance(u) * gap + inc * UserBalance(u)
      BY <1>7, <3>1, <3>3
    <3>7. UserBalance(u) * gap \in Int /\ inc * UserBalance(u) \in Int
      BY <1>7, <3>1, <3>3
    <3> QED
      BY <3>3, <3>4, <3>5, <3>6, <3>7
  <2>4. \A u \in 1..NumUsers : h[u] = f[u] + inc * g[u]
    BY <2>3, Zenon DEF Accounts
  <2>5. TotalOwed = Sum(f, NumUsers) /\ TotalBalance = Sum(g, NumUsers) /\ TotalOwed' = Sum(h, NumUsers)
    BY DEF TotalOwed, TotalBalance
  <2> HIDE DEF f, g, h
  <2>6. TotalOwed' = TotalOwed + inc * TotalBalance
    <3>1. NumUsers \in Nat /\ inc \in Int
      BY <1>7, NumUsersAssumption
    <3>2. Sum(h, NumUsers) = Sum(f, NumUsers) + inc * Sum(g, NumUsers)
      BY <2>2, <2>4, <3>1, SumLinear, Zenon DEF IsLinear
    <3> QED
      BY <2>5, <3>2, Zenon
  <2>7. inc * TotalBalance <= eff * PRECISION_FACTOR /\ inc * TotalBalance \in Nat
    <3>1. TotalBalance = total_deposits
      BY DEF Books
    <3> QED
      BY <1>4, <1>7, <3>1
  <2>8. eff * PRECISION_FACTOR <= PRECISION_FACTOR * amount
    BY <1>1, <1>6, <1>16, ScaleAssumption
  <2>9. PRECISION_FACTOR * (held + amount) = PRECISION_FACTOR * held + PRECISION_FACTOR * amount
    BY <1>1, <1>2, ScaleAssumption
  <2>10. /\ TotalOwed \in Nat
         /\ PRECISION_FACTOR * held \in Nat /\ PRECISION_FACTOR * amount \in Nat
         /\ eff * PRECISION_FACTOR \in Nat
    <3>1. TotalOwed \in Nat
      BY <2>1, Zenon DEF OwedFacts
    <3>2. PRECISION_FACTOR \in Nat /\ held \in Nat /\ amount \in Nat /\ eff \in Nat
      BY <1>1, <1>2, <1>6, ScaleAssumption, Zenon
    <3> QED
      BY <3>1, <3>2, Product, Zenon
  <2> QED
    BY <2>6, <2>7, <2>8, <2>9, <2>10
<1>17. HoldingsFollow
  <2>1. token_balance[config.deposit_token][Contract] \in Nat
    BY <1>1, SetupFacts
  <2> QED
    BY <1>3, <1>11, <1>16, <2>1, Zenon DEF HoldingsFollow, held
<1> QED
  BY <1>9, <1>10, <1>12, <1>15, <1>17, Zenon DEF Books

\* A step that touches neither funds, positions, indices nor tokens.
LEMMA QuietStepKeeps ==
  ASSUME Books,
         UNCHANGED <<config, user_position, fundVars, reward_index, token_balance>>,
         timestamp' \in Nat, timestamp <= timestamp',
         admin' \in Accounts \/ admin' = admin,
         pending_admin' \in Accounts \cup {NoAdmin}, is_paused' \in BOOLEAN
  PROVE  Books' /\ (Initialized' <=> Initialized) /\ (Initialized => HoldingsFollow)
<1>1. /\ config' = config /\ user_position' = user_position
      /\ liquid_balance' = liquid_balance /\ user_locks' = user_locks
      /\ total_deposits' = total_deposits /\ reward_index' = reward_index
      /\ token_balance' = token_balance
      /\ Initialized' <=> Initialized
  BY Zenon DEF fundVars, Initialized
<1>2. TypeOK'
  BY <1>1 DEF Books, TypeOK
<1>3. PositionsBehind'
  <2> SUFFICES ASSUME NEW u \in Accounts
               PROVE  /\ user_position'[u].reward_index <= reward_index'
                      /\ user_position'[u].last_reward_timestamp <= timestamp'
    BY Zenon DEF PositionsBehind
  <2>1. user_position[u].last_reward_timestamp \in Nat /\ timestamp \in Nat
    BY PositionFields DEF Books, TypeOK
  <2>2. /\ user_position[u].reward_index <= reward_index
        /\ user_position[u].last_reward_timestamp <= timestamp
    BY Zenon DEF Books, PositionsBehind
  <2>3. user_position[u].last_reward_timestamp <= timestamp'
    BY <2>1, <2>2
  <2> QED
    BY <1>1, <2>2, <2>3, Zenon
<1>4. Fresh' /\ Configured' /\ SupplyKept'
  BY <1>1 DEF Books, Fresh, Configured, SupplyKept
<1>5. \A u \in Accounts : UserBalance(u)' = UserBalance(u) /\ Owed(u)' = Owed(u)
  BY <1>1, Zenon DEF UserBalance, Owed
<1>6. TotalBalance' = TotalBalance /\ TotalOwed' = TotalOwed
  BY <1>5, Zenon DEF TotalBalance, TotalOwed
<1>7. ASSUME Initialized PROVE HoldingsFollow
  <2>1. TotalOwed \in Nat
    BY OwedNat DEF Books, OwedFacts
  <2>2. /\ token_balance[config.deposit_token][Contract] \in Nat
        /\ token_balance[config.reward_token][Contract] \in Nat
    BY <1>7, SetupFacts, Zenon
  <2>3. PRECISION_FACTOR * token_balance[config.reward_token][Contract] \in Nat
    BY <2>2, ScaleAssumption, Product, Zenon
  <2> QED
    BY <1>1, <1>6, <2>1, <2>3 DEF HoldingsFollow
<1> QED
  BY <1>1, <1>2, <1>3, <1>4, <1>6, <1>7, Zenon DEF Books

\* The contract as deployed.
LEMMA BooksInit == Init => Books /\ ~Initialized
<1> SUFFICES ASSUME Init PROVE Books /\ ~Initialized
  BY Zenon
<1>1. /\ ~Initialized /\ total_deposits = 0 /\ reward_index = 0
      /\ \A u \in Accounts : /\ user_position[u] = NoPosition
                             /\ liquid_balance[u] = 0 /\ user_locks[u] = <<>>
      /\ token_balance = InitialBalances
  BY DEF Init, Initialized
<1>2. TypeOK
  <2>1. NoPosition \in Position /\ <<>> \in Seq(LockEntry)
    BY DEF NoPosition, Position
  <2> QED
    BY <2>1, BalancesAssumption, Zenon DEF Init, TypeOK
<1>3. PositionsBehind
  BY <1>1 DEF PositionsBehind, NoPosition, Init
<1>4. Fresh /\ Configured /\ SupplyKept
  BY <1>1, BalancesAssumption, Zenon DEF Fresh, Configured, SupplyKept
<1>5. total_deposits = TotalBalance
  <2>1. \A u \in Accounts : UserBalance(u) = 0
    BY <1>1, LockTotalEmpty DEF UserBalance
  <2>2. TotalBalance = Sum([u \in 1..NumUsers |-> 0], NumUsers)
    BY <2>1, Zenon DEF TotalBalance, Accounts
  <2> QED
    BY <1>1, <2>2, NumUsersAssumption, SumZero, Zenon
<1> QED
  BY <1>1, <1>2, <1>3, <1>4, <1>5 DEF Books

\* Every step of the contract keeps the books, and what it holds follows what it owes.
LEMMA BooksStep ==
  ASSUME Books, [Next]_vars
  PROVE  /\ Books'
         /\ Initialized => HoldingsFollow
         /\ ~Initialized => ~Initialized' \/ JustInitialized'
<1> DEFINE Goal == /\ Books'
                   /\ Initialized => HoldingsFollow
                   /\ ~Initialized => ~Initialized' \/ JustInitialized'
           Quiet == /\ UNCHANGED <<config, user_position, fundVars, reward_index, token_balance>>
                    /\ timestamp' \in Nat /\ timestamp <= timestamp'
                    /\ admin' \in Accounts \/ admin' = admin
                    /\ pending_admin' \in Accounts \cup {NoAdmin} /\ is_paused' \in BOOLEAN
<1>0. /\ timestamp \in Nat /\ pending_admin \in Accounts \cup {NoAdmin}
      /\ is_paused \in BOOLEAN
  BY DEF Books, TypeOK
<1>1. ASSUME NEW a \in Admins, NEW c \in ConfigArgs, Initialize(a, c) PROVE Goal
  BY <1>1, InitializeKeeps, Zenon
<1>2. ASSUME NEW a \in Admins, ProposeNewAdmin(a) PROVE Quiet
  BY <1>0, <1>2, AdminAssumption DEF ProposeNewAdmin
<1>3. ASSUME NEW a \in Accounts, AcceptAdmin(a) PROVE Quiet
  BY <1>0, <1>3 DEF AcceptAdmin
<1>4. ASSUME NEW p \in BOOLEAN, SetPaused(p) PROVE Quiet
  BY <1>0, <1>4 DEF SetPaused
<1>5. ASSUME NEW u \in Accounts, NEW amount \in Amounts, Deposit(u, amount) PROVE Goal
  <2>1. Initialized
    BY <1>5 DEF Deposit, Active
  <2> QED
    BY <1>5, <2>1, DepositKeeps, Zenon
<1>6. ASSUME NEW u \in Accounts, NEW amount \in Amounts, Withdraw(u, amount) PROVE Goal
  <2>1. Initialized
    BY <1>6 DEF Withdraw, CanWithdraw, Active
  <2> QED
    BY <1>6, <2>1, WithdrawKeeps, Zenon
<1>7. ASSUME NEW u \in Accounts, NEW amount \in Amounts, NEW d \in Durations,
             Lock(u, amount, d)
      PROVE  Goal
  <2>1. Initialized
    BY <1>7, Zenon DEF Lock, Active
  <2> QED
    BY <1>7, <2>1, LockKeeps, Zenon
<1>8. ASSUME NEW u \in Accounts, NEW limit \in Limits, UnlockExpired(u, limit) PROVE Goal
  <2>1. Initialized
    BY <1>8, Zenon DEF UnlockExpired, Active
  <2> QED
    BY <1>8, <2>1, UnlockExpiredKeeps
<1>9. ASSUME NEW amount \in RewardAmounts, DistributeRewards(amount) PROVE Goal
  <2>1. Initialized
    BY <1>9, Zenon DEF DistributeRewards
  <2> QED
    BY <1>9, <2>1, DistributeRewardsKeeps
<1>10. ASSUME NEW u \in Accounts, ClaimRewards(u) PROVE Goal
  <2>1. Initialized
    BY <1>10, Zenon DEF ClaimRewards, Active
  <2> QED
    BY <1>10, <2>1, ClaimRewardsKeeps
<1>11. ASSUME Tick PROVE Quiet
  BY <1>0, <1>11 DEF Tick, adminVars
<1>12. ASSUME UNCHANGED vars PROVE Quiet
  BY <1>0, <1>12 DEF vars, adminVars
<1>13. Quiet => Goal
  BY QuietStepKeeps
<1> HIDE DEF Quiet, Goal
<1>14. Goal
  BY <1>1, <1>2, <1>3, <1>4, <1>5, <1>6, <1>7, <1>8, <1>9, <1>10, <1>11, <1>12, <1>13, Zenon
     DEF Next
<1> QED
  BY <1>14, Zenon DEF Goal

-----------------------------------------------------------------------------
\* What the contract holds of a token is part of the supply at deployment.
LEMMA HeldWithinSupply ==
  ASSUME Books, NEW t \in Tokens
  PROVE  /\ token_balance[t][Contract] \in Nat
         /\ Supply(InitialBalances[t]) \in Nat
         /\ token_balance[t][Contract] <= Supply(InitialBalances[t])
<1> DEFINE b == token_balance[t]
           f == [a \in Accounts |-> b[a]]
<1>1. b \in [Holders -> Nat]
  BY DEF Books, TypeOK
<1>2. Contract \in Holders /\ Accounts \subseteq Holders /\ NumUsers \in Nat
  BY NumUsersAssumption DEF Contract, Holders, Accounts
<1>3. f \in [1..NumUsers -> Nat] /\ b[Contract] \in Nat
  BY <1>1, <1>2, Zenon DEF Accounts
<1>4. Supply(b) = b[Contract] + Sum(f, NumUsers)
  BY Zenon DEF Supply
<1>5. Supply(b) = Supply(InitialBalances[t])
  BY DEF Books, SupplyKept
<1> HIDE DEF f, b
<1>6. Sum(f, NumUsers) \in Nat
  BY <1>2, <1>3, SumNat, Zenon
<1>7. Supply(b) \in Nat /\ b[Contract] <= Supply(b)
  BY <1>3, <1>4, <1>6
<1> QED
  BY <1>3, <1>5, <1>7, Zenon DEF b

\* Only the passing of time moves the clock, and only forward.
LEMMA ClockStep ==
  ASSUME Next
  PROVE  timestamp' = timestamp \/ timestamp' = timestamp + 1
BY Zenon
   DEF Next, Initialize, ProposeNewAdmin, AcceptAdmin, SetPaused, Deposit, Withdraw, Lock,
       UnlockExpired, DistributeRewards, ClaimRewards, Tick

\* A position settled at the current index earns nothing more at that index.
LEMMA SettledIsPending ==
  ASSUME NEW p \in Position, NEW balance \in Nat, NEW index \in Nat, p.reward_index = index
  PROVE  Accrue(p, balance, index).accrued_rewards = p.accrued_rewards
<1>1. p.accrued_rewards \in Nat
  BY PositionFields
<1>2. balance * (index - p.reward_index) = 0
  OBVIOUS
<1>3. NewRewards(p, balance, index) = 0
  BY <1>2, ScaleAssumption DEF NewRewards
<1> QED
  BY <1>1, <1>3 DEF Accrue

\* What a position has pending is natural.
LEMMA AccruedNat ==
  ASSUME NEW p \in Position, NEW balance \in Nat, NEW index \in Nat, p.reward_index <= index
  PROVE  Accrue(p, balance, index).accrued_rewards \in Nat
<1>1. p.accrued_rewards \in Nat /\ p.reward_index \in Nat
  BY PositionFields
<1>2. balance * (index - p.reward_index) \in Nat
  BY <1>1, Product
<1>3. NewRewards(p, balance, index) \in Nat
  BY <1>2, ScaleAssumption, Division, Zenon DEF NewRewards
<1> QED
  BY <1>1, <1>3 DEF Accrue

\* A higher index never lowers what a position has pending.
LEMMA PendingGrows ==
  ASSUME NEW p \in Position, NEW balance \in Nat, NEW index \in Nat, NEW later \in Nat,
         p.reward_index <= index, index <= later
  PROVE  Accrue(p, balance, later).accrued_rewards >= Accrue(p, balance, index).accrued_rewards
<1> DEFINE a == balance * (index - p.reward_index)
           b == balance * (later - p.reward_index)
<1>1. p.accrued_rewards \in Nat /\ p.reward_index \in Nat
  BY PositionFields
<1>2. a \in Nat /\ b \in Nat /\ a <= b
  BY <1>1, Product
<1>3. PRECISION_FACTOR \in Nat \ {0}
  BY ScaleAssumption
<1> HIDE DEF a, b
<1>4. a \div PRECISION_FACTOR \in Nat /\ b \div PRECISION_FACTOR \in Nat
      /\ a \div PRECISION_FACTOR <= b \div PRECISION_FACTOR
  BY <1>2, <1>3, Division, Zenon
<1>5. /\ Accrue(p, balance, index).accrued_rewards = p.accrued_rewards + a \div PRECISION_FACTOR
      /\ Accrue(p, balance, later).accrued_rewards = p.accrued_rewards + b \div PRECISION_FACTOR
  BY DEF Accrue, NewRewards, a, b
<1> QED
  BY <1>1, <1>4, <1>5
=============================================================================
