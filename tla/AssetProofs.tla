---------------------------- MODULE AssetProofs -----------------------------
(***************************************************************************)
(* The properties of VaultAssets, for every list of assets, every number   *)
(* of users and every amount: the books of an asset, what all the assets   *)
(* owe together, the inductive invariant AssetsInv, that every step keeps  *)
(* it, and what follows from it.                                           *)
(***************************************************************************)
EXTENDS VaultAssets, VaultLemmas

-----------------------------------------------------------------------------
(***************************************************************************)
(* The books of one asset are its users' balances and positions and its    *)
(* reward index.                                                           *)
(***************************************************************************)
GoodBook(balances, positions, index) ==
  /\ balances \in [Accounts -> Nat] /\ positions \in [Accounts -> Position] /\ index \in Nat
  /\ \A u \in Accounts : positions[u].reward_index <= index

\* What a book owes its users in rewards, in units of 1 / PRECISION_FACTOR.
OwedIn(balances, positions, index) ==
  [u \in Accounts |-> PRECISION_FACTOR * positions[u].accrued_rewards
                        + balances[u] * (index - positions[u].reward_index)]

BookOwes(balances, positions, index) == Sum(OwedIn(balances, positions, index), NumUsers)

\* What is owed is natural, and nobody is owed more than the total.
LEMMA BookNat ==
  ASSUME NEW b, NEW p, NEW i, GoodBook(b, p, i)
  PROVE  /\ OwedIn(b, p, i) \in [1..NumUsers -> Nat]
         /\ BookOwes(b, p, i) \in Nat
         /\ \A u \in Accounts : OwedIn(b, p, i)[u] <= BookOwes(b, p, i)
<1>1. ASSUME NEW u \in Accounts
      PROVE  PRECISION_FACTOR * p[u].accrued_rewards + b[u] * (i - p[u].reward_index) \in Nat
  <2>1. p[u].reward_index \in Nat /\ p[u].accrued_rewards \in Nat /\ b[u] \in Nat
    BY PositionFields DEF GoodBook
  <2>2. i - p[u].reward_index \in Nat
    BY <2>1 DEF GoodBook
  <2>3. PRECISION_FACTOR * p[u].accrued_rewards \in Nat /\ b[u] * (i - p[u].reward_index) \in Nat
    BY <2>1, <2>2, ScaleAssumption, Product
  <2> QED
    BY <2>3
<1> DEFINE f == OwedIn(b, p, i)
<1>2. f \in [1..NumUsers -> Nat]
  BY <1>1 DEF OwedIn, Accounts
<1> HIDE DEF f
<1>3. Sum(f, NumUsers) \in Nat /\ \A u \in 1..NumUsers : f[u] <= Sum(f, NumUsers)
  BY <1>2, NumUsersAssumption, SumNat
<1> QED
  BY <1>2, <1>3 DEF f, BookOwes, Accounts

\* A user whose position is settled at the index, and who is paid no more than what
\* is no longer owed, leaves the book owing less by at least what is paid, whatever
\* becomes of the balance.
LEMMA BookUserStep ==
  ASSUME NEW b \in [Accounts -> Nat], NEW p \in [Accounts -> Position], NEW i \in Nat,
         GoodBook(b, p, i), NEW u \in Accounts, NEW n \in Nat,
         NEW q \in Position, q.reward_index = i, NEW paid \in Nat,
         PRECISION_FACTOR * q.accrued_rewards + PRECISION_FACTOR * paid <= OwedIn(b, p, i)[u]
  PROVE  /\ GoodBook([b EXCEPT ![u] = n], [p EXCEPT ![u] = q], i)
         /\ BookOwes([b EXCEPT ![u] = n], [p EXCEPT ![u] = q], i) + PRECISION_FACTOR * paid
              <= BookOwes(b, p, i)
<1> DEFINE b2 == [b EXCEPT ![u] = n]
           p2 == [p EXCEPT ![u] = q]
           s == OwedIn(b, p, i)
           t == OwedIn(b2, p2, i)
<1>1. /\ b \in [1..NumUsers -> Int] /\ b2 \in [1..NumUsers -> Int]
      /\ b2[u] = n /\ p2[u] = q
      /\ \A v \in 1..NumUsers : v # u => b2[v] = b[v] /\ p2[v] = p[v]
      /\ i \in Nat /\ u \in 1..NumUsers /\ NumUsers \in Nat
  BY NumUsersAssumption DEF GoodBook, Accounts
<1>2. GoodBook(b2, p2, i)
  <2>1. \A v \in Accounts : p2[v].reward_index <= i
    BY <1>1 DEF GoodBook, Accounts
  <2> QED
    BY <2>1 DEF GoodBook
<1>3. s \in [1..NumUsers -> Nat] /\ t \in [1..NumUsers -> Nat]
  BY <1>2, BookNat, Zenon
<1>4. \A v \in 1..NumUsers : v # u => t[v] = s[v]
  BY <1>1 DEF OwedIn, Accounts
<1>5. t[u] = PRECISION_FACTOR * q.accrued_rewards + n * (i - q.reward_index)
  BY <1>1 DEF OwedIn
<1> HIDE DEF b2, p2, s, t
<1>6. t[u] = PRECISION_FACTOR * q.accrued_rewards
  <2>1. n * (i - q.reward_index) = 0 /\ PRECISION_FACTOR * q.accrued_rewards \in Nat
    <3>1. q.accrued_rewards \in Nat /\ PRECISION_FACTOR \in Nat
      BY PositionFields, ScaleAssumption
    <3>2. i - q.reward_index = 0 /\ n * 0 = 0
      BY <1>1
    <3> QED
      BY <3>1, <3>2, Product, Zenon
  <2> QED
    BY <1>5, <2>1
<1>7. s \in [1..NumUsers -> Int] /\ t \in [1..NumUsers -> Int]
  BY <1>3
<1>8. Sum(t, NumUsers) = Sum(s, NumUsers) + (t[u] - s[u])
  BY <1>1, <1>4, <1>7, SumUpdate, Zenon
<1>9. /\ Sum(s, NumUsers) \in Int /\ s[u] \in Nat /\ t[u] \in Nat
      /\ PRECISION_FACTOR * paid \in Nat
  BY <1>1, <1>3, <1>7, SumType, ScaleAssumption, Product, Zenon
<1>10. t[u] + PRECISION_FACTOR * paid <= s[u]
  BY <1>6 DEF s
<1>11. Sum(t, NumUsers) + PRECISION_FACTOR * paid <= Sum(s, NumUsers)
  BY <1>8, <1>9, <1>10
<1> QED
  BY <1>2, <1>11 DEF BookOwes, b2, p2, s, t

\* A higher index owes every user the increment for every unit of balance.
LEMMA BookDistribution ==
  ASSUME NEW b, NEW p, NEW i, GoodBook(b, p, i), NEW inc \in Nat
  PROVE  /\ GoodBook(b, p, i + inc)
         /\ BookOwes(b, p, i + inc) = BookOwes(b, p, i) + inc * Sum(b, NumUsers)
<1> DEFINE s == OwedIn(b, p, i)
           t == OwedIn(b, p, i + inc)
<1>1. b \in [1..NumUsers -> Int] /\ i \in Nat /\ NumUsers \in Nat /\ inc \in Int
  BY NumUsersAssumption DEF GoodBook, Accounts
<1>2. GoodBook(b, p, i + inc)
  <2>1. \A v \in Accounts : p[v].reward_index \in Nat /\ p[v].reward_index <= i
    BY PositionFields DEF GoodBook
  <2> QED
    BY <1>1, <2>1 DEF GoodBook
<1>3. s \in [1..NumUsers -> Int] /\ t \in [1..NumUsers -> Int]
  <2>1. s \in [1..NumUsers -> Nat] /\ t \in [1..NumUsers -> Nat]
    BY <1>2, BookNat, Zenon
  <2> QED
    BY <2>1
<1>4. ASSUME NEW u \in Accounts PROVE t[u] = s[u] + inc * b[u]
  <2> DEFINE gap == i - p[u].reward_index
             due == PRECISION_FACTOR * p[u].accrued_rewards
  <2>1. p[u].reward_index \in Nat /\ p[u].accrued_rewards \in Nat /\ b[u] \in Nat
    BY PositionFields DEF GoodBook
  <2>2. gap \in Int /\ due \in Nat /\ (i + inc) - p[u].reward_index = gap + inc
    <3>1. due \in Nat
      BY <2>1, ScaleAssumption, Product, Zenon
    <3> DEFINE j == p[u].reward_index
    <3>2. j \in Nat
      BY <2>1
    <3>3. i - j \in Int /\ (i + inc) - j = (i - j) + inc
      <4> HIDE DEF j
      <4> QED
        BY <1>1, <3>2
    <3> QED
      BY <3>1, <3>3, Zenon
  <2>3. s[u] = due + b[u] * gap /\ t[u] = due + b[u] * ((i + inc) - p[u].reward_index)
    BY DEF OwedIn
  <2>4. t[u] = due + b[u] * (gap + inc)
    BY <2>2, <2>3
  <2> HIDE DEF gap, due, s, t
  <2>5. b[u] * (gap + inc) = b[u] * gap + inc * b[u]
    BY <2>1, <2>2
  <2>6. b[u] * gap \in Int /\ inc * b[u] \in Int
    BY <2>1, <2>2
  <2> QED
    BY <2>2, <2>3, <2>4, <2>5, <2>6
<1>5. \A u \in 1..NumUsers : t[u] = s[u] + inc * b[u]
  BY <1>4 DEF Accounts
<1> HIDE DEF s, t
<1>6. Sum(t, NumUsers) = Sum(s, NumUsers) + inc * Sum(b, NumUsers)
  BY <1>1, <1>3, <1>5, SumLinear, Zenon DEF IsLinear
<1> QED
  BY <1>2, <1>6 DEF BookOwes, s, t


\* A value of every asset, added up along the list.
TotalOver(f) == Sum([i \in 1..Len(AssetList) |-> f[AssetList[i]]], Len(AssetList))

\* The list names every asset once.
LEMMA ListFacts ==
  /\ Len(AssetList) \in Nat /\ Assets \subseteq Tokens
  /\ AssetList \in [1..Len(AssetList) -> Assets]
  /\ \A t \in Assets : \E i \in 1..Len(AssetList) : AssetList[i] = t
  /\ \A i, j \in 1..Len(AssetList) : AssetList[i] = AssetList[j] => i = j
<1>1. /\ Len(AssetList) \in Nat /\ DOMAIN AssetList = 1..Len(AssetList)
      /\ AssetList \in [1..Len(AssetList) -> Tokens]
  BY AssetsAssumption
<1> QED
  BY <1>1, AssetsAssumption DEF Assets

\* `add_asset` is only called with tokens.
LEMMA AssetsAreTokens == Assets \subseteq Tokens
BY ListFacts

\* The total is natural and at least every one of the values.
LEMMA TotalOverNat ==
  ASSUME NEW f \in [Assets -> Nat]
  PROVE  TotalOver(f) \in Nat /\ \A t \in Assets : f[t] <= TotalOver(f)
<1> DEFINE n == Len(AssetList)
           s == [i \in 1..n |-> f[AssetList[i]]]
<1>1. n \in Nat /\ s \in [1..n -> Nat]
  BY ListFacts
<1>2. \A t \in Assets : \E i \in 1..n : s[i] = f[t]
  BY ListFacts
<1> HIDE DEF s, n
<1>3. Sum(s, n) \in Nat /\ \A i \in 1..n : s[i] <= Sum(s, n)
  BY <1>1, SumNat, Zenon
<1> QED
  BY <1>2, <1>3 DEF TotalOver, s, n

\* A change of one value is a change of the total.
LEMMA TotalOverUpdate ==
  ASSUME NEW f \in [Assets -> Nat], NEW g \in [Assets -> Nat], NEW t \in Assets,
         \A r \in Assets : r # t => g[r] = f[r]
  PROVE  TotalOver(g) = TotalOver(f) + (g[t] - f[t])
<1> DEFINE n == Len(AssetList)
           s == [i \in 1..n |-> f[AssetList[i]]]
           v == [i \in 1..n |-> g[AssetList[i]]]
<1>1. n \in Nat /\ s \in [1..n -> Int] /\ v \in [1..n -> Int]
  BY ListFacts
<1>2. PICK k \in 1..n : AssetList[k] = t
  BY ListFacts
<1>3. \A i \in 1..n : i # k => v[i] = s[i]
  BY <1>2, ListFacts, Zenon
<1>4. s[k] = f[t] /\ v[k] = g[t]
  BY <1>2
<1> HIDE DEF s, v, n
<1>5. Sum(v, n) = Sum(s, n) + (v[k] - s[k])
  BY <1>1, <1>3, SumUpdate, Zenon
<1> QED
  BY <1>4, <1>5 DEF TotalOver, s, v, n

\* Assets that owe nothing owe nothing together.
LEMMA TotalOverZero ==
  ASSUME NEW f, \A t \in Assets : f[t] = 0
  PROVE  TotalOver(f) = 0
<1>1. [i \in 1..Len(AssetList) |-> f[AssetList[i]]] = [i \in 1..Len(AssetList) |-> 0]
  BY ListFacts
<1> QED
  BY <1>1, ListFacts, SumZero, Zenon DEF TotalOver

-----------------------------------------------------------------------------
\* Every asset's book is good and adds up to its total, and an asset that was never
\* added has an empty one.
AssetsKept ==
  /\ supported_assets \subseteq Assets /\ (~Initialized => supported_assets = {})
  /\ asset_total_deposits \in [Tokens -> Nat]
  /\ asset_reward_index \in [Tokens -> Nat]
  /\ asset_balance \in [Tokens -> [Accounts -> Nat]]
  /\ asset_position \in [Tokens -> [Accounts -> Position]]
  /\ \A t \in Tokens :
       /\ GoodBook(asset_balance[t], asset_position[t], asset_reward_index[t])
       /\ \A u \in Accounts : asset_position[t][u].last_reward_timestamp <= timestamp
       /\ asset_total_deposits[t] = Sum(asset_balance[t], NumUsers)
       /\ t \notin supported_assets =>
            /\ asset_total_deposits[t] = 0 /\ asset_reward_index[t] = 0
            /\ TotalAssetOwed(t) = 0

\* What the contract holds covers the claims on it.
Covered == Initialized /\ NoBoost =>
  \A t \in Tokens : PRECISION_FACTOR * token_balance[t][Contract] >= Claims(t)

AssetsInv == Books /\ AssetsKept /\ Covered

\* What an asset owes, and what they all owe.
AssetOwedFacts ==
  /\ \A t \in Tokens :
       /\ TotalAssetOwed(t) = BookOwes(asset_balance[t], asset_position[t], asset_reward_index[t])
       /\ TotalAssetOwed(t) \in Nat
       /\ \A u \in Accounts : AssetOwed(t, u) \in Nat /\ AssetOwed(t, u) <= TotalAssetOwed(t)
  /\ AllAssetsOwed = TotalOver([t \in Assets |-> TotalAssetOwed(t)])
  /\ AllAssetsOwed \in Nat
  /\ \A t \in Assets : TotalAssetOwed(t) <= AllAssetsOwed

\* What the assets owe is a natural number, one by one and together.
LEMMA AssetOwedNat == AssetsKept => AssetOwedFacts
<1> SUFFICES ASSUME AssetsKept PROVE AssetOwedFacts
  OBVIOUS
<1>1. ASSUME NEW t \in Tokens
      PROVE  /\ TotalAssetOwed(t) = BookOwes(asset_balance[t], asset_position[t], asset_reward_index[t])
             /\ TotalAssetOwed(t) \in Nat
             /\ \A u \in Accounts : AssetOwed(t, u) \in Nat /\ AssetOwed(t, u) <= TotalAssetOwed(t)
  <2> DEFINE b == asset_balance[t]
             p == asset_position[t]
             i == asset_reward_index[t]
  <2>1. GoodBook(b, p, i)
    BY DEF AssetsKept
  <2>2. [u \in Accounts |-> AssetOwed(t, u)] = OwedIn(b, p, i)
    BY DEF AssetOwed, OwedIn
  <2>3. TotalAssetOwed(t) = BookOwes(b, p, i) /\ \A u \in Accounts : AssetOwed(t, u) = OwedIn(b, p, i)[u]
    BY <2>2 DEF TotalAssetOwed, BookOwes
  <2>4. /\ OwedIn(b, p, i) \in [1..NumUsers -> Nat]
        /\ BookOwes(b, p, i) \in Nat
        /\ \A u \in Accounts : OwedIn(b, p, i)[u] <= BookOwes(b, p, i)
    BY <2>1, BookNat
  <2> HIDE DEF b, p, i
  <2>5. \A u \in Accounts : OwedIn(b, p, i)[u] \in Nat
    BY <2>4 DEF Accounts
  <2> QED
    BY <2>3, <2>4, <2>5 DEF b, p, i
<1> DEFINE f == [t \in Assets |-> TotalAssetOwed(t)]
<1>2. f \in [Assets -> Nat] /\ \A t \in Assets : f[t] = TotalAssetOwed(t)
  BY <1>1, AssetsAreTokens
<1>3. AllAssetsOwed = TotalOver(f)
  <2>1. \A i \in 1..Len(AssetList) : f[AssetList[i]] = TotalAssetOwed(AssetList[i])
    BY ListFacts
  <2>2. [i \in 1..Len(AssetList) |-> f[AssetList[i]]]
          = [i \in 1..Len(AssetList) |-> TotalAssetOwed(AssetList[i])]
    BY <2>1, Zenon
  <2> QED
    BY <2>2, Zenon DEF AllAssetsOwed, TotalOver
<1> HIDE DEF f
<1>4. TotalOver(f) \in Nat /\ \A t \in Assets : f[t] <= TotalOver(f)
  BY <1>2, TotalOverNat, Zenon
<1> QED
  BY <1>1, <1>2, <1>3, <1>4, Zenon DEF AssetOwedFacts, f


\* An operation on an asset leaves the vault's own books alone.
LEMMA BaseKept ==
  ASSUME Books, Initialized, UNCHANGED baseVars,
         token_balance' \in [Tokens -> [Holders -> Nat]],
         \A r \in Tokens : Supply(token_balance'[r]) = Supply(token_balance[r])
  PROVE  /\ Books' /\ Initialized' /\ config' = config /\ (NoBoost' = NoBoost)
         /\ total_deposits' = total_deposits /\ TotalOwed' = TotalOwed /\ timestamp' = timestamp
<1>1. /\ config' = config /\ admin' = admin /\ pending_admin' = pending_admin
      /\ is_paused' = is_paused /\ user_position' = user_position
      /\ liquid_balance' = liquid_balance /\ user_locks' = user_locks
      /\ total_deposits' = total_deposits /\ reward_index' = reward_index
      /\ timestamp' = timestamp
  BY DEF baseVars, adminVars, fundVars
<1>2. Initialized' /\ (NoBoost' = NoBoost)
  BY <1>1 DEF Initialized, NoBoost
<1>3. TotalOwed' = TotalOwed /\ TotalBalance' = TotalBalance
  BY <1>1 DEF TotalOwed, TotalBalance, Owed, UserBalance
<1>4. TypeOK'
  BY <1>1 DEF Books, TypeOK
<1>5. PositionsBehind' /\ Configured'
  BY <1>1, <1>2 DEF Books, PositionsBehind, Configured
<1>6. Fresh' /\ SupplyKept'
  BY <1>2, Zenon DEF Books, Fresh, SupplyKept
<1> QED
  BY <1>1, <1>2, <1>3, <1>4, <1>5, <1>6, Zenon DEF Books

\* The general form of an operation on asset t: its book becomes b, p and i, `moved`
\* of the token t and `funded` of the reward token come in (or go out, if negative),
\* and the book owes at most `funded` more than before.
AssetStep(t, b, p, i, moved, funded) ==
  /\ UNCHANGED baseVars /\ UNCHANGED supported_assets
  /\ token_balance' \in [Tokens -> [Holders -> Nat]]
  /\ \A r \in Tokens : Supply(token_balance'[r]) = Supply(token_balance[r])
  /\ \A u \in Accounts : p[u].last_reward_timestamp <= timestamp
  /\ asset_balance' = [asset_balance EXCEPT ![t] = b]
  /\ asset_position' = [asset_position EXCEPT ![t] = p]
  /\ asset_reward_index' = [asset_reward_index EXCEPT ![t] = i]
  /\ Sum(b, NumUsers) = asset_total_deposits[t] + moved
  /\ asset_total_deposits' = [asset_total_deposits EXCEPT ![t] = @ + moved]
  /\ BookOwes(b, p, i) <= TotalAssetOwed(t) + PRECISION_FACTOR * funded
  /\ \A r \in Tokens :
       token_balance'[r][Contract]
         = token_balance[r][Contract] + (IF r = t THEN moved ELSE 0)
             + (IF r = config.reward_token THEN funded ELSE 0)

\* A step that gives one asset a good book, moves its total as it moves tokens, and adds
\* no more to what is owed than it pays in, keeps the invariant.
LEMMA AssetStepKeeps ==
  ASSUME AssetsInv, Initialized, NEW t \in Assets, t \in supported_assets,
         NEW b \in [Accounts -> Nat], NEW p \in [Accounts -> Position], NEW i \in Nat,
         GoodBook(b, p, i),
         NEW moved \in Int, NEW funded \in Int, AssetStep(t, b, p, i, moved, funded)
  PROVE  AssetsInv'
<1>1. /\ UNCHANGED baseVars /\ supported_assets' = supported_assets
      /\ token_balance' \in [Tokens -> [Holders -> Nat]]
      /\ \A r \in Tokens : Supply(token_balance'[r]) = Supply(token_balance[r])
  BY Zenon DEF AssetStep
<1>2. /\ asset_balance' = [asset_balance EXCEPT ![t] = b]
      /\ asset_position' = [asset_position EXCEPT ![t] = p]
      /\ asset_reward_index' = [asset_reward_index EXCEPT ![t] = i]
      /\ asset_total_deposits' = [asset_total_deposits EXCEPT ![t] = @ + moved]
      /\ Sum(b, NumUsers) = asset_total_deposits[t] + moved
  BY Zenon DEF AssetStep
<1>3. /\ \A u \in Accounts : p[u].last_reward_timestamp <= timestamp
      /\ BookOwes(b, p, i) <= TotalAssetOwed(t) + PRECISION_FACTOR * funded
  BY Zenon DEF AssetStep
<1>4. \A r \in Tokens :
        token_balance'[r][Contract]
          = token_balance[r][Contract] + (IF r = t THEN moved ELSE 0)
              + (IF r = config.reward_token THEN funded ELSE 0)
  BY Zenon DEF AssetStep
<1>5. t \in Assets /\ t \in Tokens /\ Assets \subseteq Tokens
  BY AssetsAreTokens DEF AssetsInv, AssetsKept
<1>6. /\ Books' /\ Initialized' /\ config' = config /\ (NoBoost' = NoBoost)
      /\ total_deposits' = total_deposits /\ TotalOwed' = TotalOwed /\ timestamp' = timestamp
  BY <1>1, BaseKept, Zenon DEF AssetsInv
<1>7. /\ asset_balance \in [Tokens -> [Accounts -> Nat]]
      /\ asset_position \in [Tokens -> [Accounts -> Position]]
      /\ asset_reward_index \in [Tokens -> Nat] /\ asset_total_deposits \in [Tokens -> Nat]
  BY Zenon DEF AssetsInv, AssetsKept
<1>8. /\ asset_balance'[t] = b /\ asset_position'[t] = p /\ asset_reward_index'[t] = i
      /\ asset_total_deposits'[t] = Sum(b, NumUsers)
      /\ \A r \in Tokens : r # t =>
           /\ asset_balance'[r] = asset_balance[r] /\ asset_position'[r] = asset_position[r]
           /\ asset_reward_index'[r] = asset_reward_index[r]
           /\ asset_total_deposits'[r] = asset_total_deposits[r]
  <2>1. /\ asset_balance'[t] = b /\ asset_position'[t] = p /\ asset_reward_index'[t] = i
        /\ asset_total_deposits'[t] = asset_total_deposits[t] + moved
    BY <1>2, <1>5, <1>7, Zenon
  <2>2. asset_total_deposits'[t] = Sum(b, NumUsers)
    BY <1>2, <2>1, Zenon
  <2>3. ASSUME NEW r \in Tokens, r # t
        PROVE  /\ asset_balance'[r] = asset_balance[r] /\ asset_position'[r] = asset_position[r]
               /\ asset_reward_index'[r] = asset_reward_index[r]
               /\ asset_total_deposits'[r] = asset_total_deposits[r]
    BY <1>2, <1>7, <2>3, Zenon
  <2> QED
    BY <2>1, <2>2, <2>3, Zenon
<1>9. Sum(b, NumUsers) \in Nat
  <2>1. b \in [1..NumUsers -> Nat]
    BY DEF GoodBook, Accounts
  <2> QED
    BY <2>1, NumUsersAssumption, SumNat, Zenon
<1>10. \A r \in Tokens : r # t => TotalAssetOwed(r)' = TotalAssetOwed(r)
  BY <1>8, Zenon DEF TotalAssetOwed, AssetOwed
<1>11. AssetsKept'
  <2>1. /\ asset_balance' \in [Tokens -> [Accounts -> Nat]]
        /\ asset_position' \in [Tokens -> [Accounts -> Position]]
        /\ asset_reward_index' \in [Tokens -> Nat]
    BY <1>2, <1>7, Zenon DEF GoodBook
  <2>2. asset_total_deposits' \in [Tokens -> Nat]
    BY <1>2, <1>5, <1>7, <1>9, Zenon
  <2>3. supported_assets' \subseteq Assets /\ (~Initialized' => supported_assets' = {})
    BY <1>1, <1>6, Zenon DEF AssetsInv, AssetsKept
  <2>4. ASSUME NEW r \in Tokens
        PROVE  /\ GoodBook(asset_balance'[r], asset_position'[r], asset_reward_index'[r])
               /\ \A u \in Accounts : asset_position'[r][u].last_reward_timestamp <= timestamp'
               /\ asset_total_deposits'[r] = Sum(asset_balance'[r], NumUsers)
               /\ r \notin supported_assets' =>
                    /\ asset_total_deposits'[r] = 0 /\ asset_reward_index'[r] = 0
                    /\ TotalAssetOwed(r)' = 0
    <3>1. CASE r = t
      <4>1. /\ GoodBook(asset_balance'[t], asset_position'[t], asset_reward_index'[t])
            /\ asset_total_deposits'[t] = Sum(asset_balance'[t], NumUsers)
        BY <1>8, Zenon
      <4>2. \A u \in Accounts : asset_position'[t][u].last_reward_timestamp <= timestamp'
        BY <1>3, <1>6, <1>8, Zenon
      <4>3. t \in supported_assets'
        BY <1>1, Zenon
      <4> QED
        BY <3>1, <4>1, <4>2, <4>3, Zenon
    <3>2. CASE r # t
      <4>1. /\ GoodBook(asset_balance[r], asset_position[r], asset_reward_index[r])
            /\ \A u \in Accounts : asset_position[r][u].last_reward_timestamp <= timestamp
            /\ asset_total_deposits[r] = Sum(asset_balance[r], NumUsers)
            /\ r \notin supported_assets =>
                 /\ asset_total_deposits[r] = 0 /\ asset_reward_index[r] = 0
                 /\ TotalAssetOwed(r) = 0
        BY Zenon DEF AssetsInv, AssetsKept
      <4>2. /\ asset_balance'[r] = asset_balance[r] /\ asset_position'[r] = asset_position[r]
            /\ asset_reward_index'[r] = asset_reward_index[r]
            /\ asset_total_deposits'[r] = asset_total_deposits[r]
            /\ TotalAssetOwed(r)' = TotalAssetOwed(r)
        BY <1>8, <1>10, <3>2, Zenon
      <4> QED
        BY <1>1, <1>6, <4>1, <4>2, Zenon
    <3> QED
      BY <3>1, <3>2, Zenon
  <2> QED
    BY <2>1, <2>2, <2>3, <2>4, Zenon DEF AssetsKept
<1>12. AssetOwedFacts /\ AssetOwedFacts'
  BY <1>11, AssetOwedNat, PTL DEF AssetsInv
<1>13. AllAssetsOwed' <= AllAssetsOwed + PRECISION_FACTOR * funded
  <2> DEFINE f == [r \in Assets |-> TotalAssetOwed(r)]
             g == [r \in Assets |-> TotalAssetOwed(r)']
  <2>1. f \in [Assets -> Nat] /\ g \in [Assets -> Nat]
    BY <1>5, <1>12, Zenon DEF AssetOwedFacts
  <2>2. \A r \in Assets : r # t => g[r] = f[r]
    BY <1>5, <1>10, Zenon
  <2>3. f[t] = TotalAssetOwed(t) /\ g[t] = TotalAssetOwed(t)' /\ f[t] \in Nat /\ g[t] \in Nat
    BY <1>5, <2>1
  <2>4. TotalAssetOwed(t)' = BookOwes(b, p, i)
    BY <1>5, <1>8, <1>12, Zenon DEF AssetOwedFacts
  <2>5. AllAssetsOwed = TotalOver(f) /\ AllAssetsOwed' = TotalOver(g)
    BY <1>12, Zenon DEF AssetOwedFacts
  <2> HIDE DEF f, g
  <2>6. TotalOver(g) = TotalOver(f) + (g[t] - f[t]) /\ TotalOver(f) \in Nat
    BY <1>5, <2>1, <2>2, TotalOverUpdate, TotalOverNat, Zenon
  <2>7. g[t] <= f[t] + PRECISION_FACTOR * funded /\ PRECISION_FACTOR * funded \in Int
    BY <1>3, <2>3, <2>4, ScaleAssumption
  <2> QED
    BY <2>3, <2>5, <2>6, <2>7
<1>14. Covered'
  <2> SUFFICES ASSUME NoBoost, NEW r \in Tokens
               PROVE  PRECISION_FACTOR * token_balance'[r][Contract] >= Claims(r)'
    BY <1>6, Zenon DEF Covered
  <2> DEFINE P == PRECISION_FACTOR
             held == token_balance[r][Contract]
             total == asset_total_deposits[r]
             dep == IF r = config.deposit_token THEN P * total_deposits ELSE 0
             in == IF r = t THEN moved ELSE 0
             more == IF r = config.reward_token THEN funded ELSE 0
             owed == IF r = config.reward_token THEN TotalOwed + AllAssetsOwed ELSE 0
             owed2 == IF r = config.reward_token THEN TotalOwed + AllAssetsOwed' ELSE 0
  <2>1. P * held >= P * total + dep + owed
    BY Zenon DEF AssetsInv, Covered, Claims
  <2>2. token_balance'[r][Contract] = held + in + more
    BY <1>4, Zenon
  <2>3. Claims(r)' = P * (total + in) + dep + owed2
    <3>1. asset_total_deposits'[r] = total + in
      BY <1>2, <1>5, <1>7, <1>8
    <3> QED
      BY <1>6, <3>1, Zenon DEF Claims
  <2>4. /\ held \in Nat /\ total \in Nat /\ in \in Int /\ more \in Int /\ P \in Nat
        /\ total_deposits \in Nat
    BY <1>7, SetupFacts, ScaleAssumption DEF AssetsInv, Books, TypeOK
  <2>5. dep \in Nat
    BY <2>4, Product, Zenon
  <2>6. TotalOwed \in Nat /\ AllAssetsOwed \in Nat /\ AllAssetsOwed' \in Nat
    BY <1>12, OwedNat, Zenon DEF AssetsInv, Books, OwedFacts, AssetOwedFacts
  <2>7. owed \in Nat /\ owed2 \in Nat /\ owed2 <= owed + P * more
    <3> HIDE DEF P
    <3>1. CASE r = config.reward_token
      <4>1. P * funded \in Int /\ AllAssetsOwed' <= AllAssetsOwed + P * funded
        BY <1>13, <2>4 DEF P
      <4>2. owed = TotalOwed + AllAssetsOwed /\ owed2 = TotalOwed + AllAssetsOwed' /\ more = funded
        BY <3>1
      <4> HIDE DEF owed, owed2, more
      <4>3. \A a, c, d \in Nat, e \in Int :
              d <= c + e => a + c \in Nat /\ a + d \in Nat /\ a + d <= a + c + e
        OBVIOUS
      <4>4. /\ TotalOwed + AllAssetsOwed \in Nat /\ TotalOwed + AllAssetsOwed' \in Nat
            /\ TotalOwed + AllAssetsOwed' <= TotalOwed + AllAssetsOwed + P * funded
        BY <2>6, <4>1, <4>3, Zenon
      <4> QED
        BY <4>2, <4>4, Zenon
    <3>2. CASE r # config.reward_token
      <4>1. P * 0 = 0
        BY <2>4
      <4> QED
        BY <3>2, <4>1
    <3> QED
      BY <3>1, <3>2
  <2> HIDE DEF P, held, total, dep, in, more, owed, owed2
  <2>8. /\ P * (held + in + more) = P * held + P * in + P * more
        /\ P * (total + in) = P * total + P * in
    BY <2>4
  <2>9. P * held \in Int /\ P * total \in Int /\ P * in \in Int /\ P * more \in Int
    BY <2>4
  <2>10. P * (held + in + more) >= P * (total + in) + dep + owed2
    BY <2>1, <2>5, <2>7, <2>8, <2>9
  <2> QED
    BY <2>2, <2>3, <2>10, Zenon DEF P
<1> QED
  BY <1>6, <1>11, <1>14 DEF AssetsInv

\* A user's settled position in an asset.
LEMMA AssetSettledFacts ==
  ASSUME Books, AssetsKept, NEW t \in Tokens, NEW u \in Accounts
  PROVE  /\ AssetSettled(t, u) \in Position
         /\ AssetSettled(t, u).reward_index = asset_reward_index[t]
         /\ AssetSettled(t, u).last_reward_timestamp <= timestamp
         /\ PRECISION_FACTOR * AssetSettled(t, u).accrued_rewards <= AssetOwed(t, u)
         /\ OwedIn(asset_balance[t], asset_position[t], asset_reward_index[t])[u] = AssetOwed(t, u)
<1>1. /\ asset_position[t][u] \in Position /\ asset_balance[t][u] \in Nat
      /\ asset_reward_index[t] \in Nat /\ timestamp \in Nat
      /\ asset_position[t][u].reward_index <= asset_reward_index[t]
      /\ asset_position[t][u].last_reward_timestamp <= timestamp
  BY DEF Books, TypeOK, AssetsKept, GoodBook
<1>2. OwedIn(asset_balance[t], asset_position[t], asset_reward_index[t])[u] = AssetOwed(t, u)
  BY DEF OwedIn, AssetOwed
<1> QED
  BY <1>1, <1>2, AccrueFacts, Zenon DEF AssetSettled, AssetOwed

\* `amount` of token t comes in, or goes out if it is negative, and nothing else moves.
TokensMove(t, amount) ==
  /\ token_balance' \in [Tokens -> [Holders -> Nat]]
  /\ \A r \in Tokens : Supply(token_balance'[r]) = Supply(token_balance[r])
  /\ \A r \in Tokens : r # t => token_balance'[r] = token_balance[r]
  /\ token_balance'[t][Contract] = token_balance[t][Contract] + amount

\* `store_asset_deposit` and `store_asset_withdraw` settle the position before the
\* balance moves, and move the balance, the total and the tokens alike.
LEMMA MoveAssetKeeps ==
  ASSUME AssetsInv, Initialized, NEW t \in supported_assets, NEW u \in Accounts,
         NEW amount \in Int, asset_balance[t][u] + amount \in Nat, MoveAsset(t, u, amount),
         TokensMove(t, amount)
  PROVE  AssetsInv'
<1> DEFINE n == asset_balance[t][u] + amount
           q == AssetSettled(t, u)
           b0 == asset_balance[t]
           p0 == asset_position[t]
           i == asset_reward_index[t]
           b == [b0 EXCEPT ![u] = n]
           p == [p0 EXCEPT ![u] = q]
<1>1. Books /\ AssetsKept /\ t \in Tokens /\ t \in Assets
  BY AssetsAreTokens DEF AssetsInv, AssetsKept
<1>2. /\ q \in Position /\ q.reward_index = i /\ q.last_reward_timestamp <= timestamp
      /\ PRECISION_FACTOR * q.accrued_rewards <= OwedIn(b0, p0, i)[u]
  BY <1>1, AssetSettledFacts, Zenon
<1>3. /\ asset_balance' = [asset_balance EXCEPT ![t] = b]
      /\ asset_position' = [asset_position EXCEPT ![t] = p]
      /\ asset_total_deposits' = [asset_total_deposits EXCEPT ![t] = @ + amount]
      /\ UNCHANGED <<supported_assets, asset_reward_index, baseVars>>
  BY <1>1, Zenon DEF MoveAsset, AssetsKept
<1>4. /\ GoodBook(b0, p0, i) /\ asset_total_deposits[t] = Sum(b0, NumUsers)
      /\ asset_total_deposits[t] \in Nat /\ asset_reward_index \in [Tokens -> Nat]
      /\ b0 \in [Accounts -> Nat] /\ p0 \in [Accounts -> Position] /\ i \in Nat
      /\ \A v \in Accounts : p0[v].last_reward_timestamp <= timestamp
  BY <1>1, Zenon DEF AssetsKept
<1>5. n \in Nat /\ n - b0[u] = amount
  BY <1>4
<1>6. TotalAssetOwed(t) = BookOwes(b0, p0, i) /\ TotalAssetOwed(t) \in Nat
  BY <1>1, AssetOwedNat, Zenon DEF AssetOwedFacts
<1>7. asset_reward_index' = [asset_reward_index EXCEPT ![t] = i]
  BY <1>1, <1>3, <1>4, Zenon
<1> HIDE DEF n, q, b0, p0, i
<1>8. /\ GoodBook(b, p, i)
      /\ BookOwes(b, p, i) + PRECISION_FACTOR * 0 <= BookOwes(b0, p0, i)
      /\ Sum(b, NumUsers) = Sum(b0, NumUsers) + (n - b0[u])
  <2> DEFINE paid == 0
  <2>1. PRECISION_FACTOR * q.accrued_rewards + PRECISION_FACTOR * paid <= OwedIn(b0, p0, i)[u]
    <3>1. PRECISION_FACTOR * q.accrued_rewards \in Nat /\ PRECISION_FACTOR * 0 = 0
      BY <1>2, PositionFields, ScaleAssumption, Product
    <3> QED
      BY <1>2, <3>1
  <2>2. paid \in Nat
    OBVIOUS
  <2> HIDE DEF paid
  <2>3. /\ GoodBook(b, p, i)
        /\ BookOwes(b, p, i) + PRECISION_FACTOR * paid <= BookOwes(b0, p0, i)
    BY <1>2, <1>4, <1>5, <2>1, <2>2, BookUserStep, Zenon
  <2>4. b \in [1..NumUsers -> Int] /\ b0 \in [1..NumUsers -> Int] /\ NumUsers \in Nat
        /\ u \in 1..NumUsers /\ b[u] = n
        /\ \A v \in 1..NumUsers : v # u => b[v] = b0[v]
    BY <1>4, <1>5, NumUsersAssumption DEF Accounts
  <2> HIDE DEF b, p
  <2>5. Sum(b, NumUsers) = Sum(b0, NumUsers) + (b[u] - b0[u])
    BY <2>4, SumUpdate, Zenon
  <2> QED
    BY <2>3, <2>4, <2>5, Zenon DEF paid
<1>9. \A v \in Accounts : p[v].last_reward_timestamp <= timestamp
  BY <1>2, <1>4, Zenon
<1> HIDE DEF b, p
<1>10. Sum(b, NumUsers) = asset_total_deposits[t] + amount
  BY <1>4, <1>5, <1>8, Zenon
<1>11. BookOwes(b, p, i) <= TotalAssetOwed(t) + PRECISION_FACTOR * 0
  <2>1. BookOwes(b, p, i) \in Nat /\ PRECISION_FACTOR * 0 = 0
    BY <1>8, BookNat, ScaleAssumption
  <2> QED
    BY <1>6, <1>8, <2>1
<1>12. \A r \in Tokens :
         token_balance'[r][Contract]
           = token_balance[r][Contract] + (IF r = t THEN amount ELSE 0)
               + (IF r = config.reward_token THEN 0 ELSE 0)
  <2>1. \A r \in Tokens : token_balance[r][Contract] \in Nat
    BY <1>1, SetupFacts
  <2>2. /\ \A r \in Tokens : r # t => token_balance'[r] = token_balance[r]
        /\ token_balance'[t][Contract] = token_balance[t][Contract] + amount
    BY Zenon DEF TokensMove
  <2>3. \A a \in Nat : a + amount = (a + amount) + 0 /\ a = (a + 0) + 0
    OBVIOUS
  <2> QED
    BY <1>1, <2>1, <2>2, <2>3, Zenon
<1>13. /\ UNCHANGED baseVars /\ UNCHANGED supported_assets
       /\ token_balance' \in [Tokens -> [Holders -> Nat]]
       /\ \A r \in Tokens : Supply(token_balance'[r]) = Supply(token_balance[r])
  BY <1>3, Zenon DEF TokensMove
<1>14. AssetStep(t, b, p, i, amount, 0)
  BY <1>3, <1>7, <1>9, <1>10, <1>11, <1>12, <1>13, Zenon DEF AssetStep
<1>15. b \in [Accounts -> Nat] /\ p \in [Accounts -> Position] /\ 0 \in Int
  BY <1>8 DEF GoodBook
<1> QED
  BY <1>1, <1>4, <1>8, <1>14, <1>15, AssetStepKeeps, Zenon

\* A deposit of an asset settles the position and moves tokens and balance alike.
LEMMA DepositAssetKeeps ==
  ASSUME AssetsInv, NEW t \in Assets, NEW u \in Accounts, NEW amount \in Amounts,
         DepositAsset(t, u, amount)
  PROVE  AssetsInv'
<1>1. /\ Initialized /\ t \in supported_assets /\ t \in Tokens /\ amount \in Nat
      /\ Transfer(t, u, Contract, amount) /\ MoveAsset(t, u, amount)
  BY AssetsAreTokens, InputAssumption DEF DepositAsset, Active
<1>2. asset_balance[t][u] + amount \in Nat /\ amount \in Int
  BY <1>1 DEF AssetsInv, AssetsKept
<1>3. Books
  BY DEF AssetsInv
<1>4. TokensMove(t, amount)
  BY <1>1, <1>3, TransferIn, Zenon DEF TokensMove
<1> QED
  BY <1>1, <1>2, <1>4, MoveAssetKeeps, Zenon

\* So does a withdrawal, the other way.
LEMMA WithdrawAssetKeeps ==
  ASSUME AssetsInv, NEW t \in Assets, NEW u \in Accounts, NEW amount \in Amounts,
         WithdrawAsset(t, u, amount)
  PROVE  AssetsInv'
<1>1. /\ Initialized /\ t \in supported_assets /\ t \in Tokens /\ amount \in Nat
      /\ Transfer(t, Contract, u, amount) /\ MoveAsset(t, u, -amount)
      /\ asset_balance[t][u] >= amount
  BY AssetsAreTokens, InputAssumption DEF WithdrawAsset, CanWithdrawAsset, Active
<1>2. asset_balance[t][u] + (-amount) \in Nat /\ -amount \in Int
  BY <1>1 DEF AssetsInv, AssetsKept
<1>3. Books
  BY DEF AssetsInv
<1>4. /\ token_balance' \in [Tokens -> [Holders -> Nat]]
      /\ \A r \in Tokens : Supply(token_balance'[r]) = Supply(token_balance[r])
      /\ \A r \in Tokens : r # t => token_balance'[r] = token_balance[r]
      /\ token_balance'[t][Contract] = token_balance[t][Contract] - amount
  BY <1>1, <1>3, TransferOut, Zenon
<1>5. token_balance'[t][Contract] = token_balance[t][Contract] + (-amount)
  BY <1>1, <1>3, <1>4, SetupFacts, Zenon
<1>6. TokensMove(t, -amount)
  BY <1>4, <1>5, Zenon DEF TokensMove
<1> QED
  BY <1>1, <1>2, <1>6, MoveAssetKeeps, Zenon

\* `store_asset_reward_distribution` raises what is owed by at most what comes in.
LEMMA DistributeForAssetKeeps ==
  ASSUME AssetsInv, NEW t \in Assets, NEW amount \in RewardAmounts,
         DistributeRewardsForAsset(t, amount)
  PROVE  AssetsInv'
<1> DEFINE b == asset_balance[t]
           p == asset_position[t]
           i == asset_reward_index[t]
           total == asset_total_deposits[t]
           inc == IndexIncrement(amount, total)
<1>1. /\ Initialized /\ t \in supported_assets /\ t \in Tokens /\ amount \in Nat
      /\ Transfer(config.reward_token, admin, Contract, amount)
      /\ total > 0
      /\ asset_reward_index' = [asset_reward_index EXCEPT ![t] = i + inc]
      /\ UNCHANGED <<supported_assets, asset_total_deposits, asset_balance,
                     asset_position, baseVars>>
  BY AssetsAreTokens, InputAssumption DEF DistributeRewardsForAsset, IncrementFits
<1>2. Books /\ AssetsKept
  BY DEF AssetsInv
<1>3. /\ config.reward_token \in Tokens /\ admin \in Accounts
      /\ \A r \in Tokens : token_balance[r][Contract] \in Nat
  BY <1>1, <1>2, SetupFacts, Zenon
<1>4. /\ GoodBook(b, p, i) /\ total = Sum(b, NumUsers) /\ total \in Nat
      /\ b \in [Accounts -> Nat] /\ p \in [Accounts -> Position] /\ i \in Nat
      /\ \A u \in Accounts : p[u].last_reward_timestamp <= timestamp
      /\ asset_balance \in [Tokens -> [Accounts -> Nat]]
      /\ asset_position \in [Tokens -> [Accounts -> Position]]
      /\ asset_total_deposits \in [Tokens -> Nat]
  BY <1>1, <1>2, Zenon DEF AssetsKept
<1>5. inc \in Nat /\ total * inc <= amount * PRECISION_FACTOR /\ amount * PRECISION_FACTOR \in Nat
  <2>1. amount * PRECISION_FACTOR \in Nat /\ total \in Nat \ {0}
    BY <1>1, <1>4, ScaleAssumption, Product
  <2> HIDE DEF total
  <2> QED
    BY <2>1, Division, Zenon DEF IndexIncrement
<1>6. /\ token_balance' \in [Tokens -> [Holders -> Nat]]
      /\ \A r \in Tokens : Supply(token_balance'[r]) = Supply(token_balance[r])
      /\ \A r \in Tokens : r # config.reward_token => token_balance'[r] = token_balance[r]
      /\ token_balance'[config.reward_token][Contract]
           = token_balance[config.reward_token][Contract] + amount
  BY <1>1, <1>2, <1>3, TransferIn, Zenon
<1>7. /\ TotalAssetOwed(t) = BookOwes(b, p, i) /\ TotalAssetOwed(t) \in Nat
  BY <1>1, <1>2, AssetOwedNat, Zenon DEF AssetOwedFacts
<1>8. /\ asset_balance' = [asset_balance EXCEPT ![t] = b]
      /\ asset_position' = [asset_position EXCEPT ![t] = p]
      /\ asset_total_deposits' = [asset_total_deposits EXCEPT ![t] = @ + 0]
  BY <1>1, <1>4
<1> HIDE DEF b, p, i, total, inc
<1>9. GoodBook(b, p, i + inc) /\ BookOwes(b, p, i + inc) = BookOwes(b, p, i) + inc * Sum(b, NumUsers)
  BY <1>4, <1>5, BookDistribution, Zenon
<1>10. BookOwes(b, p, i + inc) <= TotalAssetOwed(t) + PRECISION_FACTOR * amount
  <2>1. inc * Sum(b, NumUsers) = total * inc /\ amount * PRECISION_FACTOR = PRECISION_FACTOR * amount
    BY <1>1, <1>4, <1>5, ScaleAssumption
  <2>2. total * inc \in Nat
    BY <1>4, <1>5, Product, Zenon
  <2> QED
    BY <1>5, <1>7, <1>9, <2>1, <2>2
<1>11. Sum(b, NumUsers) = total + 0
  BY <1>4
<1>12. \A r \in Tokens :
         token_balance'[r][Contract]
           = token_balance[r][Contract] + (IF r = t THEN 0 ELSE 0)
               + (IF r = config.reward_token THEN amount ELSE 0)
  <2>1. \A a \in Nat : a + amount = (a + 0) + amount /\ a = (a + 0) + 0
    BY <1>1
  <2> QED
    BY <1>3, <1>6, <2>1, Zenon
<1>13. UNCHANGED baseVars /\ UNCHANGED supported_assets
  BY <1>1
<1>14. AssetStep(t, b, p, i + inc, 0, amount)
  BY <1>1, <1>4, <1>6, <1>8, <1>10, <1>11, <1>12, <1>13, Zenon DEF AssetStep, total
<1>15. i + inc \in Nat /\ 0 \in Int /\ amount \in Int
  BY <1>1, <1>4, <1>5
<1> QED
  BY <1>1, <1>4, <1>9, <1>14, <1>15, AssetStepKeeps, Zenon

\* `store_claim_asset_rewards` deducts from the position what the contract pays out.
LEMMA ClaimForAssetKeeps ==
  ASSUME AssetsInv, NEW t \in Assets, NEW u \in Accounts, ClaimRewardsForAsset(t, u)
  PROVE  AssetsInv'
<1> DEFINE s == AssetSettled(t, u)
           q == Claimed(s)
           paid == VestedAssetRewards(t, u)
           b == asset_balance[t]
           p == [asset_position[t] EXCEPT ![u] = q]
           i == asset_reward_index[t]
<1>1. Books /\ AssetsKept /\ t \in Tokens /\ Initialized /\ t \in supported_assets
  BY AssetsAreTokens, Zenon DEF AssetsInv, ClaimRewardsForAsset, Active
<1>2. /\ s \in Position /\ s.reward_index = i /\ s.last_reward_timestamp <= timestamp
      /\ PRECISION_FACTOR * s.accrued_rewards <= OwedIn(b, asset_position[t], i)[u]
  BY <1>1, AssetSettledFacts, Zenon
<1>3. config \in Config /\ timestamp \in Nat /\ config.reward_token \in Tokens
        /\ \A r \in Tokens : token_balance[r][Contract] \in Nat
  BY <1>1, SetupFacts DEF Books, TypeOK
<1>4. /\ paid \in Nat /\ q \in Position /\ q.reward_index = i
      /\ q.last_reward_timestamp <= timestamp
      /\ q.accrued_rewards = s.accrued_rewards - paid
  BY <1>2, <1>3, ClaimFacts, Zenon DEF VestedAssetRewards
<1>5. /\ token_balance' \in [Tokens -> [Holders -> Nat]]
      /\ \A r \in Tokens : Supply(token_balance'[r]) = Supply(token_balance[r])
      /\ \A r \in Tokens : r # config.reward_token => token_balance'[r] = token_balance[r]
      /\ token_balance'[config.reward_token][Contract]
           = token_balance[config.reward_token][Contract] - paid
  <2>1. CASE paid > 0
    <3>1. Transfer(config.reward_token, Contract, u, paid)
      BY <2>1, Zenon DEF ClaimRewardsForAsset
    <3> QED
      BY <1>1, <1>3, <1>4, <3>1, TransferOut, Zenon
  <2>2. CASE ~(paid > 0)
    <3>1. token_balance' = token_balance /\ paid = 0
      BY <1>4, <2>2 DEF ClaimRewardsForAsset
    <3> QED
      BY <1>1, <1>3, <3>1 DEF Books, TypeOK
  <2> QED
    BY <2>1, <2>2
<1>6. /\ asset_position' = [asset_position EXCEPT ![t] = p]
      /\ UNCHANGED <<supported_assets, asset_total_deposits, asset_reward_index,
                     asset_balance, baseVars>>
  BY <1>1, Zenon DEF ClaimRewardsForAsset, AssetsKept
<1>7. /\ GoodBook(b, asset_position[t], i)
      /\ asset_total_deposits[t] = Sum(b, NumUsers) /\ asset_total_deposits[t] \in Nat
      /\ b[u] \in Nat /\ b \in [Accounts -> Nat] /\ i \in Nat
      /\ asset_position[t] \in [Accounts -> Position]
      /\ asset_balance \in [Tokens -> [Accounts -> Nat]]
      /\ asset_reward_index \in [Tokens -> Nat]
      /\ asset_total_deposits \in [Tokens -> Nat]
      /\ \A v \in Accounts : asset_position[t][v].last_reward_timestamp <= timestamp
  BY <1>1, Zenon DEF AssetsKept
<1>8. /\ asset_balance' = [asset_balance EXCEPT ![t] = b]
      /\ asset_reward_index' = [asset_reward_index EXCEPT ![t] = i]
      /\ asset_total_deposits' = [asset_total_deposits EXCEPT ![t] = @ + 0]
  BY <1>1, <1>6, <1>7
<1> HIDE DEF s, q, paid

<1>9. [b EXCEPT ![u] = b[u]] = b
  <2> HIDE DEF b
  <2> QED
    BY <1>7, Zenon
<1>10. /\ GoodBook(b, p, i)
       /\ BookOwes(b, p, i) + PRECISION_FACTOR * paid <= BookOwes(b, asset_position[t], i)
  <2>1. PRECISION_FACTOR * s.accrued_rewards = PRECISION_FACTOR * q.accrued_rewards + PRECISION_FACTOR * paid
    <3>1. s.accrued_rewards \in Nat /\ q.accrued_rewards \in Nat
      BY <1>2, <1>4, PositionFields, Zenon
    <3>2. s.accrued_rewards = q.accrued_rewards + paid
      BY <1>4, <3>1
    <3> QED
      BY <1>4, <3>1, <3>2, ScaleAssumption
  <2>2. PRECISION_FACTOR * q.accrued_rewards + PRECISION_FACTOR * paid
          <= OwedIn(b, asset_position[t], i)[u]
    BY <1>2, <2>1
  <2>3. /\ GoodBook([b EXCEPT ![u] = b[u]], p, i)
        /\ BookOwes([b EXCEPT ![u] = b[u]], p, i) + PRECISION_FACTOR * paid
             <= BookOwes(b, asset_position[t], i)
    BY <1>4, <1>7, <2>2, BookUserStep, Zenon
  <2> QED
    BY <1>9, <2>3, Zenon
<1>11. BookOwes(b, p, i) <= TotalAssetOwed(t) + PRECISION_FACTOR * (-paid)
  <2>1. TotalAssetOwed(t) = BookOwes(b, asset_position[t], i) /\ TotalAssetOwed(t) \in Nat
    BY <1>1, AssetOwedNat, Zenon DEF AssetOwedFacts
  <2>2. BookOwes(b, p, i) \in Nat
    BY <1>10, BookNat, Zenon
  <2>3. PRECISION_FACTOR * (-paid) = -(PRECISION_FACTOR * paid) /\ PRECISION_FACTOR * paid \in Nat
    BY <1>4, ScaleAssumption, Product
  <2> HIDE DEF b, p, i
  <2> QED
    BY <1>10, <2>1, <2>2, <2>3
<1>12. \A r \in Tokens :
         token_balance'[r][Contract]
           = token_balance[r][Contract] + (IF r = t THEN 0 ELSE 0)
               + (IF r = config.reward_token THEN -paid ELSE 0)
  BY <1>3, <1>4, <1>5
<1>13. \A v \in Accounts : p[v].last_reward_timestamp <= timestamp
  BY <1>4, <1>7, Zenon
<1>14. Sum(b, NumUsers) = asset_total_deposits[t] + 0
  BY <1>7
<1>15. UNCHANGED baseVars /\ UNCHANGED supported_assets
  BY <1>6, Zenon
<1>16. p \in [Accounts -> Position] /\ 0 \in Int /\ -paid \in Int
  BY <1>4, <1>7
<1> HIDE DEF b, p, i
<1>17. AssetStep(t, b, p, i, 0, -paid)
  BY <1>5, <1>6, <1>8, <1>11, <1>12, <1>13, <1>14, <1>15, Zenon DEF AssetStep
<1> QED
  BY <1>1, <1>7, <1>10, <1>16, <1>17, AssetStepKeeps, Zenon


\* Adding an asset again changes nothing; one that is new has an empty book already.
LEMMA AddAssetKeeps ==
  ASSUME AssetsInv, NEW t \in Assets, AddAsset(t)
  PROVE  /\ AssetsInv' /\ supported_assets' = supported_assets \cup {t}
         /\ UNCHANGED <<asset_total_deposits, asset_reward_index, asset_balance,
                        asset_position, vars>>
<1>1. t \in Tokens /\ Initialized
  BY AssetsAreTokens DEF AddAsset
<1>2. supported_assets' = supported_assets \cup {t} /\ UNCHANGED <<asset_balance, asset_position, vars>>
  BY DEF AddAsset
<1>3. UNCHANGED <<asset_total_deposits, asset_reward_index>>
  <2>1. /\ asset_total_deposits \in [Tokens -> Nat] /\ asset_reward_index \in [Tokens -> Nat]
        /\ t \notin supported_assets => asset_total_deposits[t] = 0 /\ asset_reward_index[t] = 0
    BY <1>1, Zenon DEF AssetsInv, AssetsKept
  <2> QED
    BY <1>1, <2>1, Zenon DEF AddAsset
<1>4. /\ config' = config /\ timestamp' = timestamp /\ token_balance' = token_balance
      /\ total_deposits' = total_deposits /\ liquid_balance' = liquid_balance
      /\ user_locks' = user_locks /\ user_position' = user_position
      /\ reward_index' = reward_index
  BY <1>2 DEF vars, adminVars, fundVars
<1>5. Books'
  BY <1>2, BooksStep, Zenon DEF AssetsInv
<1>6. \A r \in Tokens : TotalAssetOwed(r)' = TotalAssetOwed(r)
  BY <1>2, <1>3, Zenon DEF TotalAssetOwed, AssetOwed
<1>7. AssetsKept'
  <2>1. supported_assets' \subseteq Assets /\ (~Initialized' => supported_assets' = {})
    BY <1>1, <1>2, <1>4, Zenon DEF AssetsInv, AssetsKept, Initialized
  <2>2. ASSUME NEW r \in Tokens
        PROVE  /\ GoodBook(asset_balance'[r], asset_position'[r], asset_reward_index'[r])
               /\ \A u \in Accounts : asset_position'[r][u].last_reward_timestamp <= timestamp'
               /\ asset_total_deposits'[r] = Sum(asset_balance'[r], NumUsers)
               /\ r \notin supported_assets' =>
                    /\ asset_total_deposits'[r] = 0 /\ asset_reward_index'[r] = 0
                    /\ TotalAssetOwed(r)' = 0
    BY <1>2, <1>3, <1>4, <1>6, Zenon DEF AssetsInv, AssetsKept
  <2> QED
    BY <1>2, <1>3, <2>1, <2>2, Zenon DEF AssetsInv, AssetsKept
<1>8. TotalOwed' = TotalOwed /\ AllAssetsOwed' = AllAssetsOwed
  BY <1>2, <1>3, <1>4, Zenon
     DEF TotalOwed, Owed, UserBalance, AllAssetsOwed, TotalAssetOwed, AssetOwed
<1>9. Covered'
  BY <1>3, <1>4, <1>8, Zenon DEF AssetsInv, Covered, Claims, Initialized, NoBoost
<1> QED
  BY <1>2, <1>3, <1>5, <1>7, <1>9, Zenon DEF AssetsInv

\* An operation of the vault moves its own claims as it moves its holdings, and no
\* asset's book.
LEMMA VaultStepKeeps ==
  ASSUME AssetsInv, [Next]_vars, UNCHANGED assetVars
  PROVE  AssetsInv'
<1>1. /\ Books /\ AssetsKept /\ Books'
      /\ Initialized => HoldingsFollow
      /\ ~Initialized => ~Initialized' \/ JustInitialized'
  BY BooksStep DEF AssetsInv
<1>2. UNCHANGED <<supported_assets, asset_total_deposits, asset_reward_index, asset_balance,
                  asset_position>>
  BY Zenon DEF assetVars
<1>3. timestamp \in Nat /\ (timestamp' = timestamp \/ timestamp' = timestamp + 1)
  BY <1>1, ClockStep, Zenon DEF Books, TypeOK, vars
<1>4. Initialized => Initialized'
  BY <1>1, Zenon DEF HoldingsFollow, Initialized
<1>5. \A r \in Tokens : TotalAssetOwed(r)' = TotalAssetOwed(r)
  BY <1>2, Zenon DEF TotalAssetOwed, AssetOwed
<1>6. AllAssetsOwed' = AllAssetsOwed
  BY <1>2, Zenon DEF AllAssetsOwed, TotalAssetOwed, AssetOwed
<1>7. AssetsKept'
  <2>1. ASSUME NEW r \in Tokens, NEW u \in Accounts
        PROVE  asset_position[r][u].last_reward_timestamp <= timestamp'
    <3>1. /\ asset_position[r][u].last_reward_timestamp \in Nat
          /\ asset_position[r][u].last_reward_timestamp <= timestamp
      BY <1>1, PositionFields DEF AssetsKept
    <3> QED
      BY <1>3, <3>1
  <2> QED
    BY <1>1, <1>2, <1>4, <1>5, <2>1, Zenon DEF AssetsKept
<1>8. AssetOwedFacts /\ OwedFacts /\ OwedFacts'
  <2>1. TypeOK /\ PositionsBehind /\ TypeOK' /\ PositionsBehind'
    BY <1>1 DEF Books
  <2> QED
    BY <1>1, <2>1, AssetOwedNat, OwedNat, PTL
<1>9. PRECISION_FACTOR \in Nat
  BY ScaleAssumption, Zenon

<1>10. ASSUME Initialized', NoBoost', ~Initialized, NEW r \in Tokens
       PROVE  PRECISION_FACTOR * token_balance'[r][Contract] >= Claims(r)'
  <2>1. total_deposits' = 0 /\ TotalOwed' = 0 /\ token_balance'[r][Contract] = 0
    BY <1>1, <1>10 DEF JustInitialized
  <2>2. /\ asset_total_deposits'[r] = 0
        /\ \A t \in Assets : [a \in Assets |-> TotalAssetOwed(a)][t] = 0
    BY <1>1, <1>2, <1>10, AssetsAreTokens, Zenon DEF AssetsKept
  <2>3. AllAssetsOwed' = 0
    BY <1>6, <1>8, <2>2, TotalOverZero, Zenon DEF AssetOwedFacts
  <2>4. Claims(r)' = PRECISION_FACTOR * 0
                       + (IF r = config'.deposit_token THEN PRECISION_FACTOR * 0 ELSE 0)
                       + (IF r = config'.reward_token THEN 0 + 0 ELSE 0)
    BY <2>1, <2>2, <2>3, Zenon DEF Claims
  <2>5. PRECISION_FACTOR * 0 = 0
    BY <1>9
  <2>6. Claims(r)' = 0
    BY <2>4, <2>5
  <2> QED
    BY <2>1, <2>5, <2>6
<1>11. ASSUME NoBoost', Initialized, NEW r \in Tokens
       PROVE  PRECISION_FACTOR * token_balance'[r][Contract] >= Claims(r)'
  <2> DEFINE P == PRECISION_FACTOR
             d == config.deposit_token
             w == config.reward_token
             held == token_balance[r][Contract]
             held2 == token_balance'[r][Contract]
             asset == P * asset_total_deposits[r]
  <2>1. HoldingsFollow /\ Initialized'
    BY <1>1, <1>4, <1>11, Zenon
  <2>2. config' = config /\ NoBoost /\ d \in Tokens /\ w \in Tokens /\ d # w
    BY <1>1, <1>11, <2>1, SetupFacts, Zenon DEF HoldingsFollow, NoBoost
  <2>3. P * held >= Claims(r)
    BY <1>11, <2>2, Zenon DEF AssetsInv, Covered
  <2>4. held \in Nat /\ held2 \in Nat /\ total_deposits \in Nat /\ total_deposits' \in Nat
    <3>1. token_balance' \in [Tokens -> [Holders -> Nat]]
      BY <1>1 DEF Books, TypeOK
    <3>2. held2 \in Nat
      BY <3>1, NumUsersAssumption DEF Contract, Holders
    <3>3. held \in Nat
      BY <1>1, <1>11, SetupFacts, Zenon
    <3>4. total_deposits \in Nat /\ total_deposits' \in Nat
      BY <1>1, Zenon DEF Books, TypeOK
    <3> QED
      BY <3>2, <3>3, <3>4, Zenon
  <2>5. asset \in Nat /\ AllAssetsOwed \in Nat /\ TotalOwed \in Nat /\ TotalOwed' \in Nat
    BY <1>1, <1>8, <1>9, Product, Zenon DEF AssetsKept, AssetOwedFacts, OwedFacts
  <2>6. /\ Claims(r) = asset + (IF r = d THEN P * total_deposits ELSE 0)
                         + (IF r = w THEN TotalOwed + AllAssetsOwed ELSE 0)
        /\ Claims(r)' = asset + (IF r = d THEN P * total_deposits' ELSE 0)
                          + (IF r = w THEN TotalOwed' + AllAssetsOwed ELSE 0)
    BY <1>2, <1>6, <2>2, Zenon DEF Claims
  <2>7. CASE r = d
    <3>1. held2 + total_deposits = held + total_deposits'
      BY <2>1, <2>7, Zenon DEF HoldingsFollow
    <3>2. Claims(r) = asset + P * total_deposits /\ Claims(r)' = asset + P * total_deposits'
      <4>1. P * total_deposits \in Nat /\ P * total_deposits' \in Nat
        BY <1>9, <2>4, Product, Zenon
      <4> HIDE DEF P, asset
      <4> QED
        BY <2>2, <2>5, <2>6, <2>7, <4>1
    <3> HIDE DEF P, d, w, held, held2, asset
    <3>3. \A x, y, k, n, e, f \in Nat :
            y + k = x + n /\ e * x >= f + e * k => e * y >= f + e * n
      <4> SUFFICES ASSUME NEW x \in Nat, NEW y \in Nat, NEW k \in Nat, NEW n \in Nat,
                          NEW e \in Nat, NEW f \in Nat, y + k = x + n, e * x >= f + e * k
                   PROVE  e * y >= f + e * n
        OBVIOUS
      <4>1. e * (y + k) = e * y + e * k /\ e * (x + n) = e * x + e * n
        OBVIOUS
      <4>2. e * y \in Nat /\ e * k \in Nat /\ e * x \in Nat /\ e * n \in Nat
        BY Product
      <4> QED
        BY <4>1, <4>2
    <3>4. P \in Nat
      BY <1>9 DEF P
    <3>5. P * held2 >= asset + P * total_deposits'
      BY <2>3, <2>4, <2>5, <3>1, <3>2, <3>3, <3>4, Zenon
    <3> QED
      BY <3>2, <3>5, Zenon DEF P, held2
  <2>8. CASE r = w
    <3>1. TotalOwed' + P * held <= TotalOwed + P * held2
      BY <2>1, <2>2, <2>8, Zenon DEF HoldingsFollow
    <3>2. /\ Claims(r) = asset + (TotalOwed + AllAssetsOwed)
          /\ Claims(r)' = asset + (TotalOwed' + AllAssetsOwed)
      <4> HIDE DEF P, asset
      <4> QED
        BY <2>2, <2>5, <2>6, <2>8
    <3>3. P * held \in Nat /\ P * held2 \in Nat
      BY <1>9, <2>4, Product, Zenon
    <3> HIDE DEF P, d, w, held, held2, asset
    <3>4. \A x, y, k, n, e, f \in Nat :
            n + x <= k + y /\ x >= f + (k + e) => y >= f + (n + e)
      OBVIOUS
    <3>5. P * held >= asset + (TotalOwed + AllAssetsOwed)
      BY <2>3, <3>2, Zenon
    <3>6. P * held2 >= asset + (TotalOwed' + AllAssetsOwed)
      BY <2>5, <3>1, <3>3, <3>4, <3>5, Zenon
    <3> QED
      BY <3>2, <3>6, Zenon DEF P, held2
  <2>9. CASE r # d /\ r # w
    <3>1. held2 = held
      BY <2>1, <2>9, Zenon DEF HoldingsFollow
    <3>2. Claims(r)' = Claims(r)
      BY <2>6, <2>9, Zenon
    <3> QED
      BY <2>3, <3>1, <3>2, Zenon
  <2> QED
    BY <2>7, <2>8, <2>9, Zenon
<1>12. Covered'
  BY <1>10, <1>11, Zenon DEF Covered
<1> QED
  BY <1>1, <1>7, <1>12, Zenon DEF AssetsInv


\* Nothing is stored or owed at deployment.
LEMMA AssetsInitHolds == AssetsInit => AssetsInv
<1> SUFFICES ASSUME AssetsInit PROVE AssetsInv
  OBVIOUS
<1>1. Books /\ ~Initialized
  BY BooksInit, Zenon DEF AssetsInit
<1>2. /\ supported_assets = {} /\ timestamp = 1
      /\ asset_total_deposits = [t \in Tokens |-> 0] /\ asset_reward_index = [t \in Tokens |-> 0]
      /\ asset_balance = [t \in Tokens |-> [u \in Accounts |-> 0]]
      /\ asset_position = [t \in Tokens |-> [u \in Accounts |-> NoPosition]]
  BY Zenon DEF AssetsInit, Init
<1>3. /\ NoPosition \in Position /\ NoPosition.reward_index = 0
      /\ NoPosition.accrued_rewards = 0 /\ NoPosition.last_reward_timestamp = 0
  BY DEF NoPosition, Position
<1>4. Sum([u \in Accounts |-> 0], NumUsers) = 0
  BY NumUsersAssumption, SumZero, Zenon DEF Accounts
<1>5. ASSUME NEW t \in Tokens
      PROVE  /\ GoodBook(asset_balance[t], asset_position[t], asset_reward_index[t])
             /\ \A u \in Accounts : asset_position[t][u].last_reward_timestamp <= timestamp
             /\ asset_total_deposits[t] = 0 /\ asset_reward_index[t] = 0
             /\ asset_total_deposits[t] = Sum(asset_balance[t], NumUsers)
             /\ TotalAssetOwed(t) = 0
  <2>1. /\ asset_balance[t] = [u \in Accounts |-> 0]
        /\ asset_position[t] = [u \in Accounts |-> NoPosition]
        /\ asset_reward_index[t] = 0 /\ asset_total_deposits[t] = 0
    BY <1>2, Zenon
  <2>2. GoodBook(asset_balance[t], asset_position[t], asset_reward_index[t])
    BY <1>3, <2>1 DEF GoodBook
  <2>3. \A u \in Accounts : asset_position[t][u].last_reward_timestamp <= timestamp
    BY <1>2, <1>3, <2>1
  <2>4. \A u \in Accounts : AssetOwed(t, u) = 0
    <3>1. PRECISION_FACTOR * 0 = 0 /\ 0 * (0 - 0) = 0
      BY ScaleAssumption
    <3> QED
      BY <1>3, <2>1, <3>1 DEF AssetOwed
  <2>5. [u \in Accounts |-> AssetOwed(t, u)] = [u \in Accounts |-> 0]
    BY <2>4
  <2> QED
    BY <1>4, <2>1, <2>2, <2>3, <2>5, Zenon DEF TotalAssetOwed
<1>6. AssetsKept
  BY <1>2, <1>3, <1>5, Zenon DEF AssetsKept
<1> QED
  BY <1>1, <1>6 DEF AssetsInv, Covered

\* Every operation keeps the books of the vault and of every asset.
LEMMA AssetsNextKeeps == AssetsInv /\ [AssetsNext]_allVars => AssetsInv'
<1> SUFFICES ASSUME AssetsInv, [AssetsNext]_allVars PROVE AssetsInv'
  OBVIOUS
<1>1. CASE UNCHANGED allVars
  BY <1>1, VaultStepKeeps, Zenon DEF allVars
<1>2. CASE Next /\ UNCHANGED assetVars
  BY <1>2, VaultStepKeeps, Zenon
<1> QED
  BY <1>1, <1>2, AddAssetKeeps, DepositAssetKeeps, WithdrawAssetKeeps, DistributeForAssetKeeps,
     ClaimForAssetKeeps, Zenon
     DEF AssetsNext

\* The invariant of the whole contract holds throughout.
LEMMA AssetsInvariance == AssetsSpec => []AssetsInv
BY AssetsInitHolds, AssetsNextKeeps, PTL DEF AssetsSpec

\* Whatever the assets are, the deposit token and the reward token among them, and
\* however many users there are: every asset's total is the sum of its balances, and
\* the contract holds enough of every token for every claim on it.
THEOREM ClaimsStayCovered == AssetsSpec => []HoldingsCoverClaims
<1>1. AssetsInv => HoldingsCoverClaims
  BY Zenon DEF AssetsInv, AssetsKept, Covered, HoldingsCoverClaims
<1> QED
  BY <1>1, AssetsInvariance, PTL

\* What a user has in an asset can be taken out, and what has vested is there.
LEMMA AssetExitFromInvariant == AssetsInv => AssetExit
<1> SUFFICES ASSUME AssetsInv, Active, NoBoost, SuppliesFit,
                    NEW t \in supported_assets, NEW u \in Accounts
             PROVE  /\ asset_balance[t][u] > 0 => CanWithdrawAsset(t, u, asset_balance[t][u])
                    /\ token_balance[config.reward_token][Contract] >= VestedAssetRewards(t, u)
  BY Zenon DEF AssetExit
<1> DEFINE P == PRECISION_FACTOR
           w == config.reward_token
           balance == asset_balance[t][u]
           total == asset_total_deposits[t]
           gap == asset_reward_index[t] - asset_position[t][u].reward_index
           accrued == AssetSettled(t, u).accrued_rewards
           heldT == token_balance[t][Contract]
           heldW == token_balance[w][Contract]
<1>1. Books /\ AssetsKept /\ Initialized /\ t \in Assets /\ t \in Tokens
  BY AssetsAreTokens, Zenon DEF AssetsInv, AssetsKept, Active
<1>2. w \in Tokens /\ config \in Config /\ timestamp \in Nat
  BY <1>1, SetupFacts, Zenon DEF Books, TypeOK
<1>3. P \in Nat \ {0} /\ I128_MAX \in Nat
  BY ScaleAssumption, Zenon
<1>4. ASSUME NEW r \in Tokens
      PROVE  token_balance[r][Contract] \in Nat /\ P * token_balance[r][Contract] \in Nat
             /\ P * token_balance[r][Contract] <= I128_MAX
  <2>1. /\ token_balance[r][Contract] \in Nat
        /\ Supply(InitialBalances[r]) \in Nat
        /\ token_balance[r][Contract] <= Supply(InitialBalances[r])
    BY <1>1, HeldWithinSupply, Zenon
  <2>2. P * Supply(InitialBalances[r]) <= I128_MAX
    BY Zenon DEF SuppliesFit
  <2>3. P * token_balance[r][Contract] <= P * Supply(InitialBalances[r])
    BY <1>3, <2>1, Product, Zenon
  <2>4. P * token_balance[r][Contract] \in Nat /\ P * Supply(InitialBalances[r]) \in Nat
    BY <1>3, <2>1, Product, Zenon
  <2> QED
    BY <1>3, <2>1, <2>2, <2>3, <2>4
<1>5. /\ balance \in Nat /\ total \in Nat /\ balance <= total
      /\ asset_total_deposits \in [Tokens -> Nat]
  <2>1. /\ asset_balance[t] \in [1..NumUsers -> Nat] /\ u \in 1..NumUsers
        /\ total = Sum(asset_balance[t], NumUsers) /\ total \in Nat
        /\ asset_total_deposits \in [Tokens -> Nat]
    BY <1>1, Zenon DEF AssetsKept, Accounts
  <2>2. \A v \in 1..NumUsers : asset_balance[t][v] <= Sum(asset_balance[t], NumUsers)
    BY <2>1, NumUsersAssumption, SumNat, Zenon
  <2> QED
    BY <2>1, <2>2, Zenon
<1>6. /\ AssetOwedFacts /\ OwedFacts
  BY <1>1, AssetOwedNat, OwedNat, Zenon DEF Books
<1>7. /\ AssetOwed(t, u) \in Nat /\ AssetOwed(t, u) <= AllAssetsOwed
      /\ AllAssetsOwed \in Nat /\ TotalOwed \in Nat
  BY <1>1, <1>6 DEF AssetOwedFacts, OwedFacts
<1>8. total <= heldT /\ AllAssetsOwed <= P * heldW
  <2>1. \A r \in Tokens : P * token_balance[r][Contract] >= Claims(r)
    BY <1>1, Zenon DEF AssetsInv, Covered
  <2>2. \A r \in Tokens : P * asset_total_deposits[r] \in Nat
    BY <1>3, <1>5, Product, Zenon
  <2>3. P * total_deposits \in Nat
    BY <1>1, <1>3, Product, Zenon DEF Books, TypeOK
  <2>4. P * total <= P * heldT
    <3>1. P * heldT >= P * total + (IF t = config.deposit_token THEN P * total_deposits ELSE 0)
                         + (IF t = w THEN TotalOwed + AllAssetsOwed ELSE 0)
      BY <1>1, <2>1, Zenon DEF Claims
    <3>2. P * total \in Nat /\ P * heldT \in Nat
      BY <1>1, <1>4, <2>2, Zenon
    <3> HIDE DEF P, w, total, heldT
    <3> QED
      BY <1>7, <2>3, <3>1, <3>2
  <2>5. AllAssetsOwed <= P * heldW
    <3>1. P * heldW >= P * asset_total_deposits[w]
                         + (IF w = config.deposit_token THEN P * total_deposits ELSE 0)
                         + (TotalOwed + AllAssetsOwed)
      BY <1>2, <2>1, Zenon DEF Claims
    <3>2. P * asset_total_deposits[w] \in Nat /\ P * heldW \in Nat
      BY <1>2, <1>4, <2>2, Zenon
    <3> HIDE DEF P, w, heldW
    <3> QED
      BY <1>7, <2>3, <3>1, <3>2
  <2>6. \A a, b \in Nat : P * a <= P * b => a <= b
    BY <1>3
  <2>7. heldT \in Nat
    BY <1>1, <1>4, Zenon
  <2> QED
    BY <1>5, <2>4, <2>5, <2>6, <2>7, Zenon

<1>9. accrued \in Nat /\ P * accrued <= AssetOwed(t, u) /\ AssetSettled(t, u) \in Position
  BY <1>1, AssetSettledFacts, PositionFields, Zenon
<1>10. /\ balance * gap \in Nat /\ balance * gap <= AssetOwed(t, u)
  <2>1. asset_position[t][u].reward_index \in Nat /\ asset_position[t][u].accrued_rewards \in Nat
    BY <1>1, PositionFields, Zenon DEF AssetsKept
  <2>2. gap \in Nat
    BY <1>1, <2>1 DEF AssetsKept, GoodBook
  <2>3. balance * gap \in Nat /\ P * asset_position[t][u].accrued_rewards \in Nat
    BY <1>3, <1>5, <2>1, <2>2, Product, Zenon
  <2>4. AssetOwed(t, u) = P * asset_position[t][u].accrued_rewards + balance * gap
    BY DEF AssetOwed
  <2> HIDE DEF P, balance, gap
  <2> QED
    BY <2>3, <2>4
<1>11. VestedAssetRewards(t, u) \in Nat /\ VestedAssetRewards(t, u) <= accrued
  BY <1>2, <1>9, ClaimFacts, Zenon DEF VestedAssetRewards
<1>12. /\ heldT \in Nat /\ P * heldT \in Nat /\ P * heldT <= I128_MAX
       /\ heldW \in Nat /\ P * heldW \in Nat /\ P * heldW <= I128_MAX
  BY <1>1, <1>2, <1>4, Zenon
<1>13. accrued = Accrue(asset_position[t][u], balance, asset_reward_index[t]).accrued_rewards
  BY Zenon DEF AssetSettled
<1> HIDE DEF P, w, balance, total, gap, accrued, heldT, heldW
<1>14. P * accrued \in Nat /\ accrued <= P * accrued /\ heldT <= P * heldT
  BY <1>3, <1>9, <1>12
<1>15. balance <= I128_MAX /\ balance <= heldT
  BY <1>3, <1>5, <1>8, <1>12, <1>14
<1>16. balance * gap <= I128_MAX /\ accrued <= I128_MAX
  BY <1>3, <1>7, <1>8, <1>9, <1>10, <1>12, <1>14
<1>17. heldW >= VestedAssetRewards(t, u)
  <2>1. P * accrued <= P * heldW
    BY <1>7, <1>8, <1>9, <1>12, <1>14
  <2>2. \A a, b \in Nat : P * a <= P * b => a <= b
    BY <1>3
  <2>3. accrued <= heldW
    BY <1>9, <1>12, <2>1, <2>2, Zenon
  <2> QED
    BY <1>9, <1>11, <1>12, <2>3
<1>18. AssetSettlementFits(t, u)
  BY <1>13, <1>15, <1>16, Zenon DEF AssetSettlementFits, AccrualFits, Fits, balance, gap
<1>19. CanWithdrawAsset(t, u, balance) \/ ~(balance > 0)
  BY <1>5, <1>15, <1>18 DEF CanWithdrawAsset, balance, heldT
<1> QED
  BY <1>17, <1>19, Zenon DEF balance, heldW, w

\* What a user has in an asset can always be taken out of an unpaused contract.
THEOREM AssetExitGuaranteed == AssetsSpec => []AssetExit
BY AssetsInvariance, AssetExitFromInvariant, PTL


\* What u has pending in asset t is unchanged, has grown with the index of t, or has
\* been paid out to u.
AssetAccounted(t, u) ==
  /\ PendingAssetRewards(t, u)' > PendingAssetRewards(t, u) =>
       asset_reward_index'[t] > asset_reward_index[t]
  /\ PendingAssetRewards(t, u)' < PendingAssetRewards(t, u) =>
       token_balance'[config.reward_token][u]
         = token_balance[config.reward_token][u]
             + PendingAssetRewards(t, u) - PendingAssetRewards(t, u)'

\* What a position pays when it is settled at an index.
Pays(p, balance, index) == p.accrued_rewards + NewRewards(p, balance, index)

\* This is what settling credits, and what a user has pending in an asset, before a
\* step and after it.
LEMMA PendingIs ==
  ASSUME NEW t \in Tokens, NEW u \in Accounts
  PROVE  /\ PendingAssetRewards(t, u)
              = Pays(asset_position[t][u], asset_balance[t][u], asset_reward_index[t])
         /\ PendingAssetRewards(t, u)'
              = Pays(asset_position'[t][u], asset_balance'[t][u], asset_reward_index'[t])
         /\ \A p \in Position, balance, index \in Nat :
              Accrue(p, balance, index).accrued_rewards = Pays(p, balance, index)
BY Zenon DEF PendingAssetRewards, AssetSettled, Accrue, Pays, NewRewards

\* One step of the contract accounts for every user's rewards in every asset.
LEMMA AssetPendingStep ==
  ASSUME AssetsInv, AssetsInv', AssetsNext, NEW t \in Tokens, NEW u \in Accounts
  PROVE  AssetAccounted(t, u)
<1>1. /\ asset_balance \in [Tokens -> [Accounts -> Nat]]
      /\ asset_position \in [Tokens -> [Accounts -> Position]]
      /\ asset_reward_index \in [Tokens -> Nat]
      /\ asset_balance[t][u] \in Nat /\ asset_reward_index[t] \in Nat
      /\ asset_position[t][u] \in Position
      /\ asset_position[t][u].reward_index <= asset_reward_index[t]
      /\ Books /\ AssetsKept
  BY Zenon DEF AssetsInv, AssetsKept, GoodBook
<1>2. PendingAssetRewards(t, u) \in Nat
  BY <1>1, AssetSettledFacts, PositionFields, Zenon DEF PendingAssetRewards
<1>3. PendingAssetRewards(t, u)' = PendingAssetRewards(t, u) => AssetAccounted(t, u)
  BY <1>2 DEF AssetAccounted
\* A step that leaves u's entries in t, and the index of t, alone.
<1>4. ASSUME asset_position'[t][u] = asset_position[t][u],
             asset_balance'[t][u] = asset_balance[t][u],
             asset_reward_index'[t] = asset_reward_index[t]
      PROVE  AssetAccounted(t, u)
  BY <1>3, <1>4, PendingIs
\* A step that settles u in t.
<1>5. ASSUME asset_position'[t][u] = AssetSettled(t, u), asset_balance'[t][u] \in Nat,
             asset_reward_index'[t] = asset_reward_index[t]
      PROVE  AssetAccounted(t, u)
  <2>1. AssetSettled(t, u) \in Position /\ AssetSettled(t, u).reward_index = asset_reward_index[t]
    BY <1>1, AssetSettledFacts, Zenon
  <2>2. Accrue(AssetSettled(t, u), asset_balance'[t][u], asset_reward_index[t]).accrued_rewards
          = AssetSettled(t, u).accrued_rewards
    BY <1>1, <1>5, <2>1, SettledIsPending, Zenon
  <2>3. PendingAssetRewards(t, u)'
          = Accrue(AssetSettled(t, u), asset_balance'[t][u], asset_reward_index[t]).accrued_rewards
    <3>1. PendingAssetRewards(t, u)'
            = Pays(asset_position'[t][u], asset_balance'[t][u], asset_reward_index'[t])
      BY PendingIs
    <3>2. Accrue(AssetSettled(t, u), asset_balance'[t][u], asset_reward_index[t]).accrued_rewards
            = Pays(AssetSettled(t, u), asset_balance'[t][u], asset_reward_index[t])
      BY <1>1, <1>5, <2>1, PendingIs, Zenon
    <3> QED
      BY <1>5, <3>1, <3>2, Zenon
  <2> QED
    BY <1>3, <2>2, <2>3, Zenon DEF PendingAssetRewards
<1>6. ASSUME UNCHANGED <<asset_balance, asset_position, asset_reward_index>>
      PROVE  AssetAccounted(t, u)
  BY <1>4, <1>6, Zenon
<1>7. ASSUME NEW r \in Assets, NEW v \in Accounts, NEW amount \in Int, MoveAsset(r, v, amount)
      PROVE  AssetAccounted(t, u)
  <2>1. /\ asset_position' = [asset_position EXCEPT ![r][v] = AssetSettled(r, v)]
        /\ asset_balance' = [asset_balance EXCEPT ![r][v] = @ + amount]
        /\ asset_reward_index' = asset_reward_index
    BY <1>7, Zenon DEF MoveAsset
  <2>2. CASE t = r /\ u = v
    <3>1. asset_position'[t][u] = AssetSettled(t, u)
      BY <1>1, <2>1, <2>2, Zenon
    <3>2. asset_balance'[t][u] \in Nat
      BY DEF AssetsInv, AssetsKept
    <3> QED
      BY <1>5, <2>1, <3>1, <3>2, Zenon
  <2>3. CASE ~(t = r /\ u = v)
    <3>1. asset_position'[t][u] = asset_position[t][u] /\ asset_balance'[t][u] = asset_balance[t][u]
      BY <1>1, <2>1, <2>3, Zenon
    <3> QED
      BY <1>4, <2>1, <3>1, Zenon
  <2> QED
    BY <2>2, <2>3, Zenon
<1>8. ASSUME NEW r \in Assets, NEW v \in Accounts, NEW amount \in Amounts,
             DepositAsset(r, v, amount) \/ WithdrawAsset(r, v, amount)
      PROVE  AssetAccounted(t, u)
  <2>1. amount \in Int /\ -amount \in Int
    BY InputAssumption
  <2> QED
    BY <1>7, <1>8, <2>1, Zenon DEF DepositAsset, WithdrawAsset
<1>9. ASSUME NEW r \in Assets, NEW amount \in RewardAmounts, DistributeRewardsForAsset(r, amount)
      PROVE  AssetAccounted(t, u)
  <2> DEFINE inc == IndexIncrement(amount, asset_total_deposits[r])
  <2>1. /\ asset_position' = asset_position /\ asset_balance' = asset_balance
        /\ asset_reward_index' = [asset_reward_index EXCEPT ![r] = @ + inc]
        /\ asset_total_deposits[r] > 0 /\ inc > 0 /\ amount \in Nat
    BY <1>9, InputAssumption DEF DistributeRewardsForAsset, IncrementFits
  <2>2. CASE t # r
    BY <1>1, <1>4, <2>1, <2>2, Zenon
  <2>3. CASE t = r
    <3>1. inc \in Nat
      <4>1. amount * PRECISION_FACTOR \in Nat /\ asset_total_deposits[r] \in Nat \ {0}
        BY <1>1, <2>1, <2>3, ScaleAssumption, Product DEF AssetsKept
      <4> QED
        BY <4>1, Division, Zenon DEF IndexIncrement
    <3>2. asset_reward_index'[t] = asset_reward_index[t] + inc
      BY <1>1, <2>1, <2>3, Zenon
    <3> HIDE DEF inc
    <3>3. asset_reward_index'[t] \in Nat /\ asset_reward_index'[t] > asset_reward_index[t]
      BY <1>1, <2>1, <3>1, <3>2
    <3>4. PendingAssetRewards(t, u)'
            = Accrue(asset_position[t][u], asset_balance[t][u], asset_reward_index'[t]).accrued_rewards
      BY <1>1, <2>1, <3>3, PendingIs
    <3>5. Accrue(asset_position[t][u], asset_balance[t][u], asset_reward_index'[t]).accrued_rewards
            >= PendingAssetRewards(t, u)
      BY <1>1, <3>3, PendingGrows DEF PendingAssetRewards, AssetSettled
    <3>6. Accrue(asset_position[t][u], asset_balance[t][u], asset_reward_index'[t]).accrued_rewards \in Nat
      <4>1. asset_position[t][u].reward_index \in Nat
        BY <1>1, PositionFields, Zenon
      <4>2. asset_position[t][u].reward_index <= asset_reward_index'[t]
        BY <1>1, <3>3, <4>1
      <4> QED
        BY <1>1, <3>3, <4>2, AccruedNat, Zenon
    <3>7. PendingAssetRewards(t, u)' \in Nat /\ PendingAssetRewards(t, u)' >= PendingAssetRewards(t, u)
      BY <3>4, <3>5, <3>6, Zenon
    <3>8. ~(PendingAssetRewards(t, u)' < PendingAssetRewards(t, u))
      BY <1>2, <3>7
    <3> QED
      BY <3>3, <3>8, Zenon DEF AssetAccounted
  <2> QED
    BY <2>2, <2>3, Zenon

<1>10. ASSUME NEW r \in Assets, NEW v \in Accounts, ClaimRewardsForAsset(r, v)
       PROVE  AssetAccounted(t, u)
  <2>1. /\ asset_position' = [asset_position EXCEPT ![r][v] = Claimed(AssetSettled(r, v))]
        /\ asset_balance' = asset_balance /\ asset_reward_index' = asset_reward_index
        /\ Initialized
    BY <1>10, Zenon DEF ClaimRewardsForAsset, Active
  <2>2. CASE ~(t = r /\ u = v)
    <3>1. asset_position'[t][u] = asset_position[t][u]
      BY <1>1, <2>1, <2>2, Zenon
    <3> QED
      BY <1>4, <2>1, <3>1, Zenon
  <2>3. CASE t = r /\ u = v
    <3> DEFINE q == AssetSettled(t, u)
               paid == VestedAssetRewards(t, u)
    <3>1. q \in Position /\ q.reward_index = asset_reward_index[t]
      BY <1>1, AssetSettledFacts, Zenon
    <3>2. config \in Config /\ timestamp \in Nat /\ config.reward_token \in Tokens
            /\ token_balance[config.reward_token][u] \in Nat
      BY <1>1, <2>1, SetupFacts, Zenon DEF Books, TypeOK
    <3>3. /\ Claimed(q) \in Position /\ Claimed(q).reward_index = asset_reward_index[t]
          /\ Claimed(q).accrued_rewards = q.accrued_rewards - paid /\ paid \in Nat
      BY <3>1, <3>2, ClaimFacts, Zenon DEF VestedAssetRewards
    <3>4. Accrue(Claimed(q), asset_balance[t][u], asset_reward_index[t]).accrued_rewards
            = Claimed(q).accrued_rewards
      BY <1>1, <3>3, SettledIsPending, Zenon
    <3>5. PendingAssetRewards(t, u)'
            = Accrue(Claimed(q), asset_balance[t][u], asset_reward_index[t]).accrued_rewards
      <4>1. asset_position'[t][u] = Claimed(q)
        BY <1>1, <2>1, <2>3, Zenon
      <4> HIDE DEF q
      <4> QED
        BY <1>1, <2>1, <3>3, <4>1, PendingIs
    <3>6. PendingAssetRewards(t, u)' = PendingAssetRewards(t, u) - paid
      BY <3>3, <3>4, <3>5, Zenon DEF PendingAssetRewards
    <3> HIDE DEF q, paid
    <3>7. CASE paid > 0
      <4>1. Transfer(config.reward_token, Contract, u, paid)
        BY <1>10, <2>3, <3>7, Zenon DEF ClaimRewardsForAsset, paid
      <4>2. token_balance'[config.reward_token][u] = token_balance[config.reward_token][u] + paid
        BY <1>1, <2>1, <3>2, <3>3, <4>1, TransferOut, Zenon
      <4>3. \A a, b, c, d \in Int : d = b - c => a + d = a + b - c
        BY Zenon
      <4>4. PendingAssetRewards(t, u)' \in Int /\ paid \in Int
        BY <1>2, <3>3, <3>6
      <4>5. PendingAssetRewards(t, u) \in Int /\ token_balance[config.reward_token][u] \in Int
        BY <1>2, <3>2
      <4>6. /\ ~(PendingAssetRewards(t, u)' > PendingAssetRewards(t, u))
            /\ paid = PendingAssetRewards(t, u) - PendingAssetRewards(t, u)'
        BY <3>6, <3>7, <4>4, <4>5
      <4>7. token_balance'[config.reward_token][u]
              = token_balance[config.reward_token][u]
                  + PendingAssetRewards(t, u) - PendingAssetRewards(t, u)'
        BY <4>2, <4>3, <4>4, <4>5, <4>6, Zenon
      <4> QED
        BY <4>6, <4>7, Zenon DEF AssetAccounted
    <3>8. CASE paid = 0
      BY <1>2, <1>3, <3>6, <3>8
    <3> QED
      BY <3>3, <3>7, <3>8
  <2> QED
    BY <2>2, <2>3, Zenon
<1>11. ASSUME NEW r \in Assets, AddAsset(r) PROVE AssetAccounted(t, u)
  BY <1>6, <1>11, AddAssetKeeps, Zenon
<1>12. CASE Next /\ UNCHANGED assetVars
  BY <1>6, <1>12, Zenon DEF assetVars
<1> QED
  BY <1>8, <1>9, <1>10, <1>11, <1>12, Zenon DEF AssetsNext

\* Rewards in an asset are earned only by distributions to that asset, and lost only
\* by being paid out, for every set of assets and users and every sequence of
\* operations on the vault and on the assets.
THEOREM AssetRewardsAreAccountedFor == AssetsSpec => AssetRewardAccounting
<1>1. AssetsInv /\ AssetsInv' /\ [AssetsNext]_allVars
        => [\A t \in Tokens, u \in Accounts : AssetAccounted(t, u)]_allVars
  BY AssetPendingStep
<1>2. [\A t \in Tokens, u \in Accounts : AssetAccounted(t, u)]_allVars
        <=> [\A t \in Tokens, u \in Accounts :
               /\ PendingAssetRewards(t, u)' > PendingAssetRewards(t, u) =>
                    asset_reward_index'[t] > asset_reward_index[t]
               /\ PendingAssetRewards(t, u)' < PendingAssetRewards(t, u) =>
                    token_balance'[config.reward_token][u]
                      = token_balance[config.reward_token][u]
                          + PendingAssetRewards(t, u) - PendingAssetRewards(t, u)']_allVars
  BY Zenon DEF AssetAccounted
<1> QED
  BY <1>1, <1>2, AssetsInvariance, PTL DEF AssetsSpec, AssetRewardAccounting
=============================================================================
