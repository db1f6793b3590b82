SPECIFICATION CustodySpec
CONSTANTS
  D = D
  R = R
  NumUsers = 2
  Tokens <- TokenSet
  InitialBalances <- FundsInitial
  Admins = {1, 2}
  ConfigArgs <- FundsConfigs
  Amounts = {0, 1, 2}
  RewardAmounts = {}
  Durations = {0, 1, 2}
  Limits = {0, 1, 2, 3}
  PRECISION_FACTOR = 2
  BASIS_POINTS = 2
  MIN_REWARD_DISTRIBUTION = 2
  WITHDRAW_UNLOCK_LIMIT = 1
  MAX_UNLOCK_LIMIT = 2
  I128_MAX = 1000
  U64_MAX = 1000
  U32_SIZE = 100
  NoConfig = NoConfig
  NoAdmin = NoAdmin
  MaxTime = 4
  MaxLocks = 2
  file = file
  remote = remote
  NoKey = NoKey
  KeyIds <- TwoKeys
  Setups <- KeySetups
  NumClients = 2
  TtlSeconds = 1
  MaxRetries = 2
  MaxKey = 2
  MaxSeconds = 2
INVARIANTS
  TypeOK
  DepositsBacked
  InvalidationHolds
  DefaultIsRegistered
PROPERTIES
  LocksHonoured
  CallsReturn
