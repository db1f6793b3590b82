SPECIFICATION Spec
CONSTANTS
  D = D
  R = R
  NumUsers = 1
  Tokens <- TokenSet
  InitialBalances <- ExpiryInitial
  Admins = {1}
  ConfigArgs <- FundsConfigs
  Amounts = {1, 6}
  RewardAmounts = {}
  Durations = {1}
  Limits = {6}
  PRECISION_FACTOR = 2
  BASIS_POINTS = 2
  MIN_REWARD_DISTRIBUTION = 2
  WITHDRAW_UNLOCK_LIMIT = 5
  MAX_UNLOCK_LIMIT = 50
  I128_MAX = 1000
  U64_MAX = 1000
  U32_SIZE = 100
  NoConfig = NoConfig
  NoAdmin = NoAdmin
  MaxTime = 2
  MaxLocks = 6
INVARIANT
  ExpiredLocksWithdrawable
