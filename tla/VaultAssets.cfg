SPECIFICATION AssetsSpec
CONSTANTS
  D = D
  R = R
  NumUsers = 2
  Tokens <- TokenSet
  InitialBalances <- AssetsInitial
  Admins = {2}
  ConfigArgs <- AssetsConfigs
  AssetList <- TokenList
  Amounts = {1, 2}
  RewardAmounts = {1, 2}
  Durations = {}
  Limits = {1}
  PRECISION_FACTOR = 2
  BASIS_POINTS = 2
  MIN_REWARD_DISTRIBUTION = 2
  WITHDRAW_UNLOCK_LIMIT = 1
  MAX_UNLOCK_LIMIT = 2
  I128_MAX = 8
  U64_MAX = 1000
  U32_SIZE = 100
  NoConfig = NoConfig
  NoAdmin = NoAdmin
  MaxTime = 2
  MaxLocks = 0
INVARIANTS
  HoldingsCoverClaims
  AssetExit
PROPERTIES
  AssetRewardAccounting
