SPECIFICATION AllSpec
CONSTANTS
  NumRequests = 2
  HttpPolls = 2
  DbPolls = 1
  MaxLeaks = 1
  Keys = {k1}
  NumCallers = 3
  Limit = 1
  MaxMinute = 1
  MaxCalls = 5
  Components = {"http_server"}
  NumHandlers = 2
  BreakerThreshold = 2
  BreakerTimeout = 1
  MaxRecent = 2
  MaxErrors = 5
  MaxSuccesses = 5
  MaxClock = 3
  p1 = p1
  ProposalIds <- OneProposal
  Nodes = 2
  NumTasks = 2
  RequiredVotes = 3
  Ttl = 1
  MaxTime = 2
  w1 = w1
  w2 = w2
  NumSignatures = 5
  Workers <- TwoWorkers
  BatchSize = 2
  ValidRequests = {1, 3, 4}
INVARIANTS
  DrainedMeansQuiet
  ClientAuthAsConfigured
  RateLimitHolds
  BreakerAccounts
  VotesBackCounts
  DuplicatesBounded
  VerifiedOnce
  PendingIsAllButWorked
PROPERTIES
  ExitsAfterSignal
  ExpiredVotesDrain
  OperationsReturn
  QueuedIsVerified
  BatchAnswersCaller
