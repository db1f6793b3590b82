SPECIFICATION FinalizingSpec
CONSTANTS
  p1 = p1
  ProposalIds <- OneProposal
  Nodes = 2
  NumTasks = 2
  RequiredVotes = 2
  Ttl = 1
  MaxTime = 2
CHECK_DEADLOCK FALSE
PROPERTIES
  QuorumDecides
