SPECIFICATION Spec
CONSTANTS
  Fields = {"fee", "size"}
  Values = {0, 1, 2}
  Names = {"", "key", "op"}
  Nobody = ""
  Configs <- MCConfigs
  MinDelay = 1
  MaxHeight = 2
  Addresses <- MCAddresses
  Patches <- MCPatches
  MaxProposals = 1
  MaxUpgrades = 2
  VotingDuration = 1
  VoterLists <- MCVoterLists
  Metadata <- MCMetadata
  GrantedRoles = {"Operator"}
INVARIANTS
  HistoryExplainsParameters
  UpgradesAccountedFor
PROPERTIES
  ScheduleSpec
  DecidedIsFinal
