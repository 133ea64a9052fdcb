SPECIFICATION RoundSpec
CONSTANTS
  n1 = n1
  n2 = n2
  alice = alice
  bob = bob
  Addresses <- MCAddresses
  Nodes <- MCNodes
  Validators <- MCValidators
  Power <- MCPower
  Transactions = {}
  FundingRequests = {}
  Funded <- MCFunded
  Queued <- MCQueued
  MaxUint = 4
  NoHash = NoHash
  None = None
  HistoryLimit = 1
  Started = {n1, n2}
  Times <- MCTimes
  MaxTransactionsPerBlock = 2
  Producers = {n1, n2}
  RequireCertificates = TRUE
  MaxHeight = 1
  MaxFaults = 1
  MaxElections = 1
  Syncing = {n1, n2}
  MaxRound <- MCMaxRound
INVARIANTS
  VotesOnce
  CommitHasQuorum
  OwnWorkLogged
CHECK_DEADLOCK FALSE
