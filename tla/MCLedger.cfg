SPECIFICATION LedgerSpec
CONSTANTS
  n1 = n1
  n2 = n2
  alice = alice
  bob = bob
  Addresses <- MCAddresses
  Nodes <- MCNodes
  Validators <- MCValidators
  Power <- MCPower
  Transactions <- MCTransactions
  FundingRequests <- MCFundingRequests
  Funded <- MCFunded
  MaxUint = 4
  Queued <- MCQueued
  NoHash = NoHash
  None = None
  HistoryLimit = 1
  Started = {}
  Times <- MCTimes
  MaxTransactionsPerBlock = 2
  RequireCertificates = FALSE
  MaxHeight = 2
  MaxFaults = 1
  Syncing = {n1, n2}
  Producers = {n1, n2}
INVARIANTS
  AccountsReplay
  AckedSurvives
  StuckPoolHasReason
CHECK_DEADLOCK FALSE
