SPECIFICATION WorkersSpec
CONSTANTS
  t1 = t1  t2 = t2  t3 = t3
  TxHashes = {t1, t2, t3}
  Validity = {TRUE, FALSE}
  MaxTransactionsPerBlock = 2
  CommitmentInterval = 2
  KeepConfirmed = 2
  MaxSubmissions = 4
  k1 = k1  k2 = k2
  Tasks = {k1, k2}
  Rank <- MCRank
  MaxConcurrentTasks = 1
  Outcomes = {"success", "failure", "none"}
  MaxSent = 3
  e1 = e1  e2 = e2  p1 = p1
  EngineWorkers = {1, 2}
  EngineTasks = {e1, e2}
  PriorityOf <- MCPriorityOf
  Nodes = {p1}
  Viable <- MCViable
  MaxTasks = 2
  MaxEngineStarts = 2
  MaxInits = 2
  MaxTip = 2
  MaxOutages = 1
  g1 = g1  g2 = g2
  Settlements = {g1, g2}
  Wallet <- MCWallet
  Owed = 2
  MaxAttempts = 2
  MaxExecutes = 2
  NoSettlement = NoSettlement
CHECK_DEADLOCK FALSE
INVARIANTS
  WorkersTypeOK
  ProducerSound
  StatusHonest
  
  EngineAccounts
  AdapterSound
PROPERTIES
  ImplementsFifo
  
  
