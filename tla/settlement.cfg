SPECIFICATION SettlementSpec
CONSTANTS
  alice = alice  bob = bob  s1 = s1  s2 = s2
  Parties = {alice, bob}
  Secrets = {s1, s2}
  Durations = {0, 1, 2}
  MaxClock = 2
  MaxSwaps = 2
  j1 = j1  j2 = j2
  JobIds = {j1, j2}
  ProverKeys = {1, 2}
  NoProver = NoProver
  Latencies <- MCLatencies
  Scale = 20
  Alpha = 1
  Beta = 2
  Timeout = 1
  StartTime = 13
  MaxTime = 16
  MaxRetries = 2
  Exact = 10
  WriteOutcomes = {TRUE, FALSE}
  u1 = u1  l1 = l1  c1 = c1  c2 = c2  b1 = b1
  Users = {u1}
  Locations = {l1}
  Coins = {c1, c2}
  WeightOf <- MCWeightOf
  Amounts = {1}
  BurnOptions = {TRUE}
  BtcTxs = {b1}
  BtcPrice = 30
  GoldPrice = 2
  MaxGoldTime = 1
  MaxOwned = 2
  GoldWrites = {TRUE, FALSE}
  w1 = w1  w2 = w2  a1 = a1  a2 = a2  x1 = x1
  LedgerThreads = {w1, w2}
  Peers = {a1, a2}
  EscrowTasks = {x1}
  LedgerAmounts = {1, 2}
  MaxBalance = 3
  MaxFunded = 4
  SnapshotRecords = 2
  MaxSnapshots = 3
INVARIANTS
  SettlementTypeOK
  LegSettledOnce
  OpenJobsQueued
  
  
  SnapshotsSurvive
PROPERTIES
  BannedForever
  PaidOnce
