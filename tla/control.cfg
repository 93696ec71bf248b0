SPECIFICATION ControlSpec
CONSTANTS
  a1 = a1  a2 = a2  x = x  y = y
  Hashes = {x, y}
  Heights = {1, 2}
  AnchorHashes = {a1, a2}
  ConfirmationThreshold = 2
  ConfirmationCounts = {2}
  KeepCounts = {1}
  OneThread = TRUE
  NoUpdate = NoUpdate
  MaxEvents = 2
  Headers <- MCHeaders
  SyncTxs = {"t1"}
  MaxBuffer = 2
  MaxSynced = 4
  ClusterSize = 3
  Schedules <- MCSchedules
  InitialNodes <- MCNodes
  MaxCycles = 2
  Readings <- MCReadings
  Quorums <- MCQuorums
  MinQuorum = 3
  d1 = d1  d2 = d2
  Compartments = {d1, d2}
  SystemCompartments <- MCSystem
  MaxEntries = 2
  Hysteresis = 3
  MaxBlocks = 12
  SnapshotHeights <- MCHeights
  Bundles <- MCBundles
  EpochLength = 2
  MaxReplay = 1
  MaxBatch = 3
  MetricsWindow = 2
  TemporalWindow = 2
  Environments <- MCEnvironments
  NoEpoch = NoEpoch
  Instructions <- MCInstructions
  InitialStacks <- MCStacks
  MaxScript = 6
  AuditQueueLimit = 1
  AuditFileLimit = 1
  MaxAuditTicks = 5
  MaxAuditFaults = 2
SYMMETRY HashSymmetry
CHECK_DEADLOCK FALSE
INVARIANTS
  ControlTypeOK
  
  HeadersSound
  CycleSound
  GovernanceSound
  LowEnergyEscalates
  ReplaySound
  RunsAsNested
  AuditSound

  
