SPECIFICATION SequentialSpec
CONSTANTS
  SnapshotHeights <- MCHeights
  Bundles <- MCBundles
  EpochLength = 1
  MaxReplay = 4
  MaxBatch = 3
  MetricsWindow = 2
  TemporalWindow = 2
  Environments <- MCEnvironments
  NoEpoch = NoEpoch
CHECK_DEADLOCK FALSE
INVARIANTS
  ReplayInOrder
