SPECIFICATION Spec
CONSTANTS
  a1 = a1  x = x  y = y  z = z
  Hashes = {x, y, z}
  Heights = {1, 2, 3}
  AnchorHashes = {a1}
  ConfirmationThreshold = 2
  ConfirmationCounts = {2}
  KeepCounts = {1}
  OneThread = TRUE
  NoUpdate = NoUpdate
  MaxEvents = 2
  MaxRestarts = 0
INVARIANT ReorgDetected
CHECK_DEADLOCK FALSE
