SPECIFICATION AnchoringSpec
CONSTANTS
  a = a  s1 = s1  d1 = d1  x = x  y = y
  NoSignature = NoSignature
  JsonNum <- RoundTrip
  MIN_PEGIN_AMOUNT = 2
  MAX_PEGIN_AMOUNT = 5
  BRIDGE_FEE = 1
  MIN_CONFIRMATIONS_PEGIN = 2
  MIN_CONFIRMATIONS_PEGOUT = 1
  W = 64
  Exact = 10
  Signers = {s1}
  Sources = {a}
  Dests = {d1}
  Anchors = {"h1"}
  Outpoints = {}
  OutpointAmount <- NoOutpoints
  Amounts = {3}
  FEDERATION_SIZE = 1
  FEDERATION_THRESHOLD = 1
  RepMax = 2
  RepPenalty = 1
  MissedLimit = 2
  BatchOutcomes = {TRUE}
  MaxClock = 1
  MaxMissed = 0
  MaxMinted = 0
  MaxBtcHeight = 0
  Hashes = {x, y}
  Heights = {1}
  ConfirmationThreshold = 1
  ConfirmationCounts = {1}
  KeepCounts = {1}
  OneThread = TRUE
  NoUpdate = NoUpdate
  MaxEvents = 1
PROPERTY NotFinalizedOnInvalidAnchor
