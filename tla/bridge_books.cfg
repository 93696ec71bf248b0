SPECIFICATION Spec
CONSTANTS
  a = a  o1 = o1  o2 = o2  s1 = s1  s2 = s2  d1 = d1  d2 = d2
  NoSignature = NoSignature
  JsonNum <- RoundTrip
  MIN_PEGIN_AMOUNT = 2
  MAX_PEGIN_AMOUNT = 5
  BRIDGE_FEE = 1
  MIN_CONFIRMATIONS_PEGIN = 2
  MIN_CONFIRMATIONS_PEGOUT = 1
  W = 64
  Exact = 10
  Signers = {s1}
  Sources = {a}
  Dests = {d1}
  Anchors = {"h1"}
  Outpoints = {o1, o2}
  OutpointAmount <- TwoOutpoints
  Amounts = {3}
  FEDERATION_SIZE = 1
  FEDERATION_THRESHOLD = 1
  RepMax = 2
  RepPenalty = 1
  MissedLimit = 2
  BatchOutcomes = {TRUE}
  MaxClock = 2
  MaxMissed = 0
  MaxMinted = 4
  MaxBtcHeight = 2
INVARIANTS
  BooksBalance

  
