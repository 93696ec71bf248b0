SPECIFICATION GatewaySpec
CONSTANTS
  q1 = q1  h1 = h1
  RpcCallers = {q1}
  HealthThreads = {h1}
  LastEndpoint = 2
  BreakerThreshold = 2
  BreakerTimeout = 1
  GoodRequests = {TRUE, FALSE}
  MaxNow = 2
  MaxFlips = 2
  i1 = i1  i2 = i2  i3 = i3
  Requests = {i1, i2, i3}
  HashOf <- MCHash
  Refused = {2}
  MaxTroubles = 2
  g1 = g1  g2 = g2  v1 = v1  tp = tp  m1 = m1  m2 = m2  m3 = m3
  GateThreads = {g1, g2}
  Senders = {v1}
  Topics = {tp}
  Payloads = {m1, m2, m3}
  BaseLimit <- MCBaseLimit
  WindowSize = 2
  KeepHashes = 2
  MaxMessages = 4
  MaxSignals = 2
  MaxRequests = 1
CHECK_DEADLOCK FALSE
INVARIANTS
  GatewayTypeOK
  
  SubmissionSound
  
  NodeSound

  
