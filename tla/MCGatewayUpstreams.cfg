SPECIFICATION UpstreamSpec
CONSTANTS
    p1 = p1  p2 = p2  r1 = r1  r2 = r2
    Providers = {p1, p2}
    Order <- TwoModels
    Lanes = {r1, r2}
    KindsOn <- Mixed
    FailureThreshold = 1
    SuccessThreshold = 2
    HalfOpenMaxRequests = 1
    MaxAttempts = 2
    MaxStreamReconnects = 1
    MaxChunks = 1
    Leavers = {r1}
INVARIANTS
  OneSource
  NoLeakedSlot
PROPERTIES
  TransientOnly
  PaidIsWhole
