\* What the README (section 6) reports: each of these properties ends in a
\* counterexample. One is active; for another one put its name in the last
\* line, as INVARIANT or as PROPERTY, and change the constants named here.
\*   PROPERTY  FailsOver
\*   PROPERTY  ReopensAtOnce
\*   INVARIANT StallIsUpstream
\*   INVARIANT ProbesBounded: FailureThreshold = 1
\* The liveness property AdmitsAgain holds: SPECIFICATION FairUpstreamSpec,
\* PROPERTY AdmitsAgain, Providers = {p1}, Order <- OneModel, KindsOn <- Whole,
\* FailureThreshold = 1.
SPECIFICATION UpstreamSpec
CONSTANTS
    p1 = p1  p2 = p2  r1 = r1  r2 = r2
    Providers = {p1, p2}
    Order <- TwoModels
    Lanes = {r1, r2}
    KindsOn <- Mixed
    FailureThreshold = 2
    SuccessThreshold = 2
    HalfOpenMaxRequests = 1
    MaxAttempts = 2
    MaxStreamReconnects = 1
    MaxChunks = 1
    Leavers = {r1}
PROPERTY FailsOver
