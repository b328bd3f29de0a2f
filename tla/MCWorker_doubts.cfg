\* What the README (section 6) reports: each of these properties ends in a
\* counterexample. One is active; for another one put its name in the last
\* line, as INVARIANT or as PROPERTY, and change the constants named here.
\*   INVARIANT StopLeavesNone
\*   INVARIANT NotRevived
\*   INVARIANT ProbesInFlight
\*   INVARIANT NoOrphan: MaxFaults = 2, MaxStarts = 3, SPECIFICATION RunningSpec
\*   PROPERTY QueuedIsResumed: SPECIFICATION UntimedSpec
\* Under the same specification, with Stop at any moment, LeaseExclusive,
\* OneCallPerWorker and RunsOnce hold.
SPECIFICATION Spec
CONSTANTS
  Callers = {c1, c2}
  Retryable = {c1, c2}
  Slots = {s1}
  Sweeper = Sweeper
  None = None
  QueueSize = 1
  MaxAttempts = 3
  FailuresToCircuit = 1
  FailureThreshold = 1
  SuccessThreshold = 2
  MaxProbes = 1
  MaxFaults = 1
  MaxStarts = 2
CHECK_DEADLOCK FALSE
INVARIANT StopLeavesNone
