SPECIFICATION FairSpec
CONSTANTS
  Callers = {c1, c2}
  Retryable = {c1}
  Slots = {s1}
  Sweeper = Sweeper
  None = None
  QueueSize = 1
  MaxAttempts = 3
  FailuresToCircuit = 1
  FailureThreshold = 1
  SuccessThreshold = 2
  MaxProbes = 1
  MaxFaults = 1
  MaxStarts = 3
CHECK_DEADLOCK FALSE
INVARIANTS
  LeaseExclusive
  OneCallPerWorker
  RunsOnce
PROPERTY WaitersServed
