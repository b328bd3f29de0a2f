\* What the README (section 6) reports: each of these properties ends in a
\* counterexample. One is active; for another one put its name in the last
\* line, as INVARIANT, and change the constants named here.
\*   INVARIANT AbandonedIsStopped
\*   INVARIANT WaitSeesAccepted
\*   INVARIANT CloseCancelsAll
\*   INVARIANT NoStaleWaiter
\*   INVARIANT ClosedIsEmpty
SPECIFICATION Spec
CONSTANTS
  t1 = t1
  t2 = t2
  t3 = t3
  r1 = r1
  r2 = r2
  s1 = s1
  s2 = s2
  terminal = terminal
  Tasks <- TwoTasks
  Runs <- OneRun
  Sessions <- OneSession
  NClasses = 1
  Resources <- MCResources
  Kind <- AllTools
  RunOf <- SameRun
  SessionOf <- SameSession
  ClassOf <- UnitCost
  Cost <- UnitCost
  ResourceOf <- Terminal
  Weight <- MCWeight
  Scale = 0
  ClassCap <- MCClassCap
  SessionCap = 2
  MaxQueued <- Queue22
  Capacity <- Capacity1
  MaxWaiters = 1
  MaxRunning = 1
CHECK_DEADLOCK FALSE
INVARIANT AbandonedIsStopped
