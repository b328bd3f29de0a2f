\* What the README (section 6) reports: each of these properties ends in a
\* counterexample. One is active; for another one put its name in the last
\* line, as INVARIANT or as PROPERTY, and change the constants named here.
\*   INVARIANT LiveRunKept
\*   PROPERTY  ResumedIsAsked
\*   INVARIANT FailedIsFinal: MaxAttempts = 1
\*   INVARIANT DetectableOnce
\*   INVARIANT UnsafeOnce: Overlap = TRUE, MaxCrashes = 0, MaxPasses = 0
SPECIFICATION Spec
CONSTANTS
  Calls = {b, c}
  Executions = {e1, e2}
  Repeatable = {}
  None = None
  Detectable = {b}
  Overlap = FALSE
  MaxAttempts = 0
  MaxCrashes = 2
  MaxPasses = 1
SYMMETRY Alike
CHECK_DEADLOCK FALSE
INVARIANT LiveRunKept
