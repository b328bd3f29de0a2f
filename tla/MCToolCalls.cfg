SPECIFICATION Spec
CONSTANTS
  Calls = {b, c}
  Executions = {e1, e2}
  Repeatable = {}
  None = None
  Detectable = {b}
  Overlap = FALSE
  MaxAttempts = 1
  MaxCrashes = 2
  MaxPasses = 1
SYMMETRY Alike
CHECK_DEADLOCK FALSE
INVARIANTS
  UnsafeOnce
  UncertainAsked
PROPERTIES
  CommittedOnce
  ReplayIsHarmless
