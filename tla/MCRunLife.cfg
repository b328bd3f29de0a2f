SPECIFICATION Spec
CONSTANTS
    Callers = {c1, c2}
    Requests = {"cancel", "resume", "confirm", "decide"}
    Calls = {k1}
    PlanMode = TRUE
    Deadlines = {1}
    MaxExecs = 2
    MaxRounds = 1
SYMMETRY Alike
CHECK_DEADLOCK FALSE
INVARIANTS
  OneOwner
  CancelReachesOwner
  CopiesAgree
  ParkedIsAnswerable
