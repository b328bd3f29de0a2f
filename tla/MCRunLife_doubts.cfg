\* What the README (section 6) reports: each of these properties ends in a
\* counterexample. One is active; for another one put its name in the last
\* line, as INVARIANT or as PROPERTY, and change the constants named here.
\*   PROPERTY  CancelledIsSeen
\*   PROPERTY  LogSealed
\*   INVARIANT NoNilMachine
\*   PROPERTY  CancelStopsTools
\*   INVARIANT FinishedIsRecorded
\*   INVARIANT OneWinner
\*   INVARIANT ConfirmedIsUsed: PlanMode = TRUE
\*   PROPERTY  OneEnding: Deadlines = {1, 2}
\*   INVARIANT NotReproposed: PlanMode = TRUE, MaxExecs = 3, MaxRounds = 2, Callers = {c1}
\*   INVARIANT FinishedIsRecorded: Deadlines = {1, 2}, Requests = {}
\* For a single caller these hold: Callers = {c1}, PlanMode = TRUE, MaxExecs = 3
\* and INVARIANT FinishedIsRecorded, PROPERTIES CancelStopsTools OwnershipReturned.
SPECIFICATION Spec
CONSTANTS
    Callers = {c1, c2}
    Requests = {"cancel", "resume", "confirm", "decide"}
    Calls = {k1}
    PlanMode = FALSE
    Deadlines = {}
    MaxExecs = 2
    MaxRounds = 1
CHECK_DEADLOCK FALSE
PROPERTY CancelledIsSeen
