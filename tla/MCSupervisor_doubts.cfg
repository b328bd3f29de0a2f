\* What the README (section 6) reports: each of these properties ends in a
\* counterexample. One is active; for another one put its name in the last
\* line, as INVARIANT or PROPERTY, and change the constants named here.
\*   INVARIANT NoLateStart
\*   INVARIANT OneRecovery
\*   INVARIANT OneEngine: PromptWait = FALSE
\*   PROPERTY  OpenForbids
\*   PROPERTY  KillsOnlyDead
\*   PROPERTY  AliveIsRunning
SPECIFICATION FairSpec
CONSTANTS
  Handlers = {h1, h2, h3}
  MaxFails = 2
  PromptWait = TRUE
  MaxStarts = 3
  MaxFaults = 2
CHECK_DEADLOCK FALSE
INVARIANT NoLateStart
