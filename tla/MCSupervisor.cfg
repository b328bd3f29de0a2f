SPECIFICATION FairSpec
CONSTANTS
  Handlers = {h1, h2, h3}
  MaxFails = 2
  PromptWait = TRUE
  MaxStarts = 3
  MaxFaults = 2
CHECK_DEADLOCK FALSE
INVARIANTS
  OneEngine
  ShutdownKillsAll
PROPERTY DeadIsRestarted
