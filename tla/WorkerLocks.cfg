SPECIFICATION FairSpec
CONSTANTS
  Heartbeat = Heartbeat
  Sweep = Sweep
  Releaser = Releaser
  Nobody = Nobody
  MaxTicks = 2
CHECK_DEADLOCK FALSE
PROPERTY HeartbeatEnds
