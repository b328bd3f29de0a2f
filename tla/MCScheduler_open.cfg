SPECIFICATION FairOpenSpec
CONSTANTS
  t1 = t1
  t2 = t2
  t3 = t3
  r1 = r1
  r2 = r2
  s1 = s1
  s2 = s2
  terminal = terminal
  Tasks <- TwoTasks
  Runs <- OneRun
  Sessions <- OneSession
  NClasses = 1
  Resources <- MCResources
  Kind <- AllTools
  RunOf <- SameRun
  SessionOf <- SameSession
  ClassOf <- UnitCost
  Cost <- UnitCost
  ResourceOf <- Terminal
  Weight <- MCWeight
  Scale = 0
  ClassCap <- MCClassCap
  SessionCap = 1
  MaxQueued <- Queue22
  Capacity <- Capacity1
  MaxWaiters = 1
  MaxRunning = 1
CHECK_DEADLOCK FALSE
INVARIANT CancelReachesAll
PROPERTIES
  CallersReturn
  TasksEnd
