SPECIFICATION Spec
CONSTANTS
  t1 = t1
  t2 = t2
  t3 = t3
  t4 = t4
  t5 = t5
  r1 = r1
  r2 = r2
  s1 = s1
  s2 = s2
  Tasks <- MCTasks
  Runs <- MCRuns
  Sessions <- MCSessions
  NClasses = 2
  Kind <- MCKind
  RunOf <- MCRunOf
  SessionOf <- MCSessionOf
  ClassOf <- MCClassOf
  Cost <- MCCost
  Weight <- MCWeight
  Scale = 1000
  TotalCap = 3
  ClassCap <- MCClassCap
  SessionCap = 1
  MaxVTime = 3000
INVARIANTS
  CountsExact
  BoundedDelay
