SPECIFICATION FairSpec
CONSTANTS
  c1 = c1
  c2 = c2
  c3 = c3
  c4 = c4
  browser = browser
  terminal = terminal
  Callers <- MCCallers
  Classes <- MCClasses
  Capacity <- MCCapacity
  MaxWaiters = 2
PROPERTIES
  NoOvertaking
  ImplementsSemaphore
  WaitEnds
