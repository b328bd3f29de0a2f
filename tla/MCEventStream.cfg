SPECIFICATION FairStreamSpec
CONSTANTS
  Producers = {p, q}
  Loop = p
  Timers = {t}
  Closer = Closer
  Subscribers = {s}
  MaxCoalesce = 2
  StreamBuffer = 1
  MaxSubscribers = 1
  MaxEmitted = 3
CHECK_DEADLOCK FALSE
INVARIANTS
  HolesAreRaces
  DeltasConserved
PROPERTIES
  DeltasArrive
  StreamEnds
