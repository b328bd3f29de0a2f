SPECIFICATION FairSpec
CONSTANTS
  r1 = r1
  r2 = r2
  r3 = r3
  u1 = u1
  u2 = u2
  i1 = i1
  i2 = i2
  debit = debit
  freeze = freeze
  topup = topup
  Users = {u1}
  Requests = {r1, r2, r3}
  Ids = {i1, i2}
  UserOf <- MCUserOf
  IdOf <- MCIdOf
  Estimated <- MCEstimated
  Reported = {1, 3}
  Price = 1000
  MaxInt = 100000
  Opening <- MCOpening
  Adjustments = {debit, freeze, topup}
  KindOf <- MCKindOf
  AmountOf <- MCAmountOf
  TargetOf <- MCTargetOf
  Timed = TRUE
CHECK_DEADLOCK FALSE
INVARIANTS
  BooksExact
  NoOverdraft
  ServedIsCharged
  UsageIsTrue
PROPERTIES
  HoldEndsOnce
  HeldEnds
