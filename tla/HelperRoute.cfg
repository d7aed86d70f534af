SPECIFICATION Spec
CONSTANTS
  Targets = {t1, t2, t3}
  Requests = {r1, r2, r3}
  NoBucket = none
  Slots = 2
  Window = 4
  Timeout = 2
  MaxRequests = 4
  MaxFailures = 2
  Capacity = 2
  MaxTime = 7
SYMMETRY Interchangeable
INVARIANTS
  GuessesBounded
  LostAttemptsEndSoon
