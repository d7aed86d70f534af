SPECIFICATION Spec
CONSTANTS
  Requests = {r1, r2}
  Targets = {t1, t2, t3, t4, t5, t6}
  Global = global
  NoBucket = none
  Window = 2
  GlobalActive = 2
  GlobalRate = 2
  TargetActive = 2
  TargetRate = 2
  MaxFailures = 1
  Capacity = 6
  MaxTime = 4
SYMMETRY Interchangeable
INVARIANTS
  SlotsAccounted
  GuessesBounded
  CapacitySuffices
PROPERTIES
  FailuresCounted
