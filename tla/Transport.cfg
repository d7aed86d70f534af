SPECIFICATION Spec
CONSTANTS
  MaxRuns = 2
  MaxSessions = 3
  Slots = {s1, s2}
  None = none
SYMMETRY Interchangeable
INVARIANTS
  FailsClosed
  OnlyAdmittedRunsServe
  OneFormTellsTheTruth
