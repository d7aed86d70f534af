SPECIFICATION Spec
CONSTANTS
  MaxRuns = 1
  MaxSessions = 2
  Slots = {s1, s2}
  None = none
SYMMETRY Interchangeable
INVARIANTS
  FormTellsTheTruth
