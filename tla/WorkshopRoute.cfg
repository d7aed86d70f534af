SPECIFICATION FairSpec
CONSTANTS
  Limit = 4
  ChunkSizes = {1, 2, 3}
  MaxBytes = 7
INVARIANTS
  AnswerFitsTheBody
PROPERTIES
  AlwaysReleases
