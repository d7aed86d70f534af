SPECIFICATION FairSpec
CONSTANTS
  Commands <- PlainTransitionOversized
  ResponseLimit = 2
  SessionLimit = 6
  QueueLimit = 3
  MaxFragments = 2
  FragmentSizes = {0, 2}
  MaxFaults = 1
INVARIANTS
  TypeOK
  ParkedReader
  ResponsesMatchServer
  DelimitedIsWhole
  DispatchedUnlessBroken
PROPERTIES
  CancellationIsFinal
  ImplementsCommandBatch
  Terminates
