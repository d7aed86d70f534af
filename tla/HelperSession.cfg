SPECIFICATION FairSpec
CONSTANTS
  Commands <- PlainTransitionOversized
  ResponseLimit = 3
  PacketLimit = 8
  MaxFragments = 2
  FragmentSizes = {2}
  MaxFaults = 1
INVARIANTS
  TextIsOwn
  DispatchedMeansWritten
PROPERTIES
  ImplementsCommandBatch
  Terminates
