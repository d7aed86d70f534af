SPECIFICATION Spec
CONSTANTS
  Commands <- PlainThenTransition
  ResponseLimit = 2
  PacketLimit = 12
  MaxFragments = 2
  FragmentSizes = {0, 2}
  MaxFaults = 0
INVARIANTS
  InvalidIsTheServers
