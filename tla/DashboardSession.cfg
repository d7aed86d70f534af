SPECIFICATION Spec
CONSTANTS
  Ids = {i1, i2}
  Servers = {a, b}
  Lists = {"maps", "mode"}
  Slots = {s1, s2}
  MaxSessions = 3
  Demo = demo
  None = none
SYMMETRY Interchangeable
CHECK_DEADLOCK FALSE
INVARIANTS
  CredentialsMatchTarget
  ShownIsOfSession
  CommandsGoToSession
  OldRequestsCancelled
  BusyHasOwner
