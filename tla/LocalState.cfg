SPECIFICATION Spec
CONSTANTS
  p1 = p1
  p2 = p2
  Ids = {p1, p2}
  Demo = demo
  None = none
  Unreadable = unreadable
  Documents <- LeftOnDisk
  MaxProfiles = 2
  MaxHistory = 2
  MaxStarts = 2
  MaxEntries = 4
INVARIANTS
  ReloadRestores
  PasswordsKeptByConsent
  EntriesTellTheTruth
  DeletedStaysDeleted
