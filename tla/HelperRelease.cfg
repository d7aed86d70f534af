SPECIFICATION ReleaseSpec
CONSTANTS
  Builds = {b1, b2}
  Launchers = {l1, l2}
  Absent = absent
  Targets = 2
CHECK_DEADLOCK FALSE
INVARIANTS
  LaunchersRunTheRelease
PROPERTIES
  ReleaseIsFinal
