SPECIFICATION Spec
CONSTANTS
  Importer = {i1, i2}
  FaultOccurrences <- MCFaultOccurrences
SYMMETRY Interchangeable
CHECK_DEADLOCK FALSE
INVARIANTS
  VisibleBundleIsWhole
  EndsLeaveWhatTheySay
  ReplacementIsCaught
PROPERTIES
  NothingIsClobbered
