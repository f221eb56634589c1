SPECIFICATION Spec
CONSTANTS
  a = a
  b = b
  c = c
  exporter = exporter
  s1 = s1
  s2 = s2
  t1 = t1
  Malformed = Malformed
  Final = {a, b, c}
  Exporter = {exporter}
  Archive = {s1, s2, t1}
  Sorted <- MCSorted
  Target <- MCTarget
  Bundle <- MCBundle
  Signature <- MCSignature
  Size <- MCSize
  Initial <- MCInitial
  Modified <- MCModified
  Now = 2
  Policies <- MCPolicies
  Foreign = {s2, Malformed}
  MaxMeddling = 1
CHECK_DEADLOCK FALSE
INVARIANTS OnlyWhatDoesNotFitIsDropped ReplayRunsWhatWasKept ExportIsTruthful
PROPERTY RemovesOnlyWhatItRead
