SPECIFICATION Spec
CONSTANTS
  Importer = {i1}
  FaultOccurrences <- MCFaultOccurrences
CHECK_DEADLOCK FALSE
INVARIANTS
  PublicationIsDurable
