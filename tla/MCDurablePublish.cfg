SPECIFICATION TargetSpec
CONSTANTS
  w1 = w1
  w2 = w2
  w3 = w3
  w4 = w4
  Writer = {w1, w2, w3, w4}
  dest = dest
  MaxPublications = 4
  Faults <- MCFaults
  Staging <- MCStaging
  Concurrent = {w1, w2}
  ConcurrentPublications = 3
CHECK_DEADLOCK FALSE
INVARIANTS
  DestinationIsComplete
  ReturnedIsDurable
  FailureIsTruthful
  ReportIsTrue
PROPERTY PublicationIsAtomic
