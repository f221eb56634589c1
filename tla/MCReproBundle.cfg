SPECIFICATION Spec
CONSTANTS
  w1 = w1
  w2 = w2
  w3 = w3
  r1 = r1
  p1 = p1
  Writer <- MCWriter
  Replayer <- MCReplayer
  Pass <- MCPass
  Name <- MCName
  Input <- MCInput
  Size <- MCSize
  Context <- MCContext
  Evaluations <- MCEvaluations
  Scenarios <- MCScenarios
  Earlier <- MCEarlier
SYMMETRY Symmetry
CHECK_DEADLOCK FALSE
INVARIANTS
  PublishedKeepsItsIdentity
  LoadedIsOneBundle
  RemovesOnlyWhatItAccepted
  WritersSayWhatTheyLeft
  FailedReplaysAreExplained
