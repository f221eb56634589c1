SPECIFICATION FairSpec
CONSTANTS
  child = child
  Platforms = {"posix", "nt"}
  Descendant = {child}
  root = root
  max_output_bytes = 1
  max_total_output_bytes = 1
  PipeSize = 2
  MaxEmitted = 2
INVARIANTS TypeOK ComparableOutputIsComplete NoMemberSurvives UnreapedRootIsReported
PROPERTY Returns
