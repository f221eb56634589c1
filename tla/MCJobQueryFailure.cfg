SPECIFICATION Spec
CONSTANTS
  child = child
  Platforms = {"nt"}
  Descendant = {child}
  root = root
  max_output_bytes = 1
  max_total_output_bytes = 1
  PipeSize = 1
  MaxEmitted = 1
INVARIANT QueryFailureIsReported
