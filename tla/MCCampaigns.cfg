SPECIFICATION FairSpec
CONSTANTS
  stdout = stdout
  exit_code = exit_code
  line1 = line1
  line2 = line2
  line3 = line3
  NoSignature = NoSignature
  NoFeature = NoFeature
  Signatures = {stdout, exit_code}
  Features = {line1, line2, line3}
  Limits <- MCLimits
CHECK_DEADLOCK FALSE
INVARIANTS WitnessesAreTheFirst CorpusIsWhatWasNovel ScheduleIsFirstInFirstOut ExitsAreTrue
PROPERTY Ends
