SPECIFICATION SqliteSpec
CONSTANTS
  Script <- MCScript
  Steps <- MCSteps
  Blocks <- MCBlocks
  Database = {"source", "backup"}
  Connection <- MCConnection
  Home <- MCHome
  Child = {"older", "newer", "writer", "detached writer", "detached reader"}
  Sleeper = {"writer", "detached writer"}
  Value <- MCValue
  Nothing = Nothing
  MaxFailures = 2
  Job <- MCJob
  Text = {1, 3}
INVARIANTS ScriptsAgree NothingIsLeftRunning
  TranscriptExplainsTheDatabase ObservationIsAllOrNothing CeilingsAreExact
