SPECIFICATION MCSpec
CONSTANTS
  big = big
  mid = mid
  twin = twin
  small = small
  broken = broken
  Alphabet = {0, 1}
  MaxLength = 4
  Case <- MCCase
  Measure <- MCMeasure
  Candidates <- MCCandidates
  InitialCases <- MCInitialCases
  EvaluationBudgets = {0, 1, 3, 4, 40}
  VisitBudgets = {0, 1, 4, 5, 40}
INVARIANTS EvidenceIsAcceptedAndTrue ReducedStillFails FixedPointIsEarned BudgetsAreCeilings OneMinimal GainsAreKept
PROPERTY Terminates
