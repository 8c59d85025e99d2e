SPECIFICATION Spec
CONSTANTS
  Ids <- MCIds
  Subjects = {archive, checksums}
  MaxRuns = 2
  MaxOthers = 2
INVARIANTS
  AcceptedIsBuilt
  ValidIsKept
  DecisionIsCurrent
