SPECIFICATION ResumesSpec
CONSTANTS
  Contents = {c1}
  Jobs = {j1}
  Keys = {k1}
  HasWorker = TRUE
  MaxImports = 2
  MaxSnapshots = 1
  MaxDocs = 2
  MaxRuns = 2
  MaxFaults = 2
  MaxDeletions = 1
  None = None
INVARIANTS RowsHaveFiles ApprovedAsShown KeyMakesOneDocument
CHECK_DEADLOCK FALSE
