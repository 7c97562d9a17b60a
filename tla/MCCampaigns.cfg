CONSTANTS
  c1 = c1
  p1 = p1
  p2 = p2
  r1 = r1
  r2 = r2
  NoRun = NoRun
  Gone = Gone
  None = None
  Ids <- MCIds
  Settings <- MCSettings
  Postings <- MCPostings
  Runs <- MCRuns
  Slots <- MCSlots
  MaxMinute = 1
  MinutesPerDay = 1
  MaxCrashes = 1
SPECIFICATION CampaignSpec
INVARIANTS
  DailyLimit
  OneApplicationPerPosting
  OncePerSlot
  RunAgreesWithQueue
  RunningRowsAreOwned
SYMMETRY MCSymmetry
CHECK_DEADLOCK FALSE
