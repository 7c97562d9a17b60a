SPECIFICATION CatalogueSpec
CONSTANTS
  p1 = p1
  p2 = p2
  p3 = p3
  c1 = c1
  c2 = c2
  Postings = {p1, p2, p3}
  Clean <- MCClean
  Maintained = {p1, p2, p3}
  Batches <- MCBatches
  Scores = {1}
  Views = {"newest", "score", "shortlisted"}
  Calls = {c1, c2}
  PageSize = 1
  MaxClock = 3
  MaxApps = 2
  MaxGestures = 2
  NoWalk = NoWalk
  NoCall = NoCall
CONSTRAINT MCBound
SYMMETRY MCSymmetry
INVARIANTS WalkSeesAll 
PROPERTY AnsweredItemsStay
