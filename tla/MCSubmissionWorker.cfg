SPECIFICATION Spec
CONSTANTS
  r1 = r1
  r2 = r2
  c1 = c1
  c2 = c2
  f1 = f1
  f2 = f2
  v1 = v1
  v2 = v2
  none = none
  MaxApplications = 2
  Requests <- MCTwoRequests
  Calls <- MCOneCall
  Forms <- MCOneForm
  Values <- MCOneValue
  Inline = FALSE
  Nothing <- MCNothing
INVARIANT ClickedWithConsent
INVARIANT ClickedAsReviewed
INVARIANT AttemptAgrees
INVARIANT DryRunNeverClicks
INVARIANT OneOpenApplication
SYMMETRY MCSymmetry
