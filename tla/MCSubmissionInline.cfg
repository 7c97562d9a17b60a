SPECIFICATION Spec
CONSTANTS
  r1 = r1
  r2 = r2
  c1 = c1
  c2 = c2
  f1 = f1
  f2 = f2
  v1 = v1
  v2 = v2
  none = none
  MaxApplications = 1
  Requests <- MCOneRequest
  Calls <- MCTwoCalls
  Forms <- MCTwoForms
  Values <- MCOneValue
  Inline = TRUE
  Nothing <- MCNothing
INVARIANT OneClickPerApplication
PROPERTY NoClickAfterCancel
PROPERTY AttemptsAtMostOnce
SYMMETRY MCSymmetry
