SPECIFICATION ApprovalsSpec
CONSTANTS
  t1 = t1
  t2 = t2
  b1 = b1
  Tabs = {t1, t2}
  Browsers = {b1}
  BrowserOf <- MCBrowserOf
  Window = 2
  RequestLimit = 3
  MutationLimit = 6
  ReadLimit = 6
  Lifetime = 3
  MaxTime = 3
  MaxTokens = 4
  MaxSaves = 1
  MaxRestarts = 1
  None = None
  ApprovalTtl = 3
  MaxRequests = 2
INVARIANTS SessionWindowNeverRefuses SignedOutStaysOut ApproverCanSubmit
CONSTRAINT MCBound
