SPECIFICATION FairSpec
CONSTANTS
  p1 = p1
  None = None
  Payments = {p1}
  Key <- OwnKeys
  Workers = {k1, k2, k3}
  Lossy = {"create", "insert", "status", "complete", "credit"}
  Fatal = {"create", "insert", "lookup", "status", "settle", "complete", "claim", "credit", "giveback", "fail"}
INVARIANTS CreditsAreRight
PROPERTIES SuccessNeverFails PaidIsCredited
CHECK_DEADLOCK FALSE
