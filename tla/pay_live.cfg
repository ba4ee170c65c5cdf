SPECIFICATION FairSpec
CONSTANTS
  None = None
  Attempts = {p1, p2, w}
  Wallet = {w}
  Workers = {k1, k2}
  Lossy <- Unsettled
  Fatal <- BeforeTheClaim
INVARIANT OnePayer
PROPERTIES PaidStaysPaid PaidIsSettled
CHECK_DEADLOCK FALSE
