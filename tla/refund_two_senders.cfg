\* Two senders, automatic payouts throughout.
SPECIFICATION Spec
CONSTANTS
  None = None
  Withdrawals = {w1}
  Bank = {}
  Workers = {k1, k2}
  AtomicRequest = TRUE
  Switches = FALSE
  Patience = FALSE
  MaxAttempts = 2
INVARIANT PaidOrRefunded
CHECK_DEADLOCK FALSE
