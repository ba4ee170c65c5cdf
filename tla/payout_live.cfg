\* Liveness, two overlapping workers.
SPECIFICATION FairSpec
CONSTANTS
  None = None
  Withdrawals = {w1}
  Bank = {}
  Workers = {k1, k2}
  AtomicRequest = TRUE
  Switches = TRUE
  Patience = TRUE
  MaxAttempts = 1
PROPERTY SettledIsFinal
PROPERTY KeepsTheContract
PROPERTY EventuallySettled
