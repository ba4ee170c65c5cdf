\* One withdrawal, three overlapping workers, the two-step request.
SPECIFICATION Spec
CONSTANTS
  None = None
  Withdrawals = {w1}
  Bank = {}
  Workers = {k1, k2, k3}
  AtomicRequest = FALSE
  Switches = TRUE
  Patience = TRUE
  MaxAttempts = 2
SYMMETRY WorkerSymmetry
INVARIANT TypeOK
INVARIANT AtMostOnePayout
INVARIANT UnknownFateIsHeld
INVARIANT NoMoneyFromNothing
INVARIANT StatusIsTrue
