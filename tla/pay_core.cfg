SPECIFICATION Spec
CONSTANTS
  None = None
  Attempts = {p1, p2, w}
  Wallet = {w}
  Workers = {k1, k2, k3}
  Lossy <- Calls
  Fatal <- Steps
SYMMETRY WorkerSymmetry
INVARIANT TypeOK
INVARIANT NoMoneyFromNothing
INVARIANT PaidIsBooked
INVARIANT SettledOnItsOrder
PROPERTY KeepsTheContract
CHECK_DEADLOCK FALSE
