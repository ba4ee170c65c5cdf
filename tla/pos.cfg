SPECIFICATION FairSpec
CONSTANTS
  None = None
  l1 = l1
  q1 = q1
  Lines = {l1}
  Codes = {q1}
  Workers = {k1, k2}
  MaxQty = 2
  Shelf = 2
  Lossy = {"qr"}
  Fatal <- Halfway
INVARIANTS NeverAskedForMore PaidQrHasItsRow ArticlesAddUp
PROPERTIES ConfirmedStays QrIsCounted
CHECK_DEADLOCK FALSE
