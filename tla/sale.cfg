SPECIFICATION FairSpec
CONSTANTS
  None = None
  s1 = s1
  o1 = o1
  i1 = i1
  i2 = i2
  Sales = {s1}
  Offline = {o1}
  Items = {i1, i2}
  Basket <- Basketful
  Shelf <- TwoAndOne
  Workers = {k1, k2, k3}
  Fatal <- Steps
INVARIANT TypeOK
PROPERTIES KeepsTheSale OverdueIsSettled
CHECK_DEADLOCK FALSE
