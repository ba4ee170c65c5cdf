SPECIFICATION FairSpec
CONSTANTS
  None = None
  MaxDemands = 2
  Workers = {k1, k2}
  Lossy <- Calls
  Fatal <- Steps
INVARIANTS RowIsTrue OneInvoice
PROPERTIES AnsweredAtLast
