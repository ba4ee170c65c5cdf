SPECIFICATION FairSpec
CONSTANTS
  a = a
  b = b
  m = m
  t1 = t1
  t2 = t2
  s = s
  r1 = r1
  r2 = r2
  None = None
  Wallets = {a, b, m}
  Rank <- RankOf
  Opening <- OpenWith
  Transfers = {t1, t2}
  From <- FromOf
  To <- ToOf
  Amount <- AmountOf
  Fee <- FeeOf
  Limit = 2
  Sales = {s}
  Shop <- ShopOf
  Client <- ClientOf
  Paid <- PaidFor
  Refunds = {r1, r2}
  Of <- SaleOf
  Part <- PartOf
  Leavers = {b}
  Workers = {k1, k2}
INVARIANT BooksAddUp
PROPERTIES ClosedIsClosed EveryCallEnds
