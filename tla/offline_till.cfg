SPECIFICATION MCFair
CONSTANTS
  u1 = u1
  sale = sale
  move = move
  Nobody = Nobody
  Accounts = {u1}
  OfflineSales = {sale}
  Moves = {move}
  Author <- OneSeller
  t1 = t1
  Windows = {t1}
  Maker <- OneWindow
  Room = 1
  MaxSent = 2
  Managers = {m1}
  MaxSessions = 2
INVARIANTS WrittenOnce DrawerAddsUp
CHECK_DEADLOCK FALSE
PROPERTY Delivered
