SPECIFICATION FairSpec
CONSTANTS
  Nobody = Nobody
  a1 = a1
  a2 = a2
  a3 = a3
  People = {a1, a2, a3}
  Founders = {a1, a2}
  Consent = {a1, a2, a3}
  Rounds = 3
  MaxMoved = 2
  Workers = {k1, k2}
  Lossy = {"transfer", "count"}
  Fatal = {"transfer", "mark"}
INVARIANTS SharesAddUp FairTurns
PROPERTIES PaidStaysPaid PaidCycleMovesOn
CHECK_DEADLOCK FALSE
CONSTRAINT Bounded
