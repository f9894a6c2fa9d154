CONSTANTS
  u1 = u1
  s1 = s1
  s2 = s2
  Users <- MCUsers
  Sessions <- MCSessions
  Acct <- MCAcct
  Items <- MCItems
  Bonus <- MCBonus
  MaxRequests = 6
  MaxFaults = 2
SPECIFICATION Spec
INVARIANTS EquipAgrees
SYMMETRY MCSymmetry
CHECK_DEADLOCK FALSE
