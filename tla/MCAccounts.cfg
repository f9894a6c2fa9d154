CONSTANTS
  c1 = c1
  c2 = c2
  a1 = a1
  a2 = a2
  k1 = k1
  k2 = k2
  w1 = w1
  w2 = w2
  Clients <- MCClients
  Accounts <- MCAccountNames
  Nicks <- MCNicks
  Passwords <- MCPasswords
  TTL = 1
  MaxTime = 2
  MaxUsers = 3
  MaxRequests = 4
  MaxFaults = 1
SPECIFICATION Spec
INVARIANTS RegistrationsTrue
PROPERTIES OwnerLogsIn
SYMMETRY MCSymmetry
CHECK_DEADLOCK FALSE
