CONSTANTS
  u1 = u1
  u2 = u2
  s1 = s1
  s2 = s2
  s3 = s3
  n1 = n1
  Nobody = Nobody
  Users <- MCUsers
  Sessions <- MCTwoSessions
  Names <- MCNames
  Acct <- MCOneAcct
  MaxPlayers = 2
  MaxRooms = 2
  MaxReapers = 1
  MaxVisits = 3
  MaxCloses = 1
SPECIFICATION Spec
PROPERTY ReconnectedKeepsSeat
CHECK_DEADLOCK FALSE
