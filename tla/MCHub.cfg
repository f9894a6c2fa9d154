CONSTANTS
  u1 = u1
  u2 = u2
  s1 = s1
  s2 = s2
  s3 = s3
  n1 = n1
  Nobody = Nobody
  Users <- MCUsers
  Sessions <- MCThreeSessions
  Names <- MCNames
  Acct <- MCAcct
  MaxPlayers = 1
  MaxRooms = 2
  MaxReapers = 2
  MaxVisits = 2
  MaxCloses = 1
SPECIFICATION Spec
INVARIANTS TypeOK OneRoomPerName QuietSessionSeated GoneSessionsReleased Presence
PROPERTY EachRoomSeats
CHECK_DEADLOCK FALSE
