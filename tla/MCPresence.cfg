CONSTANTS
  u1 = u1
  u2 = u2
  s1 = s1
  s2 = s2
  s3 = s3
  r1 = r1
  Nobody = Nobody
  Users <- MCUsers
  Sessions <- MCSessions
  Acct <- MCAcct
  Friends <- MCFriends
  Rooms <- MCRooms
  MaxEvents = 4
SPECIFICATION Spec
INVARIANTS FriendsSeen RoomsSeen
SYMMETRY MCSymmetry
CHECK_DEADLOCK FALSE
