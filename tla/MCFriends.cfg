CONSTANTS
  u1 = u1
  u2 = u2
  s1 = s1
  s2 = s2
  s3 = s3
  Users <- MCUsers
  Sessions <- MCSessions
  Acct <- MCAcct
  Nobody = Nobody
  Backend = "mysql"
  MaxRequests = 3
  MaxCloses = 1
SYMMETRY Twins
SPECIFICATION Spec
INVARIANTS ApplicationDelivered FriendshipDelivered Consented
PROPERTIES FriendsStay NoneAppliesToFriend
CHECK_DEADLOCK FALSE
