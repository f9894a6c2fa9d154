CONSTANTS
  u1 = u1
  u2 = u2
  u3 = u3
  Users <- MCUsers
  MaxPlayers = 2
  GraceTicks = 2
  OnlineCap = 2
  MaxFills = 2
SPECIFICATION Spec
PROPERTY LostPlayerGoes
CHECK_DEADLOCK FALSE
