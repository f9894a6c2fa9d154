CONSTANTS
  u1 = u1
  u2 = u2
  u3 = u3
  Users <- MCUsers
  MaxPlayers = 2
  GraceTicks = 2
  OnlineCap = 2
  MaxFills = 2
SPECIFICATION Spec
INVARIANTS GraceClock NoticePerOccupancy ConnectedOnline LossNoticed
PROPERTIES ImplementsSeats OfflineResolved EmptyRoomReported
CHECK_DEADLOCK FALSE
