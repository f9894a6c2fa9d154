CONSTANTS
  c1 = c1
  p = p
  q = q
  Conns <- MCConns
  Senders <- MCSenders
  Cap = 2
  IdleLimit = 1
  MaxFrames = 3
SPECIFICATION Spec
INVARIANTS TypeOK NewestKept EjectedOnlyIfCrowded ShutdownClosesAll
PROPERTIES DeadPeerClosed ClosedReleased
CHECK_DEADLOCK FALSE
