CONSTANTS
  Places <- MCPlaces
  SpawnPoints <- MCSpawnPoints
  Step = 2
  MaxStep = 3
  MaxSuspicious = 3
  MaxPending = 3
  MaxLives = 3
SPECIFICATION MoveSpec
PROPERTIES HonestAccepted
CHECK_DEADLOCK FALSE
