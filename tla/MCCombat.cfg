CONSTANTS
  a = a
  b = b
  c = c
  Uids <- MCUids
  Aimed <- MCAimed
  Sweeping <- MCSweeping
  MaxHP = 2
  Damage <- MCDamage
  Cooldown <- MCCooldown
  BaseBlockMax = 1
  Bonuses = {0}
  CombatBlockMin = 1
  BlockCost = 1
  RespawnTicks = 2
  LockMaxCharges = 1
  LockChargeTicks = 1
  SettleScore = 2
  SettleTicks = 0
  MaxHits = 3
  MaxDepartures = 1
SPECIFICATION Spec
INVARIANTS TypeOK LifeCycle DeathsAnnounced ScoreboardBalances
PROPERTIES NoPosthumousScore
CONSTRAINT MCBrawl
SYMMETRY MCSymmetry
