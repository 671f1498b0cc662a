SPECIFICATION FairSpec
CONSTANTS
  Grace = 4
  Cooldown = 10
  Period = 2
  Services = 2
  MaxDelay = 1
INVARIANTS
  TypeOK
  RecoverySound
  RecoveryComplete
  NoMissedRecovery
  GraceNearlyHeld
PROPERTIES
  LoopEnds
