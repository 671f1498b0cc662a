SPECIFICATION Spec
CONSTANTS
  Grace = 3
  Cooldown = 4
  Period = 2
  Services = 2
  MaxDelay = 0
INVARIANTS
  NoUnfoundedRecovery
