CONSTANTS
  Sessions = {s1}
  Names = {bob}
  User = bob
  Window = 1
  baseSecs = 2
  maxTries = 2
  StartClock = 2
  MaxClock = 3
  MaxFails = 1
  MaxIds = 2
  MaxSecrets = 2
SPECIFICATION Spec
INVARIANTS MfaEnforced FloorNotAhead FloorIsHighest
