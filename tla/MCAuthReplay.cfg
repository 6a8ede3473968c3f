CONSTANTS
  Sessions = {s1, s2}
  Names = {bob}
  User = bob
  Window = 1
  baseSecs = 2
  maxTries = 2
  StartClock = 2
  MaxClock = 2
  MaxFails = 0
  MaxIds = 1
  MaxSecrets = 1
SPECIFICATION Spec
INVARIANTS FloorIsHighest
