CONSTANTS
  Users = {ann}
  Keys = {k1, k2}
  NoKey = NoKey
  Builds = {2, 3}
  Unset = Unset
  Malformed = Malformed
  Deployments <- MCDeployments
  Ports = {":2323", ":2324"}
  defaultPlainAddr = ":2323"
  Names = {bob, eve}
  Window = 2
  baseSecs = 2
  maxTries = 2
  StartClock = 1
  MaxClock = 9
  MaxFails = 3
SPECIFICATION GatewaySpec
SYMMETRY Symmetric
INVARIANTS SecretsOpen InstallationSound ServesAsConfigured ThrottleExact
