CONSTANTS
  Flows = {a1, a2}
  UserNames = {ADMIN, ANN, BOB}
  GroupNames = {ZZADMIN, ZZTEMP, OPS}
  ServiceNames = {CICS}
  Reserved = {ZZADMIN, ZZTEMP}
  ZZADMIN = ZZADMIN
  FirstAdmin = ADMIN
  Absent = Absent
  MaxUsers = 2
  MaxGroups = 2
  MaxServices = 1
SPECIFICATION Spec
SYMMETRY Symmetric
CHECK_DEADLOCK FALSE
INVARIANTS NoDanglingGrants LastAdminUnlessCrossed
