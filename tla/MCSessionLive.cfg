CONSTANTS
  Slots = {s1, s2}
  Users = {u1}
  NoUser = NoUser
  Services = {v1}
  NoService = NoService
  MaxConnects = 3
  BridgeIdleExempt = TRUE
SPECIFICATION FairSpec
PROPERTIES ClosedSessionEnds PreAuthBounded
