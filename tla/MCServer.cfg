CONSTANTS
  Listeners = {l1, l2}
  Conns = {c1, c2}
  IPs = {ip1}
  NoConn = NoConn
  NoIP = NoIP
  MaxConns = 2
  MaxPerIP = 1
SPECIFICATION FairSpec
INVARIANTS TypeOK SlotAccounting PerIPAccounting RootCauseReported
PROPERTIES ImplementsAdmission BacklogServed ServeAllReturns
