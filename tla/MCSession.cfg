CONSTANTS
  Slots = {s1, s2}
  Users = {u1, u2}
  NoUser = NoUser
  Services = {v1}
  NoService = NoService
  MaxConnects = 3
  BridgeIdleExempt = TRUE
  Terminals <- MCTerminals
  Groups = {OPS, DEV}
  Catalogues <- MCCatalogues
  Documents <- MCDocuments
  CompactForms <- MCCompactForms
  FormSizes = {1, 2, 9}
  Details <- MCDetails
  PanelRows = {0, 14, 33}
SPECIFICATION SessionsSpec
SYMMETRY Symmetric
INVARIANTS RegimeMatchesPhase RegistryTruthful AuditTruthful DisconnectHitsTarget  PickExact
PROPERTIES NewsRead
