SPECIFICATION Spec

CONSTANTS
  ann = ann
  bob = bob
  d1 = d1
  d2 = d2
  Users <- OneUser
  Conns <- TwoDevices
  UserOf <- TwoOfAnn
  Everyone = Everyone
  NoConn = NoConn
  SendCap = 1
  MaxSent = 2
  MaxExpired = 0
  DeleteForMe = FALSE
  MayFail = FALSE
  MayCrash = FALSE

INVARIANTS
  NoPanic
  ConnectedIsOnline
  OfflineIsStamped

PROPERTIES
  RefinesFanout
