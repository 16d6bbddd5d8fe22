SPECIFICATION FairSpec

CONSTANTS
  ann = ann
  bob = bob
  d1 = d1
  d2 = d2
  Users <- OneUser
  Conns <- OneDevice
  UserOf <- OneOfAnn
  Everyone = Everyone
  NoConn = NoConn
  SendCap = 1
  MaxSent = 2
  MaxExpired = 1
  DeleteForMe = TRUE
  MayFail = FALSE
  MayCrash = FALSE

PROPERTIES
  Reaped
  Heard
  ServesFanout
