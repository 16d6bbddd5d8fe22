SPECIFICATION Spec

CONSTANTS
  ann = ann
  bob = bob
  d1 = d1
  d2 = d2
  Users <- OneUser
  Conns <- TwoDevices
  UserOf <- TwoOfAnn
  Everyone = Everyone
  NoConn = NoConn
  SendCap = 1
  MaxSent = 0
  MaxExpired = 1
  DeleteForMe = FALSE
  MayFail = TRUE
  MayCrash = TRUE

INVARIANTS
  TypeOK
  EndedIsRemoved
  RegisteredOpen

PROPERTIES
  RefinesFanout
