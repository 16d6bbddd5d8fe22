SPECIFICATION FairSpec

CONSTANTS
  ann = ann
  bob = bob
  k1 = k1
  k2 = k2
  None = None
  Users <- TwoUsers
  Slots <- TwoSlots
  MaxCalls = 3
  Calm = TRUE

INVARIANTS
  TypeOK
  CameraIsShown
  PagesAgree

PROPERTIES
  HangUpIsHeard
