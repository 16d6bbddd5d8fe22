SPECIFICATION Spec

CONSTANTS
  ann = ann
  p1 = p1
  p2 = p2
  l1 = l1
  l2 = l2
  None = None
  Users <- OneUser
  Procs <- TwoProcs
  Slots <- TwoSlots
  MaxConnects = 3

INVARIANTS
  TypeOK
  OnlineIsSomewhere
  StickyIsOnline
  SidebarFollows
  HeaderFollows

SYMMETRY Symmetric
