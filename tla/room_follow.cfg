SPECIFICATION Spec

CONSTANTS
  ann = ann
  bob = bob
  h1 = h1
  h2 = h2
  thumb = thumb
  heart = heart
  l1 = l1
  l2 = l2
  Users <- TwoUsers
  Me = ann
  NoEmoji = NoEmoji
  NoEvent = NoEvent
  Hubs <- OneHub
  Emojis <- OneEmoji
  Loads <- TwoLoads
  MaxOps = 3
  MaxLoads = 2
  Timed = {1}
  MayHide = TRUE
  MayFail = TRUE
  MayDrop = TRUE

INVARIANTS
  TypeOK
  Converged
  InOrder
  ReadIsTicked

PROPERTIES
  NeverReturns

SYMMETRY LoadSymmetry
