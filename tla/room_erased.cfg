SPECIFICATION Spec

CONSTANTS
  ann = ann
  bob = bob
  h1 = h1
  h2 = h2
  thumb = thumb
  heart = heart
  l1 = l1
  l2 = l2
  Users <- TwoUsers
  Me = ann
  NoEmoji = NoEmoji
  NoEvent = NoEvent
  Hubs <- OneHub
  Emojis <- OneEmoji
  Loads <- OneLoad
  MaxOps = 3
  MaxLoads = 1
  Timed = {}
  MayHide = FALSE
  MayFail = FALSE
  MayDrop = FALSE

INVARIANTS
  DeletedStaysErased
