SPECIFICATION Spec

CONSTANTS
  ann = ann
  bob = bob
  yes = yes
  no = no
  maybe = maybe
  h1 = h1
  a1 = a1
  Users <- TwoUsers
  Me = ann
  Options <- ThreeOptions
  Hubs <- OneHub
  Apis <- OneApi
  NoCard = NoCard
  MaxPolls = 1
  MaxVotes = 2

INVARIANTS
  TypeOK
  AnswersPerVoter
  TallyShown
  OneAnswer

PROPERTIES
  RefinesBallot

SYMMETRY Symmetric
