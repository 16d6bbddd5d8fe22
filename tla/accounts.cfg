SPECIFICATION Spec

CONSTANTS
  n1 = n1
  n2 = n2
  e1 = e1
  e2 = e2
  r1 = r1
  r2 = r2
  Names <- TwoNames
  Emails <- TwoEmails
  Reqs <- TwoReqs
  None = None
  MaxReqs = 4
  RegisterAlone = TRUE
  MayFail = TRUE

INVARIANTS
  TypeOK
  VerifiedIsProved
  LatestWorks
  UsedTogether

PROPERTIES
  ConfirmedIsKept

SYMMETRY Symmetric
