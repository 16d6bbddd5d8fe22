SPECIFICATION Spec

CONSTANTS
  n1 = n1
  n2 = n2
  e1 = e1
  e2 = e2
  r1 = r1
  r2 = r2
  Names <- TwoNames
  Emails <- TwoEmails
  Reqs <- TwoReqs
  None = None
  MaxReqs = 3
  RegisterAlone = FALSE
  MayFail = FALSE

PROPERTIES
  ConfirmedIsKept

SYMMETRY Symmetric
