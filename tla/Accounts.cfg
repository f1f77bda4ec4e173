SPECIFICATION AccountsSpec
CONSTANTS
  p1 = p1
  p2 = p2
  c1 = c1
  c2 = c2
  s1 = s1
  s2 = s2
  ann = ann
  idp = idp
  None = None
  Process <- MCProcess
  Call <- MCCall
  Provider <- MCProvider
  Subject <- MCSubject
  Username <- MCUsername
  Fallbacks = 1
  MaxUsers = 2
SYMMETRY MCSymmetry
INVARIANTS
  OneSetupPerProcess
  ClosedRegistration
PROPERTIES
  ImplementsLinkage
  NoTakeover
