SPECIFICATION AuthSpec
CONSTANTS
  p1 = p1
  p2 = p2
  c1 = c1
  c2 = c2
  github = github
  google = google
  None = None
  Process <- MCProcess
  Call <- MCCall
  Uid <- MCUid
  MaxAttempts = 2
  MaxIds = 3
  MaxChanges = 3
SYMMETRY MCSymmetry
INVARIANTS
  ManagedHasAWayIn
PROPERTIES
  MutationsKeepAWayIn
