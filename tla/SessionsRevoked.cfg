SPECIFICATION EndedSpec
CONSTANTS
  p1 = p1
  p2 = p2
  c1 = c1
  c2 = c2
  t1 = t1
  t2 = t2
  None = None
  Process <- MCProcess
  Call <- MCCall
  Token <- MCToken
  Ttl = 1
  MaxUpdates = 1
INVARIANTS
  RevokedStaysRevoked
