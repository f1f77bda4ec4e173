SPECIFICATION LiveSpec
CONSTANTS
  Replica = {i1}
  Stream = {c1, c2}
  Tab = {b1}
  Writer = {w1}
  Buffer = 1
  MaxVersion = 2
  None = None
INVARIANTS
  NoSendOnClosed
  ChannelsClosedOnce
  NoSilentMiss
PROPERTIES
  DueUntilFetched
  ChangeReachesTab
  CloseEndsStreams
