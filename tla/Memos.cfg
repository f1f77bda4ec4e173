SPECIFICATION Spec
CONSTANTS
  User = {u1, u2}
  Space = {s1, s2}
  Memo = {m1}
  Share = {h1}
  Text = {t1, t2}
  NoMemo = NoMemo
  NoShare = NoShare
  Unassigned = Unassigned
  Never = Never
  Keep = Keep
  Anonymous = Anonymous
  MaxTime = 2
SYMMETRY Slots
INVARIANTS
  ActiveAdminRetained
  NoOrphanMember
  PlacementValid
  SpaceMemoUnshared
  AuthorCanWithdraw
  ReadPathsAgree
  ParticipationNeedsRead
PROPERTIES
  MembershipLifecycle
  ArchivedRowFrozen
  RemovedAuthorOnlyMoves
  PlacementNeedsMembership
