SPECIFICATION EditSpec
CONSTANTS
  Memo = {m1, m2}
  a1 = a1
  Attachment = {a1}
  plain = plain
  withA1 = withA1
  Text = {plain, withA1}
  Refs <- ImageRefs
  Request = {r1, r2}
  Unborn = Unborn
  Deleted = Deleted
  Unlinked = Unlinked
  NotRead = NotRead
SYMMETRY Interchangeable
INVARIANTS
  RefsBound
  BindingsLive
PROPERTIES
  AttachmentNotStolen
