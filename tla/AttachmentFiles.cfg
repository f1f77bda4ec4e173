SPECIFICATION FileSpec
CONSTANTS
  Upload = {r1, r2, r3}
  Uid = {x, y}
  File = {f}
  Kind = {"LOCAL", "S3"}
  UniqueTemplate = TRUE
  Shared = Shared
  Plain = Plain
  NoFile = NoFile
SYMMETRY Interchangeable
INVARIANTS
  RowKeepsBytes
  NoLitter
