SPECIFICATION PgSafety
CONSTANTS
  User = {u1, u2}
  Space = {s1}
  Tx = {t1, t2}
  NoSpace = NoSpace
  Dependent = {d1}
SYMMETRY Interchangeable
INVARIANTS
  PgActiveAdminRetained
