SPECIFICATION Spec
CONSTANTS
  Account = {a1, a2}
  Identity = {i1, i2}
  Password = {p1, p2}
  Token = {t1}
  Request = {r1, r2}
  None = None
SYMMETRY Symmetry
INVARIANTS
  TypeOK
  SnapshotHolds
  AuditTracksIdentities
PROPERTIES
  NeverLockedOut
  RemovesPasswordItSaw
  SignInSpec
