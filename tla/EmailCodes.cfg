SPECIFICATION Spec
CONSTANTS
  Account = {a1, a2}
  Address = {x, X, y}
  x = x
  X = X
  Lower <- ToLower
  MaxCodes = 1
  Request = {r1, r2}
  Faulty = TRUE
  None = None
SYMMETRY Symmetry
INVARIANTS
  TypeOK
  VerifiedWitnessed
  RequestsWitnessed
PROPERTIES
  LinksWitnessed
