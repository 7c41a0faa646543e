SPECIFICATION FairSpec
CONSTANTS
  Account = {a1}
  Address = {x, X}
  x = x
  X = X
  Lower <- ToLower
  MaxCodes = 1
  Request = {r1}
  Faulty = FALSE
  None = None
PROPERTIES
  ResetTokenMailed
