SPECIFICATION Spec
CONSTANTS
  Account = {a1, a2}
  Token = {t1, t2}
  Call = {c1, c2}
  None = None
  TTL = 2
  LastIssue = 1
INVARIANTS
  TypeOK
  CacheRemembers
PROPERTIES
  NoReplayInTime
  ExpiredForGood
  CacheDrains
