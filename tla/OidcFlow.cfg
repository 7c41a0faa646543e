SPECIFICATION Spec
CONSTANTS
  google = google
  Browser = {b1, b2}
  Account = {a1, a2}
  Identity = {i1}
  Provider = {google}
  Request = {r1, r2}
  Issuer <- MCIssuer
  Client = {c1, c2}
  MaxFlows = 2
  MaxCodes = 2
  MaxRebuilds = 1
  None = None
SYMMETRY Symmetry
INVARIANTS
  TypeOK
  CallbacksAnswerTheirFlow
  LoginsAudited
PROPERTIES
  FlowsKeepPromise
CHECK_DEADLOCK FALSE
