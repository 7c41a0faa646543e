SPECIFICATION Spec
CONSTANTS
  g = g
  k = k
  client = client
  style = style
  v = v
  w = w
  Provider = {g, k}
  Field = {client, style}
  Required = {client, style}
  ClientID = client
  Text = {v, w}
  Environ <- TheEnviron
  Default <- TheDefault
  None = None
  Keep = Keep
  NoOIDC = FALSE
  Edit <- TheEdits
  Request = {r1, r2}
  MaxCrashes = 1
  MaxRequests = 3
SYMMETRY Symmetry
INVARIANTS
  RevertRestoresEnv
CHECK_DEADLOCK FALSE
