\* A provider that rotates refresh tokens, two requests of one session, nothing failing.
SPECIFICATION Spec
CONSTANTS
  r1 = r1
  r2 = r2
  b1 = b1
  b2 = b2
  u1 = u1
  u2 = u2
  k1 = k1
  k2 = k2
  Requests = {r1, r2}
  Browsers = {b1}
  Users = {u1}
  Providers = {"gitlab"}
  ProviderOf <- OneProvider
  Expiring = {"gitlab"}
  Rotating = {"gitlab"}
  Kinds = {"guarded"}
  Keys = {k1}
  TokenTTL = 1
  SessionTTL = 2
  StateTTL = 1
  ExpiryDelta = 1
  DbSkew = 0
  AccountColumns <- SchemaColumns
  Resumed = TRUE
  Fallible = FALSE
  MaxTime = 3
  MaxRequests = 2
  MaxRestarts = 0
SYMMETRY Symmetry
INVARIANTS
  LiveSessionNotSentToLogin
