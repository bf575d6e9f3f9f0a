\* A login on the database the embedded migrations make, nothing failing.
SPECIFICATION Spec
CONSTANTS
  r1 = r1
  r2 = r2
  b1 = b1
  b2 = b2
  u1 = u1
  u2 = u2
  k1 = k1
  k2 = k2
  Requests = {r1, r2}
  Browsers = {b1}
  Users = {u1}
  Providers = {"gitlab"}
  ProviderOf <- OneProvider
  Expiring = {"gitlab"}
  Rotating = {"gitlab"}
  Kinds = {"login", "callback"}
  Keys = {k1}
  TokenTTL = 1
  SessionTTL = 1
  StateTTL = 1
  ExpiryDelta = 0
  DbSkew = 0
  AccountColumns <- EmbeddedColumns
  Resumed = FALSE
  Fallible = FALSE
  MaxTime = 2
  MaxRequests = 2
  MaxRestarts = 0
INVARIANTS
  RedeemedLoginHasAccount
