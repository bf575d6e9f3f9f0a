\* Token refresh by concurrent requests of one session, with failures and a restart.
SPECIFICATION Spec
CONSTANTS
  r1 = r1
  r2 = r2
  b1 = b1
  b2 = b2
  u1 = u1
  u2 = u2
  k1 = k1
  k2 = k2
  Requests = {r1, r2}
  Browsers = {b1}
  Users = {u1, u2}
  Providers = {"gitlab", "github"}
  ProviderOf <- TwoProviders
  Expiring = {"gitlab"}
  Rotating = {"gitlab"}
  Kinds = {"guarded", "logout", "delete"}
  Keys = {k1, k2}
  TokenTTL = 1
  SessionTTL = 2
  StateTTL = 1
  ExpiryDelta = 1
  DbSkew = 1
  AccountColumns <- SchemaColumns
  Resumed = TRUE
  Fallible = TRUE
  MaxTime = 3
  MaxRequests = 4
  MaxRestarts = 1
SYMMETRY Symmetry
INVARIANTS
  EndedSessionStaysOut
  RefreshTokenAccounted
  RowTellsTheTruth
PROPERTIES
  SessionsKeepIdentity
