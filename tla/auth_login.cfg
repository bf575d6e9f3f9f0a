\* Logins, repeated callbacks and account deletion, nothing failing, refresh tokens kept.
SPECIFICATION Spec
CONSTANTS
  r1 = r1
  r2 = r2
  b1 = b1
  b2 = b2
  u1 = u1
  u2 = u2
  k1 = k1
  k2 = k2
  Requests = {r1, r2}
  Browsers = {b1}
  Users = {u1, u2}
  Providers = {"gitlab"}
  ProviderOf <- OneProvider
  Expiring = {"gitlab"}
  Rotating = {}
  Kinds = {"login", "callback", "delete"}
  Keys = {k1, k2}
  TokenTTL = 1
  SessionTTL = 1
  StateTTL = 1
  ExpiryDelta = 1
  DbSkew = 1
  AccountColumns <- SchemaColumns
  Resumed = FALSE
  Fallible = FALSE
  MaxTime = 1
  MaxRequests = 5
  MaxRestarts = 1
SYMMETRY SymmetryWithUsers
INVARIANTS
  TypeOK
  SessionsHaveAccounts
  OneAccountPerUser
  LoginRedeemedOnce
  ContextIsOneUser
  LiveSessionNotSentToLogin
  SessionOfConsenter
PROPERTIES
  EndedByOwner
  ImplementsStore
  ImplementsFlow
