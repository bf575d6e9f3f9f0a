\* Three requests at a time, two connections, a signal at any time.
SPECIFICATION FairSpec
CONSTANTS
  r1 = r1
  r2 = r2
  r3 = r3
  Requests = {r1, r2, r3}
  PoolSize = 2
INVARIANTS
  TypeOK
  ConnectionsAccounted
  PoolOutlivesRequests
PROPERTIES
  ImplementsService
  SignalEndsProcess
  WaitersServed
