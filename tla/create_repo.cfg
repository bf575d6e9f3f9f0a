\* Two concurrent requests, every fault, a crash, tokens that run out.
\* A system with every request served may rest.
CHECK_DEADLOCK FALSE
SPECIFICATION Spec
CONSTANTS
  r1 = r1
  r2 = r2
  n1 = n1
  n2 = n2
  Forms <- VariousForms
  Requests = {r1, r2}
  Names = {n1, n2}
  Gitignores = {"Go", "Rust"}
  Licenses = {"mit"}
  Lifetimes = {0, 1}
  Sha256Repo = FALSE
  Fallible = TRUE
  MaxTime = 1
  MaxRequests = 2
  MaxRestarts = 1
SYMMETRY Symmetry
INVARIANTS
  TypeOK
  RedirectedRepoReady
  EmptyRepoExplained
  RefusalExplained
  TempDirsInUse
PROPERTIES
  PushedByCreator
  ImplementsHost
