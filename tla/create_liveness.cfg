\* Progress of requests, with faults and a crash.
\* A system with every request served may rest.
CHECK_DEADLOCK FALSE
SPECIFICATION FairSpec
CONSTANTS
  r1 = r1
  r2 = r2
  n1 = n1
  n2 = n2
  Forms <- VariousForms
  Requests = {r1}
  Names = {n1, n2}
  Gitignores = {"Go", "Rust"}
  Licenses = {"mit"}
  Lifetimes = {0}
  Sha256Repo = FALSE
  Fallible = TRUE
  MaxTime = 0
  MaxRequests = 2
  MaxRestarts = 1
PROPERTIES
  RequestsFinish
