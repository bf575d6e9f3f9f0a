\* A form with a license, nothing failing.
\* A system with every request served may rest.
CHECK_DEADLOCK FALSE
SPECIFICATION Spec
CONSTANTS
  r1 = r1
  r2 = r2
  n1 = n1
  n2 = n2
  Forms <- VariousForms
  Requests = {r1, r2}
  Names = {n1, n2}
  Gitignores = {"Go", "Rust"}
  Licenses = {"mit"}
  Lifetimes = {0}
  Sha256Repo = FALSE
  Fallible = FALSE
  MaxTime = 0
  MaxRequests = 2
  MaxRestarts = 0
SYMMETRY Symmetry
INVARIANTS
  LicensePushed
