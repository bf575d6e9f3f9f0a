\* config.yaml as shipped, every variable set.
SPECIFICATION Spec
CONSTANTS
  Strings <- AllStrings
  l1 = l1
  l2 = l2
  Files <- ShippedFile
  Envs <- FilledEnv
  HexKeys = {"key", "short"}
  AesKeys = {"key"}
  AppSite <- Registered
  AppSecret <- Secret
  PublicApps = {"wt"}
  TakesToken = {"github", "gitlab", "gitea"}
  Users = {1, 2}
  Logins = {l1, l2}
INVARIANTS
  ConsentedIsSignedIn
