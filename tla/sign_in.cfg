\* Two logins with the providers of every file, in every environment.
SPECIFICATION FairSpec
CONSTANTS
  Strings <- AllStrings
  l1 = l1
  l2 = l2
  Files <- VariousFiles
  Envs <- VariousEnvs
  HexKeys = {"key", "short"}
  AesKeys = {"key"}
  AppSite <- Registered
  AppSecret <- Secret
  PublicApps = {"wt"}
  TakesToken = {"github", "gitlab", "gitea"}
  Users = {1, 2}
  Logins = {l1, l2}
INVARIANTS
  TypeOK
  ServesSoundConfig
  AccountsOfOwnServer
  WorkableNotRefused
PROPERTIES
  WorkableSignsIn
  ImplementsFlow
