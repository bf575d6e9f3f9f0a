------------------------------- MODULE Config -------------------------------
(***************************************************************************)
(* The configuration file (internal/config): what LoadConfig makes of it   *)
(* and what it lets through.                                               *)
(*                                                                         *)
(* A value is a string.  A value in the domain of the environment is a     *)
(* reference, like $SECRET_KEY, that os.ExpandEnv replaces by what the     *)
(* environment gives, "" where the variable is not set; any other value    *)
(* stands for itself.  Of a file the secret key and the providers are      *)
(* kept; names are shown only, and ApiUrl is read by nobody.               *)
(***************************************************************************)
EXTENDS Integers, Sequences

CONSTANT Strings  \* what a string of the file or of the environment may be

GitHub == "github"
GitLab == "gitlab"
Gitea == "gitea"
ProviderTypes == {GitHub, GitLab, Gitea}

ASSUME ConfigAssumption == {"", "$SECRET_KEY"} \cup ProviderTypes \subseteq Strings

\* The files the decoder takes, and their providers.
ProviderRecords == [{"key", "type", "clientId", "clientSecret", "url"} -> Strings]

FileRecords == [secretKey : Strings, providers : Seq(ProviderRecords)]

SetDefaultsProvider(p) ==
  [p EXCEPT !.type = IF @ = "" /\ p.key \in ProviderTypes THEN p.key ELSE @]

SetDefaults(cfg) ==
  [cfg EXCEPT !.secretKey = IF @ = "" THEN "$SECRET_KEY" ELSE @,
              !.providers = [i \in 1 .. Len(@) |-> SetDefaultsProvider(@[i])]]

Expand(v, env) == IF v \in DOMAIN env THEN env[v] ELSE v

ExpandProvider(p, env) == [f \in DOMAIN p |-> Expand(p[f], env)]

(***************************************************************************)
(* The defaulted file is encoded, expanded and decoded into the same       *)
(* variable.  A value that comes out empty is a null for the decoder: the  *)
(* providers are decoded into a new list, where it leaves "", but a string *)
(* of the file itself keeps what it was.                                   *)
(***************************************************************************)
ExpandEnv(cfg, env) ==
  [cfg EXCEPT !.secretKey = IF Expand(@, env) = "" THEN @ ELSE Expand(@, env),
              !.providers = [i \in 1 .. Len(@) |-> ExpandProvider(@[i], env)]]

\* What LoadConfig returns when nothing is wrong with it.
Loaded(file, env) == ExpandEnv(SetDefaults(file), env)

ValidProvider(p) ==
  /\ p.key # "" /\ p.clientId # "" /\ p.clientSecret # ""
  /\ p.type \in ProviderTypes

Valid(cfg) ==
  /\ cfg.secretKey # ""
  /\ cfg.providers # <<>>
  /\ \A i, j \in 1 .. Len(cfg.providers) :
       cfg.providers[i].key = cfg.providers[j].key => i = j
  /\ \A i \in 1 .. Len(cfg.providers) : ValidProvider(cfg.providers[i])

\* Mutant: the file is validated as written.
LoadsUnexpanded(file, env) == Valid(SetDefaults(file))

Loads(file, env) == Valid(Loaded(file, env))
=============================================================================
