------------------------------- MODULE SignIn -------------------------------
(***************************************************************************)
(* Signing in with the providers of a configuration: from the file the     *)
(* operator wrote to the account of a user (internal/config,               *)
(* internal/provider, Login and OAuth2Callback of internal/handler).       *)
(*                                                                         *)
(* Module Auth has the statements, failures, clocks and tokens of the same *)
(* handlers for providers that work as they should; here nothing fails by  *)
(* itself, and what is followed are the addresses, and what an application *)
(* shows of itself to the token endpoint.                                  *)
(***************************************************************************)
EXTENDS Providers

CONSTANTS
  Files,       \* configuration files an operator may write
  Envs,        \* environments it may start the process in
  HexKeys,     \* the secret keys that are hexadecimal
  AesKeys,     \* those of a length AES takes
  AppSite,     \* client id |-> the site the application is registered at
  AppSecret,   \* client id |-> the secret it was given there
  PublicApps,  \* the client ids of public applications, which may leave it out;
               \* the others are confidential
  Users,       \* account ids, which every site hands out on its own
  TakesToken,  \* the types whose API takes an OAuth2 token in the header the
               \* client library sends, which for GitLab is Private-Token
  Logins       \* the logins of a behaviour; each is its own OAuth2 state

\* No value of the environment is a reference again, nor is a hexadecimal key.
ASSUME SignInAssumption ==
  /\ Files \subseteq FileRecords
  /\ \A e \in Envs :
       /\ e \in [DOMAIN e -> Strings]
       /\ \A v \in DOMAIN e : e[v] \notin DOMAIN e
       /\ HexKeys \cap DOMAIN e = {}
  /\ AesKeys \subseteq HexKeys

VARIABLES
  file,        \* the configuration file
  env,         \* the environment
  process,     \* "down", "up" or "refused"
  cfg,         \* the running process's configuration
  providers,   \* and the providers made from it
  states,      \* oauth2_state: state |-> whether the row has a verifier
  login,       \* login |-> how far it has come
  accounts     \* table account: [provider, id]; the site is history

vars == <<file, env, process, cfg, providers, states, login, accounts>>
configVars == <<file, env, process, cfg, providers>>

(***************************************************************************)
(* asked is the key in the login's URL, at the key in the callback's; site *)
(* and user where and as whom the user consented, which is what the code   *)
(* and later the token stand for; client the client id of that consent,    *)
(* challenged whether it came with a PKCE challenge, verifier whether the  *)
(* callback found a verifier.                                              *)
(***************************************************************************)
NotBegun ==
  [pc |-> "idle", asked |-> "", at |-> "", site |-> "", user |-> 0,
   client |-> "", challenged |-> FALSE, verifier |-> FALSE]

Init ==
  /\ file \in Files /\ env \in Envs
  /\ process = "down" /\ cfg = file /\ providers = <<>>
  /\ states = <<>> /\ accounts = {}
  /\ login = [l \in Logins |-> NotBegun]

\* LoadConfig, NewProvidersFromConfig and the key's decoding in database.New.
Start ==
  /\ process = "down"
  /\ cfg' = Loaded(file, env)
  /\ IF Loads(file, env) /\ cfg'.secretKey \in HexKeys
     THEN process' = "up" /\ providers' = NewProvidersFromConfig(cfg')
     ELSE process' = "refused" /\ UNCHANGED providers
  /\ UNCHANGED <<file, env, states, login, accounts>>

Goes(l, pc) == login' = [login EXCEPT ![l].pc = pc]

\* Mutant: the verifier is not stored.
NoVerifier(p) == FALSE

\* The column verifier of the row.
StoredVerifier(p) == UsesPKCE(p)

\* Login: the page offers the keys of the map.
Ask(l) ==
  /\ process = "up" /\ login[l].pc = "idle"
  /\ \E k \in DOMAIN providers :
       /\ states' = [s \in DOMAIN states \cup {l} |->
                       IF s = l THEN StoredVerifier(providers[k]) ELSE states[s]]
       /\ login' = [login EXCEPT ![l] =
            [@ EXCEPT !.pc = "sent", !.asked = k,
                      !.challenged = UsesPKCE(providers[k])]]
  /\ UNCHANGED <<configVars, accounts>>

\* The application is known where the browser is sent, and the user agrees.
Consent(l) ==
  /\ login[l].pc = "sent"
  /\ LET p == providers[login[l].asked]
     IN  /\ AppSite[p.clientId] = OAuthSite(p)
         /\ \E u \in Users :
              login' = [login EXCEPT ![l] =
                [@ EXCEPT !.pc = "back", !.at = CallbackKey(p), !.site = OAuthSite(p),
                          !.user = u, !.client = p.clientId]]
  /\ UNCHANGED <<configVars, states, accounts>>

\* The user declines, or there is nothing to agree to at that address.
NoConsent(l) ==
  /\ login[l].pc = "sent"
  /\ Goes(l, "gone")
  /\ UNCHANGED <<configVars, states, accounts>>

\* Mutant: the lookup's ok is not looked at.
AnyKey(k) == TRUE

KnownKey(k) == k \in DOMAIN providers

\* Mutant: the row is read and kept.
CallbackKeepsRow(l) ==
  /\ login[l].pc = "back" /\ KnownKey(login[l].at)
  /\ login' = [login EXCEPT ![l] = [@ EXCEPT !.pc = "exchange", !.verifier = states[l]]]
  /\ UNCHANGED <<configVars, states, accounts>>

\* OAuth2Callback for the key in the URL, which may not be the one asked.
Callback(l) ==
  /\ login[l].pc = "back" /\ KnownKey(login[l].at)
  /\ login' = [login EXCEPT ![l] = [@ EXCEPT !.pc = "exchange", !.verifier = states[l]]]
  /\ states' = [s \in DOMAIN states \ {l} |-> states[s]]
  /\ UNCHANGED <<configVars, accounts>>

UnknownProvider(l) ==
  /\ login[l].pc = "back" /\ ~ KnownKey(login[l].at)
  /\ Goes(l, "failed")
  /\ UNCHANGED <<configVars, states, accounts>>

\* The token endpoint knows the application by its secret, or a public one by
\* its id alone.
KnowsApplication(p) ==
  \/ SentSecret(p) = AppSecret[p.clientId]
  \/ SentSecret(p) = "" /\ p.clientId \in PublicApps

\* It takes its own codes only, from the application they were given to, with
\* the verifier of the challenge.
Exchange(l) ==
  /\ login[l].pc = "exchange"
  /\ LET p == providers[login[l].at]
     IN  IF /\ login[l].site = OAuthSite(p)
            /\ login[l].client = p.clientId
            /\ KnowsApplication(p)
            /\ login[l].challenged => login[l].verifier
         THEN Goes(l, "identify")
         ELSE Goes(l, "failed")
  /\ UNCHANGED <<configVars, states, accounts>>

\* GetUser with the token, UpsertAccount, and the encryption of the tokens for
\* CreateSession, which takes a key of the right length.
Identify(l) ==
  /\ login[l].pc = "identify"
  /\ IF /\ ApiAddress(providers[login[l].at]) = [site |-> login[l].site, door |-> "api"]
        /\ providers[login[l].at].type \in TakesToken
     THEN /\ accounts' = accounts \cup
               {[provider |-> login[l].at, id |-> login[l].user, site |-> login[l].site]}
          /\ Goes(l, IF cfg.secretKey \in AesKeys THEN "done" ELSE "failed")
     ELSE Goes(l, "failed") /\ UNCHANGED accounts
  /\ UNCHANGED <<configVars, states>>

Handle(l) == Callback(l) \/ UnknownProvider(l) \/ Exchange(l) \/ Identify(l)

\* A process that refused its configuration, or has no login left to serve.
Rest ==
  /\ process = "refused" \/ \A l \in Logins : login[l].pc \in {"gone", "failed", "done"}
  /\ UNCHANGED vars

Next ==
  \/ Start
  \/ \E l \in Logins : Ask(l) \/ Consent(l) \/ NoConsent(l) \/ Handle(l)
  \/ Rest

Spec == Init /\ [][Next]_vars

\* Fairness: a handler goes on, and the provider it calls answers.
FairSpec == Spec /\ \A l \in Logins : WF_vars(Handle(l))

-----------------------------------------------------------------------------
(* Type invariant *)

LoginRecords ==
  [pc : {"idle", "sent", "gone", "back", "exchange", "identify", "failed", "done"},
   asked : Strings, at : Strings, site : Strings, user : Users \cup {0},
   client : Strings, challenged : BOOLEAN, verifier : BOOLEAN]

\* Every variable has its type: a login on its way is one of a provider there is
\* and of a user who agreed, an account is kept under one of these providers.
TypeOK ==
  /\ file \in Files /\ env \in Envs
  /\ process \in {"down", "up", "refused"}
  /\ cfg \in FileRecords
  /\ DOMAIN providers \subseteq Strings
  /\ providers \in [DOMAIN providers -> ProviderRecords]
  /\ accounts \subseteq [provider : DOMAIN providers, id : Users, site : Strings]
  /\ login \in [Logins -> LoginRecords]
  /\ DOMAIN states \subseteq Logins /\ states \in [DOMAIN states -> BOOLEAN]
  /\ \A l \in Logins :
       LET pc == login[l].pc
       IN  /\ pc # "idle" => process = "up" /\ login[l].asked \in DOMAIN providers
           /\ pc \in {"sent", "back"} => l \in DOMAIN states
           /\ pc \in {"exchange", "identify", "done"} => login[l].at \in DOMAIN providers
           /\ pc \in {"back", "exchange", "identify", "done"} => login[l].user \in Users

-----------------------------------------------------------------------------
(* Safety *)

\* A process that serves has every provider its file lists, each of a known type
\* and with a client id and secret once the environment is filled in, and a
\* secret key that is not the name of a variable (config.go:51-161,
\* provider.go:79-94, database.go:33).
ServesSoundConfig ==
  process = "up" =>
    /\ \A i \in 1 .. Len(file.providers) :
         Expand(file.providers[i].key, env) \in DOMAIN providers
    /\ \A k \in DOMAIN providers :
         /\ providers[k].key = k /\ providers[k].type \in ProviderTypes
         /\ {providers[k].clientId, providers[k].clientSecret} \cap ({""} \cup DOMAIN env) = {}
    /\ cfg.secretKey \notin DOMAIN env

\* An account is kept under a provider for a user of that provider's own server,
\* whatever callback it came through and although the endpoints of OAuth2 are
\* fixed while the API's address is not (auth.go:183-241, gitlab.go:58-81).
AccountsOfOwnServer ==
  \A a \in accounts : a.site = SiteOf(providers[a.provider])

\* "providers: # Minimal - key: github" (config.yaml:9-13): who consents to sign in with a
\* provider of the configuration as shipped is signed in.
ConsentedIsSignedIn == \A l \in Logins : login[l].pc # "failed"

\* The providers that can be signed in with, under the key of their type: GitLab
\* at its public site with the secret of its application, and a Gitea whose url
\* is given and whose application is a public one, since its secret is not sent.
Workable(k) ==
  LET p == providers[k]
  IN  /\ k = p.type
      /\ \/ p.type = GitLab /\ SiteOf(p) = PublicSite(GitLab)
            /\ p.clientSecret = AppSecret[p.clientId]
         \/ p.type = Gitea /\ p.url # "" /\ p.clientId \in PublicApps
      /\ p.type \in TakesToken
      /\ cfg.secretKey \in AesKeys

\* A login with one of these is never answered with an error, whatever other
\* providers stand beside it in the file: its callback comes back to it, its
\* code, application and verifier are taken and its API knows the token
\* (auth.go:119-265, OAuth2Config of gitlab.go:58 and gitea.go:55).
WorkableNotRefused ==
  \A l \in Logins : login[l].pc = "failed" => ~ Workable(login[l].asked)

-----------------------------------------------------------------------------
(* Refinement *)

\* How far a login has come: its row waits, or its callback is on its way.
LoginStage(l) ==
  IF l \in DOMAIN states THEN "begun"
  ELSE IF login[l].pc = "exchange" THEN "presented"
  ELSE IF login[l].pc = "identify" THEN "trusted" ELSE "over"

\* The logins begun, who agreed to them and where, and the users signed in with
\* the server their provider stands for.
Begun == {l \in Logins : login[l].pc # "idle"}
Agreed == {l \in Begun : login[l].pc \notin {"sent", "gone"}}
SignedIn == {l \in Begun : login[l].pc = "done"}

Flow == INSTANCE LoginFlow WITH
          stage <- [l \in Begun |-> LoginStage(l)],
          agreed <- [l \in Agreed |-> [site |-> login[l].site, user |-> login[l].user]],
          holder <- [l \in SignedIn |-> [site |-> SiteOf(providers[login[l].at]),
                                         user |-> login[l].user]]

\* Whatever the addresses in the file, who is signed in under a provider agreed to
\* it at that provider's own server, once for each session (auth.go:119-265).
ImplementsFlow == Flow!Spec

-----------------------------------------------------------------------------
(* Liveness *)

\* With these a user who consents is signed in (auth.go:165-265).
WorkableSignsIn ==
  \A l \in Logins :
    (login[l].pc = "back" /\ Workable(login[l].asked)) ~> (login[l].pc = "done")
=============================================================================
