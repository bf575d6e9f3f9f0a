------------------------------ MODULE Providers ------------------------------
(***************************************************************************)
(* The providers made from a configuration (internal/provider): where each *)
(* sends a user to sign in, where that user comes back, and where its API  *)
(* client turns.                                                           *)
(*                                                                         *)
(* A url is reduced to its site, "" where the configuration gives none.    *)
(* A site has two doors: its pages, with the OAuth2 endpoints among them,  *)
(* and its API.                                                            *)
(***************************************************************************)
EXTENDS Config

\* endpoints.GitHub, endpoints.GitLab; gitea.com is the default of NewClient.
PublicSite(type) ==
  IF type = GitHub THEN "github.com"
  ELSE IF type = GitLab THEN "gitlab.com" ELSE "gitea.com"

ASSUME SitesAssumption == {"github.com", "gitlab.com", "gitea.com"} \subseteq Strings

Configured(cfg) == {cfg.providers[i] : i \in 1 .. Len(cfg.providers)}

\* The map from keys to providers; an entry of another type is left out.
NewProvidersFromConfig(cfg) ==
  LET known == {p \in Configured(cfg) : p.type \in ProviderTypes}
  IN  [k \in {p.key : p \in known} |-> CHOOSE p \in known : p.key = k]

\* The server the configuration names.
SiteOf(p) == IF p.url = "" THEN PublicSite(p.type) ELSE p.url

\* OAuth2Config().Endpoint: fixed for two types, p.url plus a path for Gitea.
OAuthSite(p) == IF p.type = Gitea THEN p.url ELSE PublicSite(p.type)

\* OAuth2Config().RedirectURL names the type.  GitHub gets none and uses the
\* one registered with the application, which its operator made for the key.
CallbackKey(p) == IF p.type = GitHub THEN p.key ELSE p.type

UsesPKCE(p) == p.type # GitHub

\* Mutant: no provider's secret is handed to OAuth2.
NoSecret(p) == ""

\* OAuth2Config().ClientSecret: commented out for Gitea (gitea.go:58), although
\* validateProvider asks for one whatever the type.
SentSecret(p) == IF p.type = Gitea THEN "" ELSE p.clientSecret

\* Mutant: the client is made without the url.
PublicApi(p) == [site |-> PublicSite(p.type), door |-> "api"]

\* NewClient: the libraries of GitLab and Gitea append the path of the API to
\* the site; GitHub's takes the url as the address of the API.
ApiAddress(p) ==
  [site |-> SiteOf(p), door |-> IF p.type = GitHub THEN "pages" ELSE "api"]
=============================================================================
