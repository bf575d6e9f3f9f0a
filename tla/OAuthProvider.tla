---------------------------- MODULE OAuthProvider ----------------------------
(***************************************************************************)
(* The hosting providers (GitHub, GitLab, Gitea) as the code in            *)
(* internal/handler/auth.go sees them through golang.org/x/oauth2: a user  *)
(* consents to a login, the code of that login is redeemed for tokens, and *)
(* a refresh token is traded for a new access token.                       *)
(*                                                                         *)
(* An access token and the refresh token issued with it share one number.  *)
(* A provider that rotates refresh tokens honours each of them once.       *)
(***************************************************************************)
EXTENDS Basics

CONSTANTS
  Users,         \* identities: a user of a provider
  Providers,     \* provider keys
  ProviderOf,    \* the provider of each user
  Expiring,      \* the providers whose access tokens expire
  Rotating,      \* those of them that replace the refresh token at each refresh
  TokenTTL       \* how long an access token of an expiring provider lives

ASSUME ProviderAssumption ==
  /\ ProviderOf \in [Users -> Providers]
  /\ Expiring \subseteq Providers
  /\ Rotating \subseteq Expiring
  /\ TokenTTL \in Nat \ {0}

VARIABLES
  issued,        \* token |-> [user, expires]; expires = 0 when it never does
  honoured,      \* refresh tokens the provider will still accept
  consent,       \* state |-> user who consented to that login
  redeemed       \* states whose authorization code was presented

providerVars == <<issued, honoured, consent, redeemed>>

TokenExpiry(u) == IF ProviderOf[u] \in Expiring THEN now + TokenTTL ELSE 0

Issue(t, u) == issued' = Put(issued, t, [user |-> u, expires |-> TokenExpiry(u)])

\* The user agrees to the login that carries this state.
Consent(st, u) == consent' = Put(consent, st, u)

\* The first redemption of a login's code; a refresh token comes with the
\* access token when access tokens expire.
Redeem(st, t) ==
  /\ redeemed' = redeemed \cup {st}
  /\ Issue(t, consent[st])
  /\ honoured' = IF ProviderOf[consent[st]] \in Expiring
                 THEN honoured \cup {t} ELSE honoured

RefreshTokenOf(t, u) == IF ProviderOf[u] \in Expiring THEN t ELSE 0

\* Refresh token old is traded for access token t.
Refresh(old, t) ==
  LET u == issued[old].user
  IN  /\ Issue(t, u)
      /\ honoured' = IF ProviderOf[u] \in Rotating
                     THEN (honoured \ {old}) \cup {t} ELSE honoured

\* The refresh token the client holds after that trade: oauth2 keeps the old
\* one when the answer carries none.
Successor(old, t) ==
  IF ProviderOf[issued[old].user] \in Rotating THEN t ELSE old
=============================================================================
