-------------------------------- MODULE Auth --------------------------------
(***************************************************************************)
(* Sign-in, sessions and token refresh (internal/handler/auth.go) over the *)
(* database and the OAuth2 providers, with the garbage collector of        *)
(* internal/database/database.go and the process's restarts.               *)
(*                                                                         *)
(* Every request passes AuthenticateMiddleware and then its handler.  The  *)
(* steps of a request are its database statements and its calls to a       *)
(* provider; anything may happen between two of them.                      *)
(***************************************************************************)
EXTENDS Database, OAuthProvider

CONSTANTS
  Requests,       \* slots for the requests being served at one time
  Browsers,       \* cookie jars
  Kinds,          \* which handlers the browsers call, a subset of AllKinds
  Keys,           \* secret keys an operator may configure
  SessionTTL,     \* 14 days, auth.go:260
  StateTTL,       \* 15 minutes, auth.go:140
  ExpiryDelta,    \* oauth2 treats a token as expired this long before it is
  Resumed,        \* TRUE: the database holds one login made before the start
  Fallible,       \* TRUE: statements, provider calls and responses may fail
  MaxRequests,    \* bound: requests served in a behaviour
  MaxRestarts     \* bound: crashes of the process

AllKinds == {"page", "guarded", "logout", "delete", "login", "callback"}

ASSUME AuthAssumption ==
  /\ Browsers # {} /\ Users # {} /\ Keys # {}
  /\ Kinds \subseteq AllKinds
  /\ SessionTTL \in Nat \ {0} /\ StateTTL \in Nat \ {0} /\ ExpiryDelta \in Nat
  /\ Resumed \in BOOLEAN /\ Fallible \in BOOLEAN
  /\ MaxRequests \in Nat /\ MaxRestarts \in Nat

VARIABLES
  jar,         \* browser |-> the session its cookie names, 0 when it has none
  req,         \* slot |-> the request it serves, see Request
  next,        \* the next unused state, account, session and token
  served,      \* requests begun so far
  process,     \* "down", "cleaning" (New is in Cleanup) or "up"
  restarts,    \* crashes so far
  secret,      \* the running process's secret key
  configured,  \* the providers in the running process's configuration
  gc,          \* the garbage collector: "idle" or "sessions", between its deletes
  lost         \* history: sessions whose refreshed token never reached the database

serverVars == <<process, restarts, secret, configured>>
vars == <<now, tables, providerVars, jar, req, next, served, serverVars, gc, lost>>

(***************************************************************************)
(* A slot.  sid is the cookie; st the login state a callback carries or a  *)
(* login creates; prov the provider named in the URL; acct and tok are     *)
(* what authentication put in the context (acct = 0: anonymous); rtok the  *)
(* refresh token in hand; new the account a callback upserted; clear and   *)
(* set what the response does to the session cookie; out how the handler   *)
(* answered.  late is history: the cookie's session was over when the      *)
(* request began.                                                          *)
(***************************************************************************)
NoRequest(prov) ==
  [pc |-> "idle", kind |-> "page", browser |-> CHOOSE b \in Browsers : TRUE,
   sid |-> 0, st |-> 0, prov |-> prov, acct |-> 0, tok |-> 0, rtok |-> 0,
   new |-> 0, clear |-> FALSE, set |-> 0, out |-> "ok", late |-> FALSE]

AnyProvider == ProviderOf[CHOOSE u \in Users : TRUE]
Idle == NoRequest(AnyProvider)

UserAt(s) == account[session[s].account].user

-----------------------------------------------------------------------------
(* Initial states: no request yet, the process not started, and a database *)
(* that is empty or holds one login made at time 0 by an earlier process.   *)

EmptyDatabase ==
  /\ account = NoRows /\ session = NoRows /\ issued = NoRows /\ honoured = {}
  /\ jar = [b \in Browsers |-> 0]
  /\ next = [state |-> 1, account |-> 1, session |-> 1, token |-> 1]

OneLogin(b0, u, k) ==
  /\ account = Put(NoRows, 1, [user |-> u])
  /\ session = Put(NoRows, 1,
                   [key |-> k, access |-> 1, refresh |-> RefreshTokenOf(1, u),
                    accessExpires |-> TokenExpiry(u), expires |-> SessionTTL,
                    account |-> 1])
  /\ issued = Put(NoRows, 1, [user |-> u, expires |-> TokenExpiry(u)])
  /\ honoured = IF ProviderOf[u] \in Expiring THEN {1} ELSE {}
  /\ jar = [b \in Browsers |-> IF b = b0 THEN 1 ELSE 0]
  /\ next = [state |-> 1, account |-> 2, session |-> 2, token |-> 2]

Init ==
  /\ now = 0
  /\ IF Resumed
     THEN \E b \in Browsers, u \in Users, k \in Keys : OneLogin(b, u, k)
     ELSE EmptyDatabase
  /\ oauth2_state = NoRows /\ consent = NoRows /\ redeemed = {}
  /\ req = [r \in Requests |-> Idle]
  /\ served = 0 /\ restarts = 0 /\ process = "down"
  /\ secret \in Keys /\ configured = Providers
  /\ gc = "idle" /\ lost = {}

-----------------------------------------------------------------------------
(* AuthenticateMiddleware and authenticateSession *)

\* What a browser may send: a callback follows a consent, and repeats when
\* the page is reloaded; the other handlers take no state.
Sensible(kind, p, st) ==
  \/ kind = "callback" /\ st \in DOMAIN consent /\ p = ProviderOf[consent[st]]
  \/ kind = "login" /\ st = 0
  \/ kind \notin {"login", "callback"} /\ st = 0 /\ p = AnyProvider

\* A request without a session cookie goes straight to its handler.
Start(r) ==
  /\ process = "up" /\ req[r].pc = "idle" /\ served < MaxRequests
  /\ served' = served + 1
  /\ \E kind \in Kinds, b \in Browsers, p \in Providers, st \in DOMAIN consent \cup {0} :
       /\ Sensible(kind, p, st)
       /\ req' = [req EXCEPT ![r] =
            [NoRequest(p) EXCEPT
               !.pc = IF jar[b] = 0 THEN "handler" ELSE "auth",
               !.kind = kind, !.browser = b, !.sid = jar[b], !.st = st,
               !.late = jar[b] # 0 /\ jar[b] \notin DOMAIN session]]
  /\ UNCHANGED <<now, tables, providerVars, jar, next, serverVars, gc, lost>>

Decrypts(row) == row.key = secret

\* The row is there, has not expired, names a configured provider and opens.
Usable(s) ==
  /\ SessionFound(s)
  /\ ~ now > session[s].expires
  /\ ProviderOf[UserAt(s)] \in configured
  /\ Decrypts(session[s])

\* oauth2's Token.Valid, for the token read from the row.
TokenValid(row) ==
  \/ row.accessExpires = 0
  \/ ~ row.accessExpires - ExpiryDelta < now

\* Any error in authenticateSession: the cookie is cleared in the response
\* and the handler runs without an account.
Anonymous(r) ==
  req' = [req EXCEPT ![r] = [@ EXCEPT !.pc = "handler", !.clear = TRUE,
                                      !.acct = 0, !.tok = 0, !.rtok = 0]]

\* Mutant: a row that is not found is waited for.
AuthRefusedIfFound(r) ==
  /\ req[r].pc = "auth" /\ SessionFound(req[r].sid) /\ ~ Usable(req[r].sid)
  /\ Anonymous(r)
  /\ UNCHANGED <<now, tables, providerVars, jar, next, served, serverVars, gc, lost>>

AuthRefused(r) ==
  /\ req[r].pc = "auth"
  /\ LET s == req[r].sid
     IN  \/ Fallible
         \/ ~ Usable(s)
         \/ Usable(s) /\ ~ TokenValid(session[s]) /\ session[s].refresh = 0
  /\ Anonymous(r)
  /\ UNCHANGED <<now, tables, providerVars, jar, next, served, serverVars, gc, lost>>

\* Mutant: one cached token serves every session of the process.
AcceptCached(r, pc) ==
  LET row == session[req[r].sid]
      cached == session[CHOOSE s \in DOMAIN session : \A q \in DOMAIN session : s <= q]
  IN  req' = [req EXCEPT ![r] = [@ EXCEPT !.pc = pc, !.acct = row.account,
                                          !.tok = cached.access, !.rtok = cached.refresh]]

\* The context carries the account and the token of the row.
Accept(r, pc) ==
  LET row == session[req[r].sid]
  IN  req' = [req EXCEPT ![r] = [@ EXCEPT !.pc = pc, !.acct = row.account,
                                          !.tok = row.access, !.rtok = row.refresh]]

AuthAccepted(r) ==
  /\ req[r].pc = "auth"
  /\ Usable(req[r].sid) /\ TokenValid(session[req[r].sid])
  /\ Accept(r, "handler")
  /\ UNCHANGED <<now, tables, providerVars, jar, next, served, serverVars, gc, lost>>

AuthStale(r) ==
  /\ req[r].pc = "auth"
  /\ Usable(req[r].sid) /\ ~ TokenValid(session[req[r].sid])
  /\ session[req[r].sid].refresh # 0
  /\ Accept(r, "refresh")
  /\ UNCHANGED <<now, tables, providerVars, jar, next, served, serverVars, gc, lost>>

\* The provider trades the refresh token and the answer arrives.
RefreshGranted(r) ==
  /\ req[r].pc = "refresh" /\ req[r].rtok \in honoured
  /\ Refresh(req[r].rtok, next.token)
  /\ next' = [next EXCEPT !.token = @ + 1]
  /\ req' = [req EXCEPT ![r] = [@ EXCEPT !.pc = "getuser", !.tok = next.token,
                                         !.rtok = Successor(req[r].rtok, next.token)]]
  /\ UNCHANGED <<now, tables, consent, redeemed, jar, served, serverVars, gc, lost>>

\* The provider refuses the refresh token, or cannot be reached.
RefreshRefused(r) ==
  /\ req[r].pc = "refresh"
  /\ Fallible \/ req[r].rtok \notin honoured
  /\ Anonymous(r)
  /\ UNCHANGED <<now, tables, providerVars, jar, next, served, serverVars, gc, lost>>

\* The provider trades the refresh token and the answer is lost.
RefreshLost(r) ==
  /\ Fallible
  /\ req[r].pc = "refresh" /\ req[r].rtok \in honoured
  /\ Refresh(req[r].rtok, next.token)
  /\ next' = [next EXCEPT !.token = @ + 1]
  /\ lost' = lost \cup {req[r].sid}
  /\ Anonymous(r)
  /\ UNCHANGED <<now, tables, consent, redeemed, jar, served, serverVars, gc>>

\* GetUser, then UpdateAccount, which writes profile columns only.
RefreshProfile(r) ==
  /\ req[r].pc = "getuser"
  /\ req' = [req EXCEPT ![r].pc = "updsess"]
  /\ UNCHANGED <<now, tables, providerVars, jar, next, served, serverVars, gc, lost>>

RefreshProfileFails(r) ==
  /\ Fallible
  /\ req[r].pc = "getuser"
  /\ lost' = lost \cup {req[r].sid}
  /\ Anonymous(r)
  /\ UNCHANGED <<now, tables, providerVars, jar, next, served, serverVars, gc>>

\* Mutant: the expiry column is forgotten.
TokenRowSameExpiry(r) ==
  [key |-> secret, access |-> req[r].tok, refresh |-> req[r].rtok,
   accessExpires |-> IF req[r].sid \in DOMAIN session
                     THEN session[req[r].sid].accessExpires ELSE 0]

\* The columns a request writes with the token pair it holds.
TokenRow(r) ==
  [key |-> secret, access |-> req[r].tok, refresh |-> req[r].rtok,
   accessExpires |-> issued[req[r].tok].expires]

\* UpdateSession; the request goes on with the account read before it.
SaveTokens(r) ==
  /\ req[r].pc = "updsess"
  /\ UpdateSession(req[r].sid, TokenRow(r))
  /\ req' = [req EXCEPT ![r].pc = "handler"]
  /\ UNCHANGED <<now, oauth2_state, account, providerVars, jar, next, served,
                 serverVars, gc, lost>>

\* The statement fails, after or before it took effect.
SaveTokensFails(r) ==
  /\ Fallible
  /\ req[r].pc = "updsess"
  /\ \/ UpdateSession(req[r].sid, TokenRow(r)) /\ UNCHANGED lost
     \/ lost' = lost \cup {req[r].sid} /\ UNCHANGED session
  /\ Anonymous(r)
  /\ UNCHANGED <<now, oauth2_state, account, providerVars, jar, next, served,
                 serverVars, gc>>

-----------------------------------------------------------------------------
(* Handlers *)

AtHandler(r, kind) == req[r].pc = "handler" /\ req[r].kind = kind

Answer(r, out) == req' = [req EXCEPT ![r] = [@ EXCEPT !.pc = "respond", !.out = out]]

AnswerClearing(r, out) ==
  req' = [req EXCEPT ![r] = [@ EXCEPT !.pc = "respond", !.out = out, !.clear = TRUE]]

\* The index, the login page, the schemas, the template list, and a callback
\* that carries an error: no state is touched.
Page(r) ==
  /\ AtHandler(r, "page")
  /\ Answer(r, "ok")
  /\ UNCHANGED <<now, tables, providerVars, jar, next, served, serverVars, gc, lost>>

\* MustAuthenticate in front of a handler that reads no table of this module.
Guarded(r) ==
  /\ AtHandler(r, "guarded")
  /\ Answer(r, IF req[r].acct = 0 THEN "login" ELSE "ok")
  /\ UNCHANGED <<now, tables, providerVars, jar, next, served, serverVars, gc, lost>>

\* Logout deletes the row its cookie names, whoever is authenticated; an
\* error of the statement is only logged.
Logout(r) ==
  /\ AtHandler(r, "logout")
  /\ IF req[r].sid = 0
     THEN Answer(r, "ok") /\ UNCHANGED session
     ELSE /\ AnswerClearing(r, "ok")
          /\ \/ DeleteSession(req[r].sid)
             \/ Fallible /\ UNCHANGED session
  /\ UNCHANGED <<now, oauth2_state, account, providerVars, jar, next, served,
                 serverVars, gc, lost>>

\* MustAuthenticate, then DeleteAccount.
Delete(r) ==
  /\ AtHandler(r, "delete")
  /\ IF req[r].acct = 0
     THEN Answer(r, "login") /\ UNCHANGED <<account, session>>
     ELSE AnswerClearing(r, "ok") /\ DeleteAccount(req[r].acct)
  /\ UNCHANGED <<now, oauth2_state, providerVars, jar, next, served, serverVars,
                 gc, lost>>

DeleteFails(r) ==
  /\ Fallible
  /\ AtHandler(r, "delete") /\ req[r].acct # 0
  /\ Answer(r, "error")
  /\ DeleteAccount(req[r].acct) \/ UNCHANGED <<account, session>>
  /\ UNCHANGED <<now, oauth2_state, providerVars, jar, next, served, serverVars,
                 gc, lost>>

\* Login for a named provider stores a fresh state and redirects to the
\* provider.
Login(r) ==
  /\ AtHandler(r, "login") /\ req[r].prov \in configured
  /\ CreateOAuth2State(next.state, now + StateTTL)
  /\ next' = [next EXCEPT !.state = @ + 1]
  /\ req' = [req EXCEPT ![r] = [@ EXCEPT !.pc = "respond", !.out = "consent",
                                         !.st = next.state]]
  /\ UNCHANGED <<now, account, session, providerVars, jar, served, serverVars,
                 gc, lost>>

\* The provider is unknown, or the statement fails before or after it took
\* effect.
LoginRefused(r) ==
  /\ AtHandler(r, "login")
  /\ \/ req[r].prov \notin configured /\ UNCHANGED <<oauth2_state, next>>
     \/ /\ Fallible /\ req[r].prov \in configured
        /\ CreateOAuth2State(next.state, now + StateTTL)
        /\ next' = [next EXCEPT !.state = @ + 1]
     \/ Fallible /\ UNCHANGED <<oauth2_state, next>>
  /\ Answer(r, "error")
  /\ UNCHANGED <<now, account, session, providerVars, jar, served, serverVars,
                 gc, lost>>

\* OAuth2Callback: the state is consumed before its expiry is looked at.
Callback(r) ==
  /\ AtHandler(r, "callback")
  /\ req[r].prov \in configured /\ req[r].st \in DOMAIN oauth2_state
  /\ GetAndDeleteOAuth2State(req[r].st)
  /\ IF now > oauth2_state[req[r].st].expires
     THEN Answer(r, "error")
     ELSE req' = [req EXCEPT ![r].pc = "exchange"]
  /\ UNCHANGED <<now, account, session, providerVars, jar, next, served,
                 serverVars, gc, lost>>

\* Unknown provider, no such state, or the statement fails before or after it
\* took effect.
CallbackRefused(r) ==
  /\ AtHandler(r, "callback")
  /\ \/ /\ req[r].prov \notin configured \/ req[r].st \notin DOMAIN oauth2_state
        /\ UNCHANGED oauth2_state
     \/ Fallible /\ UNCHANGED oauth2_state
     \/ Fallible /\ req[r].prov \in configured /\ GetAndDeleteOAuth2State(req[r].st)
  /\ Answer(r, "error")
  /\ UNCHANGED <<now, account, session, providerVars, jar, next, served,
                 serverVars, gc, lost>>

\* The provider redeems a code once.
Exchange(r) ==
  /\ req[r].pc = "exchange" /\ req[r].st \notin redeemed
  /\ Redeem(req[r].st, next.token)
  /\ next' = [next EXCEPT !.token = @ + 1]
  /\ req' = [req EXCEPT ![r] =
       [@ EXCEPT !.pc = "upsert", !.tok = next.token,
                 !.rtok = RefreshTokenOf(next.token, consent[req[r].st])]]
  /\ UNCHANGED <<now, tables, consent, jar, served, serverVars, gc, lost>>

\* The provider refuses the code, cannot be reached, or its answer is lost.
ExchangeRefused(r) ==
  /\ req[r].pc = "exchange"
  /\ \/ (Fallible \/ req[r].st \in redeemed) /\ UNCHANGED <<providerVars, next>>
     \/ /\ Fallible /\ req[r].st \notin redeemed
        /\ Redeem(req[r].st, next.token)
        /\ next' = [next EXCEPT !.token = @ + 1]
        /\ UNCHANGED consent
  /\ Answer(r, "error")
  /\ UNCHANGED <<now, tables, jar, served, serverVars, gc, lost>>

\* The id generated for the insert is used up only if the insert happens.
TakeAccountId(u) ==
  next' = IF AccountsOf(u) = {} THEN [next EXCEPT !.account = @ + 1] ELSE next

\* GetUser with the new token, then UpsertAccount for the user it names.
Upsert(r) ==
  /\ req[r].pc = "upsert" /\ AccountsReadable
  /\ LET u == issued[req[r].tok].user
     IN  /\ UpsertAccount(u, next.account)
         /\ req' = [req EXCEPT ![r] = [@ EXCEPT !.pc = "create",
                                                !.new = UpsertedId(u, next.account)]]
         /\ TakeAccountId(u)
  /\ UNCHANGED <<now, oauth2_state, session, providerVars, jar, served,
                 serverVars, gc, lost>>

\* GetUser or the statement fails, the latter before or after it took effect.
UpsertFails(r) ==
  /\ req[r].pc = "upsert"
  /\ \/ (Fallible \/ ~ AccountsReadable) /\ UNCHANGED <<account, next>>
     \/ /\ Fallible /\ AccountsReadable
        /\ UpsertAccount(issued[req[r].tok].user, next.account)
        /\ TakeAccountId(issued[req[r].tok].user)
  /\ Answer(r, "error")
  /\ UNCHANGED <<now, oauth2_state, session, providerVars, jar, served,
                 serverVars, gc, lost>>

\* Mutant: the refresh token is not among the columns.
NewSessionUnrefreshed(r) ==
  [key |-> secret, access |-> req[r].tok, refresh |-> 0,
   accessExpires |-> issued[req[r].tok].expires,
   expires |-> now + SessionTTL, account |-> req[r].new]

NewSession(r) ==
  [key |-> secret, access |-> req[r].tok, refresh |-> req[r].rtok,
   accessExpires |-> issued[req[r].tok].expires,
   expires |-> now + SessionTTL, account |-> req[r].new]

\* CreateSession; the response will set the cookie.
CreateLogin(r) ==
  /\ req[r].pc = "create" /\ AccountReferenced(NewSession(r))
  /\ CreateSession(next.session, NewSession(r))
  /\ next' = [next EXCEPT !.session = @ + 1]
  /\ req' = [req EXCEPT ![r] = [@ EXCEPT !.pc = "respond", !.set = next.session]]
  /\ UNCHANGED <<now, oauth2_state, account, providerVars, jar, served,
                 serverVars, gc, lost>>

\* The account is gone, or the statement fails before or after it took effect.
CreateLoginFails(r) ==
  /\ req[r].pc = "create"
  /\ \/ /\ Fallible \/ ~ AccountReferenced(NewSession(r))
        /\ UNCHANGED <<session, next>>
     \/ /\ Fallible /\ AccountReferenced(NewSession(r))
        /\ CreateSession(next.session, NewSession(r))
        /\ next' = [next EXCEPT !.session = @ + 1]
  /\ Answer(r, "error")
  /\ UNCHANGED <<now, oauth2_state, account, providerVars, jar, served,
                 serverVars, gc, lost>>

\* The response reaches the browser, which applies its cookie; a redirect to
\* the provider leads a user of that provider to consent.
Deliver(r) ==
  /\ req[r].pc = "respond"
  /\ jar' = [jar EXCEPT ![req[r].browser] =
               IF req[r].set # 0 THEN req[r].set ELSE IF req[r].clear THEN 0 ELSE @]
  /\ IF req[r].out = "consent"
     THEN \E u \in Users : ProviderOf[u] = req[r].prov /\ Consent(req[r].st, u)
     ELSE UNCHANGED consent
  /\ req' = [req EXCEPT ![r] = Idle]
  /\ UNCHANGED <<now, tables, issued, honoured, redeemed, next, served,
                 serverVars, gc, lost>>

\* The response is lost, or the user turns away at the provider.
Vanish(r) ==
  /\ Fallible
  /\ req[r].pc = "respond"
  /\ req' = [req EXCEPT ![r] = Idle]
  /\ UNCHANGED <<now, tables, providerVars, jar, next, served, serverVars, gc, lost>>

-----------------------------------------------------------------------------
(* The process: garbage collector, crash and start *)

\* Mutant: the collector's loop ends at its first error.
CollectStatesOrStop ==
  /\ process = "up" /\ gc = "idle"
  /\ DeleteExpiredOAuth2States
  /\ gc' = "sessions" \/ (Fallible /\ gc' = "stopped")
  /\ UNCHANGED <<now, account, session, providerVars, jar, req, next, served,
                 serverVars, lost>>

\* Cleanup is two statements.  A failure of the first ends it, whether or not
\* the statement took effect; the collector logs it and waits for the next
\* tick.
CollectStates ==
  /\ process = "up" /\ gc = "idle"
  /\ DeleteExpiredOAuth2States
  /\ gc' = "sessions" \/ (Fallible /\ gc' = "idle")
  /\ UNCHANGED <<now, account, session, providerVars, jar, req, next, served,
                 serverVars, lost>>

CollectSessions ==
  /\ process = "up" /\ gc = "sessions"
  /\ DeleteExpiredSessions \/ (Fallible /\ UNCHANGED session)
  /\ gc' = "idle"
  /\ UNCHANGED <<now, oauth2_state, account, providerVars, jar, req, next,
                 served, serverVars, lost>>

\* Requests whose refreshed token has not been written yet.
Unsaved == {r \in Requests : req[r].pc \in {"getuser", "updsess"}}

\* The process dies at any point; what it had in memory is gone.
Crash ==
  /\ process # "down" /\ restarts < MaxRestarts
  /\ restarts' = restarts + 1
  /\ process' = "down" /\ gc' = "idle"
  /\ req' = [r \in Requests |-> Idle]
  /\ lost' = lost \cup {req[r].sid : r \in Unsaved}
  /\ UNCHANGED <<now, tables, providerVars, jar, next, served, secret, configured>>

\* The process starts with the configuration it finds and runs Cleanup.
BootStates ==
  /\ process = "down" /\ process' = "cleaning"
  /\ secret' \in Keys
  /\ configured' \in SUBSET Providers \ {{}}
  /\ DeleteExpiredOAuth2States
  /\ UNCHANGED <<now, account, session, providerVars, jar, req, next, served,
                 restarts, gc, lost>>

BootSessions ==
  /\ process = "cleaning"
  /\ \/ process' = "up" /\ DeleteExpiredSessions
     \/ Fallible /\ process' = "down" /\ UNCHANGED session
  /\ UNCHANGED <<now, oauth2_state, account, providerVars, jar, req, next,
                 served, restarts, secret, configured, gc, lost>>

-----------------------------------------------------------------------------
(* The rest of the world *)

\* The cookie's Max-Age runs out, or the user clears it.
ForgetCookie(b) ==
  /\ jar[b] # 0
  /\ jar' = [jar EXCEPT ![b] = 0]
  /\ UNCHANGED <<now, tables, providerVars, req, next, served, serverVars, gc, lost>>

Clock ==
  /\ Tick
  /\ UNCHANGED <<tables, providerVars, jar, req, next, served, serverVars, gc, lost>>

Authenticate(r) ==
  \/ AuthRefused(r) \/ AuthAccepted(r) \/ AuthStale(r)
  \/ RefreshProfile(r) \/ RefreshProfileFails(r)
  \/ SaveTokens(r) \/ SaveTokensFails(r)

Handle(r) ==
  \/ Page(r) \/ Guarded(r) \/ Logout(r) \/ Delete(r) \/ DeleteFails(r)
  \/ Login(r) \/ LoginRefused(r) \/ Callback(r) \/ CallbackRefused(r)
  \/ Upsert(r) \/ UpsertFails(r) \/ CreateLogin(r) \/ CreateLoginFails(r)

\* The calls to a token endpoint: http.DefaultClient, no time limit.
TokenEndpoint(r) ==
  \/ RefreshGranted(r) \/ RefreshRefused(r) \/ RefreshLost(r)
  \/ Exchange(r) \/ ExchangeRefused(r)

Next ==
  \/ \E r \in Requests :
       Start(r) \/ Authenticate(r) \/ Handle(r) \/ TokenEndpoint(r)
         \/ Deliver(r) \/ Vanish(r)
  \/ CollectStates \/ CollectSessions \/ Crash \/ BootStates \/ BootSessions
  \/ \E b \in Browsers : ForgetCookie(b)
  \/ Clock

Spec == Init /\ [][Next]_vars

(***************************************************************************)
(* Fairness.  The Go runtime schedules every handler and the collector's   *)
(* ticker, and a database answers; nothing obliges a token endpoint to     *)
(* answer, a browser to call or the clock to move.  For the collector only: *)
(* a statement tried again and again succeeds at last.                     *)
(***************************************************************************)
HandlerStep(r) == Authenticate(r) \/ Handle(r) \/ Deliver(r) \/ Vanish(r)

CleanupStatesDone == CollectStates /\ gc' = "sessions"
CleanupSessionsDone == CollectSessions /\ DeleteExpiredSessions
BootDone == BootSessions /\ process' = "up"

Fairness ==
  /\ \A r \in Requests : WF_vars(HandlerStep(r))
  /\ SF_vars(CleanupStatesDone) /\ SF_vars(CleanupSessionsDone)
  /\ WF_vars(BootStates) /\ SF_vars(BootDone)

FairSpec == Spec /\ Fairness

-----------------------------------------------------------------------------
(* Type invariant *)

\* A table whose keys were all handed out before and whose rows have a type.
IsTable(table, unused, rows) ==
  /\ DOMAIN table \subseteq 1 .. (unused - 1)
  /\ table \in [DOMAIN table -> rows]

SessionRows ==
  [key : Keys, access : Nat, refresh : Nat, accessExpires : Nat, expires : Nat,
   account : Nat]

PCs == {"idle", "auth", "refresh", "getuser", "updsess", "handler", "exchange",
        "upsert", "create", "respond"}

RequestRecords ==
  [pc : PCs, kind : AllKinds, browser : Browsers, sid : Nat, st : Nat,
   prov : Providers, acct : Nat, tok : Nat, rtok : Nat, new : Nat,
   clear : BOOLEAN, set : Nat, out : {"ok", "login", "error", "consent"},
   late : BOOLEAN]

\* Every variable has its type, and the keys in use are those handed out.
TypeOK ==
  /\ now \in Nat
  /\ next \in [state : Nat \ {0}, account : Nat \ {0}, session : Nat \ {0},
               token : Nat \ {0}]
  /\ IsTable(oauth2_state, next.state, [expires : Nat])
  /\ IsTable(account, next.account, [user : Users])
  /\ IsTable(session, next.session, SessionRows)
  /\ IsTable(issued, next.token, [user : Users, expires : Nat])
  /\ IsTable(consent, next.state, Users)
  /\ honoured \subseteq DOMAIN issued
  /\ redeemed \subseteq DOMAIN consent
  /\ jar \in [Browsers -> Nat]
  /\ req \in [Requests -> RequestRecords]
  /\ served \in Nat /\ restarts \in Nat
  /\ process \in {"down", "cleaning", "up"}
  /\ secret \in Keys /\ configured \subseteq Providers
  /\ gc \in {"idle", "sessions"}
  /\ lost \subseteq Nat

-----------------------------------------------------------------------------
(* Safety *)

\* No session outlives its account, also when a callback creates one while
\* another request deletes the account (auth.go:228-262, schema.sql:24).
SessionsHaveAccounts ==
  \A s \in DOMAIN session : session[s].account \in DOMAIN account

\* Concurrent first logins of one user end in one account
\* (UNIQUE (provider, provider_account_id), query.sql UpsertAccount).
OneAccountPerUser ==
  \A a, b \in DOMAIN account : account[a].user = account[b].user => a = b

\* A callback reaches the provider with a code nobody presented before, and
\* no two callbacks hold the same one: however often the callback URL is
\* called, only the request that removed the state goes on (auth.go:195).
LoginRedeemedOnce ==
  \A r \in Requests :
    req[r].pc = "exchange" =>
      /\ req[r].st \notin redeemed
      /\ \A q \in Requests : req[q].pc = "exchange" /\ req[q].st = req[r].st => q = r

\* A request that begins after its session ended is never authenticated,
\* whatever requests of that session are still running (auth.go:300-306).
EndedSessionStaysOut ==
  \A r \in Requests : req[r].late => req[r].acct = 0

\* The tokens of a row were issued to the user of the row's account, and the
\* row says when the access token expires, through every interleaving of
\* refreshes and logins (auth.go:313-357).
RowTellsTheTruth ==
  \A s \in DOMAIN session :
    LET row == session[s]
    IN  /\ {row.access, row.refresh} \ {0} \subseteq DOMAIN issued
        /\ \A t \in {row.access, row.refresh} \ {0} : issued[t].user = UserAt(s)
        /\ row.accessExpires = issued[row.access].expires

\* The token a handler works with belongs to the account it works for
\* (auth.go:363-372).
ContextIsOneUser ==
  \A r \in Requests :
    req[r].pc = "handler" /\ req[r].acct \in DOMAIN account =>
      issued[req[r].tok].user = account[req[r].acct].user

\* The refresh token in a row is one the provider honours, unless a request
\* holds its successor and is about to write it, or the successor was lost to
\* a failure (auth.go:325-357).
Carried(s) ==
  \E r \in Unsaved : req[r].sid = s /\ req[r].rtok \in honoured

RefreshTokenAccounted ==
  \A s \in DOMAIN session :
    \/ session[s].refresh \in honoured \cup {0}
    \/ Carried(s)
    \/ s \in lost

\* A session that the database still holds, that has not expired and that the
\* running process can use.
Live(s) == Usable(s)

\* "Checks if user is authenticated. If not, redirect to login page"
\* (auth.go:88): whoever is sent to the login page has no live session.
LiveSessionNotSentToLogin ==
  \A r \in Requests :
    req[r].pc = "respond" /\ req[r].out = "login" => ~ Live(req[r].sid)

\* The session a callback hands out belongs to the user who consented to that
\* login, also when accounts come and go between the callback's statements
\* (auth.go:209-262, query.sql UpsertAccount).
SessionOfConsenter ==
  \A r \in Requests :
    req[r].pc = "respond" /\ req[r].set \in DOMAIN session =>
      UserAt(req[r].set) = consent[req[r].st]

\* A login whose code was redeemed leaves the account of its user, kept by
\* (provider, provider_account_id) as sql/schema.sql:10-15 declares it, where
\* nothing fails and nobody deletes accounts.
RedeemedLoginHasAccount ==
  \A st \in redeemed :
    \/ \E r \in Requests : req[r].pc = "upsert" /\ req[r].st = st
    \/ AccountsOf(consent[st]) # {}

-----------------------------------------------------------------------------
(* What a step may never do *)

\* A session that ended never comes back, and a session never changes hands
\* nor has its life prolonged: an UPDATE that comes after a logout, a
\* deletion or the collector finds no row (auth.go:352, query.sql.go:337-341).
SessionsKeepIdentity ==
  [][\A s \in DOMAIN session' :
       s < next.session =>
         /\ s \in DOMAIN session
         /\ session'[s].account = session[s].account
         /\ session'[s].expires = session[s].expires]_vars

\* A session that the database's clock has not expired ends only by a logout
\* of that session or by the deletion of its account, and such a login state
\* only by its callback: neither the collector, a start nor another user's
\* request ends it (database.go:83-93, auth.go:165, 286).
EndedByOwner ==
  [][/\ \A s \in DOMAIN session \ DOMAIN session' :
          \/ session[s].expires < DbNow
          \/ \E r \in Requests :
               \/ AtHandler(r, "logout") /\ req[r].sid = s
               \/ AtHandler(r, "delete") /\ req[r].acct = session[s].account
     /\ \A st \in DOMAIN oauth2_state \ DOMAIN oauth2_state' :
          \/ oauth2_state[st].expires < DbNow
          \/ \E r \in Requests : AtHandler(r, "callback") /\ req[r].st = st]_vars

-----------------------------------------------------------------------------
(* Refinement *)

\* The tables account and session are a session store: a row refreshed, a
\* process restarted or a key changed is no event of it.
Store == INSTANCE SessionStore WITH
           members <- DOMAIN account,
           former <- (1 .. next.account - 1) \ DOMAIN account,
           holder <- [s \in DOMAIN session |-> session[s].account],
           ended <- (1 .. next.session - 1) \ DOMAIN session

\* The sign-in code implements that store (auth.go, query.sql).
ImplementsStore == Store!Spec

\* How far the login of a state has come: its row waits, or the request that
\* took the row is on its way.
LoginStage(st) ==
  LET at(pcs) == \E r \in Requests : req[r].pc \in pcs /\ req[r].st = st
  IN  IF st \in DOMAIN oauth2_state THEN "begun"
      ELSE IF at({"exchange"}) THEN "presented"
      ELSE IF at({"upsert", "create"}) THEN "trusted" ELSE "over"

\* The states handed out, the consents and the users of the sessions.
Flow == INSTANCE LoginFlow WITH
          stage <- [st \in 1 .. next.state - 1 |-> LoginStage(st)],
          agreed <- consent,
          holder <- [s \in DOMAIN session |-> UserAt(s)]

\* However often its callback is called and whatever happens between the
\* statements of one, a login is presented once and opens one session at most,
\* for the user who consented to it (auth.go:119-265).
ImplementsFlow == Flow!Spec

-----------------------------------------------------------------------------
(* Liveness *)

\* A request is answered or waits for a token endpoint (auth.go:209, 325).
RequestsAnswered ==
  \A r \in Requests :
    req[r].pc # "idle" ~> req[r].pc \in {"idle", "refresh", "exchange"}

\* A session or login state past its expiry is removed in the end, though
\* single statements fail and the process restarts (database.go:83-112).
ExpiredRowsCollected ==
  /\ \A s \in 1 .. MaxRequests + 1 :
       s \in ExpiredRows(session) ~> s \notin DOMAIN session
  /\ \A st \in 1 .. MaxRequests :
       st \in ExpiredRows(oauth2_state) ~> st \notin DOMAIN oauth2_state
=============================================================================
