--------------------------- MODULE AuthTokenProofs ---------------------------
(***************************************************************************)
(* Theorems about the tokens of Auth, for every value of its constants:    *)
(* whose token a row and a request hold, and where the refresh token of a  *)
(* session is.                                                             *)
(***************************************************************************)
EXTENDS AuthProofs

-----------------------------------------------------------------------------
(* Whose tokens they are *)

Refreshing(r) == req[r].pc \in {"refresh", "getuser", "updsess"}
Signing(r) == req[r].pc \in {"upsert", "create"}

\* A token and a refresh token (0: none) issued to the user of account a, as
\* far as the account still exists.
PairOf(tokens, accounts, unused, t, rt, a) ==
  /\ a \in 1 .. (unused - 1)
  /\ t \in DOMAIN tokens
  /\ rt \in DOMAIN tokens \cup {0}
  /\ a \in DOMAIN accounts =>
       /\ tokens[t].user = accounts[a].user
       /\ rt # 0 => tokens[rt].user = accounts[a].user

\* The requests that work with a token for an account, and that account.
Holding(r) ==
  \/ Refreshing(r)
  \/ req[r].pc = "create"
  \/ req[r].pc = "handler" /\ req[r].acct # 0

Holder(r) == IF req[r].pc = "create" THEN req[r].new ELSE req[r].acct

\* A row holds a pair of its account, and the expiry of its access token.
RowsTrue ==
  \A s \in DOMAIN session :
    /\ PairOf(issued, account, next.account, session[s].access, session[s].refresh,
              session[s].account)
    /\ session[s].accessExpires = issued[session[s].access].expires

\* A request holds a pair of the account it works for.
HoldersTrue ==
  \A r \in Requests :
    Holding(r) =>
      PairOf(issued, account, next.account, req[r].tok, req[r].rtok, Holder(r))

\* A request that refreshes works for the account of its session.
OfItsSession ==
  \A r \in Requests :
    Refreshing(r) /\ req[r].sid \in DOMAIN session =>
      session[req[r].sid].account = req[r].acct

\* A callback's refresh token, if any, came with its access token.
SigningOwn ==
  \A r \in Requests : Signing(r) => req[r].rtok \in {0, req[r].tok}

Truth == OneAccountPerUser /\ RowsTrue /\ HoldersTrue /\ OfItsSession /\ SigningOwn

-----------------------------------------------------------------------------
(* What a step does to the tokens issued, the accounts and the slots *)

\* Tokens keep their user and expiry, an account its user, and the number of
\* an account that is gone is not used again.
Grows ==
  /\ DOMAIN issued \subseteq DOMAIN issued'
  /\ \A t \in DOMAIN issued : issued'[t] = issued[t]
  /\ next.account \in Nat /\ next'.account \in Nat /\ next.account <= next'.account
  /\ \A a \in DOMAIN account' :
       a < next.account => a \in DOMAIN account /\ account'[a].user = account[a].user

\* A new token leaves the others as they are.
LEMMA IssueGrows ==
  ASSUME IsTable(issued, next.token, [user : Users, expires : Nat]), NEW u,
         next.token \in Nat \ {0}, Issue(next.token, u)
  PROVE  /\ DOMAIN issued' = DOMAIN issued \cup {next.token}
         /\ next.token \notin DOMAIN issued
         /\ \A t \in DOMAIN issued : issued'[t] = issued[t]
         /\ issued'[next.token].user = u
BY DEF IsTable, Issue, Put

\* The tokens issued only grow.
LEMMA TokensGrow ==
  ASSUME IInv, Next
  PROVE  /\ DOMAIN issued \subseteq DOMAIN issued'
         /\ \A t \in DOMAIN issued : issued'[t] = issued[t]
<1> USE DEF IInv, TypeOK
<1>1. ASSUME NEW r \in Requests,
             \/ Start(r) \/ AuthRefused(r) \/ AuthAccepted(r) \/ AuthStale(r)
             \/ RefreshRefused(r) \/ RefreshProfile(r) \/ RefreshProfileFails(r)
             \/ SaveTokens(r) \/ SaveTokensFails(r) \/ Page(r) \/ Guarded(r)
      PROVE  UNCHANGED issued
  BY <1>1 DEF providerVars, Start, AuthRefused, AuthAccepted, AuthStale, RefreshRefused,
     RefreshProfile, RefreshProfileFails, SaveTokens, SaveTokensFails, Page, Guarded
<1>2. ASSUME NEW r \in Requests,
             \/ Logout(r) \/ Delete(r) \/ DeleteFails(r) \/ Login(r) \/ LoginRefused(r)
             \/ Callback(r) \/ CallbackRefused(r) \/ Upsert(r) \/ UpsertFails(r)
             \/ CreateLogin(r) \/ CreateLoginFails(r) \/ Deliver(r) \/ Vanish(r)
      PROVE  UNCHANGED issued
  BY <1>2 DEF providerVars, Logout, Delete, DeleteFails, Login, LoginRefused, Callback,
     CallbackRefused, Upsert, UpsertFails, CreateLogin, CreateLoginFails, Deliver, Vanish
<1>3. ASSUME NEW r \in Requests,
             RefreshGranted(r) \/ RefreshLost(r) \/ Exchange(r) \/ ExchangeRefused(r)
      PROVE  (\E u : Issue(next.token, u)) \/ UNCHANGED issued
  BY <1>3 DEF RefreshGranted, RefreshLost, Exchange, ExchangeRefused, Refresh, Redeem,
     providerVars
<1>4. ASSUME \/ CollectStates \/ CollectSessions \/ Crash \/ BootStates \/ BootSessions
             \/ Clock \/ \E b \in Browsers : ForgetCookie(b)
      PROVE  UNCHANGED issued
  BY <1>4 DEF providerVars, CollectStates, CollectSessions, Crash, BootStates,
     BootSessions, Clock, ForgetCookie
<1>5. (\E u : Issue(next.token, u)) \/ UNCHANGED issued
  BY <1>1, <1>2, <1>3, <1>4 DEF Next, Authenticate, Handle, TokenEndpoint
<1>6. QED
  BY <1>5, IssueGrows

\* Every step keeps what Grows says.
LEMMA GrowStep ==
  ASSUME IInv, Next
  PROVE  Grows
<1> USE DEF IInv, TypeOK
<1>1. StoreEvent
  BY Events
<1>2. CASE StoreKept \/ TokensSaved \/ LoggedOut \/ SessionCreated \/ SessionsExpired
  BY <1>2, TokensGrow DEF StoreKept, TokensSaved, LoggedOut, SessionCreated,
     SessionsExpired, Grows
<1>3. CASE AccountDeleted
  BY <1>3, TokensGrow DEF AccountDeleted, DeleteAccount, Drop, Grows
<1>4. CASE AccountUpserted
  <2>1. PICK u \in Users : UpsertAccount(u, next.account) /\ TakeAccountId(u)
    BY <1>4 DEF AccountUpserted
  <2> DEFINE id == UpsertedId(u, next.account)
  <2>2. account' = Put(account, id, [user |-> u])
    BY <2>1 DEF UpsertAccount
  <2>3. next'.account \in Nat /\ next.account <= next'.account
    BY <2>1 DEF TakeAccountId
  <2>4. id = next.account \/ (id \in DOMAIN account /\ account[id].user = u)
    BY DEF UpsertedId, AccountsOf
  <2> HIDE DEF id
  <2>5. ASSUME NEW a \in DOMAIN account', a < next.account
        PROVE  a \in DOMAIN account /\ account'[a].user = account[a].user
    BY <2>2, <2>4, <2>5 DEF Put
  <2>6. QED
    BY <2>3, <2>5, TokensGrow DEF Grows
<1>5. QED
  BY <1>1, <1>2, <1>3, <1>4 DEF StoreEvent

\* Then a pair of an account stays one.
LEMMA PairKept ==
  ASSUME Grows, NEW t, NEW rt, NEW a, PairOf(issued, account, next.account, t, rt, a)
  PROVE  PairOf(issued', account', next'.account, t, rt, a)
BY DEF Grows, PairOf

\* A slot after a step: it holds no token, or it holds what it held, or its
\* request took the tokens of a row, of the provider, or an account.
Freed(q) ==
  /\ req'[q].pc \notin {"refresh", "getuser", "updsess", "upsert", "create"}
  /\ req'[q].pc = "handler" => req'[q].acct = 0

Carries(q) ==
  /\ req'[q].sid = req[q].sid /\ req'[q].acct = req[q].acct
  /\ req'[q].tok = req[q].tok /\ req'[q].rtok = req[q].rtok
  /\ req'[q].new = req[q].new /\ req'[q].st = req[q].st
  /\ \/ req'[q].pc = req[q].pc
     \/ req[q].pc = "getuser" /\ req'[q].pc = "updsess"
     \/ req[q].pc = "updsess" /\ req'[q].pc = "handler"

SlotEvent(q) ==
  \/ Freed(q) \/ Carries(q)
  \/ AuthAccepted(q) \/ AuthStale(q) \/ RefreshGranted(q) \/ Exchange(q) \/ Upsert(q)

\* Nothing else happens to a slot.
LEMMA SlotStep ==
  ASSUME IInv, Next, NEW q \in Requests
  PROVE  SlotEvent(q)
<1>0. req \in [Requests -> RequestRecords]
  BY DEF IInv, TypeOK
<1>1. ASSUME req'[q] = req[q] PROVE SlotEvent(q)
  BY <1>1 DEF SlotEvent, Carries
<1>3. ASSUME NEW r \in Requests, Start(r) PROVE SlotEvent(q)
  <2>1. PICK kind \in Kinds, b \in Browsers, p \in Providers,
             st \in DOMAIN consent \cup {0} :
          /\ Sensible(kind, p, st)
          /\ req' = [req EXCEPT ![r] =
               [NoRequest(p) EXCEPT
                  !.pc = IF jar[b] = 0 THEN "handler" ELSE "auth",
                  !.kind = kind, !.browser = b, !.sid = jar[b], !.st = st,
                  !.late = jar[b] # 0 /\ jar[b] \notin DOMAIN session]]
    BY <1>3 DEF Start
  <2>2. Freed(r)
    BY <1>0, <2>1 DEF Freed, NoRequest
  <2>3. r # q => req'[q] = req[q]
    BY <1>0, <2>1
  <2>4. QED
    BY <2>2, <2>3, <1>1 DEF SlotEvent
<1>4. ASSUME NEW r \in Requests,
             \/ AuthRefused(r) \/ RefreshRefused(r) \/ RefreshLost(r)
             \/ RefreshProfileFails(r) \/ SaveTokensFails(r)
      PROVE  SlotEvent(q)
  <2>1. Anonymous(r)
    BY <1>4 DEF AuthRefused, RefreshRefused, RefreshLost, RefreshProfileFails,
       SaveTokensFails
  <2>2. Freed(r)
    BY <1>0, <2>1 DEF Freed, Anonymous, RequestRecords
  <2>3. r # q => req'[q] = req[q]
    BY <1>0, <2>1 DEF Anonymous
  <2>4. QED
    BY <2>2, <2>3, <1>1 DEF SlotEvent
<1>5. ASSUME NEW r \in Requests,
             NEW out \in {"ok", "login", "error", "consent"},
             Answer(r, out) \/ AnswerClearing(r, out)
      PROVE  SlotEvent(q)
  <2>1. Freed(r)
    <3>1. CASE Answer(r, out)
      BY <1>0, <3>1 DEF Freed, Answer, RequestRecords
    <3>2. CASE AnswerClearing(r, out)
      BY <1>0, <3>2 DEF Freed, AnswerClearing, RequestRecords
    <3>3. QED
      BY <1>5, <3>1, <3>2
  <2>2. r # q => req'[q] = req[q]
    BY <1>0, <1>5 DEF Answer, AnswerClearing
  <2>3. QED
    BY <2>1, <2>2, <1>1 DEF SlotEvent
<1>6. ASSUME NEW r \in Requests,
             \/ Page(r) \/ Guarded(r) \/ Logout(r) \/ Delete(r) \/ DeleteFails(r)
             \/ LoginRefused(r) \/ CallbackRefused(r) \/ ExchangeRefused(r)
             \/ UpsertFails(r) \/ CreateLoginFails(r)
      PROVE  SlotEvent(q)
  BY <1>5, <1>6 DEF Page, Guarded, Logout, Delete, DeleteFails, LoginRefused,
     CallbackRefused, ExchangeRefused, UpsertFails, CreateLoginFails
<1>7. ASSUME NEW r \in Requests, Login(r) \/ CreateLogin(r) \/ Callback(r)
      PROVE  SlotEvent(q)
  <2>1. req'[r].pc \in {"respond", "exchange"}
    <3>1. CASE Login(r)
      BY <1>0, <3>1 DEF Login, RequestRecords
    <3>2. CASE CreateLogin(r)
      BY <1>0, <3>2 DEF CreateLogin, RequestRecords
    <3>3. CASE Callback(r)
      <4>1. Answer(r, "error") \/ req' = [req EXCEPT ![r].pc = "exchange"]
        BY <3>3 DEF Callback
      <4>2. CASE Answer(r, "error")
        BY <1>0, <4>2 DEF Answer, RequestRecords
      <4>3. CASE req' = [req EXCEPT ![r].pc = "exchange"]
        BY <1>0, <4>3 DEF RequestRecords
      <4>4. QED
        BY <4>1, <4>2, <4>3
    <3>4. QED
      BY <1>7, <3>1, <3>2, <3>3
  <2>2. r # q => req'[q] = req[q]
    BY <1>0, <1>7 DEF Login, CreateLogin, Callback, Answer
  <2>3. QED
    BY <2>1, <2>2, <1>1 DEF SlotEvent, Freed
<1>8. ASSUME NEW r \in Requests, RefreshProfile(r) \/ SaveTokens(r)
      PROVE  SlotEvent(q)
  <2>1. Carries(q)
    BY <1>0, <1>8 DEF Carries, RefreshProfile, SaveTokens, RequestRecords
  <2>2. QED
    BY <2>1 DEF SlotEvent
<1>9. ASSUME NEW r \in Requests, Deliver(r) \/ Vanish(r)
      PROVE  SlotEvent(q)
  <2>1. Freed(r)
    BY <1>0, <1>9 DEF Freed, Deliver, Vanish, Idle, NoRequest
  <2>2. r # q => req'[q] = req[q]
    BY <1>0, <1>9 DEF Deliver, Vanish
  <2>3. QED
    BY <2>1, <2>2, <1>1 DEF SlotEvent
<1>10. ASSUME NEW r \in Requests,
              \/ AuthAccepted(r) \/ AuthStale(r) \/ RefreshGranted(r) \/ Exchange(r)
              \/ Upsert(r)
       PROVE  SlotEvent(q)
  <2>1. r # q => req'[q] = req[q]
    BY <1>0, <1>10 DEF AuthAccepted, AuthStale, RefreshGranted, Exchange, Upsert, Accept
  <2>2. QED
    BY <2>1, <1>1, <1>10 DEF SlotEvent
<1>11. ASSUME Crash PROVE SlotEvent(q)
  BY <1>0, <1>11 DEF Crash, SlotEvent, Freed, Idle, NoRequest
<1>12. ASSUME \/ CollectStates \/ CollectSessions \/ BootStates \/ BootSessions \/ Clock
              \/ \E b \in Browsers : ForgetCookie(b)
       PROVE  SlotEvent(q)
  BY <1>1, <1>12 DEF CollectStates, CollectSessions, BootStates, BootSessions, Clock,
     ForgetCookie
<1>13. QED
  BY <1>3, <1>4, <1>6, <1>7, <1>8, <1>9, <1>10, <1>11, <1>12
  DEF Next, Authenticate, Handle, TokenEndpoint

\* What a slot holds after the middleware took a row into it.
LEMMA TakenSlot ==
  ASSUME IInv, NEW q \in Requests, AuthAccepted(q) \/ AuthStale(q)
  PROVE  /\ req[q].sid \in DOMAIN session
         /\ req'[q].sid = req[q].sid
         /\ req'[q].acct = session[req[q].sid].account
         /\ req'[q].tok = session[req[q].sid].access
         /\ req'[q].rtok = session[req[q].sid].refresh
         /\ req'[q].pc \in {"handler", "refresh"}
         /\ req'[q].pc = "refresh" => session[req[q].sid].refresh # 0
         /\ UNCHANGED <<session, account, issued, honoured>>
<1> USE DEF IInv, TypeOK, tables, providerVars, RequestRecords
<1>1. CASE AuthAccepted(q)
  BY <1>1 DEF AuthAccepted, Accept, Usable, SessionFound
<1>2. CASE AuthStale(q)
  BY <1>2 DEF AuthStale, Accept, Usable, SessionFound
<1>3. QED
  BY <1>1, <1>2

\* What it holds after a refresh, a redeemed code and an upsert.
LEMMA GrantedSlot ==
  ASSUME IInv, NEW q \in Requests, RefreshGranted(q)
  PROVE  /\ req[q].pc = "refresh" /\ req'[q].pc = "getuser"
         /\ req[q].rtok \in honoured
         /\ req'[q].sid = req[q].sid /\ req'[q].acct = req[q].acct
         /\ req'[q].tok = next.token
         /\ req'[q].rtok = Successor(req[q].rtok, next.token)
         /\ DOMAIN issued' = DOMAIN issued \cup {next.token}
         /\ issued'[next.token].user = issued[req[q].rtok].user
         /\ UNCHANGED <<session, account>>
<1> USE DEF IInv, TypeOK, tables
<1>1. Issue(next.token, issued[req[q].rtok].user)
  BY DEF RefreshGranted, Refresh
<1>2. /\ DOMAIN issued' = DOMAIN issued \cup {next.token}
      /\ issued'[next.token].user = issued[req[q].rtok].user
  BY <1>1, IssueGrows
<1>3. QED
  BY <1>2 DEF RefreshGranted, RequestRecords

LEMMA ExchangedSlot ==
  ASSUME IInv, NEW q \in Requests, Exchange(q)
  PROVE  /\ req[q].pc = "exchange" /\ req'[q].pc = "upsert"
         /\ req'[q].tok = next.token /\ req'[q].st = req[q].st
         /\ req'[q].rtok = RefreshTokenOf(next.token, consent[req[q].st])
         /\ UNCHANGED <<session, account>>
BY DEF IInv, TypeOK, tables, Exchange, RequestRecords

LEMMA UpsertedSlot ==
  ASSUME IInv, NEW q \in Requests, Upsert(q)
  PROVE  /\ req[q].pc = "upsert" /\ req'[q].pc = "create"
         /\ req'[q].tok = req[q].tok /\ req'[q].rtok = req[q].rtok
         /\ req'[q].st = req[q].st
         /\ req'[q].new \in DOMAIN account'
         /\ account'[req'[q].new].user = issued[req[q].tok].user
         /\ req'[q].new \in 1 .. (next'.account - 1)
         /\ UNCHANGED <<session, issued>>
<1> USE DEF IInv, TypeOK, tables
<1> DEFINE u == issued[req[q].tok].user
<1>1. u \in Users
  BY DEF Upsert, Safe, InHand, IsTable
<1>2. UpsertAccount(u, next.account) /\ TakeAccountId(u)
  BY DEF Upsert
<1>3. /\ IsTable(account', next'.account, [user : Users])
      /\ UpsertedId(u, next.account) \in DOMAIN account'
  BY <1>1, <1>2, UpsertTyped
<1>4. req'[q].new = UpsertedId(u, next.account)
  BY DEF Upsert, RequestRecords
<1>5. account'[req'[q].new].user = u
  BY <1>2, <1>4 DEF UpsertAccount, Put
<1>6. /\ req[q].pc = "upsert" /\ req'[q].pc = "create"
      /\ req'[q].tok = req[q].tok /\ req'[q].rtok = req[q].rtok
      /\ req'[q].st = req[q].st
      /\ UNCHANGED <<session, issued>>
  BY DEF Upsert, RequestRecords, providerVars
<1>7. QED
  BY <1>3, <1>4, <1>5, <1>6 DEF IsTable

\* A row after a step: kept, saved by a refresh, or created by a callback.
Saved(r, s) ==
  /\ req[r].pc = "updsess" /\ req'[r].pc = "handler"
  /\ req[r].sid = s /\ s \in DOMAIN session
  /\ session'[s].access = req[r].tok /\ session'[s].refresh = req[r].rtok
  /\ session'[s].accessExpires = issued[req[r].tok].expires
  /\ session'[s].account = session[s].account

Created(r, s) ==
  /\ req[r].pc = "create" /\ req'[r].pc = "respond"
  /\ s = next.session /\ req[r].new \in DOMAIN account
  /\ session'[s].access = req[r].tok /\ session'[s].refresh = req[r].rtok
  /\ session'[s].accessExpires = issued[req[r].tok].expires
  /\ session'[s].account = req[r].new

RowEvent(s) ==
  \/ s \in DOMAIN session /\ session'[s] = session[s]
  \/ \E r \in Requests : Saved(r, s)
  \/ \E r \in Requests : Created(r, s)

LEMMA RowStep ==
  ASSUME IInv, Next, NEW s \in DOMAIN session'
  PROVE  RowEvent(s)
<1> USE DEF IInv, TypeOK, RowEvent
<1>1. StoreEvent
  BY Events
<1>2. CASE StoreKept \/ AccountUpserted
  BY <1>2 DEF StoreKept, AccountUpserted
<1>3. ASSUME NEW K, session' = Drop(session, K)
      PROVE  s \in DOMAIN session /\ session'[s] = session[s]
  BY <1>3 DEF Drop
<1>4. CASE LoggedOut \/ AccountDeleted \/ SessionsExpired
  BY <1>3, <1>4 DEF LoggedOut, AccountDeleted, SessionsExpired, DeleteSession,
     DeleteAccount, DeleteExpiredSessions
<1>5. CASE TokensSaved
  <2>1. PICK r \in Requests :
          /\ req[r].pc = "updsess" /\ req'[r].pc = "handler"
          /\ UpdateSession(req[r].sid, TokenRow(r))
    BY <1>5 DEF TokensSaved
  <2>2. s \in DOMAIN session
    BY <2>1 DEF UpdateSession
  <2>3. CASE s # req[r].sid
    BY <2>1, <2>2, <2>3 DEF UpdateSession
  <2>4. CASE s = req[r].sid
    <3>1. session[s] \in SessionRows
      BY <2>2 DEF IsTable
    <3>2. session'[s] = [session[s] EXCEPT !.key = TokenRow(r).key,
                                           !.access = TokenRow(r).access,
                                           !.refresh = TokenRow(r).refresh,
                                           !.accessExpires = TokenRow(r).accessExpires]
      BY <2>1, <2>2, <2>4 DEF UpdateSession
    <3>3. Saved(r, s)
      BY <2>1, <2>2, <2>4, <3>1, <3>2 DEF Saved, TokenRow, SessionRows
    <3>4. QED
      BY <3>3
  <2>5. QED
    BY <2>3, <2>4
<1>6. CASE SessionCreated
  <2>1. PICK r \in Requests :
          /\ req[r].pc = "create" /\ req'[r].pc = "respond"
          /\ AccountReferenced(NewSession(r))
          /\ CreateSession(next.session, NewSession(r))
    BY <1>6 DEF SessionCreated
  <2>2. CASE s # next.session
    BY <2>1, <2>2 DEF CreateSession, Put
  <2>3. CASE s = next.session
    <3>1. session'[s] = NewSession(r)
      BY <2>1, <2>3 DEF CreateSession, Put
    <3>2. Created(r, s)
      BY <2>1, <2>3, <3>1 DEF Created, NewSession, AccountReferenced
    <3>3. QED
      BY <3>2
  <2>4. QED
    BY <2>2, <2>3
<1>7. QED
  BY <1>1, <1>2, <1>4, <1>5, <1>6 DEF StoreEvent

-----------------------------------------------------------------------------
(* Truth is preserved, one lemma per conjunct *)

\* An upsert never makes a second account of a user.
LEMMA OneAccountStep ==
  ASSUME IInv, Next, OneAccountPerUser
  PROVE  OneAccountPerUser'
<1> USE DEF OneAccountPerUser
<1>1. StoreEvent
  BY Events
<1>2. CASE StoreKept \/ TokensSaved \/ LoggedOut \/ SessionCreated \/ SessionsExpired
  BY <1>2 DEF StoreKept, TokensSaved, LoggedOut, SessionCreated, SessionsExpired
<1>3. CASE AccountDeleted
  BY <1>3 DEF AccountDeleted, DeleteAccount, Drop
<1>4. CASE AccountUpserted
  <2>1. PICK u \in Users : UpsertAccount(u, next.account)
    BY <1>4 DEF AccountUpserted
  <2> DEFINE id == UpsertedId(u, next.account)
  <2>2. \A a \in DOMAIN account : account[a].user = u => a = id
    BY DEF UpsertedId, AccountsOf
  <2>3. account' = Put(account, id, [user |-> u])
    BY <2>1 DEF UpsertAccount
  <2> HIDE DEF id
  <2>4. QED
    BY <2>2, <2>3 DEF Put
<1>5. QED
  BY <1>1, <1>2, <1>3, <1>4 DEF StoreEvent

\* A row saved or created holds what its request held.
LEMMA RowsStep ==
  ASSUME IInv, Next, Truth
  PROVE  RowsTrue'
<1> USE DEF Truth
<1>1. Grows
  BY GrowStep
<1>2. SUFFICES ASSUME NEW s \in DOMAIN session'
               PROVE  /\ PairOf(issued', account', next'.account, session'[s].access,
                                session'[s].refresh, session'[s].account)
                      /\ session'[s].accessExpires = issued'[session'[s].access].expires
  BY DEF RowsTrue
<1>3. CASE s \in DOMAIN session /\ session'[s] = session[s]
  <2>1. /\ PairOf(issued, account, next.account, session[s].access, session[s].refresh,
                  session[s].account)
        /\ session[s].accessExpires = issued[session[s].access].expires
    BY <1>3 DEF RowsTrue
  <2>2. session[s].access \in DOMAIN issued
    BY <2>1 DEF PairOf
  <2>3. QED
    BY <1>1, <1>3, <2>1, <2>2, PairKept DEF Grows
<1>4. ASSUME NEW r \in Requests, Saved(r, s) \/ Created(r, s)
      PROVE  /\ PairOf(issued, account, next.account, session'[s].access,
                       session'[s].refresh, session'[s].account)
             /\ session'[s].accessExpires = issued[session'[s].access].expires
  <2>1. CASE Saved(r, s)
    <3>1. Refreshing(r) /\ Holding(r) /\ Holder(r) = req[r].acct
      BY <2>1 DEF Saved, Refreshing, Holding, Holder
    <3>2. session'[s].account = req[r].acct
      BY <2>1, <3>1 DEF Saved, OfItsSession
    <3>3. QED
      BY <2>1, <3>1, <3>2 DEF Saved, HoldersTrue
  <2>2. CASE Created(r, s)
    <3>1. Holding(r) /\ Holder(r) = req[r].new
      BY <2>2 DEF Created, Holding, Holder
    <3>2. QED
      BY <2>2, <3>1 DEF Created, HoldersTrue
  <2>3. QED
    BY <1>4, <2>1, <2>2
<1>5. ASSUME NEW r \in Requests, Saved(r, s) \/ Created(r, s)
      PROVE  /\ PairOf(issued', account', next'.account, session'[s].access,
                       session'[s].refresh, session'[s].account)
             /\ session'[s].accessExpires = issued'[session'[s].access].expires
  <2> DEFINE t == session'[s].access
             rt == session'[s].refresh
             a == session'[s].account
  <2>1. /\ PairOf(issued, account, next.account, t, rt, a)
        /\ session'[s].accessExpires = issued[t].expires
    BY <1>4, <1>5
  <2>2. t \in DOMAIN issued
    BY <2>1 DEF PairOf
  <2>3. session'[s].accessExpires = issued'[t].expires
    BY <1>1, <2>1, <2>2 DEF Grows
  <2> HIDE DEF t, rt, a
  <2>4. PairOf(issued', account', next'.account, t, rt, a)
    BY <1>1, <2>1, PairKept
  <2>5. QED
    BY <2>3, <2>4 DEF t, rt, a
<1>6. QED
  BY <1>3, <1>5, RowStep DEF RowEvent

\* What a request takes in hand is its account's, and stays so.
LEMMA HoldersStep ==
  ASSUME IInv, Next, Truth
  PROVE  HoldersTrue'
<1> USE DEF Truth
<1>1. Grows
  BY GrowStep
<1>2. SUFFICES ASSUME NEW q \in Requests, Holding(q)'
               PROVE  PairOf(issued', account', next'.account, req'[q].tok, req'[q].rtok,
                             IF req'[q].pc = "create" THEN req'[q].new ELSE req'[q].acct)
  BY DEF HoldersTrue, Holder
<1>3. /\ req'[q].pc \in {"refresh", "getuser", "updsess", "create", "handler"}
      /\ req'[q].pc = "handler" => req'[q].acct # 0
  BY <1>2 DEF Holding, Refreshing
<1>4. CASE Freed(q)
  BY <1>3, <1>4 DEF Freed
<1>5. CASE Carries(q)
  <2>1. Holding(q)
    BY <1>3, <1>5 DEF Carries, Holding, Refreshing
  <2>2. Holder(q) = IF req'[q].pc = "create" THEN req'[q].new ELSE req'[q].acct
    BY <1>3, <1>5 DEF Carries, Holder
  <2>3. PairOf(issued, account, next.account, req'[q].tok, req'[q].rtok, Holder(q))
    BY <1>5, <2>1 DEF Carries, HoldersTrue
  <2>4. QED
    BY <1>1, <2>2, <2>3, PairKept
<1>6. CASE AuthAccepted(q) \/ AuthStale(q)
  <2> DEFINE s == req[q].sid
  <2>1. /\ s \in DOMAIN session /\ req'[q].acct = session[s].account
        /\ req'[q].tok = session[s].access /\ req'[q].rtok = session[s].refresh
        /\ req'[q].pc # "create"
    BY <1>6, TakenSlot
  <2>2. PairOf(issued, account, next.account, req'[q].tok, req'[q].rtok, req'[q].acct)
    BY <2>1 DEF RowsTrue
  <2>3. QED
    BY <1>1, <2>1, <2>2, PairKept
<1>7. CASE RefreshGranted(q)
  <2>1. /\ req[q].pc = "refresh" /\ req'[q].pc = "getuser" /\ req[q].rtok \in honoured
        /\ req'[q].acct = req[q].acct /\ req'[q].tok = next.token
        /\ req'[q].rtok = Successor(req[q].rtok, next.token)
        /\ DOMAIN issued' = DOMAIN issued \cup {next.token}
        /\ issued'[next.token].user = issued[req[q].rtok].user
    BY <1>7, GrantedSlot
  <2>2. req[q].rtok \in DOMAIN issued /\ req[q].rtok # 0
    BY <2>1 DEF IInv, TypeOK, IsTable
  <2>3. PairOf(issued, account, next.account, req[q].tok, req[q].rtok, req[q].acct)
    BY <2>1 DEF HoldersTrue, Holding, Refreshing, Holder
  <2>4. PairOf(issued', account', next'.account, req[q].tok, req[q].rtok, req[q].acct)
    BY <1>1, <2>3, PairKept
  <2>5. issued'[req[q].rtok] = issued[req[q].rtok]
    BY <1>1, <2>2 DEF Grows
  <2>6. QED
    BY <2>1, <2>2, <2>4, <2>5 DEF PairOf, Successor
<1>8. CASE Exchange(q)
  BY <1>3, <1>8, ExchangedSlot
<1>9. CASE Upsert(q)
  <2>1. /\ req[q].pc = "upsert" /\ req'[q].pc = "create"
        /\ req'[q].tok = req[q].tok /\ req'[q].rtok = req[q].rtok
        /\ account'[req'[q].new].user = issued[req[q].tok].user
        /\ req'[q].new \in 1 .. (next'.account - 1)
        /\ UNCHANGED issued
    BY <1>9, UpsertedSlot
  <2>2. req[q].rtok \in {0, req[q].tok}
    BY <2>1 DEF SigningOwn, Signing
  <2>3. req[q].tok \in DOMAIN issued
    BY <2>1 DEF IInv, Safe, InHand
  <2>4. QED
    BY <2>1, <2>2, <2>3 DEF PairOf
<1>10. QED
  BY <1>4, <1>5, <1>6, <1>7, <1>8, <1>9, SlotStep DEF SlotEvent

\* A request that refreshes keeps its session, and a session its account.
LEMMA OfItsSessionStep ==
  ASSUME IInv, Next, Truth
  PROVE  OfItsSession'
<1> USE DEF Truth
<1>1. SUFFICES ASSUME NEW q \in Requests, Refreshing(q)', req'[q].sid \in DOMAIN session'
               PROVE  session'[req'[q].sid].account = req'[q].acct
  BY DEF OfItsSession
<1>2. req'[q].pc \in {"refresh", "getuser", "updsess"}
  BY <1>1 DEF Refreshing
<1>3. CASE Carries(q) \/ RefreshGranted(q)
  <2>1. Refreshing(q) /\ req'[q].sid = req[q].sid /\ req'[q].acct = req[q].acct
    BY <1>2, <1>3, GrantedSlot DEF Carries, Refreshing
  <2>2. req[q].sid < next.session
    BY DEF IInv, Safe, KnownIds
  <2>3. /\ req[q].sid \in DOMAIN session
        /\ session'[req[q].sid].account = session[req[q].sid].account
    BY <1>1, <2>1, <2>2, IdentityStep
  <2>4. QED
    BY <2>1, <2>3 DEF OfItsSession
<1>4. CASE AuthAccepted(q) \/ AuthStale(q)
  BY <1>4, TakenSlot
<1>5. CASE Freed(q) \/ Exchange(q) \/ Upsert(q)
  BY <1>2, <1>5, ExchangedSlot, UpsertedSlot DEF Freed
<1>6. QED
  BY <1>3, <1>4, <1>5, SlotStep DEF SlotEvent

\* A callback's refresh token comes from the redemption only.
LEMMA SigningStep ==
  ASSUME IInv, Next, Truth
  PROVE  SigningOwn'
<1> USE DEF Truth
<1>1. SUFFICES ASSUME NEW q \in Requests, Signing(q)'
               PROVE  req'[q].rtok \in {0, req'[q].tok}
  BY DEF SigningOwn
<1>2. req'[q].pc \in {"upsert", "create"}
  BY <1>1 DEF Signing
<1>3. CASE Carries(q)
  BY <1>2, <1>3 DEF Carries, Signing, SigningOwn
<1>4. CASE Exchange(q)
  BY <1>4, ExchangedSlot DEF RefreshTokenOf
<1>5. CASE Upsert(q)
  BY <1>5, UpsertedSlot DEF Signing, SigningOwn
<1>6. CASE Freed(q) \/ AuthAccepted(q) \/ AuthStale(q) \/ RefreshGranted(q)
  BY <1>2, <1>6, TakenSlot, GrantedSlot DEF Freed
<1>7. QED
  BY <1>3, <1>4, <1>5, <1>6, SlotStep DEF SlotEvent

-----------------------------------------------------------------------------
(* Truth holds from the start, and what follows from it *)

\* The only tokens at the start are those of the login made before.
LEMMA InitTruth ==
  ASSUME Init
  PROVE  Truth
<1>1. \A r \in Requests : req[r].pc = "idle"
  BY DEF Init, Idle, NoRequest
<1>2. HoldersTrue /\ OfItsSession /\ SigningOwn
  BY <1>1 DEF HoldersTrue, Holding, Refreshing, OfItsSession, SigningOwn, Signing
<1>3. CASE EmptyDatabase
  BY <1>2, <1>3 DEF EmptyDatabase, NoRows, Truth, OneAccountPerUser, RowsTrue
<1>4. ASSUME NEW b \in Browsers, NEW u \in Users, NEW k \in Keys, OneLogin(b, u, k)
      PROVE  Truth
  <2>1. DOMAIN account = {1} /\ account[1].user = u
    BY <1>4 DEF OneLogin, Put, NoRows
  <2>2. /\ DOMAIN session = {1} /\ session[1].account = 1 /\ session[1].access = 1
        /\ session[1].refresh \in {0, 1} /\ session[1].accessExpires = TokenExpiry(u)
    BY <1>4 DEF OneLogin, Put, NoRows, RefreshTokenOf
  <2>3. DOMAIN issued = {1} /\ issued[1].user = u /\ issued[1].expires = TokenExpiry(u)
    BY <1>4 DEF OneLogin, Put, NoRows
  <2>4. next.account = 2
    BY <1>4 DEF OneLogin
  <2>5. RowsTrue
    BY <2>1, <2>2, <2>3, <2>4 DEF RowsTrue, PairOf
  <2>6. QED
    BY <1>2, <2>1, <2>5 DEF Truth, OneAccountPerUser
<1>5. QED
  BY <1>3, <1>4 DEF Init

\* A step that changes no variable keeps it.
LEMMA StutterTruth ==
  ASSUME Truth, UNCHANGED vars
  PROVE  Truth'
BY DEF vars, tables, providerVars, Truth, OneAccountPerUser, RowsTrue, HoldersTrue,
       OfItsSession, SigningOwn, Holding, Holder, Refreshing, Signing

LEMMA TruthStep ==
  ASSUME IInv, Next, Truth
  PROVE  Truth'
BY OneAccountStep, RowsStep, HoldersStep, OfItsSessionStep, SigningStep DEF Truth

\* Tokens in rows and in requests are those of the right user, always.
THEOREM TruthInvariance == Spec => []Truth
<1>1. Init => Truth
  BY InitTruth
<1>2. IInv /\ Truth /\ [Next]_vars => Truth'
  BY TruthStep, StutterTruth
<1>3. QED
  BY <1>1, <1>2, Invariance, PTL DEF Spec

\* Concurrent first logins of one user end in one account
\* (UNIQUE (provider, provider_account_id), query.sql UpsertAccount).
THEOREM OneAccount == Spec => []OneAccountPerUser
<1>1. Truth => OneAccountPerUser
  BY DEF Truth
<1>2. QED
  BY <1>1, TruthInvariance, PTL

\* A row's tokens were issued to the user of its account, and the row says when
\* the access token expires (auth.go:313-357).
THEOREM RowsTellTheTruth == Spec => []RowTellsTheTruth
<1>1. Truth /\ IInv => RowTellsTheTruth
  <2> SUFFICES ASSUME Truth, IInv PROVE RowTellsTheTruth
    OBVIOUS
  <2>1. SUFFICES ASSUME NEW s \in DOMAIN session
        PROVE  /\ {session[s].access, session[s].refresh} \ {0} \subseteq DOMAIN issued
               /\ \A t \in {session[s].access, session[s].refresh} \ {0} :
                    issued[t].user = account[session[s].account].user
               /\ session[s].accessExpires = issued[session[s].access].expires
    BY DEF RowTellsTheTruth, UserAt
  <2>2. /\ PairOf(issued, account, next.account, session[s].access, session[s].refresh,
                  session[s].account)
        /\ session[s].accessExpires = issued[session[s].access].expires
    BY DEF Truth, RowsTrue
  <2>3. session[s].account \in DOMAIN account
    BY DEF IInv, Safe, SessionsHaveAccounts
  <2>4. QED
    BY <2>2, <2>3 DEF PairOf
<1>2. QED
  BY <1>1, TruthInvariance, Invariance, PTL

\* The token a handler works with belongs to the account it works for
\* (auth.go:363-372).
THEOREM OneUserInContext == Spec => []ContextIsOneUser
<1>1. Truth /\ IInv => ContextIsOneUser
  <2> SUFFICES ASSUME Truth, IInv, NEW r \in Requests, req[r].pc = "handler",
                      req[r].acct \in DOMAIN account
               PROVE  issued[req[r].tok].user = account[req[r].acct].user
    BY DEF ContextIsOneUser
  <2>1. req[r].acct # 0
    BY DEF IInv, TypeOK, IsTable
  <2>2. PairOf(issued, account, next.account, req[r].tok, req[r].rtok, req[r].acct)
    BY <2>1 DEF Truth, HoldersTrue, Holding, Holder
  <2>3. QED
    BY <2>2 DEF PairOf
<1>2. QED
  BY <1>1, TruthInvariance, Invariance, PTL

-----------------------------------------------------------------------------
(* Where a refresh token is *)

RefreshersHoldOne == \A r \in Requests : Refreshing(r) => req[r].rtok # 0

\* A refresh token is in one row, and held by requests of that session only.
RowsDiffer ==
  \A s, t \in DOMAIN session :
    session[s].refresh # 0 /\ session[s].refresh = session[t].refresh => s = t

AtItsRow ==
  \A r \in Requests : \A s \in DOMAIN session :
    Refreshing(r) /\ session[s].refresh = req[r].rtok => req[r].sid = s

AtOneSession ==
  \A r, q \in Requests :
    Refreshing(r) /\ Refreshing(q) /\ req[r].rtok = req[q].rtok =>
      req[r].sid = req[q].sid

\* A refresh token that a request just got from the provider, through a code or
\* a refresh that rotated it, is nowhere else.
SigningUnshared ==
  \A r \in Requests :
    Signing(r) /\ req[r].rtok # 0 =>
      /\ \A s \in DOMAIN session : session[s].refresh # req[r].rtok
      /\ \A q \in Requests \ {r} :
           Refreshing(q) \/ Signing(q) => req[q].rtok # req[r].rtok

Rotated(r) == ProviderOf[issued[req[r].rtok].user] \in Rotating

RotatedUnshared ==
  \A r \in Unsaved :
    Rotated(r) =>
      /\ \A s \in DOMAIN session : session[s].refresh # req[r].rtok
      /\ \A q \in Requests \ {r} : Refreshing(q) => req[q].rtok # req[r].rtok

\* Until it is written, the provider honours it.
HeldHonoured ==
  \A r \in Requests :
    (r \in Unsaved \/ Signing(r)) /\ req[r].rtok # 0 => req[r].rtok \in honoured

Lineage ==
  /\ RefreshersHoldOne /\ RowsDiffer /\ AtItsRow /\ AtOneSession
  /\ SigningUnshared /\ RotatedUnshared /\ HeldHonoured /\ RefreshTokenAccounted

\* The refresh tokens in rows and in requests were issued, the next one was not.
LEMMA KnownTokens ==
  ASSUME IInv, Truth
  PROVE  /\ \A r \in Requests : Refreshing(r) \/ Signing(r) => req[r].rtok # next.token
         /\ \A s \in DOMAIN session : session[s].refresh # next.token
         /\ next.token # 0
<1>1. next.token \in Nat \ {0} /\ next.token \notin DOMAIN issued
  BY DEF IInv, TypeOK, IsTable
<1>2. ASSUME NEW s \in DOMAIN session PROVE session[s].refresh # next.token
  BY <1>1 DEF Truth, RowsTrue, PairOf
<1>3. ASSUME NEW r \in Requests, Refreshing(r) PROVE req[r].rtok # next.token
  BY <1>1, <1>3 DEF Truth, HoldersTrue, Holding, PairOf
<1>4. ASSUME NEW r \in Requests, Signing(r) PROVE req[r].rtok # next.token
  <2>1. req[r].tok \in DOMAIN issued
    BY <1>4 DEF Signing, IInv, Safe, InHand
  <2>2. QED
    BY <1>1, <1>4, <2>1 DEF Truth, SigningOwn
<1>5. QED
  BY <1>1, <1>2, <1>3, <1>4

-----------------------------------------------------------------------------
(* How a request comes to hold a refresh token *)

\* It held it before, the provider just gave it, or it is in the session's row.
Stays(q) ==
  Refreshing(q) /\ req'[q].sid = req[q].sid /\ req'[q].rtok = req[q].rtok

Rotates(q) ==
  /\ Refreshing(q) /\ req'[q].sid = req[q].sid /\ req'[q].rtok = next.token
  /\ UNCHANGED session /\ next.token \in honoured'
  /\ \A p \in Requests \ {q} : req'[p] = req[p]

Takes(q) ==
  /\ req'[q].pc = "refresh" /\ req'[q].sid \in DOMAIN session
  /\ req'[q].rtok = session[req'[q].sid].refresh /\ req'[q].rtok # 0
  /\ UNCHANGED session

\* A refresh either leaves the token or replaces it, as the provider does.
LEMMA GrantedToken ==
  ASSUME IInv, NEW q \in Requests, RefreshGranted(q)
  PROVE  \/ /\ ProviderOf[issued[req[q].rtok].user] \in Rotating
            /\ Rotates(q)
         \/ /\ ProviderOf[issued[req[q].rtok].user] \notin Rotating
            /\ Stays(q) /\ req[q].rtok \in honoured'
<1>1. /\ req[q].pc = "refresh" /\ req[q].rtok \in honoured
      /\ req'[q].sid = req[q].sid
      /\ req'[q].rtok = Successor(req[q].rtok, next.token)
      /\ UNCHANGED session
  BY GrantedSlot
<1>2. \A p \in Requests \ {q} : req'[p] = req[p]
  BY DEF IInv, TypeOK, RefreshGranted
<1>3. honoured' = IF ProviderOf[issued[req[q].rtok].user] \in Rotating
                  THEN (honoured \ {req[q].rtok}) \cup {next.token} ELSE honoured
  BY DEF RefreshGranted, Refresh
<1>4. Refreshing(q)
  BY <1>1 DEF Refreshing
<1>5. QED
  BY <1>1, <1>2, <1>3, <1>4 DEF Successor, Rotates, Stays

LEMMA RefreshingAfter ==
  ASSUME IInv, Next, NEW q \in Requests, Refreshing(q)'
  PROVE  Stays(q) \/ Rotates(q) \/ Takes(q)
<1>1. req'[q].pc \in {"refresh", "getuser", "updsess"}
  BY DEF Refreshing
<1>2. CASE Carries(q)
  BY <1>1, <1>2 DEF Carries, Stays, Refreshing
<1>3. CASE AuthAccepted(q) \/ AuthStale(q)
  BY <1>1, <1>3, TakenSlot DEF Takes
<1>4. CASE RefreshGranted(q)
  BY <1>4, GrantedToken
<1>5. CASE Freed(q) \/ Exchange(q) \/ Upsert(q)
  BY <1>1, <1>5, ExchangedSlot, UpsertedSlot DEF Freed
<1>6. QED
  BY <1>2, <1>3, <1>4, <1>5, SlotStep DEF SlotEvent

\* A callback held its refresh token before, or its code was just redeemed.
SignsOn(q) == Signing(q) /\ req'[q].rtok = req[q].rtok

Redeems(q) ==
  /\ req'[q].rtok = next.token /\ next.token \in honoured'
  /\ UNCHANGED session
  /\ \A p \in Requests \ {q} : req'[p] = req[p]

LEMMA SigningAfter ==
  ASSUME IInv, Next, NEW q \in Requests, Signing(q)', req'[q].rtok # 0
  PROVE  SignsOn(q) \/ Redeems(q)
<1>1. req'[q].pc \in {"upsert", "create"}
  BY DEF Signing
<1>2. CASE Carries(q)
  BY <1>1, <1>2 DEF Carries, SignsOn, Signing
<1>3. CASE Upsert(q)
  BY <1>3, UpsertedSlot DEF SignsOn, Signing
<1>4. CASE Exchange(q)
  <2>1. /\ req'[q].rtok = RefreshTokenOf(next.token, consent[req[q].st])
        /\ UNCHANGED session
    BY <1>4, ExchangedSlot
  <2>2. \A p \in Requests \ {q} : req'[p] = req[p]
    BY <1>4 DEF IInv, TypeOK, Exchange
  <2>3. ProviderOf[consent[req[q].st]] \in Expiring /\ req'[q].rtok = next.token
    BY <2>1 DEF RefreshTokenOf
  <2>4. next.token \in honoured'
    BY <1>4, <2>3 DEF Exchange, Redeem
  <2>5. QED
    BY <2>1, <2>2, <2>3, <2>4 DEF Redeems
<1>5. CASE Freed(q) \/ AuthAccepted(q) \/ AuthStale(q) \/ RefreshGranted(q)
  BY <1>1, <1>5, TakenSlot, GrantedSlot DEF Freed
<1>6. QED
  BY <1>2, <1>3, <1>4, <1>5, SlotStep DEF SlotEvent

\* A request with a token yet to be written held it before, or just got it.
LEMMA UnsavedAfter ==
  ASSUME IInv, Next, NEW q \in Requests, q \in Unsaved'
  PROVE  \/ q \in Unsaved /\ Stays(q)
         \/ /\ req[q].pc = "refresh" /\ Stays(q) /\ req[q].rtok \in honoured'
            /\ ~ Rotated(q)
         \/ Rotates(q)
<1>1. req'[q].pc \in {"getuser", "updsess"}
  BY DEF Unsaved
<1>2. CASE Carries(q)
  BY <1>1, <1>2 DEF Carries, Stays, Unsaved, Refreshing
<1>3. CASE RefreshGranted(q)
  BY <1>3, GrantedToken, GrantedSlot DEF Rotated
<1>4. CASE \/ Freed(q) \/ AuthAccepted(q) \/ AuthStale(q) \/ Exchange(q) \/ Upsert(q)
  BY <1>1, <1>4, TakenSlot, ExchangedSlot, UpsertedSlot DEF Freed
<1>5. QED
  BY <1>2, <1>3, <1>4, SlotStep DEF SlotEvent

-----------------------------------------------------------------------------
(* What a step does to the tokens the provider honours and to those unsaved *)

\* Only a refresh at a provider that rotates ends a refresh token: the client
\* then holds the new one, or its session is among the lost.
Ends(q, t) ==
  /\ req[q].pc = "refresh" /\ req[q].rtok = t /\ Rotated(q)
  /\ \/ Rotates(q) /\ q \in Unsaved'
     \/ req[q].sid \in lost'

LEMMA HonouredStep ==
  ASSUME IInv, Next, NEW t \in honoured \ honoured'
  PROVE  \E q \in Requests : Ends(q, t)
<1>1. ASSUME NEW r \in Requests,
             \/ Start(r) \/ AuthRefused(r) \/ AuthAccepted(r) \/ AuthStale(r)
             \/ RefreshRefused(r) \/ RefreshProfile(r) \/ RefreshProfileFails(r)
             \/ SaveTokens(r) \/ SaveTokensFails(r) \/ Page(r) \/ Guarded(r)
      PROVE  UNCHANGED honoured
  BY <1>1 DEF providerVars, Start, AuthRefused, AuthAccepted, AuthStale, RefreshRefused,
     RefreshProfile, RefreshProfileFails, SaveTokens, SaveTokensFails, Page, Guarded
<1>2. ASSUME NEW r \in Requests,
             \/ Logout(r) \/ Delete(r) \/ DeleteFails(r) \/ Login(r) \/ LoginRefused(r)
             \/ Callback(r) \/ CallbackRefused(r) \/ Upsert(r) \/ UpsertFails(r)
             \/ CreateLogin(r) \/ CreateLoginFails(r) \/ Deliver(r) \/ Vanish(r)
      PROVE  UNCHANGED honoured
  BY <1>2 DEF providerVars, Logout, Delete, DeleteFails, Login, LoginRefused, Callback,
     CallbackRefused, Upsert, UpsertFails, CreateLogin, CreateLoginFails, Deliver, Vanish
<1>3. ASSUME NEW r \in Requests, Exchange(r) \/ ExchangeRefused(r)
      PROVE  honoured \subseteq honoured'
  BY <1>3 DEF Exchange, ExchangeRefused, Redeem, providerVars
<1>4. ASSUME \/ CollectStates \/ CollectSessions \/ Crash \/ BootStates \/ BootSessions
             \/ Clock \/ \E b \in Browsers : ForgetCookie(b)
      PROVE  UNCHANGED honoured
  BY <1>4 DEF providerVars, CollectStates, CollectSessions, Crash, BootStates,
     BootSessions, Clock, ForgetCookie
<1>5. ASSUME NEW r \in Requests, RefreshGranted(r) \/ RefreshLost(r)
      PROVE  req[r].pc = "refresh" /\ req[r].rtok = t /\ Rotated(r)
  <2>1. honoured' = IF ProviderOf[issued[req[r].rtok].user] \in Rotating
                    THEN (honoured \ {req[r].rtok}) \cup {next.token} ELSE honoured
    BY <1>5 DEF RefreshGranted, RefreshLost, Refresh
  <2>2. QED
    BY <1>5, <2>1 DEF RefreshGranted, RefreshLost, Rotated
<1>6. ASSUME NEW r \in Requests, RefreshGranted(r) PROVE Ends(r, t)
  <2>1. req[r].pc = "refresh" /\ req[r].rtok = t /\ Rotated(r)
    BY <1>5, <1>6
  <2>2. Rotates(r)
    BY <1>6, <2>1, GrantedToken DEF Rotated
  <2>3. r \in Unsaved'
    BY <1>6, GrantedSlot DEF Unsaved
  <2>4. QED
    BY <2>1, <2>2, <2>3 DEF Ends
<1>7. ASSUME NEW r \in Requests, RefreshLost(r) PROVE Ends(r, t)
  BY <1>5, <1>7 DEF Ends, RefreshLost
<1>8. QED
  BY <1>1, <1>2, <1>3, <1>4, <1>6, <1>7 DEF Next, Authenticate, Handle, TokenEndpoint

\* Sessions whose token was lost stay on record.
LEMMA LostStep ==
  ASSUME Next
  PROVE  lost \subseteq lost'
<1>1. ASSUME NEW r \in Requests,
             \/ Start(r) \/ AuthRefused(r) \/ AuthAccepted(r) \/ AuthStale(r)
             \/ RefreshGranted(r) \/ RefreshRefused(r) \/ RefreshLost(r)
             \/ RefreshProfile(r) \/ RefreshProfileFails(r) \/ SaveTokens(r)
             \/ SaveTokensFails(r) \/ Page(r) \/ Guarded(r)
      PROVE  lost \subseteq lost'
  BY <1>1 DEF Start, AuthRefused, AuthAccepted, AuthStale, RefreshGranted, RefreshRefused,
     RefreshLost, RefreshProfile, RefreshProfileFails, SaveTokens, SaveTokensFails, Page,
     Guarded
<1>2. ASSUME NEW r \in Requests,
             \/ Logout(r) \/ Delete(r) \/ DeleteFails(r) \/ Login(r) \/ LoginRefused(r)
             \/ Callback(r) \/ CallbackRefused(r) \/ Exchange(r) \/ ExchangeRefused(r)
             \/ Upsert(r) \/ UpsertFails(r) \/ CreateLogin(r) \/ CreateLoginFails(r)
             \/ Deliver(r) \/ Vanish(r)
      PROVE  UNCHANGED lost
  BY <1>2 DEF Logout, Delete, DeleteFails, Login, LoginRefused, Callback, CallbackRefused,
     Exchange, ExchangeRefused, Upsert, UpsertFails, CreateLogin, CreateLoginFails, Deliver,
     Vanish
<1>3. ASSUME \/ CollectStates \/ CollectSessions \/ Crash \/ BootStates \/ BootSessions
             \/ Clock \/ \E b \in Browsers : ForgetCookie(b)
      PROVE  lost \subseteq lost'
  BY <1>3 DEF CollectStates, CollectSessions, Crash, BootStates, BootSessions, Clock,
     ForgetCookie
<1>4. QED
  BY <1>1, <1>2, <1>3 DEF Next, Authenticate, Handle, TokenEndpoint

\* A token yet to be written stays in hand, is lost with its session on record,
\* or is written.
Written(q) ==
  req[q].sid \in DOMAIN session' => session'[req[q].sid].refresh = req[q].rtok

UnsavedEvent(q) ==
  \/ q \in Unsaved' /\ req'[q].sid = req[q].sid /\ req'[q].rtok = req[q].rtok
  \/ req[q].sid \in lost'
  \/ Written(q)

LEMMA UnsavedStep ==
  ASSUME IInv, Next, NEW q \in Unsaved
  PROVE  UnsavedEvent(q)
<1>0. /\ req \in [Requests -> RequestRecords] /\ q \in Requests
      /\ req[q].pc \in {"getuser", "updsess"}
      /\ \A s \in DOMAIN session : session[s] \in SessionRows
  BY DEF IInv, TypeOK, IsTable, Unsaved
<1>1. ASSUME req'[q] = req[q] PROVE UnsavedEvent(q)
  BY <1>0, <1>1 DEF UnsavedEvent, Unsaved
<1>2. ASSUME NEW r \in Requests, r # q,
             \/ Start(r) \/ AuthRefused(r) \/ AuthAccepted(r) \/ AuthStale(r)
             \/ RefreshGranted(r) \/ RefreshRefused(r) \/ RefreshLost(r)
             \/ RefreshProfile(r) \/ RefreshProfileFails(r) \/ SaveTokens(r)
             \/ SaveTokensFails(r) \/ Page(r) \/ Guarded(r)
      PROVE  req'[q] = req[q]
  <2>1. \E rec : req' = [req EXCEPT ![r] = rec]
    BY <1>2, Zenon DEF Start, AuthRefused, AuthAccepted, AuthStale, RefreshGranted,
       RefreshRefused, RefreshLost, RefreshProfile, RefreshProfileFails, SaveTokens,
       SaveTokensFails, Page, Guarded, Anonymous, Accept, Answer
  <2>2. QED
    BY <1>0, <1>2, <2>1
<1>3. ASSUME NEW r \in Requests, r # q,
             \/ Logout(r) \/ Delete(r) \/ DeleteFails(r) \/ Login(r) \/ LoginRefused(r)
             \/ Callback(r) \/ CallbackRefused(r) \/ Exchange(r) \/ ExchangeRefused(r)
             \/ Upsert(r) \/ UpsertFails(r) \/ CreateLogin(r) \/ CreateLoginFails(r)
             \/ Deliver(r) \/ Vanish(r)
      PROVE  req'[q] = req[q]
  <2>1. \E rec : req' = [req EXCEPT ![r] = rec]
    BY <1>3, Zenon DEF Logout, Delete, DeleteFails, Login, LoginRefused, Callback,
       CallbackRefused, Exchange, ExchangeRefused, Upsert, UpsertFails, CreateLogin,
       CreateLoginFails, Deliver, Vanish, Answer, AnswerClearing
  <2>2. QED
    BY <1>0, <1>3, <2>1
<1>4. ~ \/ Start(q) \/ AuthRefused(q) \/ AuthAccepted(q) \/ AuthStale(q)
        \/ RefreshGranted(q) \/ RefreshRefused(q) \/ RefreshLost(q) \/ Page(q)
        \/ Guarded(q) \/ Logout(q) \/ Delete(q) \/ DeleteFails(q) \/ Login(q)
        \/ LoginRefused(q) \/ Callback(q) \/ CallbackRefused(q) \/ Exchange(q)
        \/ ExchangeRefused(q) \/ Upsert(q) \/ UpsertFails(q) \/ CreateLogin(q)
        \/ CreateLoginFails(q) \/ Deliver(q) \/ Vanish(q)
  BY <1>0 DEF Start, AuthRefused, AuthAccepted, AuthStale, RefreshGranted, RefreshRefused,
     RefreshLost, Page, Guarded, Logout, Delete, DeleteFails, Login, LoginRefused, Callback,
     CallbackRefused, Exchange, ExchangeRefused, Upsert, UpsertFails, CreateLogin,
     CreateLoginFails, Deliver, Vanish, AtHandler
<1>5. ASSUME RefreshProfile(q) PROVE UnsavedEvent(q)
  BY <1>0, <1>5 DEF RefreshProfile, UnsavedEvent, Unsaved, RequestRecords
<1>6. ASSUME RefreshProfileFails(q) PROVE UnsavedEvent(q)
  BY <1>6 DEF RefreshProfileFails, UnsavedEvent
<1>7. ASSUME UpdateSession(req[q].sid, TokenRow(q)) PROVE Written(q)
  BY <1>0, <1>7 DEF UpdateSession, TokenRow, Written, SessionRows
<1>8. ASSUME SaveTokens(q) \/ SaveTokensFails(q) PROVE UnsavedEvent(q)
  BY <1>7, <1>8 DEF SaveTokens, SaveTokensFails, UnsavedEvent
<1>9. ASSUME Crash PROVE UnsavedEvent(q)
  BY <1>9 DEF Crash, UnsavedEvent
<1>10. ASSUME \/ CollectStates \/ CollectSessions \/ BootStates \/ BootSessions \/ Clock
              \/ \E b \in Browsers : ForgetCookie(b)
       PROVE  req'[q] = req[q]
  BY <1>10 DEF CollectStates, CollectSessions, BootStates, BootSessions, Clock, ForgetCookie
<1>11. QED
  BY <1>1, <1>2, <1>3, <1>4, <1>5, <1>6, <1>8, <1>9, <1>10
  DEF Next, Authenticate, Handle, TokenEndpoint

-----------------------------------------------------------------------------
(* Lineage is preserved, one lemma per conjunct *)

\* A refresh takes its token from a row that has one, or from the provider.
LEMMA RefreshersHoldOneStep ==
  ASSUME IInv, Next, Truth, Lineage
  PROVE  RefreshersHoldOne'
<1>1. SUFFICES ASSUME NEW q \in Requests, Refreshing(q)'
               PROVE  req'[q].rtok # 0
  BY DEF RefreshersHoldOne
<1>2. QED
  BY <1>1, RefreshingAfter, KnownTokens
  DEF Stays, Rotates, Takes, Lineage, RefreshersHoldOne

\* The request that writes a row's refresh token was the row's own, or the
\* callback that redeemed the code.
LEMMA Writers ==
  ASSUME NEW r \in Requests, NEW s
  PROVE  /\ Saved(r, s) => Refreshing(r) /\ r \in Unsaved /\ req[r].sid = s
                           /\ s \in DOMAIN session /\ session'[s].refresh = req[r].rtok
                           /\ ~ Refreshing(r)' /\ ~ Signing(r)' /\ r \notin Unsaved'
         /\ Created(r, s) => Signing(r) /\ s = next.session
                             /\ session'[s].refresh = req[r].rtok
                             /\ ~ Refreshing(r)' /\ ~ Signing(r)' /\ r \notin Unsaved'
BY DEF Saved, Created, Refreshing, Signing, Unsaved

\* Two rows never come to hold one refresh token.
LEMMA RowsDifferStep ==
  ASSUME IInv, Next, Truth, Lineage
  PROVE  RowsDiffer'
<1> USE DEF Lineage
<1>1. SUFFICES ASSUME NEW s \in DOMAIN session', NEW t \in DOMAIN session',
                      session'[s].refresh # 0, session'[s].refresh = session'[t].refresh
               PROVE  s = t
  BY DEF RowsDiffer
<1>2. RowEvent(s) /\ RowEvent(t)
  BY RowStep
<1>3. ASSUME NEW x \in DOMAIN session', NEW y \in DOMAIN session',
             session'[x].refresh # 0, session'[x].refresh = session'[y].refresh,
             x \in DOMAIN session /\ session'[x] = session[x], RowEvent(y)
      PROVE  x = y
  <2>1. CASE y \in DOMAIN session /\ session'[y] = session[y]
    BY <1>3, <2>1 DEF RowsDiffer
  <2>2. ASSUME NEW r \in Requests, Saved(r, y) PROVE x = y
    BY <1>3, <2>2, Writers DEF AtItsRow
  <2>3. ASSUME NEW r \in Requests, Created(r, y) PROVE x = y
    BY <1>3, <2>3, Writers DEF SigningUnshared
  <2>4. QED
    BY <1>3, <2>1, <2>2, <2>3 DEF RowEvent
<1>4. ASSUME NEW r \in Requests, NEW q \in Requests, Saved(r, s), Saved(q, t)
      PROVE  s = t
  BY <1>1, <1>4, Writers DEF AtOneSession
<1>5. ASSUME NEW r \in Requests, NEW q \in Requests, NEW x, NEW y,
             session'[x].refresh # 0, session'[x].refresh = session'[y].refresh,
             Saved(r, x), Created(q, y)
      PROVE  FALSE
  <2>1. r # q
    BY <1>5 DEF Saved, Created
  <2>2. QED
    BY <1>5, <2>1, Writers DEF SigningUnshared
<1>6. ASSUME NEW r \in Requests, NEW q \in Requests, Created(r, s), Created(q, t)
      PROVE  s = t
  BY <1>6, Writers
<1>7. QED
  BY <1>1, <1>2, <1>3, <1>4, <1>5, <1>6 DEF RowEvent

\* Nor does a request of another session come to hold a row's.
LEMMA AtItsRowStep ==
  ASSUME IInv, Next, Truth, Lineage
  PROVE  AtItsRow'
<1> USE DEF Lineage
<1>1. SUFFICES ASSUME NEW q \in Requests, NEW s \in DOMAIN session', Refreshing(q)',
                      session'[s].refresh = req'[q].rtok
               PROVE  req'[q].sid = s
  BY DEF AtItsRow
<1>2. CASE Stays(q)
  <2>1. Refreshing(q) /\ req'[q].sid = req[q].sid /\ req'[q].rtok = req[q].rtok
        /\ req[q].rtok # 0
    BY <1>2 DEF Stays, RefreshersHoldOne
  <2>2. CASE s \in DOMAIN session /\ session'[s] = session[s]
    BY <1>1, <2>1, <2>2 DEF AtItsRow
  <2>3. ASSUME NEW r \in Requests, Saved(r, s) PROVE req'[q].sid = s
    BY <1>1, <2>1, <2>3, Writers DEF AtOneSession
  <2>4. ASSUME NEW r \in Requests, Created(r, s) PROVE FALSE
    <3>1. r # q
      BY <1>1, <2>4, Writers
    <3>2. QED
      BY <1>1, <2>1, <2>4, <3>1, Writers DEF SigningUnshared
  <2>5. QED
    BY <2>2, <2>3, <2>4, RowStep DEF RowEvent
<1>3. CASE Rotates(q)
  BY <1>1, <1>3, KnownTokens DEF Rotates
<1>4. CASE Takes(q)
  BY <1>1, <1>4 DEF Takes, RowsDiffer
<1>5. QED
  BY <1>1, <1>2, <1>3, <1>4, RefreshingAfter

\* Nor do requests of two sessions come to hold one.
LEMMA AtOneSessionStep ==
  ASSUME IInv, Next, Truth, Lineage
  PROVE  AtOneSession'
<1> USE DEF Lineage
<1>1. SUFFICES ASSUME NEW p \in Requests, NEW q \in Requests, Refreshing(p)',
                      Refreshing(q)', req'[p].rtok = req'[q].rtok
               PROVE  req'[p].sid = req'[q].sid
  BY DEF AtOneSession
<1>2. /\ Stays(p) \/ Rotates(p) \/ Takes(p)
      /\ Stays(q) \/ Rotates(q) \/ Takes(q)
  BY <1>1, RefreshingAfter
<1>3. CASE Stays(p) /\ Stays(q)
  BY <1>1, <1>3 DEF Stays, AtOneSession
<1>4. ASSUME NEW x \in Requests, NEW y \in Requests, Stays(x), Takes(y),
             req'[x].rtok = req'[y].rtok
      PROVE  req'[x].sid = req'[y].sid
  BY <1>4 DEF Stays, Takes, AtItsRow
<1>5. ASSUME NEW x \in Requests, NEW y \in Requests, Rotates(x), Stays(y) \/ Takes(y),
             req'[x].rtok = req'[y].rtok
      PROVE  FALSE
  BY <1>5, KnownTokens DEF Stays, Takes, Rotates
<1>6. CASE Rotates(p) /\ Rotates(q)
  <2>1. CASE p # q
    BY <1>6, <2>1, KnownTokens DEF Rotates
  <2>2. QED
    BY <2>1
<1>7. CASE Takes(p) /\ Takes(q)
  BY <1>1, <1>7 DEF Takes, RowsDiffer
<1>8. QED
  BY <1>1, <1>2, <1>3, <1>4, <1>5, <1>6, <1>7

\* What a callback got for its code stays its own until it is written.
LEMMA SigningUnsharedStep ==
  ASSUME IInv, Next, Truth, Lineage
  PROVE  SigningUnshared'
<1> USE DEF Lineage
<1>1. SUFFICES ASSUME NEW r \in Requests, Signing(r)', req'[r].rtok # 0
               PROVE  /\ \A s \in DOMAIN session' : session'[s].refresh # req'[r].rtok
                      /\ \A q \in Requests \ {r} :
                           Refreshing(q)' \/ Signing(q)' => req'[q].rtok # req'[r].rtok
  BY DEF SigningUnshared
<1>2. SignsOn(r) \/ Redeems(r)
  BY <1>1, SigningAfter
<1>3. ASSUME NEW s \in DOMAIN session' PROVE session'[s].refresh # req'[r].rtok
  <2>1. CASE Redeems(r)
    BY <1>3, <2>1, KnownTokens DEF Redeems
  <2>2. CASE SignsOn(r)
    <3>1. Signing(r) /\ req'[r].rtok = req[r].rtok /\ req[r].rtok # 0
      BY <1>1, <2>2 DEF SignsOn
    <3>2. CASE s \in DOMAIN session /\ session'[s] = session[s]
      BY <3>1, <3>2 DEF SigningUnshared
    <3>3. ASSUME NEW q \in Requests, Saved(q, s) \/ Created(q, s)
          PROVE  session'[s].refresh # req'[r].rtok
      <4>1. q # r
        BY <1>1, <3>3, Writers
      <4>2. QED
        BY <3>1, <3>3, <4>1, Writers DEF SigningUnshared
    <3>4. QED
      BY <3>2, <3>3, RowStep DEF RowEvent
  <2>3. QED
    BY <1>2, <2>1, <2>2
<1>4. ASSUME NEW q \in Requests \ {r}, Refreshing(q)'
      PROVE  req'[q].rtok # req'[r].rtok
  <2>1. Stays(q) \/ Rotates(q) \/ Takes(q)
    BY <1>4, RefreshingAfter
  <2>2. CASE SignsOn(r)
    <3>1. Signing(r) /\ req'[r].rtok = req[r].rtok /\ req[r].rtok # 0
      BY <1>1, <2>2 DEF SignsOn
    <3>2. QED
      BY <2>1, <3>1, KnownTokens DEF Stays, Rotates, Takes, SigningUnshared
  <2>3. CASE Redeems(r)
    <3>1. req'[r].rtok = next.token /\ req'[q] = req[q] /\ Refreshing(q)
      BY <1>4, <2>3 DEF Redeems, Refreshing
    <3>2. QED
      BY <3>1, KnownTokens
  <2>4. QED
    BY <1>2, <2>2, <2>3
<1>5. ASSUME NEW q \in Requests \ {r}, Signing(q)'
      PROVE  req'[q].rtok # req'[r].rtok
  <2>1. CASE req'[q].rtok = 0
    BY <1>1, <2>1
  <2>2. CASE req'[q].rtok # 0
    <3>1. SignsOn(q) \/ Redeems(q)
      BY <1>5, <2>2, SigningAfter
    <3>2. CASE SignsOn(q) /\ SignsOn(r)
      BY <1>1, <3>2 DEF SignsOn, SigningUnshared
    <3>3. ASSUME NEW x \in Requests, NEW y \in Requests, x # y, Redeems(x), Signing(y)'
          PROVE  req'[x].rtok # req'[y].rtok
      <4>1. req'[x].rtok = next.token /\ req'[y] = req[y] /\ Signing(y)
        BY <3>3 DEF Redeems, Signing
      <4>2. QED
        BY <4>1, KnownTokens
    <3>4. QED
      BY <1>1, <1>2, <1>5, <3>1, <3>2, <3>3
  <2>3. QED
    BY <2>1, <2>2
<1>6. QED
  BY <1>3, <1>4, <1>5

\* A token in hand that a step neither changes nor issues keeps its user.
LEMMA RotatedKept ==
  ASSUME IInv, Next, Truth, NEW q \in Requests, Refreshing(q), req[q].rtok # 0,
         req'[q].rtok = req[q].rtok
  PROVE  Rotated(q)' <=> Rotated(q)
<1>1. req[q].rtok \in DOMAIN issued
  BY DEF Truth, HoldersTrue, Holding, PairOf
<1>2. issued'[req[q].rtok] = issued[req[q].rtok]
  BY <1>1, TokensGrow
<1>3. QED
  BY <1>2 DEF Rotated

\* So does what a request got from a refresh.
LEMMA RotatedUnsharedStep ==
  ASSUME IInv, Next, Truth, Lineage
  PROVE  RotatedUnshared'
<1> USE DEF Lineage
<1>1. SUFFICES ASSUME NEW r \in Unsaved', Rotated(r)'
               PROVE  /\ \A s \in DOMAIN session' : session'[s].refresh # req'[r].rtok
                      /\ \A q \in Requests \ {r} :
                           Refreshing(q)' => req'[q].rtok # req'[r].rtok
  BY DEF RotatedUnshared
<1>2. r \in Requests /\ ~ Signing(r)'
  BY <1>1 DEF Unsaved, Signing
<1>3. CASE Rotates(r)
  <2>1. req'[r].rtok = next.token /\ UNCHANGED session
    BY <1>3 DEF Rotates
  <2>2. ASSUME NEW q \in Requests \ {r}, Refreshing(q)'
        PROVE  req'[q].rtok # req'[r].rtok
    <3>1. Refreshing(q) /\ req'[q] = req[q]
      BY <1>3, <2>2 DEF Rotates, Refreshing
    <3>2. QED
      BY <2>1, <3>1, KnownTokens
  <2>3. QED
    BY <2>1, <2>2, KnownTokens
<1>4. CASE ~ Rotates(r)
  <2>1. Refreshing(r) /\ req'[r].rtok = req[r].rtok /\ req[r].rtok # 0
    BY <1>2, <1>1, <1>4, UnsavedAfter DEF Stays, RefreshersHoldOne
  <2>2. Rotated(r)
    BY <1>1, <1>2, <2>1, RotatedKept
  <2>3. r \in Unsaved
    BY <1>1, <1>2, <1>4, <2>2, UnsavedAfter
  <2>4. ASSUME NEW s \in DOMAIN session' PROVE session'[s].refresh # req'[r].rtok
    <3>1. CASE s \in DOMAIN session /\ session'[s] = session[s]
      BY <2>1, <2>2, <2>3, <3>1 DEF RotatedUnshared
    <3>2. ASSUME NEW q \in Requests, Saved(q, s)
          PROVE  session'[s].refresh # req'[r].rtok
      <4>1. q # r
        BY <1>1, <3>2, Writers
      <4>2. QED
        BY <2>1, <2>2, <2>3, <3>2, <4>1, Writers DEF RotatedUnshared
    <3>3. ASSUME NEW q \in Requests, Created(q, s)
          PROVE  session'[s].refresh # req'[r].rtok
      <4>1. q # r
        BY <2>1, <3>3 DEF Created, Refreshing
      <4>2. QED
        BY <1>2, <2>1, <3>3, <4>1, Writers DEF SigningUnshared
    <3>4. QED
      BY <3>1, <3>2, <3>3, RowStep DEF RowEvent
  <2>5. ASSUME NEW q \in Requests \ {r}, Refreshing(q)'
        PROVE  req'[q].rtok # req'[r].rtok
    <3>1. Stays(q) \/ Rotates(q) \/ Takes(q)
      BY <2>5, RefreshingAfter
    <3>2. QED
      BY <1>2, <2>1, <2>2, <2>3, <3>1, KnownTokens
      DEF Stays, Rotates, Takes, RotatedUnshared
  <2>6. QED
    BY <2>4, <2>5
<1>5. QED
  BY <1>3, <1>4

\* Nobody ends a token that another request holds and has not written.
LEMMA HeldStaysHonoured ==
  ASSUME IInv, Next, Truth, Lineage, NEW r \in Requests, r \in Unsaved \/ Signing(r),
         req[r].rtok # 0
  PROVE  req[r].rtok \in honoured'
<1> USE DEF Lineage
<1>1. req[r].rtok \in honoured
  BY DEF HeldHonoured
<1>2. SUFFICES ASSUME req[r].rtok \notin honoured' PROVE FALSE
  OBVIOUS
<1>3. PICK q \in Requests : Ends(q, req[r].rtok)
  BY <1>1, <1>2, HonouredStep
<1>4. /\ q # r /\ Refreshing(q) /\ req[q].rtok = req[r].rtok /\ Rotated(r)
  BY <1>3 DEF Ends, Unsaved, Signing, Refreshing, Rotated
<1>5. CASE r \in Unsaved
  BY <1>4, <1>5 DEF RotatedUnshared
<1>6. CASE Signing(r)
  BY <1>4, <1>6 DEF SigningUnshared
<1>7. QED
  BY <1>5, <1>6

LEMMA HeldHonouredStep ==
  ASSUME IInv, Next, Truth, Lineage
  PROVE  HeldHonoured'
<1>1. SUFFICES ASSUME NEW r \in Requests, (r \in Unsaved)' \/ Signing(r)',
                      req'[r].rtok # 0
               PROVE  req'[r].rtok \in honoured'
  BY DEF HeldHonoured
<1>2. CASE (r \in Unsaved)'
  BY <1>1, <1>2, UnsavedAfter, HeldStaysHonoured DEF Stays, Rotates
<1>3. CASE Signing(r)'
  BY <1>1, <1>3, SigningAfter, HeldStaysHonoured DEF SignsOn, Redeems
<1>4. QED
  BY <1>1, <1>2, <1>3

\* A session's refresh token is honoured, carried by a request, or on record as
\* lost, after every step.
LEMMA AccountedStep ==
  ASSUME IInv, Next, Truth, Lineage
  PROVE  RefreshTokenAccounted'
<1> USE DEF Lineage
<1> DEFINE CarriedNext(s) ==
      \E r \in Unsaved' : req'[r].sid = s /\ req'[r].rtok \in honoured'
<1>1. SUFFICES ASSUME NEW s \in DOMAIN session'
               PROVE  \/ session'[s].refresh \in honoured' \cup {0}
                      \/ CarriedNext(s)
                      \/ s \in lost'
  BY DEF RefreshTokenAccounted, Carried
<1>2. ASSUME NEW r \in Requests, Saved(r, s) \/ Created(r, s)
      PROVE  session'[s].refresh \in honoured' \cup {0}
  BY <1>2, Writers, HeldStaysHonoured
<1>3. CASE s \in DOMAIN session /\ session'[s] = session[s]
  <2>1. CASE session[s].refresh \in honoured \ honoured'
    <3>1. PICK q \in Requests : Ends(q, session[s].refresh)
      BY <2>1, HonouredStep
    <3>2. req[q].sid = s
      BY <1>3, <3>1 DEF Ends, Refreshing, AtItsRow
    <3>3. CASE Rotates(q) /\ q \in Unsaved'
      BY <3>2, <3>3 DEF Rotates
    <3>4. QED
      BY <3>1, <3>2, <3>3 DEF Ends
  <2>2. ASSUME NEW r \in Unsaved, req[r].sid = s, req[r].rtok \in honoured
        PROVE  \/ session'[s].refresh \in honoured' \cup {0}
               \/ CarriedNext(s)
               \/ s \in lost'
    <3>1. r \in Requests /\ req[r].rtok # 0
      BY <2>2 DEF Unsaved, Refreshing, RefreshersHoldOne
    <3>2. req[r].rtok \in honoured'
      BY <2>2, <3>1, HeldStaysHonoured
    <3>3. UnsavedEvent(r)
      BY <2>2, UnsavedStep
    <3>4. QED
      BY <1>1, <2>2, <3>2, <3>3 DEF UnsavedEvent, Written
  <2>3. CASE s \in lost
    BY <2>3, LostStep
  <2>4. QED
    BY <1>3, <2>1, <2>2, <2>3 DEF RefreshTokenAccounted, Carried
<1>4. QED
  BY <1>2, <1>3, RowStep DEF RowEvent

-----------------------------------------------------------------------------
(* Lineage holds from the start, and what follows from it *)

\* The only refresh token at the start is honoured and in its row.
LEMMA InitLineage ==
  ASSUME Init
  PROVE  Lineage
<1>1. \A r \in Requests : ~ Refreshing(r) /\ ~ Signing(r) /\ r \notin Unsaved
  BY DEF Init, Idle, NoRequest, Refreshing, Signing, Unsaved
<1>2. /\ RefreshersHoldOne /\ AtItsRow /\ AtOneSession /\ SigningUnshared
      /\ RotatedUnshared /\ HeldHonoured
  BY <1>1 DEF RefreshersHoldOne, AtItsRow, AtOneSession, SigningUnshared,
     RotatedUnshared, HeldHonoured, Unsaved
<1>3. CASE EmptyDatabase
  BY <1>2, <1>3 DEF EmptyDatabase, NoRows, Lineage, RowsDiffer, RefreshTokenAccounted
<1>4. ASSUME NEW b \in Browsers, NEW u \in Users, NEW k \in Keys, OneLogin(b, u, k)
      PROVE  Lineage
  <2>1. DOMAIN session = {1} /\ session[1].refresh = RefreshTokenOf(1, u)
    BY <1>4 DEF OneLogin, Put, NoRows
  <2>2. honoured = IF ProviderOf[u] \in Expiring THEN {1} ELSE {}
    BY <1>4 DEF OneLogin
  <2>3. session[1].refresh \in honoured \cup {0}
    BY <2>1, <2>2 DEF RefreshTokenOf
  <2>4. QED
    BY <1>2, <2>1, <2>3 DEF Lineage, RowsDiffer, RefreshTokenAccounted
<1>5. QED
  BY <1>3, <1>4 DEF Init

\* A step that changes no variable keeps it.
LEMMA StutterLineage ==
  ASSUME Lineage, UNCHANGED vars
  PROVE  Lineage'
BY DEF vars, tables, providerVars, Lineage, RefreshersHoldOne, RowsDiffer, AtItsRow,
       AtOneSession, SigningUnshared, RotatedUnshared, HeldHonoured, Rotated,
       RefreshTokenAccounted, Carried, Unsaved, Refreshing, Signing

LEMMA LineageStep ==
  ASSUME IInv, Next, Truth, Lineage
  PROVE  Lineage'
BY RefreshersHoldOneStep, RowsDifferStep, AtItsRowStep, AtOneSessionStep,
   SigningUnsharedStep, RotatedUnsharedStep, HeldHonouredStep, AccountedStep
DEF Lineage

\* Refresh tokens have one place each, and the provider honours them, always.
THEOREM LineageInvariance == Spec => []Lineage
<1>1. Init => Lineage
  BY InitLineage
<1>2. IInv /\ Truth /\ Lineage /\ [Next]_vars => Lineage'
  BY LineageStep, StutterLineage
<1>3. QED
  BY <1>1, <1>2, Invariance, TruthInvariance, PTL DEF Spec

\* The refresh token in a row is honoured, or a request holds its successor and is
\* about to write it, or the successor was lost to a failure (auth.go:325-357).
THEOREM RefreshTokensKept == Spec => []RefreshTokenAccounted
<1>1. Lineage => RefreshTokenAccounted
  BY DEF Lineage
<1>2. QED
  BY <1>1, LineageInvariance, PTL

=============================================================================
