--------------------------- MODULE AuthLoginProofs ---------------------------
(***************************************************************************)
(* Theorems about who is let in by Auth, for every value of its constants: *)
(* whom a live session does not keep from the login page, and to whom a    *)
(* session made by a callback belongs.                                     *)
(***************************************************************************)
EXTENDS AuthTokenProofs

-----------------------------------------------------------------------------
(* What a step does to one slot, and to the process under it *)

\* The steps of a request rewrite its own slot, with one record.
OwnAction(r) ==
  \/ Start(r) \/ Authenticate(r) \/ Handle(r) \/ TokenEndpoint(r) \/ Deliver(r)
  \/ Vanish(r)

LEMMA OneSlot ==
  ASSUME req \in [Requests -> RequestRecords], NEW r \in Requests, OwnAction(r)
  PROVE  \A q \in Requests \ {r} : req'[q] = req[q]
<1>1. ASSUME \/ Start(r) \/ AuthRefused(r) \/ AuthAccepted(r) \/ AuthStale(r)
             \/ RefreshGranted(r) \/ RefreshRefused(r) \/ RefreshLost(r)
             \/ RefreshProfile(r) \/ RefreshProfileFails(r) \/ SaveTokens(r)
             \/ SaveTokensFails(r) \/ Page(r) \/ Guarded(r)
      PROVE  \E rec : req' = [req EXCEPT ![r] = rec]
  BY <1>1, Zenon DEF Start, AuthRefused, AuthAccepted, AuthStale, RefreshGranted,
     RefreshRefused, RefreshLost, RefreshProfile, RefreshProfileFails, SaveTokens,
     SaveTokensFails, Page, Guarded, Anonymous, Accept, Answer
<1>2. ASSUME \/ Logout(r) \/ Delete(r) \/ DeleteFails(r) \/ Login(r) \/ LoginRefused(r)
             \/ Callback(r) \/ CallbackRefused(r) \/ Exchange(r) \/ ExchangeRefused(r)
             \/ Upsert(r) \/ UpsertFails(r) \/ CreateLogin(r) \/ CreateLoginFails(r)
             \/ Deliver(r) \/ Vanish(r)
      PROVE  \E rec : req' = [req EXCEPT ![r] = rec]
  BY <1>2, Zenon DEF Logout, Delete, DeleteFails, Login, LoginRefused, Callback,
     CallbackRefused, Exchange, ExchangeRefused, Upsert, UpsertFails, CreateLogin,
     CreateLoginFails, Deliver, Vanish, Answer, AnswerClearing
<1>3. \E rec : req' = [req EXCEPT ![r] = rec]
  BY <1>1, <1>2 DEF OwnAction, Authenticate, Handle, TokenEndpoint
<1>4. QED
  BY <1>3

\* A slot changes by a step of its request, or is lost with the process.
LEMMA SlotChange ==
  ASSUME IInv, Next, NEW q \in Requests
  PROVE  \/ req'[q] = req[q]
         \/ OwnAction(q)
         \/ Crash /\ req'[q] = Idle
<1>1. req \in [Requests -> RequestRecords]
  BY DEF IInv, TypeOK
<1>2. ASSUME NEW r \in Requests, OwnAction(r)
      PROVE  req'[q] = req[q] \/ OwnAction(q)
  BY <1>1, <1>2, OneSlot
<1>3. ASSUME \/ CollectStates \/ CollectSessions \/ BootStates \/ BootSessions \/ Clock
             \/ \E b \in Browsers : ForgetCookie(b)
      PROVE  req'[q] = req[q]
  BY <1>3 DEF CollectStates, CollectSessions, BootStates, BootSessions, Clock, ForgetCookie
<1>4. ASSUME Crash PROVE req'[q] = Idle
  BY <1>4 DEF Crash
<1>5. QED
  BY <1>2, <1>3, <1>4 DEF Next, OwnAction

\* A request's own step leaves the process, its key and its configuration alone.
LEMMA OwnActionKeeps ==
  ASSUME NEW r \in Requests, OwnAction(r)
  PROVE  UNCHANGED serverVars /\ UNCHANGED now
<1>1. ASSUME \/ Start(r) \/ AuthRefused(r) \/ AuthAccepted(r) \/ AuthStale(r)
             \/ RefreshGranted(r) \/ RefreshRefused(r) \/ RefreshLost(r)
             \/ RefreshProfile(r) \/ RefreshProfileFails(r) \/ SaveTokens(r)
             \/ SaveTokensFails(r) \/ Page(r) \/ Guarded(r)
      PROVE  UNCHANGED serverVars /\ UNCHANGED now
  BY <1>1 DEF Start, AuthRefused, AuthAccepted, AuthStale, RefreshGranted, RefreshRefused,
     RefreshLost, RefreshProfile, RefreshProfileFails, SaveTokens, SaveTokensFails, Page,
     Guarded
<1>2. ASSUME \/ Logout(r) \/ Delete(r) \/ DeleteFails(r) \/ Login(r) \/ LoginRefused(r)
             \/ Callback(r) \/ CallbackRefused(r) \/ Exchange(r) \/ ExchangeRefused(r)
             \/ Upsert(r) \/ UpsertFails(r) \/ CreateLogin(r) \/ CreateLoginFails(r)
             \/ Deliver(r) \/ Vanish(r)
      PROVE  UNCHANGED serverVars /\ UNCHANGED now
  BY <1>2 DEF Logout, Delete, DeleteFails, Login, LoginRefused, Callback, CallbackRefused,
     Exchange, ExchangeRefused, Upsert, UpsertFails, CreateLogin, CreateLoginFails, Deliver,
     Vanish
<1>3. QED
  BY <1>1, <1>2 DEF OwnAction, Authenticate, Handle, TokenEndpoint

-----------------------------------------------------------------------------
(* Requests run under one key and one configuration *)

\* No request is served before the process is up, so none lives through a change
\* of the key or of the configuration.
ServedWhileUp == process # "up" => \A r \in Requests : req[r].pc = "idle"

\* Only an answer sets a cookie or leads anywhere.
AnswersUnset ==
  \A r \in Requests : req[r].pc # "respond" => req[r].set = 0 /\ req[r].out = "ok"

\* The actions that answer leave the slot at its answer.
LEMMA Answered ==
  ASSUME req \in [Requests -> RequestRecords], NEW r \in Requests,
         \/ Page(r) \/ Guarded(r) \/ Logout(r) \/ Delete(r) \/ DeleteFails(r)
         \/ Login(r) \/ LoginRefused(r) \/ CallbackRefused(r) \/ ExchangeRefused(r)
         \/ UpsertFails(r) \/ CreateLogin(r) \/ CreateLoginFails(r)
  PROVE  req'[r].pc = "respond"
<1>1. ASSUME NEW out \in {"ok", "login", "error", "consent"},
             Answer(r, out) \/ AnswerClearing(r, out)
      PROVE  req'[r].pc = "respond"
  <2>1. CASE Answer(r, out)
    BY <2>1 DEF Answer, RequestRecords
  <2>2. CASE AnswerClearing(r, out)
    BY <2>2 DEF AnswerClearing, RequestRecords
  <2>3. QED
    BY <1>1, <2>1, <2>2
<1>2. CASE \/ Page(r) \/ Guarded(r) \/ Logout(r) \/ Delete(r) \/ DeleteFails(r)
           \/ LoginRefused(r) \/ CallbackRefused(r) \/ ExchangeRefused(r)
           \/ UpsertFails(r) \/ CreateLoginFails(r)
  BY <1>1, <1>2 DEF Page, Guarded, Logout, Delete, DeleteFails, LoginRefused,
     CallbackRefused, ExchangeRefused, UpsertFails, CreateLoginFails
<1>3. CASE Login(r)
  BY <1>3 DEF Login, RequestRecords
<1>4. CASE CreateLogin(r)
  BY <1>4 DEF CreateLogin, RequestRecords
<1>5. QED
  BY <1>2, <1>3, <1>4

LEMMA ServedWhileUpStep ==
  ASSUME IInv, Next, ServedWhileUp
  PROVE  ServedWhileUp'
<1>1. SUFFICES ASSUME process' # "up", NEW q \in Requests
               PROVE  req'[q].pc = "idle"
  BY DEF ServedWhileUp
<1>2. CASE Crash
  BY <1>2 DEF Crash, Idle, NoRequest
<1>3. ASSUME NEW r \in Requests, OwnAction(r) PROVE FALSE
  <2>1. process # "up"
    BY <1>1, <1>3, OwnActionKeeps DEF serverVars
  <2>2. req[r].pc = "idle"
    BY <2>1 DEF ServedWhileUp
  <2>3. QED
    BY <1>3, <2>1, <2>2 DEF OwnAction, Authenticate, Handle, TokenEndpoint, Start, AuthRefused,
       AuthAccepted, AuthStale, RefreshGranted, RefreshRefused, RefreshLost,
       RefreshProfile, RefreshProfileFails, SaveTokens, SaveTokensFails, Page, Guarded,
       Logout, Delete, DeleteFails, Login, LoginRefused, Callback, CallbackRefused,
       Exchange, ExchangeRefused, Upsert, UpsertFails, CreateLogin, CreateLoginFails,
       Deliver, Vanish, AtHandler
<1>4. CASE \/ CollectStates \/ CollectSessions \/ BootStates \/ BootSessions \/ Clock
           \/ \E b \in Browsers : ForgetCookie(b)
  <2>1. process # "up" /\ req' = req
    BY <1>1, <1>4 DEF CollectStates, CollectSessions, BootStates, BootSessions, Clock,
       ForgetCookie, serverVars
  <2>2. QED
    BY <2>1 DEF ServedWhileUp
<1>5. QED
  BY <1>2, <1>3, <1>4 DEF Next, OwnAction

\* A request begins anonymous and unanswered, and waits for the middleware unless
\* it has no cookie.
LEMMA StartedSlot ==
  ASSUME req \in [Requests -> RequestRecords], NEW r \in Requests, Start(r)
  PROVE  /\ req'[r].set = 0 /\ req'[r].out = "ok" /\ req'[r].acct = 0
         /\ req'[r].pc \in {"auth", "handler"}
         /\ req'[r].pc = "handler" => req'[r].sid = 0
<1>1. PICK kind \in Kinds, b \in Browsers, p \in Providers,
           st \in DOMAIN consent \cup {0} :
        /\ Sensible(kind, p, st)
        /\ req' = [req EXCEPT ![r] =
             [NoRequest(p) EXCEPT
                !.pc = IF jar[b] = 0 THEN "handler" ELSE "auth",
                !.kind = kind, !.browser = b, !.sid = jar[b], !.st = st,
                !.late = jar[b] # 0 /\ jar[b] \notin DOMAIN session]]
  BY DEF Start
<1>2. QED
  BY <1>1 DEF NoRequest

\* A slot that is not at its answer carries what it carried, or begins anew.
LEMMA AnswersUnsetStep ==
  ASSUME IInv, Next, AnswersUnset
  PROVE  AnswersUnset'
<1>0. req \in [Requests -> RequestRecords]
  BY DEF IInv, TypeOK
<1>1. SUFFICES ASSUME NEW q \in Requests, req'[q].pc # "respond"
               PROVE  req'[q].set = 0 /\ req'[q].out = "ok"
  BY DEF AnswersUnset
<1>2. CASE req'[q] = req[q]
  BY <1>1, <1>2 DEF AnswersUnset
<1>3. CASE req'[q] = Idle \/ Deliver(q) \/ Vanish(q)
  BY <1>0, <1>3 DEF Idle, NoRequest, Deliver, Vanish
<1>4. CASE Start(q)
  BY <1>0, <1>4, StartedSlot
<1>5. CASE \/ AuthRefused(q) \/ RefreshRefused(q) \/ RefreshLost(q)
           \/ RefreshProfileFails(q) \/ SaveTokensFails(q)
  <2>1. Anonymous(q) /\ req[q].pc # "respond"
    BY <1>5 DEF AuthRefused, RefreshRefused, RefreshLost, RefreshProfileFails,
       SaveTokensFails
  <2>2. QED
    BY <1>0, <2>1 DEF Anonymous, RequestRecords, AnswersUnset
<1>6. CASE AuthAccepted(q) \/ AuthStale(q)
  <2>1. req[q].pc # "respond" /\ \E pc \in {"handler", "refresh"} : Accept(q, pc)
    BY <1>6 DEF AuthAccepted, AuthStale
  <2>2. req'[q].set = req[q].set /\ req'[q].out = req[q].out
    BY <1>0, <2>1 DEF Accept, RequestRecords
  <2>3. QED
    BY <2>1, <2>2 DEF AnswersUnset
<1>7. CASE RefreshGranted(q) \/ RefreshProfile(q) \/ SaveTokens(q)
  <2>1. CASE RefreshGranted(q)
    BY <1>0, <2>1 DEF RefreshGranted, RequestRecords, AnswersUnset
  <2>2. CASE RefreshProfile(q)
    BY <1>0, <2>2 DEF RefreshProfile, RequestRecords, AnswersUnset
  <2>3. CASE SaveTokens(q)
    BY <1>0, <2>3 DEF SaveTokens, RequestRecords, AnswersUnset
  <2>4. QED
    BY <1>7, <2>1, <2>2, <2>3
<1>8. CASE Exchange(q) \/ Upsert(q)
  <2>1. CASE Exchange(q)
    BY <1>0, <2>1 DEF Exchange, RequestRecords, AnswersUnset
  <2>2. CASE Upsert(q)
    BY <1>0, <2>2 DEF Upsert, RequestRecords, AnswersUnset
  <2>3. QED
    BY <1>8, <2>1, <2>2
<1>9. CASE \/ Page(q) \/ Guarded(q) \/ Logout(q) \/ Delete(q) \/ DeleteFails(q)
           \/ Login(q) \/ LoginRefused(q) \/ CallbackRefused(q) \/ ExchangeRefused(q)
           \/ UpsertFails(q) \/ CreateLogin(q) \/ CreateLoginFails(q)
  <2>1. req'[q].pc = "respond"
    BY <1>0, <1>9, Answered
  <2>2. QED
    BY <1>1, <2>1
<1>10. CASE Callback(q)
  <2>1. /\ req[q].pc # "respond"
        /\ Answer(q, "error") \/ req' = [req EXCEPT ![q].pc = "exchange"]
    BY <1>10 DEF Callback, AtHandler
  <2>2. CASE Answer(q, "error")
    BY <1>0, <1>1, <2>2 DEF Answer, RequestRecords
  <2>3. CASE req' = [req EXCEPT ![q].pc = "exchange"]
    BY <1>0, <2>1, <2>3 DEF RequestRecords, AnswersUnset
  <2>4. QED
    BY <2>1, <2>2, <2>3
<1>11. QED
  BY <1>2, <1>3, <1>4, <1>5, <1>6, <1>7, <1>8, <1>9, <1>10, SlotChange
  DEF OwnAction, Authenticate, Handle, TokenEndpoint

\* The key and the configuration change at a start only, and no request is there.
LEMMA SameProcess ==
  ASSUME IInv, Next, ServedWhileUp, NEW q \in Requests, req'[q].pc # "idle"
  PROVE  secret' = secret /\ configured' = configured
<1>1. ASSUME NEW r \in Requests, OwnAction(r)
      PROVE  secret' = secret /\ configured' = configured
  BY <1>1, OwnActionKeeps DEF serverVars
<1>2. CASE BootStates
  <2>1. process' = "cleaning"
    BY <1>2 DEF BootStates
  <2>2. QED
    BY <2>1, ServedWhileUpStep DEF ServedWhileUp
<1>3. CASE \/ CollectStates \/ CollectSessions \/ BootSessions \/ Crash \/ Clock
           \/ \E b \in Browsers : ForgetCookie(b)
  BY <1>3 DEF CollectStates, CollectSessions, BootSessions, Crash, Clock, ForgetCookie,
     serverVars
<1>4. QED
  BY <1>1, <1>2, <1>3 DEF Next, OwnAction

\* The clock does not go back.
LEMMA ClockStep ==
  ASSUME IInv, Next
  PROVE  now' \in {now, now + 1}
<1>1. ASSUME NEW r \in Requests, OwnAction(r) PROVE now' = now
  BY <1>1, OwnActionKeeps
<1>2. CASE \/ CollectStates \/ CollectSessions \/ BootStates \/ BootSessions \/ Crash
           \/ \E b \in Browsers : ForgetCookie(b)
  BY <1>2 DEF CollectStates, CollectSessions, BootStates, BootSessions, Crash, ForgetCookie
<1>3. CASE Clock
  BY <1>3 DEF Clock, Tick
<1>4. QED
  BY <1>1, <1>2, <1>3 DEF Next, OwnAction

-----------------------------------------------------------------------------
(* A request that refreshes a session can read its row *)

\* A refresh never writes a row this process could not open.
RefreshersOpen ==
  \A r \in Requests :
    Refreshing(r) /\ req[r].sid \in DOMAIN session => Decrypts(session[req[r].sid])

\* A row's key stays unless a refresh of that session, or a login, writes it.
LEMMA RowKey ==
  ASSUME IInv, Next, NEW s \in DOMAIN session', s \in DOMAIN session
  PROVE  \/ session'[s].key = session[s].key
         \/ /\ session'[s].key = secret
            /\ \E r \in Requests : Refreshing(r) /\ req[r].sid = s
<1> USE DEF IInv, TypeOK
<1>1. StoreEvent
  BY Events
<1>2. CASE StoreKept \/ AccountUpserted
  BY <1>2 DEF StoreKept, AccountUpserted
<1>3. ASSUME NEW K, session' = Drop(session, K)
      PROVE  session'[s] = session[s]
  BY <1>3 DEF Drop
<1>4. CASE LoggedOut \/ AccountDeleted \/ SessionsExpired
  BY <1>3, <1>4 DEF LoggedOut, AccountDeleted, SessionsExpired, DeleteSession,
     DeleteAccount, DeleteExpiredSessions
<1>5. CASE TokensSaved
  <2>1. PICK r \in Requests :
          req[r].pc = "updsess" /\ UpdateSession(req[r].sid, TokenRow(r))
    BY <1>5 DEF TokensSaved
  <2>2. Refreshing(r)
    BY <2>1 DEF Refreshing
  <2>3. CASE s # req[r].sid
    BY <2>1, <2>3 DEF UpdateSession
  <2>4. CASE s = req[r].sid
    <3>1. session[s] \in SessionRows
      BY DEF IsTable
    <3>2. session'[s] = [session[s] EXCEPT !.key = TokenRow(r).key,
                                           !.access = TokenRow(r).access,
                                           !.refresh = TokenRow(r).refresh,
                                           !.accessExpires = TokenRow(r).accessExpires]
      BY <2>1, <2>4 DEF UpdateSession
    <3>3. session'[s].key = secret
      BY <3>1, <3>2 DEF TokenRow, SessionRows
    <3>4. QED
      BY <2>2, <2>4, <3>3
  <2>5. QED
    BY <2>3, <2>4
<1>6. CASE SessionCreated
  <2>1. PICK r \in Requests : CreateSession(next.session, NewSession(r))
    BY <1>6 DEF SessionCreated
  <2>2. s # next.session
    BY DEF IsTable
  <2>3. QED
    BY <2>1, <2>2 DEF CreateSession, Put
<1>7. QED
  BY <1>1, <1>2, <1>4, <1>5, <1>6 DEF StoreEvent

LEMMA RefreshersOpenStep ==
  ASSUME IInv, Next, ServedWhileUp, RefreshersOpen
  PROVE  RefreshersOpen'
<1>1. SUFFICES ASSUME NEW q \in Requests, Refreshing(q)', req'[q].sid \in DOMAIN session'
               PROVE  session'[req'[q].sid].key = secret'
  BY DEF RefreshersOpen, Decrypts
<1>2. req'[q].pc \in {"refresh", "getuser", "updsess"}
  BY <1>1 DEF Refreshing
<1>3. secret' = secret
  BY <1>2, SameProcess
<1>4. CASE Carries(q) \/ RefreshGranted(q)
  <2>1. Refreshing(q) /\ req'[q].sid = req[q].sid
    BY <1>2, <1>4, GrantedSlot DEF Carries, Refreshing
  <2>2. req[q].sid \in DOMAIN session
    BY <1>1, <2>1, IdentityStep DEF IInv, Safe, KnownIds
  <2>3. session[req[q].sid].key = secret
    BY <2>1, <2>2 DEF RefreshersOpen, Decrypts
  <2>4. QED
    BY <1>1, <1>3, <2>1, <2>2, <2>3, RowKey
<1>5. CASE AuthAccepted(q) \/ AuthStale(q)
  <2>1. session[req[q].sid].key = secret
    BY <1>5 DEF AuthAccepted, AuthStale, Usable, Decrypts
  <2>2. QED
    BY <1>3, <1>5, <2>1, TakenSlot
<1>6. CASE Freed(q) \/ Exchange(q) \/ Upsert(q)
  BY <1>2, <1>6, ExchangedSlot, UpsertedSlot DEF Freed
<1>7. QED
  BY <1>4, <1>5, <1>6, SlotStep DEF SlotEvent

-----------------------------------------------------------------------------
(* What expires can be refreshed *)

\* A token that expires came with a refresh token, in a row and in the hands of a
\* callback.
Renewable ==
  /\ \A s \in DOMAIN session : session[s].refresh = 0 => session[s].accessExpires = 0
  /\ \A r \in Requests :
       Signing(r) /\ req[r].rtok = 0 => issued[req[r].tok].expires = 0

LEMMA RenewableStep ==
  ASSUME IInv, Next, Truth, Lineage, Renewable
  PROVE  Renewable'
<1>1. ASSUME NEW s \in DOMAIN session', session'[s].refresh = 0
      PROVE  session'[s].accessExpires = 0
  <2>1. CASE s \in DOMAIN session /\ session'[s] = session[s]
    BY <1>1, <2>1 DEF Renewable
  <2>2. ASSUME NEW r \in Requests, Saved(r, s) PROVE FALSE
    BY <1>1, <2>2, Writers DEF Lineage, RefreshersHoldOne
  <2>3. ASSUME NEW r \in Requests, Created(r, s) PROVE session'[s].accessExpires = 0
    BY <1>1, <2>3, Writers DEF Created, Renewable
  <2>4. QED
    BY <2>1, <2>2, <2>3, RowStep DEF RowEvent
<1>2. ASSUME NEW q \in Requests, Signing(q)', req'[q].rtok = 0
      PROVE  issued'[req'[q].tok].expires = 0
  <2>1. req'[q].pc \in {"upsert", "create"}
    BY <1>2 DEF Signing
  <2>2. CASE Carries(q) \/ Upsert(q)
    <3>1. Signing(q) /\ req'[q].tok = req[q].tok /\ req'[q].rtok = req[q].rtok
      BY <2>1, <2>2, UpsertedSlot DEF Carries, Signing
    <3>2. req[q].tok \in DOMAIN issued
      BY <3>1 DEF Signing, IInv, Safe, InHand
    <3>3. QED
      BY <1>2, <3>1, <3>2, TokensGrow DEF Renewable
  <2>3. CASE Exchange(q)
    <3>1. /\ req'[q].tok = next.token /\ Issue(next.token, consent[req[q].st])
          /\ req'[q].rtok = RefreshTokenOf(next.token, consent[req[q].st])
      BY <2>3, ExchangedSlot DEF Exchange, Redeem
    <3>2. issued'[next.token].expires = TokenExpiry(consent[req[q].st])
      BY <3>1 DEF Issue, Put
    <3>3. next.token # 0
      BY DEF IInv, TypeOK
    <3>4. QED
      BY <1>2, <3>1, <3>2, <3>3 DEF RefreshTokenOf, TokenExpiry
  <2>4. CASE Freed(q) \/ AuthAccepted(q) \/ AuthStale(q) \/ RefreshGranted(q)
    BY <2>1, <2>4, TakenSlot, GrantedSlot DEF Freed
  <2>5. QED
    BY <2>2, <2>3, <2>4, SlotStep DEF SlotEvent
<1>3. QED
  BY <1>1, <1>2 DEF Renewable

\* Tokens of the users whose provider keeps one refresh token for good.
Durable(t) == t \in DOMAIN issued /\ ProviderOf[issued[t].user] \notin Rotating

\* Such a refresh token, in a row or in hand, is honoured.
DurableHonoured ==
  /\ \A s \in DOMAIN session :
       Durable(session[s].refresh) => session[s].refresh \in honoured
  /\ \A r \in Requests : Refreshing(r) /\ Durable(req[r].rtok) => req[r].rtok \in honoured

\* And stays so: only a refresh that rotates ends a token.
LEMMA DurableStays ==
  ASSUME IInv, Next, DurableHonoured, NEW t \in DOMAIN issued,
         ProviderOf[issued'[t].user] \notin Rotating,
         \/ \E s \in DOMAIN session : session[s].refresh = t
         \/ \E r \in Requests : Refreshing(r) /\ req[r].rtok = t
  PROVE  t \in honoured'
<1>1. issued'[t] = issued[t]
  BY TokensGrow
<1>2. t \in honoured
  BY <1>1 DEF Durable, DurableHonoured
<1>3. ASSUME NEW q \in Requests, Ends(q, t) PROVE FALSE
  BY <1>1, <1>3 DEF Ends, Rotated
<1>4. QED
  BY <1>2, <1>3, HonouredStep

LEMMA DurableHonouredStep ==
  ASSUME IInv, Next, Truth, Lineage, DurableHonoured
  PROVE  DurableHonoured'
<1> USE DEF Lineage
<1>1. 0 \notin DOMAIN issued'
  BY TypeStep DEF TypeOK, IsTable
<1>2. ASSUME NEW s \in DOMAIN session, session[s].refresh # 0
      PROVE  session[s].refresh \in DOMAIN issued
  BY <1>2 DEF Truth, RowsTrue, PairOf
<1>3. ASSUME NEW r \in Requests, Refreshing(r)
      PROVE  req[r].rtok \in DOMAIN issued
  BY <1>3 DEF Truth, HoldersTrue, Holding, PairOf, RefreshersHoldOne
<1>4. ASSUME NEW s \in DOMAIN session', session'[s].refresh \in DOMAIN issued',
             ProviderOf[issued'[session'[s].refresh].user] \notin Rotating
      PROVE  session'[s].refresh \in honoured'
  <2>1. session'[s].refresh # 0
    BY <1>1, <1>4
  <2>2. CASE s \in DOMAIN session /\ session'[s] = session[s]
    BY <1>2, <1>4, <2>1, <2>2, DurableStays
  <2>3. ASSUME NEW r \in Requests, Saved(r, s) \/ Created(r, s)
        PROVE  session'[s].refresh \in honoured'
    BY <2>1, <2>3, Writers, HeldStaysHonoured
  <2>4. QED
    BY <2>2, <2>3, RowStep DEF RowEvent
<1>5. ASSUME NEW q \in Requests, Refreshing(q)',
             ProviderOf[issued'[req'[q].rtok].user] \notin Rotating
      PROVE  req'[q].rtok \in honoured'
  <2>1. CASE Stays(q)
    BY <1>3, <1>5, <2>1, DurableStays DEF Stays
  <2>2. CASE Rotates(q)
    BY <2>2 DEF Rotates
  <2>3. CASE Takes(q)
    BY <1>2, <1>5, <2>3, DurableStays DEF Takes
  <2>4. QED
    BY <1>5, <2>1, <2>2, <2>3, RefreshingAfter
<1>6. QED
  BY <1>4, <1>5 DEF DurableHonoured, Durable

-----------------------------------------------------------------------------
(* Who is sent to the login page *)

\* A session that is not live, or whose provider rotates refresh tokens.
Barred(s) == Usable(s) => ProviderOf[UserAt(s)] \in Rotating

\* On the way to the login page: anonymous at a handler, or answered so.
TurnedAway(r) ==
  \/ req[r].pc = "handler" /\ req[r].acct = 0
  \/ req[r].pc = "respond" /\ req[r].out = "login"

OnlyBarredTurnedAway == \A r \in Requests : TurnedAway(r) => Barred(req[r].sid)

Admission ==
  ServedWhileUp /\ AnswersUnset /\ RefreshersOpen /\ Renewable /\ DurableHonoured

\* Under one process nothing makes a session live again.
LEMMA BarredStays ==
  ASSUME IInv, Next, RefreshersOpen, NEW s \in Nat, s < next.session, Barred(s),
         secret' = secret, configured' = configured
  PROVE  Barred(s)'
<1>1. SUFFICES ASSUME Usable(s)' PROVE ProviderOf[account'[session'[s].account].user] \in Rotating
  BY DEF Barred, UserAt
<1>2. /\ AccountsReadable /\ s \in DOMAIN session' /\ ~ now' > session'[s].expires
      /\ ProviderOf[account'[session'[s].account].user] \in configured
      /\ session'[s].account \in DOMAIN account' /\ session'[s].key = secret
  BY <1>1 DEF Usable, SessionFound, Decrypts, UserAt, AccountsReadable
<1>3. /\ s \in DOMAIN session /\ session'[s].account = session[s].account
      /\ session'[s].expires = session[s].expires
  BY <1>2, IdentityStep
<1>4. session[s].account \in DOMAIN account /\ session[s].account < next.account
  BY <1>3 DEF IInv, Safe, SessionsHaveAccounts, TypeOK, IsTable
<1>5. account'[session[s].account].user = account[session[s].account].user
  BY <1>2, <1>3, <1>4, GrowStep DEF Grows
<1>6. session[s].key = secret
  BY <1>2, <1>3, RowKey DEF RefreshersOpen, Decrypts
<1>7. ~ now > session[s].expires
  <2>1. now \in Nat /\ session[s].expires \in Nat
    BY <1>3 DEF IInv, TypeOK, IsTable, SessionRows
  <2>2. QED
    BY <1>2, <1>3, <2>1, ClockStep
<1>8. Usable(s)
  BY <1>2, <1>3, <1>4, <1>5, <1>6, <1>7 DEF Usable, SessionFound, Decrypts, UserAt
<1>9. QED
  BY <1>3, <1>5, <1>8 DEF Barred, UserAt

\* The request was on that way before, has no session, or the middleware just
\* refused it: a session it cannot use, or a refresh token no longer honoured.
LEMMA TurnedAwayAfter ==
  ASSUME IInv, Next, Truth, AnswersUnset, ~ Fallible, NEW q \in Requests, TurnedAway(q)'
  PROVE  \/ TurnedAway(q) /\ req'[q].sid = req[q].sid
         \/ req'[q].sid = 0
         \/ /\ req'[q].sid = req[q].sid
            /\ \/ AuthRefused(q)
               \/ RefreshRefused(q)
<1>0. req \in [Requests -> RequestRecords]
  BY DEF IInv, TypeOK
<1>1. /\ req'[q].pc \in {"handler", "respond"}
      /\ req'[q].pc = "handler" => req'[q].acct = 0
      /\ req'[q].pc = "respond" => req'[q].out = "login"
  BY DEF TurnedAway
<1>2. CASE req'[q] = req[q]
  BY <1>2 DEF TurnedAway
<1>3. CASE req'[q] = Idle \/ Deliver(q) \/ Vanish(q)
  BY <1>0, <1>1, <1>3 DEF Idle, NoRequest, Deliver, Vanish
<1>4. CASE Start(q)
  BY <1>0, <1>1, <1>4, StartedSlot
<1>5. CASE AuthRefused(q) \/ RefreshRefused(q)
  <2>1. Anonymous(q)
    BY <1>5 DEF AuthRefused, RefreshRefused
  <2>2. QED
    BY <1>0, <1>5, <2>1 DEF Anonymous, RequestRecords
<1>6. CASE RefreshLost(q) \/ RefreshProfileFails(q) \/ SaveTokensFails(q)
  BY <1>6 DEF RefreshLost, RefreshProfileFails, SaveTokensFails
<1>7. CASE AuthAccepted(q) \/ AuthStale(q)
  <2>1. /\ req[q].sid \in DOMAIN session
        /\ req'[q].acct = session[req[q].sid].account
        /\ req'[q].pc \in {"handler", "refresh"}
    BY <1>7, TakenSlot
  <2>2. session[req[q].sid].account # 0
    BY <2>1 DEF Truth, RowsTrue, PairOf
  <2>3. QED
    BY <1>1, <2>1, <2>2
<1>8. CASE RefreshGranted(q) \/ RefreshProfile(q) \/ Exchange(q) \/ Upsert(q)
  <2>1. CASE RefreshGranted(q)
    BY <1>1, <2>1, GrantedSlot
  <2>2. CASE RefreshProfile(q)
    BY <1>0, <1>1, <2>2 DEF RefreshProfile, RequestRecords
  <2>3. CASE Exchange(q) \/ Upsert(q)
    BY <1>1, <2>3, ExchangedSlot, UpsertedSlot
  <2>4. QED
    BY <1>8, <2>1, <2>2, <2>3
<1>9. CASE SaveTokens(q)
  <2>1. req[q].pc = "updsess" /\ req'[q].pc = "handler" /\ req'[q].acct = req[q].acct
    BY <1>0, <1>9 DEF SaveTokens, RequestRecords
  <2>2. req[q].acct # 0
    BY <2>1 DEF Truth, HoldersTrue, Holding, Holder, Refreshing, PairOf
  <2>3. QED
    BY <1>1, <2>1, <2>2
<1>10. CASE Guarded(q) \/ Delete(q)
  <2>1. req[q].pc = "handler"
    BY <1>10 DEF Guarded, Delete, AtHandler
  <2>2. CASE req[q].acct = 0
    <3>1. Answer(q, "login")
      BY <1>10, <2>2 DEF Guarded, Delete
    <3>2. req'[q].sid = req[q].sid
      BY <1>0, <3>1 DEF Answer, RequestRecords
    <3>3. QED
      BY <2>1, <2>2, <3>2 DEF TurnedAway
  <2>3. CASE req[q].acct # 0
    <3>1. Answer(q, "ok") \/ AnswerClearing(q, "ok")
      BY <1>10, <2>3 DEF Guarded, Delete
    <3>2. CASE Answer(q, "ok")
      BY <1>0, <1>1, <3>2 DEF Answer, RequestRecords
    <3>3. CASE AnswerClearing(q, "ok")
      BY <1>0, <1>1, <3>3 DEF AnswerClearing, RequestRecords
    <3>4. QED
      BY <3>1, <3>2, <3>3
  <2>4. QED
    BY <2>2, <2>3
<1>11. CASE \/ Page(q) \/ Logout(q) \/ DeleteFails(q) \/ LoginRefused(q)
            \/ CallbackRefused(q) \/ ExchangeRefused(q) \/ UpsertFails(q)
            \/ CreateLoginFails(q)
  <2>1. \E out \in {"ok", "error"} : Answer(q, out) \/ AnswerClearing(q, out)
    BY <1>11 DEF Page, Logout, DeleteFails, LoginRefused, CallbackRefused,
       ExchangeRefused, UpsertFails, CreateLoginFails
  <2>2. req'[q].out \in {"ok", "error"} /\ req'[q].pc = "respond"
    <3>1. PICK out \in {"ok", "error"} : Answer(q, out) \/ AnswerClearing(q, out)
      BY <2>1
    <3>2. CASE Answer(q, out)
      BY <1>0, <3>2 DEF Answer, RequestRecords
    <3>3. CASE AnswerClearing(q, out)
      BY <1>0, <3>3 DEF AnswerClearing, RequestRecords
    <3>4. QED
      BY <3>1, <3>2, <3>3
  <2>3. QED
    BY <1>1, <2>2
<1>12. CASE Login(q)
  BY <1>0, <1>1, <1>12 DEF Login, RequestRecords
<1>13. CASE CreateLogin(q)
  BY <1>0, <1>1, <1>13 DEF CreateLogin, AnswersUnset, RequestRecords
<1>14. CASE Callback(q)
  <2>1. Answer(q, "error") \/ req' = [req EXCEPT ![q].pc = "exchange"]
    BY <1>14 DEF Callback
  <2>2. CASE Answer(q, "error")
    BY <1>0, <1>1, <2>2 DEF Answer, RequestRecords
  <2>3. CASE req' = [req EXCEPT ![q].pc = "exchange"]
    BY <1>0, <1>1, <2>3 DEF RequestRecords
  <2>4. QED
    BY <2>1, <2>2, <2>3
<1>15. QED
  BY <1>2, <1>3, <1>4, <1>5, <1>6, <1>7, <1>8, <1>9, <1>10, <1>11, <1>12, <1>13, <1>14,
     SlotChange DEF OwnAction, Authenticate, Handle, TokenEndpoint

\* The middleware turns away no live session but one whose refresh token was
\* rotated away, and none it turned away becomes live.
LEMMA OnlyBarredStep ==
  ASSUME IInv, Next, Truth, Lineage, Admission, ~ Fallible, OnlyBarredTurnedAway
  PROVE  OnlyBarredTurnedAway'
<1> USE DEF Admission
<1>1. SUFFICES ASSUME NEW q \in Requests, TurnedAway(q)', NEW s, s = req'[q].sid
               PROVE  Barred(s)'
  <2>1. \A q \in Requests : TurnedAway(q)' =>
          \A s : s = req'[q].sid => (Usable(s)' => ProviderOf[UserAt(s)'] \in Rotating)
    BY <1>1 DEF Barred
  <2>2. QED
    BY <2>1 DEF OnlyBarredTurnedAway, Barred, Usable, SessionFound, UserAt, Decrypts
<1>2. req'[q].pc # "idle"
  BY <1>1 DEF TurnedAway
<1>3. secret' = secret /\ configured' = configured
  BY <1>2, SameProcess
<1>4. req[q].sid \in Nat /\ req[q].sid < next.session
  BY SlotFields DEF IInv, TypeOK, Safe, KnownIds
<1>5. ASSUME Barred(s), req'[q].sid = req[q].sid
      PROVE  Barred(s)'
  BY <1>1, <1>3, <1>4, <1>5, BarredStays
<1>6. CASE TurnedAway(q) /\ req'[q].sid = req[q].sid
  BY <1>1, <1>5, <1>6 DEF OnlyBarredTurnedAway
<1>7. CASE req'[q].sid = 0
  <2>1. 0 \notin DOMAIN session'
    BY TypeStep DEF TypeOK, IsTable
  <2>2. QED
    BY <1>1, <1>7, <2>1 DEF Barred, Usable, SessionFound
<1>8. CASE AuthRefused(q) /\ req'[q].sid = req[q].sid
  <2>1. ASSUME Usable(s) PROVE FALSE
    <3>1. s \in DOMAIN session /\ ~ TokenValid(session[s]) /\ session[s].refresh = 0
      BY <1>1, <1>8, <2>1 DEF AuthRefused, Usable, SessionFound
    <3>2. session[s].accessExpires = 0
      BY <3>1 DEF Renewable
    <3>3. QED
      BY <3>1, <3>2 DEF TokenValid
  <2>2. QED
    BY <1>5, <1>8, <2>1 DEF Barred
<1>9. CASE RefreshRefused(q) /\ req'[q].sid = req[q].sid
  <2>1. req[q].pc = "refresh" /\ req[q].rtok \notin honoured
    BY <1>9 DEF RefreshRefused
  <2>2. Refreshing(q) /\ Holding(q) /\ Holder(q) = req[q].acct
    BY <2>1 DEF Refreshing, Holding, Holder
  <2>3. PairOf(issued, account, next.account, req[q].tok, req[q].rtok, req[q].acct)
    BY <2>2 DEF Truth, HoldersTrue
  <2>4. req[q].rtok # 0 /\ req[q].rtok \in DOMAIN issued
    BY <2>2, <2>3 DEF PairOf, Lineage, RefreshersHoldOne
  <2>5. ProviderOf[issued[req[q].rtok].user] \in Rotating
    BY <2>1, <2>2, <2>4 DEF DurableHonoured, Durable
  <2>6. ASSUME Usable(s) PROVE UserAt(s) = issued[req[q].rtok].user
    <3>1. s \in DOMAIN session /\ session[s].account \in DOMAIN account
      BY <2>6 DEF Usable, SessionFound
    <3>2. session[s].account = req[q].acct
      BY <1>1, <1>9, <2>2, <3>1 DEF Truth, OfItsSession
    <3>3. QED
      BY <2>3, <2>4, <3>1, <3>2 DEF PairOf, UserAt
  <2>7. QED
    BY <1>5, <1>9, <2>5, <2>6 DEF Barred
<1>10. QED
  BY <1>1, <1>6, <1>7, <1>8, <1>9, TurnedAwayAfter

-----------------------------------------------------------------------------
(* The invariant holds from the start, and what follows from it *)

\* No request yet, and a row made before the start has its refresh token.
LEMMA InitAdmission ==
  ASSUME Init
  PROVE  Admission /\ OnlyBarredTurnedAway
<1>1. \A r \in Requests : req[r].pc = "idle" /\ req[r].set = 0 /\ req[r].out = "ok"
  BY DEF Init, Idle, NoRequest
<1>2. ServedWhileUp /\ AnswersUnset /\ RefreshersOpen /\ OnlyBarredTurnedAway
  BY <1>1 DEF ServedWhileUp, AnswersUnset, RefreshersOpen, Refreshing,
     OnlyBarredTurnedAway, TurnedAway
<1>3. \A r \in Requests : ~ Refreshing(r) /\ ~ Signing(r)
  BY <1>1 DEF Refreshing, Signing
<1>4. CASE EmptyDatabase
  BY <1>2, <1>3, <1>4 DEF EmptyDatabase, NoRows, Admission, Renewable, DurableHonoured
<1>5. ASSUME NEW b \in Browsers, NEW u \in Users, NEW k \in Keys, OneLogin(b, u, k)
      PROVE  Admission
  <2>1. /\ DOMAIN session = {1} /\ session[1].refresh = RefreshTokenOf(1, u)
        /\ session[1].accessExpires = TokenExpiry(u)
    BY <1>5 DEF OneLogin, Put, NoRows
  <2>2. DOMAIN issued = {1} /\ honoured = IF ProviderOf[u] \in Expiring THEN {1} ELSE {}
    BY <1>5 DEF OneLogin, Put, NoRows
  <2>3. Renewable
    BY <1>3, <2>1 DEF Renewable, RefreshTokenOf, TokenExpiry
  <2>4. DurableHonoured
    BY <1>3, <2>1, <2>2 DEF DurableHonoured, Durable, RefreshTokenOf
  <2>5. QED
    BY <1>2, <2>3, <2>4 DEF Admission
<1>6. QED
  BY <1>2, <1>4, <1>5 DEF Init

\* A step that changes no variable keeps it.
LEMMA StutterAdmission ==
  ASSUME UNCHANGED vars
  PROVE  /\ Admission => Admission'
         /\ OnlyBarredTurnedAway => OnlyBarredTurnedAway'
<1>1. Admission => Admission'
  BY DEF vars, tables, providerVars, serverVars, Admission, ServedWhileUp, AnswersUnset,
     RefreshersOpen, Renewable, DurableHonoured, Durable, Decrypts, Refreshing, Signing
<1>2. OnlyBarredTurnedAway => OnlyBarredTurnedAway'
  BY DEF vars, tables, providerVars, serverVars, OnlyBarredTurnedAway, TurnedAway, Barred,
     Usable, SessionFound, Decrypts, UserAt, AccountsReadable
<1>3. QED
  BY <1>1, <1>2

LEMMA AdmissionStep ==
  ASSUME IInv, Next, Truth, Lineage, Admission
  PROVE  Admission'
BY ServedWhileUpStep, AnswersUnsetStep, RefreshersOpenStep, RenewableStep,
   DurableHonouredStep DEF Admission

\* Requests run under one key, read their rows and can refresh what expires, always.
THEOREM AdmissionInvariance == Spec => []Admission
<1>1. Init => Admission
  BY InitAdmission
<1>2. IInv /\ Truth /\ Lineage /\ Admission /\ [Next]_vars => Admission'
  BY AdmissionStep, StutterAdmission
<1>3. QED
  BY <1>1, <1>2, Invariance, TruthInvariance, LineageInvariance, PTL DEF Spec

\* Where nothing fails, a request that finds a live session and is still sent to
\* the login page is one of a user whose provider rotates refresh tokens: the
\* race of two refreshes of one session is the only way (auth.go:300-361).
THEOREM OnlyRotationTurnsAway ==
  ASSUME ~ Fallible
  PROVE  Spec => []OnlyBarredTurnedAway
<1>1. Init => OnlyBarredTurnedAway
  BY InitAdmission
<1>2. IInv /\ Truth /\ Lineage /\ Admission /\ OnlyBarredTurnedAway /\ [Next]_vars
        => OnlyBarredTurnedAway'
  BY OnlyBarredStep, StutterAdmission
<1>3. QED
  BY <1>1, <1>2, Invariance, TruthInvariance, LineageInvariance, AdmissionInvariance,
     PTL DEF Spec

\* Where nothing fails and no provider rotates refresh tokens, whoever is sent to
\* the login page has no live session (auth.go:88).
THEOREM LiveSessionLetIn ==
  ASSUME ~ Fallible, Rotating = {}
  PROVE  Spec => []LiveSessionNotSentToLogin
<1>1. OnlyBarredTurnedAway => LiveSessionNotSentToLogin
  BY DEF OnlyBarredTurnedAway, TurnedAway, Barred, LiveSessionNotSentToLogin, Live
<1>2. QED
  BY <1>1, OnlyRotationTurnsAway, PTL

-----------------------------------------------------------------------------
(* A login's state has one user, and its session is that user's *)

\* An answer that sends the browser to the provider, and one that sets the cookie
\* of a session.
Asking(r) == req[r].pc = "respond" /\ req[r].out = "consent"
Giving(r) == req[r].pc = "respond" /\ req[r].set # 0

\* Nobody consented yet to a login whose redirect is on its way, and no two logins
\* carry one state.
FreshStates ==
  \A r \in Requests :
    Asking(r) =>
      /\ req[r].st \notin DOMAIN consent
      /\ \A q \in Requests : Asking(q) /\ req[q].st = req[r].st => q = r

\* A callback holds a token of the user who consented to its login.
SigningForConsenter ==
  \A r \in Requests :
    Signing(r) => issued[req[r].tok].user = consent[req[r].st]

\* The session it made is that user's.
GivingToConsenter ==
  \A r \in Requests :
    Giving(r) =>
      /\ req[r].st \in DOMAIN consent
      /\ req[r].set \in DOMAIN session => UserAt(req[r].set) = consent[req[r].st]

Consents == FreshStates /\ SigningForConsenter /\ GivingToConsenter

\* What a user consented to stays; a delivered redirect adds one consent.
LEMMA ConsentStep ==
  ASSUME IInv, Next
  PROVE  \/ consent' = consent
         \/ \E r \in Requests : \E u \in Users :
              Deliver(r) /\ Asking(r) /\ Consent(req[r].st, u)
<1>1. ASSUME NEW r \in Requests,
             \/ Start(r) \/ AuthRefused(r) \/ AuthAccepted(r) \/ AuthStale(r)
             \/ RefreshGranted(r) \/ RefreshRefused(r) \/ RefreshLost(r)
             \/ RefreshProfile(r) \/ RefreshProfileFails(r) \/ SaveTokens(r)
             \/ SaveTokensFails(r) \/ Page(r) \/ Guarded(r)
      PROVE  consent' = consent
  BY <1>1 DEF providerVars, Start, AuthRefused, AuthAccepted, AuthStale, RefreshGranted,
     RefreshRefused, RefreshLost, RefreshProfile, RefreshProfileFails, SaveTokens,
     SaveTokensFails, Page, Guarded
<1>2. ASSUME NEW r \in Requests,
             \/ Logout(r) \/ Delete(r) \/ DeleteFails(r) \/ Login(r) \/ LoginRefused(r)
             \/ Callback(r) \/ CallbackRefused(r) \/ Exchange(r) \/ ExchangeRefused(r)
             \/ Upsert(r) \/ UpsertFails(r) \/ CreateLogin(r) \/ CreateLoginFails(r)
             \/ Vanish(r)
      PROVE  consent' = consent
  BY <1>2 DEF providerVars, Logout, Delete, DeleteFails, Login, LoginRefused, Callback,
     CallbackRefused, Exchange, ExchangeRefused, Upsert, UpsertFails, CreateLogin,
     CreateLoginFails, Vanish
<1>3. ASSUME NEW r \in Requests, Deliver(r)
      PROVE  \/ consent' = consent
             \/ Asking(r) /\ \E u \in Users : Consent(req[r].st, u)
  BY <1>3 DEF Deliver, Asking
<1>4. ASSUME \/ CollectStates \/ CollectSessions \/ Crash \/ BootStates \/ BootSessions
             \/ Clock \/ \E b \in Browsers : ForgetCookie(b)
      PROVE  consent' = consent
  BY <1>4 DEF providerVars, CollectStates, CollectSessions, Crash, BootStates,
     BootSessions, Clock, ForgetCookie
<1>5. QED
  BY <1>1, <1>2, <1>3, <1>4 DEF Next, Authenticate, Handle, TokenEndpoint

\* So a state keeps the user who consented to it.
LEMMA ConsentKept ==
  ASSUME IInv, Next, FreshStates, NEW st \in DOMAIN consent
  PROVE  st \in DOMAIN consent' /\ consent'[st] = consent[st]
<1>1. CASE consent' = consent
  BY <1>1
<1>2. ASSUME NEW r \in Requests, NEW u \in Users, Asking(r), Consent(req[r].st, u)
      PROVE  st \in DOMAIN consent' /\ consent'[st] = consent[st]
  <2>1. req[r].st # st
    BY <1>2 DEF FreshStates
  <2>2. QED
    BY <1>2, <2>1 DEF Consent, Put
<1>3. QED
  BY <1>1, <1>2, ConsentStep

\* How a slot comes to ask for consent, and how it comes to give a session.
LEMMA AnswersAfter ==
  ASSUME IInv, Next, AnswersUnset, NEW q \in Requests, Asking(q)' \/ Giving(q)'
  PROVE  \/ req'[q] = req[q]
         \/ Login(q)
         \/ CreateLogin(q)
<1>0. req \in [Requests -> RequestRecords]
  BY DEF IInv, TypeOK
<1>1. req'[q].pc = "respond" /\ (req'[q].out = "consent" \/ req'[q].set # 0)
  BY DEF Asking, Giving
<1>2. CASE req'[q] = Idle \/ Deliver(q) \/ Vanish(q)
  BY <1>0, <1>1, <1>2 DEF Idle, NoRequest, Deliver, Vanish
<1>3. CASE Start(q)
  BY <1>0, <1>1, <1>3, StartedSlot
<1>4. CASE \/ AuthRefused(q) \/ RefreshRefused(q) \/ RefreshLost(q)
           \/ RefreshProfileFails(q) \/ SaveTokensFails(q)
  <2>1. Anonymous(q)
    BY <1>4 DEF AuthRefused, RefreshRefused, RefreshLost, RefreshProfileFails,
       SaveTokensFails
  <2>2. QED
    BY <1>0, <1>1, <2>1 DEF Anonymous, RequestRecords
<1>5. CASE AuthAccepted(q) \/ AuthStale(q)
  BY <1>1, <1>5, TakenSlot
<1>6. CASE RefreshGranted(q) \/ RefreshProfile(q) \/ SaveTokens(q)
  BY <1>0, <1>1, <1>6 DEF RefreshGranted, RefreshProfile, SaveTokens, RequestRecords
<1>7. CASE Exchange(q) \/ Upsert(q)
  BY <1>1, <1>7, ExchangedSlot, UpsertedSlot
<1>8. ASSUME req[q].pc # "respond", NEW out \in {"ok", "login", "error"},
             Answer(q, out) \/ AnswerClearing(q, out)
      PROVE  FALSE
  <2>1. req[q].set = 0
    BY <1>8 DEF AnswersUnset
  <2>2. CASE Answer(q, out)
    BY <1>0, <1>1, <1>8, <2>1, <2>2 DEF Answer, RequestRecords
  <2>3. CASE AnswerClearing(q, out)
    BY <1>0, <1>1, <1>8, <2>1, <2>3 DEF AnswerClearing, RequestRecords
  <2>4. QED
    BY <1>8, <2>2, <2>3
<1>9. CASE \/ Page(q) \/ Guarded(q) \/ Logout(q) \/ Delete(q) \/ DeleteFails(q)
           \/ LoginRefused(q) \/ CallbackRefused(q) \/ ExchangeRefused(q)
           \/ UpsertFails(q) \/ CreateLoginFails(q)
  <2>1. \E out \in {"ok", "login", "error"} : Answer(q, out) \/ AnswerClearing(q, out)
    BY <1>9 DEF Page, Guarded, Logout, Delete, DeleteFails, LoginRefused,
       CallbackRefused, ExchangeRefused, UpsertFails, CreateLoginFails
  <2>2. req[q].pc # "respond"
    BY <1>9 DEF Page, Guarded, Logout, Delete, DeleteFails, LoginRefused,
       CallbackRefused, ExchangeRefused, UpsertFails, CreateLoginFails, AtHandler
  <2>3. QED
    BY <1>8, <2>1, <2>2
<1>10. CASE Callback(q)
  <2>1. Answer(q, "error") \/ req' = [req EXCEPT ![q].pc = "exchange"]
    BY <1>10 DEF Callback
  <2>2. req[q].pc # "respond"
    BY <1>10 DEF Callback, AtHandler
  <2>3. CASE req' = [req EXCEPT ![q].pc = "exchange"]
    BY <1>0, <1>1, <2>3 DEF RequestRecords
  <2>4. QED
    BY <1>8, <2>1, <2>2, <2>3
<1>11. QED
  BY <1>2, <1>3, <1>4, <1>5, <1>6, <1>7, <1>9, <1>10, SlotChange
  DEF OwnAction, Authenticate, Handle, TokenEndpoint

\* The slot of a login that was just sent to the provider, and of a callback that
\* just made a session.
LEMMA LoggedInSlots ==
  ASSUME IInv, AnswersUnset, NEW q \in Requests
  PROVE  /\ Login(q) => /\ req'[q].st = next.state /\ ~ Giving(q)'
                        /\ consent' = consent /\ next'.state = next.state + 1
         /\ CreateLogin(q) => /\ req'[q].st = req[q].st /\ ~ Asking(q)'
                              /\ req'[q].set = next.session /\ Signing(q) /\ Holding(q)
                              /\ Holder(q) = req[q].new
                              /\ session' = Put(session, next.session, NewSession(q))
                              /\ req[q].new \in DOMAIN account
                              /\ UNCHANGED <<account, consent, issued>>
<1> USE DEF IInv, TypeOK, AnswersUnset
<1>1. ASSUME Login(q)
      PROVE  /\ req'[q].st = next.state /\ ~ Giving(q)'
             /\ consent' = consent /\ next'.state = next.state + 1
  <2>1. /\ req' = [req EXCEPT ![q] = [@ EXCEPT !.pc = "respond", !.out = "consent",
                                               !.st = next.state]]
        /\ next' = [next EXCEPT !.state = @ + 1] /\ consent' = consent
        /\ req[q].pc # "respond"
    BY <1>1 DEF Login, AtHandler, providerVars
  <2>2. req'[q].st = next.state /\ req'[q].set = 0
    BY <2>1 DEF RequestRecords
  <2>3. QED
    BY <2>1, <2>2 DEF Giving
<1>2. ASSUME CreateLogin(q)
      PROVE  /\ req'[q].st = req[q].st /\ ~ Asking(q)'
             /\ req'[q].set = next.session /\ Signing(q) /\ Holding(q)
             /\ Holder(q) = req[q].new
             /\ session' = Put(session, next.session, NewSession(q))
             /\ req[q].new \in DOMAIN account
             /\ UNCHANGED <<account, consent, issued>>
  <2>1. /\ req' = [req EXCEPT ![q] = [@ EXCEPT !.pc = "respond", !.set = next.session]]
        /\ req[q].pc = "create"
        /\ session' = Put(session, next.session, NewSession(q))
        /\ AccountReferenced(NewSession(q))
        /\ UNCHANGED <<account, consent, issued>>
    BY <1>2 DEF CreateLogin, CreateSession, providerVars
  <2>2. /\ req'[q].st = req[q].st /\ req'[q].set = next.session
        /\ req'[q].out = req[q].out /\ req[q].out = "ok"
    BY <2>1 DEF RequestRecords
  <2>3. req[q].new \in DOMAIN account
    BY <2>1 DEF AccountReferenced, NewSession
  <2>4. QED
    BY <2>1, <2>2, <2>3 DEF Asking, Signing, Holding, Holder
<1>3. QED
  BY <1>1, <1>2

\* A login takes a state nobody has; a consent is to the state of its redirect.
LEMMA FreshStatesStep ==
  ASSUME IInv, Next, AnswersUnset, FreshStates
  PROVE  FreshStates'
<1>0. /\ req \in [Requests -> RequestRecords] /\ next.state \in Nat
      /\ DOMAIN consent \subseteq 1 .. (next.state - 1)
  BY DEF IInv, TypeOK, IsTable
<1>1. ASSUME NEW q \in Requests, Asking(q)'
      PROVE  (Asking(q) /\ req'[q] = req[q]) \/ Login(q)
  BY <1>1, AnswersAfter, LoggedInSlots DEF Asking
<1>2. ASSUME NEW q \in Requests, Login(q)
      PROVE  \A p \in Requests \ {q} : req'[p] = req[p]
  BY <1>0, <1>2, OneSlot DEF OwnAction, Handle
<1>3. ASSUME NEW q \in Requests, Asking(q)'
      PROVE  req'[q].st \notin DOMAIN consent'
  <2>1. CASE Login(q)
    BY <1>0, <2>1, LoggedInSlots
  <2>2. CASE Asking(q) /\ req'[q] = req[q]
    <3>1. req[q].st \notin DOMAIN consent
      BY <2>2 DEF FreshStates
    <3>2. ASSUME NEW r \in Requests, NEW u \in Users, Deliver(r), Asking(r),
                 Consent(req[r].st, u)
          PROVE  req[q].st \notin DOMAIN consent'
      <4>1. r # q
        BY <1>0, <1>3, <3>2 DEF Deliver, Asking, Idle, NoRequest
      <4>2. req[r].st # req[q].st
        BY <2>2, <3>2, <4>1 DEF FreshStates
      <4>3. QED
        BY <3>1, <3>2, <4>2 DEF Consent, Put
    <3>3. QED
      BY <2>2, <3>1, <3>2, ConsentStep
  <2>3. QED
    BY <1>1, <1>3, <2>1, <2>2
<1>4. ASSUME NEW p \in Requests, Asking(p) PROVE req[p].st < next.state
  BY <1>0, <1>4 DEF Asking, IInv, Safe, InHand
<1>5. ASSUME NEW q \in Requests, NEW p \in Requests, Asking(q)', Asking(p)',
             req'[p].st = req'[q].st
      PROVE  p = q
  <2>1. CASE ~ Login(p) /\ ~ Login(q)
    BY <1>1, <1>5, <2>1 DEF FreshStates
  <2>2. ASSUME NEW x \in Requests, NEW y \in Requests, Login(x), Asking(y)', x # y
        PROVE  req'[y].st # req'[x].st
    <3>1. req'[y] = req[y] /\ Asking(y)
      BY <1>2, <2>2 DEF Asking
    <3>2. QED
      BY <1>0, <1>4, <2>2, <3>1, LoggedInSlots
  <2>3. QED
    BY <1>5, <2>1, <2>2
<1>6. QED
  BY <1>3, <1>5 DEF FreshStates

\* The token of a callback is issued to the consenting user, and stays his.
LEMMA SigningForConsenterStep ==
  ASSUME IInv, Next, FreshStates, SigningForConsenter
  PROVE  SigningForConsenter'
<1>1. SUFFICES ASSUME NEW q \in Requests, Signing(q)'
               PROVE  issued'[req'[q].tok].user = consent'[req'[q].st]
  BY DEF SigningForConsenter
<1>2. req'[q].pc \in {"upsert", "create"}
  BY <1>1 DEF Signing
<1>3. ASSUME req[q].pc \in {"exchange", "upsert", "create"}
      PROVE  req[q].st \in DOMAIN consent
  BY <1>3 DEF IInv, Safe, InHand
<1>4. CASE Carries(q) \/ Upsert(q)
  <2>1. Signing(q) /\ req'[q].tok = req[q].tok /\ req'[q].st = req[q].st
    BY <1>2, <1>4, UpsertedSlot DEF Carries, Signing
  <2>2. req[q].tok \in DOMAIN issued /\ req[q].st \in DOMAIN consent
    BY <1>3, <2>1 DEF Signing, IInv, Safe, InHand
  <2>3. QED
    BY <2>1, <2>2, TokensGrow, ConsentKept DEF SigningForConsenter
<1>5. CASE Exchange(q)
  <2>1. /\ req[q].pc = "exchange" /\ req'[q].tok = next.token /\ req'[q].st = req[q].st
        /\ Issue(next.token, consent[req[q].st]) /\ consent' = consent
    BY <1>5, ExchangedSlot DEF Exchange, Redeem
  <2>2. QED
    BY <2>1 DEF Issue, Put
<1>6. CASE Freed(q) \/ AuthAccepted(q) \/ AuthStale(q) \/ RefreshGranted(q)
  BY <1>2, <1>6, TakenSlot, GrantedSlot DEF Freed
<1>7. QED
  BY <1>4, <1>5, <1>6, SlotStep DEF SlotEvent

\* The session is made for the account of that user, and keeps it.
LEMMA GivingToConsenterStep ==
  ASSUME IInv, Next, Truth, AnswersUnset, Consents
  PROVE  GivingToConsenter'
<1> USE DEF Consents
<1>1. SUFFICES ASSUME NEW q \in Requests, Giving(q)'
               PROVE  /\ req'[q].st \in DOMAIN consent'
                      /\ req'[q].set \in DOMAIN session' =>
                           account'[session'[req'[q].set].account].user =
                             consent'[req'[q].st]
  BY DEF GivingToConsenter, UserAt
<1>2. CASE Giving(q) /\ req'[q] = req[q]
  <2>1. req[q].st \in DOMAIN consent
    BY <1>2 DEF GivingToConsenter
  <2>2. req[q].st \in DOMAIN consent' /\ consent'[req[q].st] = consent[req[q].st]
    BY <2>1, ConsentKept
  <2>3. ASSUME req[q].set \in DOMAIN session'
        PROVE  account'[session'[req[q].set].account].user = consent[req[q].st]
    <3>1. /\ req[q].set \in DOMAIN session
          /\ session'[req[q].set].account = session[req[q].set].account
      BY <2>3, IdentityStep DEF IInv, Safe, KnownIds
    <3>2. session[req[q].set].account \in DOMAIN account'
      BY <2>3, <3>1, SafeStep DEF Safe, SessionsHaveAccounts
    <3>3. session[req[q].set].account < next.account
      BY <3>1 DEF IInv, Safe, SessionsHaveAccounts, TypeOK, IsTable
    <3>4. account'[session[req[q].set].account].user =
            account[session[req[q].set].account].user
      BY <3>2, <3>3, GrowStep DEF Grows
    <3>5. QED
      BY <1>2, <3>1, <3>4 DEF GivingToConsenter, UserAt
  <2>4. QED
    BY <1>2, <2>2, <2>3
<1>3. CASE CreateLogin(q)
  <2>1. /\ req'[q].st = req[q].st /\ req'[q].set = next.session
        /\ Signing(q) /\ Holding(q) /\ Holder(q) = req[q].new
        /\ session' = Put(session, next.session, NewSession(q))
        /\ req[q].new \in DOMAIN account /\ UNCHANGED <<account, consent, issued>>
    BY <1>3, LoggedInSlots
  <2>2. req[q].st \in DOMAIN consent
    BY <2>1 DEF Signing, IInv, Safe, InHand
  <2>3. issued[req[q].tok].user = account[req[q].new].user
    BY <2>1 DEF Truth, HoldersTrue, PairOf
  <2>4. issued[req[q].tok].user = consent[req[q].st]
    BY <2>1 DEF SigningForConsenter
  <2>5. session'[next.session].account = req[q].new
    BY <2>1 DEF Put, NewSession
  <2>6. QED
    BY <2>1, <2>2, <2>3, <2>4, <2>5
<1>4. QED
  BY <1>1, <1>2, <1>3, AnswersAfter, LoggedInSlots DEF Giving

\* No request at the start; a step that changes no variable keeps it.
LEMMA InitConsents ==
  ASSUME Init
  PROVE  Consents
<1>1. \A r \in Requests : req[r].pc = "idle"
  BY DEF Init, Idle, NoRequest
<1>2. QED
  BY <1>1 DEF Consents, FreshStates, SigningForConsenter, GivingToConsenter, Asking,
     Signing, Giving

LEMMA StutterConsents ==
  ASSUME Consents, UNCHANGED vars
  PROVE  Consents'
BY DEF vars, tables, providerVars, Consents, FreshStates, SigningForConsenter,
       GivingToConsenter, Asking, Signing, Giving, UserAt

\* The three hold in every behaviour.
LEMMA ConsentsInvariance == Spec => []Consents
<1>1. Init => Consents
  BY InitConsents
<1>2. IInv /\ Truth /\ Admission /\ Consents /\ [Next]_vars => Consents'
  BY FreshStatesStep, SigningForConsenterStep, GivingToConsenterStep, StutterConsents
  DEF Consents, Admission
<1>3. QED
  BY <1>1, <1>2, Invariance, TruthInvariance, AdmissionInvariance, PTL DEF Spec

\* The session a callback hands out belongs to the user who consented to that
\* login, whatever happens between the callback's statements (auth.go:209-262).
THEOREM ConsenterGetsSession == Spec => []SessionOfConsenter
<1>1. IInv /\ Consents => SessionOfConsenter
  <2> SUFFICES ASSUME IInv, Consents, NEW r \in Requests, req[r].pc = "respond",
                      req[r].set \in DOMAIN session
               PROVE  UserAt(req[r].set) = consent[req[r].st]
    BY DEF SessionOfConsenter
  <2>1. req[r].set # 0
    BY DEF IInv, TypeOK, IsTable
  <2>2. QED
    BY <2>1 DEF Consents, GivingToConsenter, Giving
<1>2. QED
  BY <1>1, Invariance, ConsentsInvariance, PTL

-----------------------------------------------------------------------------
(* A redeemed login and its account *)

\* No request deletes an account.
NoDeletes == \A r \in Requests : req[r].kind # "delete"

\* A slot keeps its kind until another request takes it.
LEMMA KindStep ==
  ASSUME IInv, Next, NEW q \in Requests
  PROVE  \/ req'[q].kind = req[q].kind
         \/ req'[q].kind \in Kinds \cup {"page"}
<1>0. req \in [Requests -> RequestRecords]
  BY DEF IInv, TypeOK
<1>1. CASE req'[q] = Idle \/ Deliver(q) \/ Vanish(q)
  BY <1>0, <1>1 DEF Idle, NoRequest, Deliver, Vanish
<1>2. CASE Start(q)
  BY <1>0, <1>2 DEF Start, NoRequest
<1>3. CASE \/ AuthRefused(q) \/ RefreshRefused(q) \/ RefreshLost(q)
           \/ RefreshProfileFails(q) \/ SaveTokensFails(q)
  <2>1. Anonymous(q)
    BY <1>3 DEF AuthRefused, RefreshRefused, RefreshLost, RefreshProfileFails,
       SaveTokensFails
  <2>2. QED
    BY <1>0, <2>1 DEF Anonymous, RequestRecords
<1>4. CASE AuthAccepted(q) \/ AuthStale(q)
  <2>1. \E pc \in {"handler", "refresh"} : Accept(q, pc)
    BY <1>4 DEF AuthAccepted, AuthStale
  <2>2. QED
    BY <1>0, <2>1 DEF Accept, RequestRecords
<1>5. CASE RefreshGranted(q) \/ RefreshProfile(q) \/ SaveTokens(q)
  <2>1. CASE RefreshGranted(q)
    BY <1>0, <2>1 DEF RefreshGranted, RequestRecords
  <2>2. CASE RefreshProfile(q)
    BY <1>0, <2>2 DEF RefreshProfile, RequestRecords
  <2>3. CASE SaveTokens(q)
    BY <1>0, <2>3 DEF SaveTokens, RequestRecords
  <2>4. QED
    BY <1>5, <2>1, <2>2, <2>3
<1>6. CASE Login(q) \/ Exchange(q) \/ Upsert(q) \/ CreateLogin(q)
  <2>1. CASE Login(q)
    BY <1>0, <2>1 DEF Login, RequestRecords
  <2>2. CASE Exchange(q)
    BY <1>0, <2>2 DEF Exchange, RequestRecords
  <2>3. CASE Upsert(q)
    BY <1>0, <2>3 DEF Upsert, RequestRecords
  <2>4. CASE CreateLogin(q)
    BY <1>0, <2>4 DEF CreateLogin, RequestRecords
  <2>5. QED
    BY <1>6, <2>1, <2>2, <2>3, <2>4
<1>7. ASSUME NEW out \in {"ok", "login", "error"}, Answer(q, out) \/ AnswerClearing(q, out)
      PROVE  req'[q].kind = req[q].kind
  <2>1. CASE Answer(q, out)
    BY <1>0, <2>1 DEF Answer, RequestRecords
  <2>2. CASE AnswerClearing(q, out)
    BY <1>0, <2>2 DEF AnswerClearing, RequestRecords
  <2>3. QED
    BY <1>7, <2>1, <2>2
<1>8. CASE \/ Page(q) \/ Guarded(q) \/ Logout(q) \/ Delete(q) \/ DeleteFails(q)
           \/ LoginRefused(q) \/ CallbackRefused(q) \/ ExchangeRefused(q)
           \/ UpsertFails(q) \/ CreateLoginFails(q)
  <2>1. \E out \in {"ok", "login", "error"} : Answer(q, out) \/ AnswerClearing(q, out)
    BY <1>8 DEF Page, Guarded, Logout, Delete, DeleteFails, LoginRefused,
       CallbackRefused, ExchangeRefused, UpsertFails, CreateLoginFails
  <2>2. QED
    BY <1>7, <2>1
<1>9. CASE Callback(q)
  <2>1. Answer(q, "error") \/ req' = [req EXCEPT ![q].pc = "exchange"]
    BY <1>9 DEF Callback
  <2>2. CASE req' = [req EXCEPT ![q].pc = "exchange"]
    BY <1>0, <2>2 DEF RequestRecords
  <2>3. QED
    BY <1>7, <2>1, <2>2
<1>10. QED
  BY <1>1, <1>2, <1>3, <1>4, <1>5, <1>6, <1>8, <1>9, SlotChange
  DEF OwnAction, Authenticate, Handle, TokenEndpoint

\* Then a user who has an account keeps one.
LEMMA AccountsStay ==
  ASSUME IInv, Next, NoDeletes, NEW u, AccountsOf(u) # {}
  PROVE  AccountsOf(u)' # {}
<1> USE DEF AccountsOf
<1>1. StoreEvent
  BY Events
<1>2. CASE StoreKept \/ TokensSaved \/ LoggedOut \/ SessionCreated \/ SessionsExpired
  BY <1>2 DEF StoreKept, TokensSaved, LoggedOut, SessionCreated, SessionsExpired
<1>3. CASE AccountDeleted
  BY <1>3 DEF AccountDeleted, AtHandler, NoDeletes
<1>4. CASE AccountUpserted
  <2>1. PICK v \in Users : UpsertAccount(v, next.account)
    BY <1>4 DEF AccountUpserted
  <2> DEFINE id == UpsertedId(v, next.account)
  <2>2. id \in DOMAIN account => account[id].user = v
    <3>1. AccountsOf(v) = {} => id \notin DOMAIN account
      BY DEF UpsertedId, IInv, TypeOK, IsTable
    <3>2. AccountsOf(v) # {} => id \in AccountsOf(v)
      BY DEF UpsertedId
    <3>3. QED
      BY <3>1, <3>2
  <2>3. account' = Put(account, id, [user |-> v])
    BY <2>1 DEF UpsertAccount
  <2> HIDE DEF id
  <2>4. QED
    BY <2>2, <2>3 DEF Put
<1>5. QED
  BY <1>1, <1>2, <1>3, <1>4 DEF StoreEvent

\* Where nothing fails, a code is presented by an exchange that succeeds.
LEMMA RedeemedStep ==
  ASSUME Next, ~ Fallible
  PROVE  \/ redeemed' = redeemed
         \/ \E r \in Requests : Exchange(r) /\ redeemed' = redeemed \cup {req[r].st}
<1>1. ASSUME NEW r \in Requests,
             \/ Start(r) \/ AuthRefused(r) \/ AuthAccepted(r) \/ AuthStale(r)
             \/ RefreshGranted(r) \/ RefreshRefused(r) \/ RefreshLost(r)
             \/ RefreshProfile(r) \/ RefreshProfileFails(r) \/ SaveTokens(r)
             \/ SaveTokensFails(r) \/ Page(r) \/ Guarded(r)
      PROVE  redeemed' = redeemed
  BY <1>1 DEF providerVars, Start, AuthRefused, AuthAccepted, AuthStale, RefreshGranted,
     RefreshRefused, RefreshLost, RefreshProfile, RefreshProfileFails, SaveTokens,
     SaveTokensFails, Page, Guarded
<1>2. ASSUME NEW r \in Requests,
             \/ Logout(r) \/ Delete(r) \/ DeleteFails(r) \/ Login(r) \/ LoginRefused(r)
             \/ Callback(r) \/ CallbackRefused(r) \/ ExchangeRefused(r)
             \/ Upsert(r) \/ UpsertFails(r) \/ CreateLogin(r) \/ CreateLoginFails(r)
             \/ Deliver(r) \/ Vanish(r)
      PROVE  redeemed' = redeemed
  BY <1>2 DEF providerVars, Logout, Delete, DeleteFails, Login, LoginRefused, Callback,
     CallbackRefused, ExchangeRefused, Upsert, UpsertFails, CreateLogin,
     CreateLoginFails, Deliver, Vanish
<1>3. ASSUME NEW r \in Requests, Exchange(r)
      PROVE  redeemed' = redeemed \cup {req[r].st}
  BY <1>3 DEF Exchange, Redeem
<1>4. ASSUME \/ CollectStates \/ CollectSessions \/ Crash \/ BootStates \/ BootSessions
             \/ Clock \/ \E b \in Browsers : ForgetCookie(b)
      PROVE  redeemed' = redeemed
  BY <1>4 DEF providerVars, CollectStates, CollectSessions, Crash, BootStates,
     BootSessions, Clock, ForgetCookie
<1>5. QED
  BY <1>1, <1>2, <1>3, <1>4 DEF Next, Authenticate, Handle, TokenEndpoint

\* A redeemed login waits for its account until the account is there: nothing
\* else takes the slot on a database whose accounts can be written.
LEMMA RedeemedWaits ==
  ASSUME IInv, Next, AccountsReadable, ~ Fallible, MaxRestarts = 0, Consents,
         NEW r \in Requests, req[r].pc = "upsert"
  PROVE  \/ req'[r] = req[r]
         \/ \E a \in DOMAIN account' : account'[a].user = consent'[req[r].st]
<1>1. ~ Crash
  BY DEF Crash, IInv, TypeOK
<1>2. ASSUME OwnAction(r) PROVE Upsert(r)
  BY <1>2 DEF OwnAction, Authenticate, Handle, TokenEndpoint, Start, AuthRefused,
     AuthAccepted, AuthStale, RefreshGranted, RefreshRefused, RefreshLost,
     RefreshProfile, RefreshProfileFails, SaveTokens, SaveTokensFails, Page, Guarded,
     Logout, Delete, DeleteFails, Login, LoginRefused, Callback, CallbackRefused,
     Exchange, ExchangeRefused, UpsertFails, CreateLogin, CreateLoginFails,
     Deliver, Vanish, AtHandler
<1>3. ASSUME Upsert(r)
      PROVE  \E a \in DOMAIN account' : account'[a].user = consent'[req[r].st]
  <2>1. /\ req'[r].new \in DOMAIN account'
        /\ account'[req'[r].new].user = issued[req[r].tok].user
    BY <1>3, UpsertedSlot
  <2>2. issued[req[r].tok].user = consent[req[r].st]
    BY DEF Consents, SigningForConsenter, Signing
  <2>3. consent' = consent
    BY <1>3 DEF Upsert, providerVars
  <2>4. QED
    BY <2>1, <2>2, <2>3
<1>4. QED
  BY <1>1, <1>2, <1>3, SlotChange

\* A login that was redeemed keeps its slot or its account.
LEMMA RedeemedStays ==
  ASSUME IInv, Next, AccountsReadable, ~ Fallible, MaxRestarts = 0, Consents, NoDeletes,
         RedeemedLoginHasAccount
  PROVE  RedeemedLoginHasAccount'
<1>1. SUFFICES ASSUME NEW st \in redeemed'
               PROVE  \/ \E r \in Requests : req'[r].pc = "upsert" /\ req'[r].st = st
                      \/ \E a \in DOMAIN account' : account'[a].user = consent'[st]
  BY DEF RedeemedLoginHasAccount, AccountsOf
<1>2. CASE st \in redeemed
  <2>1. st \in DOMAIN consent /\ consent'[st] = consent[st]
    BY <1>2, ConsentKept DEF Consents, IInv, TypeOK
  <2>2. CASE \E r \in Requests : req[r].pc = "upsert" /\ req[r].st = st
    BY <2>2, RedeemedWaits
  <2>3. ASSUME NEW u, u = consent[st], AccountsOf(u) # {}
        PROVE  \E a \in DOMAIN account' : account'[a].user = consent'[st]
    BY <2>1, <2>3, AccountsStay DEF AccountsOf
  <2>4. QED
    BY <1>2, <2>2, <2>3 DEF RedeemedLoginHasAccount
<1>3. CASE st \notin redeemed
  <2>1. PICK r \in Requests : Exchange(r) /\ st = req[r].st
    BY <1>1, <1>3, RedeemedStep
  <2>2. QED
    BY <2>1, ExchangedSlot
<1>4. QED
  BY <1>2, <1>3

\* On the schema as sql/schema.sql:10-15 declares it, a login whose code was redeemed
\* leaves the account of its user, unless a statement fails, the process dies or
\* somebody deletes accounts: that the embedded migrations lack the column is the
\* only thing that loses it (auth.go:209-250).
THEOREM CompleteSchemaKeepsLogins ==
  ASSUME AccountsReadable, ~ Fallible, MaxRestarts = 0, "delete" \notin Kinds
  PROVE  Spec => []RedeemedLoginHasAccount
<1> DEFINE I == NoDeletes /\ RedeemedLoginHasAccount
<1>1. Init => I
  BY DEF Init, Idle, NoRequest, NoDeletes, RedeemedLoginHasAccount
<1>2. ASSUME IInv, Next, NoDeletes PROVE NoDeletes'
  BY <1>2, KindStep DEF NoDeletes
<1>3. IInv /\ Consents /\ I /\ [Next]_vars => I'
  <2>1. CASE UNCHANGED vars
    BY <2>1 DEF vars, tables, providerVars, NoDeletes, RedeemedLoginHasAccount,
       AccountsOf
  <2>2. QED
    BY <1>2, <2>1, RedeemedStays
<1>4. QED
  BY <1>1, <1>3, Invariance, ConsentsInvariance, PTL DEF Spec
=============================================================================
