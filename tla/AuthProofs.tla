----------------------------- MODULE AuthProofs -----------------------------
(***************************************************************************)
(* Theorems about Auth, for every value of its constants: the type         *)
(* invariant, four safety invariants through one inductive invariant, and  *)
(* what no step may do to a session.                                       *)
(***************************************************************************)
EXTENDS Auth, TLAPS

-----------------------------------------------------------------------------
(* Lemmas about tables and request records *)

\* Storing a row under a key handed out keeps a table typed.
LEMMA PutTyped ==
  ASSUME NEW t, NEW rows, NEW n \in Nat \ {0}, NEW m \in Nat \ {0}, n <= m,
         IsTable(t, n, rows), NEW k \in 1 .. (m - 1), NEW row \in rows
  PROVE  IsTable(Put(t, k, row), m, rows)
BY DEF IsTable, Put

\* Deleting rows keeps a table typed.
LEMMA DropTyped ==
  ASSUME NEW t, NEW rows, NEW n \in Nat \ {0}, IsTable(t, n, rows), NEW K
  PROVE  IsTable(Drop(t, K), n, rows)
BY DEF IsTable, Drop

\* Handing out keys keeps a table typed.
LEMMA WiderTyped ==
  ASSUME NEW t, NEW rows, NEW n \in Nat \ {0}, NEW m \in Nat \ {0}, n <= m,
         IsTable(t, n, rows)
  PROVE  IsTable(t, m, rows)
BY DEF IsTable

\* An empty slot is a request record.
LEMMA IdleTyped == Idle \in RequestRecords
<1>1. AnyProvider \in Providers
  BY AuthAssumption, ProviderAssumption DEF AnyProvider
<1>2. QED BY <1>1, AuthAssumption DEF Idle, NoRequest, RequestRecords, PCs, AllKinds

\* A slot rewritten with a request record keeps req typed.
LEMMA SlotTyped ==
  ASSUME req \in [Requests -> RequestRecords], NEW r \in Requests,
         NEW rec \in RequestRecords, req' = [req EXCEPT ![r] = rec]
  PROVE  req' \in [Requests -> RequestRecords]
OBVIOUS

\* The middleware giving up on a request.
LEMMA AnonymousTyped ==
  ASSUME req \in [Requests -> RequestRecords], NEW r \in Requests, Anonymous(r)
  PROVE  req' \in [Requests -> RequestRecords]
<1>1. ASSUME NEW rec \in RequestRecords
      PROVE  [rec EXCEPT !.pc = "handler", !.clear = TRUE, !.acct = 0, !.tok = 0,
                         !.rtok = 0] \in RequestRecords
  BY DEF RequestRecords, PCs
<1>2. [req[r] EXCEPT !.pc = "handler", !.clear = TRUE, !.acct = 0, !.tok = 0,
                     !.rtok = 0] \in RequestRecords
  BY <1>1
<1>3. QED BY <1>2, SlotTyped DEF Anonymous

\* The middleware taking a row's account and tokens into the request.
LEMMA AcceptTyped ==
  ASSUME req \in [Requests -> RequestRecords], NEW r \in Requests,
         session \in [DOMAIN session -> SessionRows], req[r].sid \in DOMAIN session,
         NEW pc \in PCs, Accept(r, pc)
  PROVE  req' \in [Requests -> RequestRecords]
<1> DEFINE row == session[req[r].sid]
<1>1. row.account \in Nat /\ row.access \in Nat /\ row.refresh \in Nat
  BY DEF SessionRows
<1>2. ASSUME NEW rec \in RequestRecords, NEW a \in Nat, NEW t \in Nat, NEW u \in Nat
      PROVE  [rec EXCEPT !.pc = pc, !.acct = a, !.tok = t, !.rtok = u] \in RequestRecords
  BY DEF RequestRecords
<1>3. [req[r] EXCEPT !.pc = pc, !.acct = row.account, !.tok = row.access,
                     !.rtok = row.refresh] \in RequestRecords
  BY <1>1, <1>2
<1>4. QED BY <1>3, SlotTyped DEF Accept

\* A handler answering.
LEMMA AnswerTyped ==
  ASSUME req \in [Requests -> RequestRecords], NEW r \in Requests,
         NEW out \in {"ok", "login", "error", "consent"},
         Answer(r, out) \/ AnswerClearing(r, out)
  PROVE  req' \in [Requests -> RequestRecords]
<1>1. ASSUME NEW rec \in RequestRecords
      PROVE  [rec EXCEPT !.pc = "respond", !.out = out] \in RequestRecords
  BY DEF RequestRecords, PCs
<1>2. ASSUME NEW rec \in RequestRecords
      PROVE  [rec EXCEPT !.pc = "respond", !.out = out, !.clear = TRUE] \in RequestRecords
  BY DEF RequestRecords, PCs
<1>3. req[r] \in RequestRecords
  OBVIOUS
<1>4. QED BY <1>1, <1>2, <1>3, SlotTyped DEF Answer, AnswerClearing

\* A request taking a token pair in hand.
LEMMA PairTyped ==
  ASSUME NEW rec \in RequestRecords, NEW pc \in PCs, NEW t \in Nat, NEW u \in Nat
  PROVE  [rec EXCEPT !.pc = pc, !.tok = t, !.rtok = u] \in RequestRecords
BY DEF RequestRecords

\* The numbers a slot holds.
LEMMA SlotFields ==
  ASSUME req \in [Requests -> RequestRecords], NEW r \in Requests
  PROVE  /\ req[r].sid \in Nat /\ req[r].st \in Nat /\ req[r].acct \in Nat
         /\ req[r].tok \in Nat /\ req[r].rtok \in Nat /\ req[r].new \in Nat
         /\ req[r].set \in Nat /\ req[r].prov \in Providers /\ req[r].browser \in Browsers
BY DEF RequestRecords

\* The slot of a request that begins.
LEMMA StartTyped ==
  ASSUME NEW p \in Providers, NEW pc \in PCs, NEW kind \in AllKinds, NEW b \in Browsers,
         NEW s \in Nat, NEW st \in Nat, NEW late \in BOOLEAN
  PROVE  [NoRequest(p) EXCEPT !.pc = pc, !.kind = kind, !.browser = b, !.sid = s,
                              !.st = st, !.late = late] \in RequestRecords
<1>1. NoRequest(p) \in RequestRecords
  BY AuthAssumption DEF NoRequest, RequestRecords, PCs, AllKinds
<1>2. ASSUME NEW rec \in RequestRecords
      PROVE  [rec EXCEPT !.pc = pc, !.kind = kind, !.browser = b, !.sid = s,
                         !.st = st, !.late = late] \in RequestRecords
  BY DEF RequestRecords
<1>3. QED BY <1>1, <1>2

\* A login, an upsert and a new session, as the slot records them.
LEMMA OutcomeTyped ==
  ASSUME NEW rec \in RequestRecords, NEW n \in Nat
  PROVE  /\ [rec EXCEPT !.pc = "respond", !.out = "consent", !.st = n] \in RequestRecords
         /\ [rec EXCEPT !.pc = "create", !.new = n] \in RequestRecords
         /\ [rec EXCEPT !.pc = "respond", !.set = n] \in RequestRecords
BY DEF RequestRecords, PCs

\* A new token keeps the table of issued tokens typed.
LEMMA IssueTyped ==
  ASSUME now \in Nat, next.token \in Nat \ {0},
         IsTable(issued, next.token, [user : Users, expires : Nat]),
         NEW u \in Users, Issue(next.token, u)
  PROVE  /\ IsTable(issued', next.token + 1, [user : Users, expires : Nat])
         /\ DOMAIN issued' = DOMAIN issued \cup {next.token}
<1> DEFINE row == [user |-> u, expires |-> TokenExpiry(u)]
<1>1. row \in [user : Users, expires : Nat]
  BY ProviderAssumption DEF TokenExpiry
<1>2. IsTable(Put(issued, next.token, row), next.token + 1, [user : Users, expires : Nat])
  <2> DEFINE rows == [user : Users, expires : Nat]
             n == next.token
  <2>1. n \in Nat \ {0} /\ n + 1 \in Nat \ {0} /\ n <= n + 1 /\ n \in 1 .. (n + 1 - 1)
    OBVIOUS
  <2> HIDE DEF rows, row, n
  <2>2. row \in rows /\ IsTable(issued, n, rows)
    BY <1>1 DEF rows, n
  <2>3. IsTable(Put(issued, n, row), n + 1, rows)
    BY <2>1, <2>2, PutTyped
  <2>4. QED BY <2>3 DEF rows, n
<1>3. DOMAIN Put(issued, next.token, row) = DOMAIN issued \cup {next.token}
  BY DEF Put
<1>4. QED BY <1>2, <1>3 DEF Issue

\* A refresh keeps the provider's tables typed.
LEMMA RefreshTyped ==
  ASSUME now \in Nat, next.token \in Nat \ {0}, honoured \subseteq DOMAIN issued,
         IsTable(issued, next.token, [user : Users, expires : Nat]),
         NEW old \in honoured, Refresh(old, next.token)
  PROVE  /\ IsTable(issued', next.token + 1, [user : Users, expires : Nat])
         /\ honoured' \subseteq DOMAIN issued'
<1>1. issued[old].user \in Users
  BY DEF IsTable
<1>2. Issue(next.token, issued[old].user)
  BY DEF Refresh
<1>3. QED BY <1>1, <1>2, IssueTyped DEF Refresh

\* So does the redemption of a code.
LEMMA RedeemTyped ==
  ASSUME now \in Nat, next.token \in Nat \ {0}, honoured \subseteq DOMAIN issued,
         IsTable(issued, next.token, [user : Users, expires : Nat]),
         redeemed \subseteq DOMAIN consent, NEW st \in DOMAIN consent,
         consent[st] \in Users, Redeem(st, next.token)
  PROVE  /\ IsTable(issued', next.token + 1, [user : Users, expires : Nat])
         /\ honoured' \subseteq DOMAIN issued'
         /\ redeemed' \subseteq DOMAIN consent
<1>1. Issue(next.token, consent[st])
  BY DEF Redeem
<1>2. QED BY <1>1, IssueTyped DEF Redeem

\* The row a request writes has the columns' types.
LEMMA TokenRowTyped ==
  ASSUME TypeOK, NEW r \in Requests, req[r].tok \in DOMAIN issued
  PROVE  TokenRow(r) \in [key : Keys, access : Nat, refresh : Nat, accessExpires : Nat]
BY SlotFields DEF TypeOK, IsTable, TokenRow

\* UpdateSession keeps the table of sessions typed.
LEMMA UpdateTyped ==
  ASSUME NEW n \in Nat \ {0}, IsTable(session, n, SessionRows), NEW s,
         NEW row \in [key : Keys, access : Nat, refresh : Nat, accessExpires : Nat],
         UpdateSession(s, row)
  PROVE  IsTable(session', n, SessionRows)
<1>1. CASE s \notin DOMAIN session
  BY <1>1 DEF UpdateSession
<1>2. CASE s \in DOMAIN session
  <2> DEFINE new == [session[s] EXCEPT !.key = row.key, !.access = row.access,
                                       !.refresh = row.refresh,
                                       !.accessExpires = row.accessExpires]
  <2>1. session[s] \in SessionRows
    BY <1>2 DEF IsTable
  <2>2. new \in SessionRows
    BY <2>1 DEF SessionRows
  <2>3. session' = [session EXCEPT ![s] = new]
    BY <1>2 DEF UpdateSession
  <2> HIDE DEF new
  <2>4. QED BY <1>2, <2>2, <2>3 DEF IsTable
<1>3. QED BY <1>1, <1>2

\* CreateSession keeps the table of sessions typed.
LEMMA CreateTyped ==
  ASSUME TypeOK, NEW r \in Requests, req[r].tok \in DOMAIN issued,
         CreateSession(next.session, NewSession(r))
  PROVE  IsTable(session', next.session + 1, SessionRows)
<1>1. NewSession(r) \in SessionRows
  BY SlotFields, AuthAssumption DEF TypeOK, IsTable, NewSession, SessionRows
<1>2. QED BY <1>1, PutTyped DEF TypeOK, CreateSession

\* UpsertAccount keeps the table of accounts typed, and returns an account.
LEMMA UpsertTyped ==
  ASSUME TypeOK, NEW u \in Users, UpsertAccount(u, next.account), TakeAccountId(u)
  PROVE  /\ IsTable(account', next'.account, [user : Users])
         /\ next' \in [state : Nat \ {0}, account : Nat \ {0}, session : Nat \ {0},
                       token : Nat \ {0}]
         /\ next'.state = next.state /\ next'.session = next.session
         /\ next'.token = next.token
         /\ UpsertedId(u, next.account) \in DOMAIN account'
         /\ UpsertedId(u, next.account) \in Nat
<1> DEFINE id == UpsertedId(u, next.account)
<1>1. CASE AccountsOf(u) = {}
  <2>1. id = next.account
    BY <1>1 DEF UpsertedId
  <2>2. next' = [next EXCEPT !.account = @ + 1]
    BY <1>1 DEF TakeAccountId
  <2>3. IsTable(Put(account, id, [user |-> u]), next.account + 1, [user : Users])
    BY <2>1 DEF TypeOK, IsTable, Put
  <2>4. QED BY <2>1, <2>2, <2>3 DEF TypeOK, UpsertAccount, Put
<1>2. CASE AccountsOf(u) # {}
  <2>1. id \in AccountsOf(u)
    BY <1>2 DEF UpsertedId
  <2>2. id \in DOMAIN account /\ id \in 1 .. (next.account - 1)
    BY <2>1 DEF AccountsOf, TypeOK, IsTable
  <2>3. next' = next
    BY <1>2 DEF TakeAccountId
  <2>4. IsTable(Put(account, id, [user |-> u]), next.account, [user : Users])
    BY <2>2 DEF TypeOK, IsTable, Put
  <2>5. QED BY <2>2, <2>3, <2>4 DEF TypeOK, UpsertAccount, Put
<1>3. QED BY <1>1, <1>2

-----------------------------------------------------------------------------
(* The inductive invariant *)

\* What a request holds was issued, consented to or created before.
InHand ==
  \A r \in Requests :
    /\ req[r].pc \in {"getuser", "updsess", "upsert", "create"} =>
         req[r].tok \in DOMAIN issued
    /\ req[r].pc # "idle" /\ req[r].kind = "callback" => req[r].st \in DOMAIN consent
    /\ req[r].pc \in {"exchange", "upsert", "create"} => req[r].kind = "callback"
    /\ req[r].pc = "respond" /\ req[r].out = "consent" =>
         req[r].st \in 1 .. (next.state - 1)

\* A state still in the table was neither redeemed nor taken by a request.
StatesUnused ==
  \A st \in DOMAIN oauth2_state :
    /\ st \notin redeemed
    /\ \A r \in Requests : req[r].pc = "exchange" => req[r].st # st

\* Cookies name sessions that were created.
KnownIds ==
  /\ \A b \in Browsers : jar[b] < next.session
  /\ \A r \in Requests : req[r].sid < next.session /\ req[r].set < next.session

\* A request that began after its session ended stays anonymous and its
\* session stays away.
LateStaysOut ==
  \A r \in Requests :
    req[r].late => req[r].acct = 0 /\ req[r].sid \notin DOMAIN session

Safe == /\ InHand /\ SessionsHaveAccounts /\ StatesUnused /\ LoginRedeemedOnce
        /\ KnownIds /\ LateStaysOut

IInv == TypeOK /\ Safe

-----------------------------------------------------------------------------
(* TypeOK is preserved, one step per action *)

\* Every step keeps the type invariant.
LEMMA TypeStep ==
  ASSUME IInv, Next
  PROVE  TypeOK'
<1> USE AuthAssumption, ProviderAssumption, BasicsAssumption
    DEF IInv, TypeOK, tables, providerVars, serverVars
<1>1. ASSUME NEW r \in Requests, Start(r) PROVE TypeOK'
  <2>1. PICK kind \in Kinds, b \in Browsers, p \in Providers,
             st \in DOMAIN consent \cup {0} :
          req' = [req EXCEPT ![r] =
            [NoRequest(p) EXCEPT
               !.pc = IF jar[b] = 0 THEN "handler" ELSE "auth",
               !.kind = kind, !.browser = b, !.sid = jar[b], !.st = st,
               !.late = jar[b] # 0 /\ jar[b] \notin DOMAIN session]]
    BY <1>1 DEF Start
  <2> DEFINE pc == IF jar[b] = 0 THEN "handler" ELSE "auth"
             late == jar[b] # 0 /\ jar[b] \notin DOMAIN session
  <2>2. /\ pc \in PCs /\ late \in BOOLEAN /\ kind \in AllKinds
        /\ jar[b] \in Nat /\ st \in Nat
    BY DEF PCs, IsTable
  <2>3. [NoRequest(p) EXCEPT !.pc = pc, !.kind = kind, !.browser = b, !.sid = jar[b],
                             !.st = st, !.late = late] \in RequestRecords
    BY <2>2, StartTyped
  <2>4. req' \in [Requests -> RequestRecords]
    BY <2>1, <2>3, SlotTyped
  <2>5. QED
    BY <1>1, <2>4 DEF Start
<1>2. ASSUME NEW r \in Requests, AuthRefused(r) PROVE TypeOK'
  <2>1. req' \in [Requests -> RequestRecords]
    BY <1>2, AnonymousTyped DEF AuthRefused
  <2>2. QED
    BY <1>2, <2>1 DEF AuthRefused
<1>3. ASSUME NEW r \in Requests, AuthAccepted(r) PROVE TypeOK'
  <2>1. req' \in [Requests -> RequestRecords]
    BY <1>3, AcceptTyped DEF AuthAccepted, Usable, SessionFound, PCs, IsTable
  <2>2. QED
    BY <1>3, <2>1 DEF AuthAccepted
<1>4. ASSUME NEW r \in Requests, AuthStale(r) PROVE TypeOK'
  <2>1. req' \in [Requests -> RequestRecords]
    BY <1>4, AcceptTyped DEF AuthStale, Usable, SessionFound, PCs, IsTable
  <2>2. QED
    BY <1>4, <2>1 DEF AuthStale
<1>5. ASSUME NEW r \in Requests, RefreshGranted(r) PROVE TypeOK'
  <2> DEFINE u == Successor(req[r].rtok, next.token)
  <2>1. u \in Nat
    BY SlotFields DEF Successor
  <2>2. [req[r] EXCEPT !.pc = "getuser", !.tok = next.token, !.rtok = u] \in RequestRecords
    BY <2>1, PairTyped DEF PCs
  <2>3. req' \in [Requests -> RequestRecords]
    BY <1>5, <2>2, SlotTyped DEF RefreshGranted
  <2>4. /\ IsTable(issued', next.token + 1, [user : Users, expires : Nat])
        /\ honoured' \subseteq DOMAIN issued'
    BY <1>5, RefreshTyped DEF RefreshGranted
  <2>5. QED
    BY <1>5, <2>3, <2>4 DEF RefreshGranted
<1>6. ASSUME NEW r \in Requests, RefreshRefused(r) PROVE TypeOK'
  <2>1. req' \in [Requests -> RequestRecords]
    BY <1>6, AnonymousTyped DEF RefreshRefused
  <2>2. QED
    BY <1>6, <2>1 DEF RefreshRefused
<1>7. ASSUME NEW r \in Requests, RefreshLost(r) PROVE TypeOK'
  <2>1. req' \in [Requests -> RequestRecords]
    BY <1>7, AnonymousTyped DEF RefreshLost
  <2>2. /\ IsTable(issued', next.token + 1, [user : Users, expires : Nat])
        /\ honoured' \subseteq DOMAIN issued'
    BY <1>7, RefreshTyped DEF RefreshLost
  <2>3. QED
    BY <1>7, <2>1, <2>2, SlotFields DEF RefreshLost
<1>8. ASSUME NEW r \in Requests, RefreshProfile(r) PROVE TypeOK'
  <2>1. req' \in [Requests -> RequestRecords]
    BY <1>8 DEF RefreshProfile, RequestRecords, PCs
  <2>2. QED
    BY <1>8, <2>1 DEF RefreshProfile
<1>9. ASSUME NEW r \in Requests, RefreshProfileFails(r) PROVE TypeOK'
  <2>1. req' \in [Requests -> RequestRecords]
    BY <1>9, AnonymousTyped DEF RefreshProfileFails
  <2>2. QED
    BY <1>9, <2>1, SlotFields DEF RefreshProfileFails
<1>10. ASSUME NEW r \in Requests, SaveTokens(r) PROVE TypeOK'
  <2>1. req' \in [Requests -> RequestRecords]
    BY <1>10 DEF SaveTokens, RequestRecords, PCs
  <2>2. IsTable(session', next.session, SessionRows)
    BY <1>10, TokenRowTyped, UpdateTyped DEF SaveTokens, Safe, InHand
  <2>3. QED
    BY <1>10, <2>1, <2>2 DEF SaveTokens
<1>11. ASSUME NEW r \in Requests, SaveTokensFails(r) PROVE TypeOK'
  <2>1. req' \in [Requests -> RequestRecords]
    BY <1>11, AnonymousTyped DEF SaveTokensFails
  <2>2. CASE UpdateSession(req[r].sid, TokenRow(r)) /\ UNCHANGED lost
    <3>1. IsTable(session', next.session, SessionRows)
      BY <1>11, <2>2, TokenRowTyped, UpdateTyped DEF SaveTokensFails, Safe, InHand
    <3>2. QED
      BY <1>11, <2>1, <2>2, <3>1 DEF SaveTokensFails
  <2>3. CASE lost' = lost \cup {req[r].sid} /\ UNCHANGED session
    BY <1>11, <2>1, <2>3, SlotFields DEF SaveTokensFails
  <2>4. QED
    BY <1>11, <2>2, <2>3 DEF SaveTokensFails
<1>12. ASSUME NEW r \in Requests, Page(r) PROVE TypeOK'
  <2>1. req' \in [Requests -> RequestRecords]
    BY <1>12, AnswerTyped DEF Page
  <2>2. QED
    BY <1>12, <2>1 DEF Page
<1>13. ASSUME NEW r \in Requests, Guarded(r) PROVE TypeOK'
  <2>1. req' \in [Requests -> RequestRecords]
    BY <1>13, AnswerTyped DEF Guarded
  <2>2. QED
    BY <1>13, <2>1 DEF Guarded
<1>14. ASSUME NEW r \in Requests, Logout(r) PROVE TypeOK'
  <2>1. req' \in [Requests -> RequestRecords]
    BY <1>14, AnswerTyped DEF Logout
  <2>2. QED
    BY <1>14, <2>1, DropTyped DEF Logout, DeleteSession
<1>15. ASSUME NEW r \in Requests, Delete(r) PROVE TypeOK'
  <2>1. req' \in [Requests -> RequestRecords]
    BY <1>15, AnswerTyped DEF Delete
  <2>2. QED
    BY <1>15, <2>1, DropTyped DEF Delete, DeleteAccount
<1>16. ASSUME NEW r \in Requests, DeleteFails(r) PROVE TypeOK'
  <2>1. req' \in [Requests -> RequestRecords]
    BY <1>16, AnswerTyped DEF DeleteFails
  <2>2. QED
    BY <1>16, <2>1, DropTyped DEF DeleteFails, DeleteAccount
<1>17. ASSUME NEW r \in Requests, Login(r) PROVE TypeOK'
  <2>1. req' \in [Requests -> RequestRecords]
    BY <1>17, OutcomeTyped, SlotTyped DEF Login
  <2>2. QED
    BY <1>17, <2>1 DEF Login, CreateOAuth2State, Put, IsTable
<1>18. ASSUME NEW r \in Requests, LoginRefused(r) PROVE TypeOK'
  <2>1. req' \in [Requests -> RequestRecords]
    BY <1>18, AnswerTyped DEF LoginRefused
  <2>2. QED
    BY <1>18, <2>1 DEF LoginRefused, CreateOAuth2State, Put, IsTable
<1>19. ASSUME NEW r \in Requests, Callback(r) PROVE TypeOK'
  <2>1. req' \in [Requests -> RequestRecords]
    <3>1. CASE req' = [req EXCEPT ![r].pc = "exchange"]
      BY <3>1 DEF RequestRecords, PCs
    <3>2. QED
      BY <1>19, <3>1, AnswerTyped DEF Callback
  <2>2. QED
    BY <1>19, <2>1, DropTyped DEF Callback, GetAndDeleteOAuth2State
<1>20. ASSUME NEW r \in Requests, CallbackRefused(r) PROVE TypeOK'
  <2>1. req' \in [Requests -> RequestRecords]
    BY <1>20, AnswerTyped DEF CallbackRefused
  <2>2. QED
    BY <1>20, <2>1, DropTyped DEF CallbackRefused, GetAndDeleteOAuth2State
<1>21. ASSUME NEW r \in Requests, Exchange(r) PROVE TypeOK'
  <2> DEFINE u == consent[req[r].st]
             t == RefreshTokenOf(next.token, u)
  <2>1. req[r].st \in DOMAIN consent /\ u \in Users
    BY <1>21 DEF Exchange, Safe, InHand, IsTable
  <2>2. t \in Nat
    BY DEF RefreshTokenOf
  <2>3. [req[r] EXCEPT !.pc = "upsert", !.tok = next.token, !.rtok = t] \in RequestRecords
    BY <2>2, PairTyped DEF PCs
  <2>4. req' \in [Requests -> RequestRecords]
    BY <1>21, <2>3, SlotTyped DEF Exchange
  <2>5. /\ IsTable(issued', next.token + 1, [user : Users, expires : Nat])
        /\ honoured' \subseteq DOMAIN issued' /\ redeemed' \subseteq DOMAIN consent
    BY <1>21, <2>1, RedeemTyped DEF Exchange
  <2>6. QED
    BY <1>21, <2>4, <2>5 DEF Exchange
<1>22. ASSUME NEW r \in Requests, ExchangeRefused(r) PROVE TypeOK'
  <2>1. req' \in [Requests -> RequestRecords]
    BY <1>22, AnswerTyped DEF ExchangeRefused
  <2>2. req[r].st \in DOMAIN consent /\ consent[req[r].st] \in Users
    BY <1>22 DEF ExchangeRefused, Safe, InHand, IsTable
  <2>3. Redeem(req[r].st, next.token) =>
          /\ IsTable(issued', next.token + 1, [user : Users, expires : Nat])
          /\ honoured' \subseteq DOMAIN issued' /\ redeemed' \subseteq DOMAIN consent
    BY <2>2, RedeemTyped
  <2>4. QED
    BY <1>22, <2>1, <2>3 DEF ExchangeRefused
<1>23. ASSUME NEW r \in Requests, Upsert(r) PROVE TypeOK'
  <2> DEFINE u == issued[req[r].tok].user
  <2>1. u \in Users
    BY <1>23 DEF Upsert, Safe, InHand, IsTable
  <2>2. UpsertedId(u, next.account) \in Nat
    BY <1>23, <2>1, UpsertTyped DEF Upsert
  <2>3. req' \in [Requests -> RequestRecords]
    BY <1>23, <2>2, OutcomeTyped, SlotTyped DEF Upsert
  <2>4. QED
    BY <1>23, <2>1, <2>3, UpsertTyped DEF Upsert
<1>24. ASSUME NEW r \in Requests, UpsertFails(r) PROVE TypeOK'
  <2>1. req' \in [Requests -> RequestRecords]
    BY <1>24, AnswerTyped DEF UpsertFails
  <2>2. issued[req[r].tok].user \in Users
    BY <1>24 DEF UpsertFails, Safe, InHand, IsTable
  <2>3. QED
    BY <1>24, <2>1, <2>2, UpsertTyped DEF UpsertFails
<1>25. ASSUME NEW r \in Requests, CreateLogin(r) PROVE TypeOK'
  <2>1. req' \in [Requests -> RequestRecords]
    BY <1>25, OutcomeTyped, SlotTyped DEF CreateLogin
  <2>2. IsTable(session', next.session + 1, SessionRows)
    BY <1>25, CreateTyped DEF CreateLogin, Safe, InHand
  <2>3. QED
    BY <1>25, <2>1, <2>2 DEF CreateLogin
<1>26. ASSUME NEW r \in Requests, CreateLoginFails(r) PROVE TypeOK'
  <2>1. req' \in [Requests -> RequestRecords]
    BY <1>26, AnswerTyped DEF CreateLoginFails
  <2>2. CreateSession(next.session, NewSession(r)) =>
          IsTable(session', next.session + 1, SessionRows)
    BY <1>26, CreateTyped DEF CreateLoginFails, Safe, InHand
  <2>3. QED
    BY <1>26, <2>1, <2>2 DEF CreateLoginFails
<1>27. ASSUME NEW r \in Requests, Deliver(r) PROVE TypeOK'
  <2>1. req' \in [Requests -> RequestRecords]
    BY <1>27, IdleTyped, SlotTyped DEF Deliver
  <2>2. jar' \in [Browsers -> Nat]
    BY <1>27, SlotFields DEF Deliver
  <2>3. IsTable(consent', next.state, Users) /\ DOMAIN consent \subseteq DOMAIN consent'
    BY <1>27 DEF Deliver, Consent, Put, IsTable, Safe, InHand
  <2>4. QED
    BY <1>27, <2>1, <2>2, <2>3 DEF Deliver
<1>28. ASSUME NEW r \in Requests, Vanish(r) PROVE TypeOK'
  <2>1. req' \in [Requests -> RequestRecords]
    BY <1>28, IdleTyped, SlotTyped DEF Vanish
  <2>2. QED
    BY <1>28, <2>1 DEF Vanish
<1>29. ASSUME CollectStates PROVE TypeOK'
  BY <1>29, DropTyped DEF CollectStates, DeleteExpiredOAuth2States
<1>30. ASSUME CollectSessions PROVE TypeOK'
  BY <1>30, DropTyped DEF CollectSessions, DeleteExpiredSessions
<1>31. ASSUME Crash PROVE TypeOK'
  <2>1. req' \in [Requests -> RequestRecords]
    BY <1>31, IdleTyped DEF Crash
  <2>2. lost' \subseteq Nat
    BY <1>31, SlotFields DEF Crash, Unsaved
  <2>3. QED
    BY <1>31, <2>1, <2>2 DEF Crash
<1>32. ASSUME BootStates PROVE TypeOK'
  BY <1>32, DropTyped DEF BootStates, DeleteExpiredOAuth2States
<1>33. ASSUME BootSessions PROVE TypeOK'
  BY <1>33, DropTyped DEF BootSessions, DeleteExpiredSessions
<1>34. ASSUME Clock PROVE TypeOK'
  BY <1>34 DEF Clock, Tick
<1>35. ASSUME NEW b \in Browsers, ForgetCookie(b) PROVE TypeOK'
  BY <1>35 DEF ForgetCookie
<1>36. QED
  BY <1>1, <1>2, <1>3, <1>4, <1>5, <1>6, <1>7, <1>8, <1>9, <1>10, <1>11,
     <1>12, <1>13, <1>14, <1>15, <1>16, <1>17, <1>18, <1>19, <1>20, <1>21, <1>22,
     <1>23, <1>24, <1>25, <1>26, <1>27, <1>28, <1>29, <1>30, <1>31, <1>32, <1>33,
     <1>34, <1>35
  DEF Next, Authenticate, Handle, TokenEndpoint

-----------------------------------------------------------------------------
(* Safe is preserved, one step per action *)

\* Every step keeps the safety part of the inductive invariant.
LEMMA SafeStep ==
  ASSUME IInv, Next
  PROVE  Safe'
<1> USE AuthAssumption, ProviderAssumption, BasicsAssumption
    DEF IInv, TypeOK, IsTable, RequestRecords, PCs, AllKinds, SessionRows, tables,
        providerVars, serverVars, Safe, InHand, SessionsHaveAccounts, StatesUnused,
        LoginRedeemedOnce, KnownIds, LateStaysOut
<1>1. ASSUME NEW r \in Requests, Start(r) PROVE Safe'
  <2>1. PICK kind \in Kinds, b \in Browsers, p \in Providers,
             st \in DOMAIN consent \cup {0} :
          /\ Sensible(kind, p, st)
          /\ req' = [req EXCEPT ![r] =
               [NoRequest(p) EXCEPT
                  !.pc = IF jar[b] = 0 THEN "handler" ELSE "auth",
                  !.kind = kind, !.browser = b, !.sid = jar[b], !.st = st,
                  !.late = jar[b] # 0 /\ jar[b] \notin DOMAIN session]]
    BY <1>1 DEF Start
  <2>2. /\ req'[r].pc \in {"handler", "auth"} /\ req'[r].kind = kind
        /\ req'[r].sid = jar[b] /\ req'[r].st = st /\ req'[r].set = 0
        /\ req'[r].acct = 0 /\ (req'[r].late => jar[b] \notin DOMAIN session)
        /\ \A q \in Requests \ {r} : req'[q] = req[q]
    <3>1. /\ req'[r] = [NoRequest(p) EXCEPT
                          !.pc = IF jar[b] = 0 THEN "handler" ELSE "auth",
                          !.kind = kind, !.browser = b, !.sid = jar[b], !.st = st,
                          !.late = jar[b] # 0 /\ jar[b] \notin DOMAIN session]
          /\ \A q \in Requests \ {r} : req'[q] = req[q]
      BY <2>1
    <3>2. req'[r].late => jar[b] \notin DOMAIN session
      BY <3>1 DEF NoRequest
    <3>3. QED
      BY <3>1, <3>2 DEF NoRequest
  <2>3. UNCHANGED <<now, tables, providerVars, jar, next>>
    BY <1>1 DEF Start
  <2>4. QED
    BY <2>1, <2>2, <2>3 DEF Sensible
<1>2. ASSUME NEW r \in Requests, AuthRefused(r) PROVE Safe'
  BY <1>2 DEF AuthRefused, Anonymous, SessionFound
<1>3. ASSUME NEW r \in Requests, AuthAccepted(r) PROVE Safe'
  BY <1>3 DEF AuthAccepted, Accept, SessionFound, Usable
<1>4. ASSUME NEW r \in Requests, AuthStale(r) PROVE Safe'
  BY <1>4 DEF AuthStale, Accept, SessionFound, Usable
<1>5. ASSUME NEW r \in Requests, RefreshGranted(r) PROVE Safe'
  BY <1>5 DEF RefreshGranted, Refresh, Issue, Put
<1>6. ASSUME NEW r \in Requests, RefreshRefused(r) PROVE Safe'
  BY <1>6 DEF RefreshRefused, Anonymous
<1>7. ASSUME NEW r \in Requests, RefreshLost(r) PROVE Safe'
  BY <1>7 DEF RefreshLost, Anonymous, Refresh, Issue, Put
<1>8. ASSUME NEW r \in Requests, RefreshProfile(r) PROVE Safe'
  BY <1>8 DEF RefreshProfile
<1>9. ASSUME NEW r \in Requests, RefreshProfileFails(r) PROVE Safe'
  BY <1>9 DEF RefreshProfileFails, Anonymous
<1>10. ASSUME NEW r \in Requests, SaveTokens(r) PROVE Safe'
  BY <1>10 DEF SaveTokens, UpdateSession
<1>11. ASSUME NEW r \in Requests, SaveTokensFails(r) PROVE Safe'
  <2>1. CASE UpdateSession(req[r].sid, TokenRow(r)) /\ UNCHANGED lost
    BY <1>11, <2>1 DEF SaveTokensFails, UpdateSession, Anonymous
  <2>2. CASE UNCHANGED session
    BY <1>11, <2>2 DEF SaveTokensFails, UpdateSession, Anonymous
  <2>3. QED
    BY <1>11, <2>1, <2>2 DEF SaveTokensFails
<1>12. ASSUME NEW r \in Requests, Page(r) PROVE Safe'
  BY <1>12 DEF Page, AtHandler, Answer
<1>13. ASSUME NEW r \in Requests, Guarded(r) PROVE Safe'
  BY <1>13 DEF Guarded, AtHandler, Answer
<1>14. ASSUME NEW r \in Requests, Logout(r) PROVE Safe'
  <2>1. CASE Answer(r, "ok") /\ UNCHANGED session
    BY <1>14, <2>1 DEF Logout, AtHandler, Answer
  <2>2. CASE AnswerClearing(r, "ok") /\ DeleteSession(req[r].sid)
    BY <1>14, <2>2 DEF Logout, AtHandler, AnswerClearing, DeleteSession, Drop
  <2>3. CASE AnswerClearing(r, "ok") /\ UNCHANGED session
    BY <1>14, <2>3 DEF Logout, AtHandler, AnswerClearing
  <2>4. QED
    BY <1>14, <2>1, <2>2, <2>3 DEF Logout
<1>15. ASSUME NEW r \in Requests, Delete(r) PROVE Safe'
  <2>1. CASE Answer(r, "login") /\ UNCHANGED <<account, session>>
    BY <1>15, <2>1 DEF Delete, AtHandler, Answer
  <2>2. CASE AnswerClearing(r, "ok") /\ DeleteAccount(req[r].acct)
    BY <1>15, <2>2 DEF Delete, AtHandler, AnswerClearing, DeleteAccount, SessionsOf, Drop
  <2>3. QED
    BY <1>15, <2>1, <2>2 DEF Delete
<1>16. ASSUME NEW r \in Requests, DeleteFails(r) PROVE Safe'
  <2>1. CASE DeleteAccount(req[r].acct)
    BY <1>16, <2>1 DEF DeleteFails, AtHandler, Answer, DeleteAccount, SessionsOf, Drop
  <2>2. CASE UNCHANGED <<account, session>>
    BY <1>16, <2>2 DEF DeleteFails, AtHandler, Answer
  <2>3. QED
    BY <1>16, <2>1, <2>2 DEF DeleteFails
<1>17. ASSUME NEW r \in Requests, Login(r) PROVE Safe'
  BY <1>17 DEF Login, AtHandler, CreateOAuth2State, Put
<1>18. ASSUME NEW r \in Requests, LoginRefused(r) PROVE Safe'
  <2>1. CASE UNCHANGED <<oauth2_state, next>>
    BY <1>18, <2>1 DEF LoginRefused, AtHandler, Answer
  <2>2. CASE /\ CreateOAuth2State(next.state, now + StateTTL)
             /\ next' = [next EXCEPT !.state = @ + 1]
    BY <1>18, <2>2 DEF LoginRefused, AtHandler, Answer, CreateOAuth2State, Put
  <2>3. QED
    BY <1>18, <2>1, <2>2 DEF LoginRefused
<1>19. ASSUME NEW r \in Requests, Callback(r) PROVE Safe'
  <2>1. CASE Answer(r, "error")
    BY <1>19, <2>1 DEF Callback, AtHandler, Answer, GetAndDeleteOAuth2State, Drop
  <2>2. CASE req' = [req EXCEPT ![r].pc = "exchange"]
    <3>1. /\ req'[r].pc = "exchange" /\ req'[r].st = req[r].st
          /\ req'[r].kind = req[r].kind /\ req'[r].set = req[r].set
          /\ req'[r].sid = req[r].sid /\ req'[r].late = req[r].late
          /\ req'[r].acct = req[r].acct
          /\ \A q \in Requests \ {r} : req'[q] = req[q]
      BY <2>2
    <3>2. /\ DOMAIN oauth2_state' = DOMAIN oauth2_state \ {req[r].st}
          /\ req[r].st \in DOMAIN oauth2_state
          /\ req[r].pc = "handler" /\ req[r].kind = "callback"
          /\ UNCHANGED <<account, session, providerVars, jar, next>>
      BY <1>19 DEF Callback, AtHandler, GetAndDeleteOAuth2State, Drop
    <3>3. InHand'
      BY <3>1, <3>2
    <3>4. SessionsHaveAccounts'
      BY <3>2
    <3>5. \A q \in Requests : /\ req'[q].sid = req[q].sid /\ req'[q].set = req[q].set
                              /\ req'[q].late = req[q].late /\ req'[q].acct = req[q].acct
      BY <3>1
    <3>6. KnownIds'
      BY <3>2, <3>5
    <3>7. LateStaysOut'
      BY <3>2, <3>5
    <3>8. StatesUnused'
      BY <3>1, <3>2
    <3>9. LoginRedeemedOnce'
      <4>1. \A q \in Requests : req[q].pc = "exchange" => req[q].st # req[r].st
        BY <3>2
      <4>2. req[r].st \notin redeemed
        BY <3>2
      <4>3. ASSUME NEW q \in Requests, req'[q].pc = "exchange", q # r
            PROVE  req[q].pc = "exchange" /\ req'[q].st = req[q].st
        BY <3>1, <4>3
      <4>4. QED
        BY <3>1, <3>2, <4>1, <4>2, <4>3
    <3>10. QED
      BY <3>3, <3>4, <3>6, <3>7, <3>8, <3>9
  <2>3. QED
    BY <1>19, <2>1, <2>2 DEF Callback
<1>20. ASSUME NEW r \in Requests, CallbackRefused(r) PROVE Safe'
  BY <1>20 DEF CallbackRefused, AtHandler, Answer, GetAndDeleteOAuth2State, Drop
<1>21. ASSUME NEW r \in Requests, Exchange(r) PROVE Safe'
  BY <1>21 DEF Exchange, Redeem, Issue, Put
<1>22. ASSUME NEW r \in Requests, ExchangeRefused(r) PROVE Safe'
  <2>1. CASE UNCHANGED <<providerVars, next>>
    BY <1>22, <2>1 DEF ExchangeRefused, Answer
  <2>2. CASE /\ Redeem(req[r].st, next.token) /\ UNCHANGED consent
             /\ next' = [next EXCEPT !.token = @ + 1]
    BY <1>22, <2>2 DEF ExchangeRefused, Answer, Redeem, Issue, Put
  <2>3. QED
    BY <1>22, <2>1, <2>2 DEF ExchangeRefused
<1>23. ASSUME NEW r \in Requests, Upsert(r) PROVE Safe'
  <2>1. /\ req'[r].pc = "create" /\ req[r].pc = "upsert"
        /\ req'[r].kind = req[r].kind /\ req'[r].tok = req[r].tok
        /\ req'[r].st = req[r].st
    BY <1>23 DEF Upsert
  <2>2. /\ req'[r].sid = req[r].sid /\ req'[r].set = req[r].set
        /\ req'[r].late = req[r].late /\ req'[r].acct = req[r].acct
        /\ \A q \in Requests \ {r} : req'[q] = req[q]
    BY <1>23 DEF Upsert
  <2>3. DOMAIN account \subseteq DOMAIN account'
    BY <1>23 DEF Upsert, UpsertAccount, Put
  <2>4. /\ next'.state = next.state /\ next'.session = next.session
        /\ UNCHANGED <<oauth2_state, session, providerVars, jar>>
    <3>1. next' = next \/ next' = [next EXCEPT !.account = @ + 1]
      BY <1>23 DEF Upsert, TakeAccountId
    <3>2. UNCHANGED <<oauth2_state, session, providerVars, jar>>
      BY <1>23 DEF Upsert
    <3>3. QED
      BY <3>1, <3>2
  <2>5. InHand'
    BY <2>1, <2>2, <2>4
  <2>6. StatesUnused'
    BY <2>1, <2>2, <2>4
  <2>7. LoginRedeemedOnce'
    BY <2>1, <2>2, <2>4
  <2>8. SessionsHaveAccounts' /\ KnownIds' /\ LateStaysOut'
    BY <2>2, <2>3, <2>4
  <2>9. QED
    BY <2>5, <2>6, <2>7, <2>8
<1>24. ASSUME NEW r \in Requests, UpsertFails(r) PROVE Safe'
  <2>1. CASE UNCHANGED <<account, next>>
    BY <1>24, <2>1 DEF UpsertFails, Answer
  <2>2. CASE /\ UpsertAccount(issued[req[r].tok].user, next.account)
             /\ TakeAccountId(issued[req[r].tok].user)
    <3>1. /\ req'[r].pc = "respond" /\ req'[r].out = "error" /\ req'[r].kind = req[r].kind
          /\ req'[r].st = req[r].st /\ req[r].pc = "upsert"
      BY <1>24 DEF UpsertFails, Answer
    <3>2. /\ req'[r].sid = req[r].sid /\ req'[r].set = req[r].set
          /\ req'[r].late = req[r].late /\ req'[r].acct = req[r].acct
          /\ \A q \in Requests \ {r} : req'[q] = req[q]
      BY <1>24 DEF UpsertFails, Answer
    <3>3. DOMAIN account \subseteq DOMAIN account'
      BY <2>2 DEF UpsertAccount, Put
    <3>4. /\ next'.state = next.state /\ next'.session = next.session
          /\ UNCHANGED <<oauth2_state, session, providerVars, jar>>
      <4>1. next' = next \/ next' = [next EXCEPT !.account = @ + 1]
        BY <2>2 DEF TakeAccountId
      <4>2. UNCHANGED <<oauth2_state, session, providerVars, jar>>
        BY <1>24 DEF UpsertFails
      <4>3. QED
        BY <4>1, <4>2
    <3>5. InHand'
      BY <3>1, <3>2, <3>4
    <3>6. StatesUnused'
      BY <3>1, <3>2, <3>4
    <3>7. LoginRedeemedOnce'
      BY <3>1, <3>2, <3>4
    <3>8. SessionsHaveAccounts' /\ KnownIds' /\ LateStaysOut'
      BY <3>2, <3>3, <3>4
    <3>9. QED
      BY <3>5, <3>6, <3>7, <3>8
  <2>3. QED
    BY <1>24, <2>1, <2>2 DEF UpsertFails
<1>25. ASSUME NEW r \in Requests, CreateLogin(r) PROVE Safe'
  BY <1>25 DEF CreateLogin, AccountReferenced, CreateSession, NewSession, Put
<1>26. ASSUME NEW r \in Requests, CreateLoginFails(r) PROVE Safe'
  <2>1. CASE UNCHANGED <<session, next>>
    BY <1>26, <2>1 DEF CreateLoginFails, Answer
  <2>2. CASE /\ AccountReferenced(NewSession(r))
             /\ CreateSession(next.session, NewSession(r))
             /\ next' = [next EXCEPT !.session = @ + 1]
    BY <1>26, <2>2 DEF CreateLoginFails, Answer, AccountReferenced, CreateSession,
                     NewSession, Put
  <2>3. QED
    BY <1>26, <2>1, <2>2 DEF CreateLoginFails
<1>27. ASSUME NEW r \in Requests, Deliver(r) PROVE Safe'
  BY <1>27 DEF Deliver, Consent, Put, Idle, AnyProvider, NoRequest
<1>28. ASSUME NEW r \in Requests, Vanish(r) PROVE Safe'
  BY <1>28 DEF Vanish, Idle, AnyProvider, NoRequest
<1>29. ASSUME CollectStates PROVE Safe'
  BY <1>29 DEF CollectStates, DeleteExpiredOAuth2States, Drop
<1>30. ASSUME CollectSessions PROVE Safe'
  BY <1>30 DEF CollectSessions, DeleteExpiredSessions, Drop
<1>31. ASSUME Crash PROVE Safe'
  BY <1>31 DEF Crash, Idle, NoRequest, AnyProvider
<1>32. ASSUME BootStates PROVE Safe'
  BY <1>32 DEF BootStates, DeleteExpiredOAuth2States, Drop
<1>33. ASSUME BootSessions PROVE Safe'
  BY <1>33 DEF BootSessions, DeleteExpiredSessions, Drop
<1>34. ASSUME Clock PROVE Safe'
  BY <1>34 DEF Clock, Tick
<1>35. ASSUME NEW b \in Browsers, ForgetCookie(b) PROVE Safe'
  BY <1>35 DEF ForgetCookie
<1>36. QED
  BY <1>1, <1>2, <1>3, <1>4, <1>5, <1>6, <1>7, <1>8, <1>9, <1>10, <1>11,
     <1>12, <1>13, <1>14, <1>15, <1>16, <1>17, <1>18, <1>19, <1>20, <1>21, <1>22,
     <1>23, <1>24, <1>25, <1>26, <1>27, <1>28, <1>29, <1>30, <1>31, <1>32, <1>33,
     <1>34, <1>35
  DEF Next, Authenticate, Handle, TokenEndpoint

-----------------------------------------------------------------------------
(* The invariant holds from the start, and what follows from it *)

\* The invariant holds at the start.
LEMMA InitInv ==
  ASSUME Init
  PROVE  IInv
<1> USE AuthAssumption, ProviderAssumption, BasicsAssumption
<1>1. req \in [Requests -> RequestRecords] /\ \A r \in Requests : req[r] = Idle
  BY IdleTyped DEF Init
<1>2. /\ Idle.pc = "idle" /\ Idle.late = FALSE /\ Idle.sid = 0 /\ Idle.set = 0
  BY DEF Idle, NoRequest
<1>3. /\ IsTable(oauth2_state, next.state, [expires : Nat])
      /\ IsTable(consent, next.state, Users)
  BY DEF Init, IsTable, NoRows, EmptyDatabase, OneLogin
<1>4. /\ IsTable(account, next.account, [user : Users])
      /\ IsTable(session, next.session, SessionRows)
      /\ IsTable(issued, next.token, [user : Users, expires : Nat])
      /\ honoured \subseteq DOMAIN issued
      /\ jar \in [Browsers -> Nat]
      /\ \A b \in Browsers : jar[b] < next.session
      /\ next \in [state : Nat \ {0}, account : Nat \ {0}, session : Nat \ {0},
                   token : Nat \ {0}]
      /\ SessionsHaveAccounts
  <2>1. CASE EmptyDatabase
    BY <2>1 DEF EmptyDatabase, NoRows, IsTable, SessionsHaveAccounts
  <2>2. CASE \E b \in Browsers, u \in Users, k \in Keys : OneLogin(b, u, k)
    <3>1. PICK b0 \in Browsers, u \in Users, k \in Keys : OneLogin(b0, u, k)
      BY <2>2
    <3>2. TokenExpiry(u) \in Nat /\ RefreshTokenOf(1, u) \in Nat
      BY DEF Init, TokenExpiry, RefreshTokenOf
    <3>3. /\ DOMAIN account = {1} /\ account[1] \in [user : Users]
          /\ account \in [DOMAIN account -> [user : Users]]
      BY <3>1 DEF OneLogin, Put, NoRows
    <3>4. /\ DOMAIN session = {1} /\ session[1].account = 1
          /\ session \in [DOMAIN session -> SessionRows]
      BY <3>1, <3>2 DEF OneLogin, Put, NoRows, SessionRows
    <3>5. /\ DOMAIN issued = {1}
          /\ issued \in [DOMAIN issued -> [user : Users, expires : Nat]]
      BY <3>1, <3>2 DEF OneLogin, Put, NoRows
    <3>6. /\ honoured \subseteq {1} /\ jar \in [Browsers -> {0, 1}]
          /\ next = [state |-> 1, account |-> 2, session |-> 2, token |-> 2]
      BY <3>1 DEF OneLogin
    <3>7. \A b \in Browsers : jar[b] \in Nat /\ jar[b] < next.session
      BY <3>6
    <3>8. /\ next.state = 1 /\ next.account = 2 /\ next.session = 2 /\ next.token = 2
          /\ next \in [state : Nat \ {0}, account : Nat \ {0}, session : Nat \ {0},
                       token : Nat \ {0}]
      BY <3>6
    <3>9. QED
      BY <3>3, <3>4, <3>5, <3>6, <3>7, <3>8 DEF IsTable, SessionsHaveAccounts
  <2>3. QED
    BY <2>1, <2>2 DEF Init
<1>5. TypeOK
  BY <1>1, <1>3, <1>4 DEF Init, TypeOK
<1>6. Safe
  BY <1>1, <1>2, <1>4 DEF Init, Safe, InHand, StatesUnused, LoginRedeemedOnce, KnownIds,
     LateStaysOut, NoRows, TypeOK
<1>7. QED BY <1>5, <1>6 DEF IInv

\* A step that changes no variable keeps it.
LEMMA StutterInv ==
  ASSUME IInv, UNCHANGED vars
  PROVE  IInv'
BY DEF IInv, TypeOK, IsTable, Safe, InHand, SessionsHaveAccounts, StatesUnused,
       LoginRedeemedOnce, KnownIds, LateStaysOut, vars, tables, providerVars, serverVars

\* The inductive invariant holds in every reachable state.
THEOREM Invariance == Spec => []IInv
<1>1. Init => IInv
  BY InitInv
<1>2. IInv /\ [Next]_vars => IInv'
  BY TypeStep, SafeStep, StutterInv DEF IInv
<1>3. QED BY <1>1, <1>2, PTL DEF Spec

\* Every variable keeps its type, and keys in use were handed out.
THEOREM TypeCorrect == Spec => []TypeOK
<1>1. IInv => TypeOK
  BY DEF IInv
<1>2. QED BY <1>1, Invariance, PTL

\* No session outlives its account (auth.go:228-262, schema.sql:24).
THEOREM AccountsKept == Spec => []SessionsHaveAccounts
<1>1. IInv => SessionsHaveAccounts
  BY DEF IInv, Safe
<1>2. QED BY <1>1, Invariance, PTL

\* One callback at most presents the code of a login (auth.go:195-209).
THEOREM RedeemedOnce == Spec => []LoginRedeemedOnce
<1>1. IInv => LoginRedeemedOnce
  BY DEF IInv, Safe
<1>2. QED BY <1>1, Invariance, PTL

\* A request that begins after its session ended is never authenticated
\* (auth.go:300-306).
THEOREM EndedStaysOut == Spec => []EndedSessionStaysOut
<1>1. IInv => EndedSessionStaysOut
  BY DEF IInv, Safe, LateStaysOut, EndedSessionStaysOut
<1>2. QED BY <1>1, Invariance, PTL

-----------------------------------------------------------------------------
(* What a step does to the tables account and session *)

StoreKept ==
  UNCHANGED <<account, session>> /\ next'.account = next.account
                                 /\ next'.session = next.session

TokensSaved ==
  \E r \in Requests :
    /\ req[r].pc = "updsess" /\ req'[r].pc = "handler"
    /\ UpdateSession(req[r].sid, TokenRow(r))
    /\ UNCHANGED <<account, next>>

LoggedOut ==
  \E r \in Requests :
    /\ AtHandler(r, "logout") /\ DeleteSession(req[r].sid)
    /\ UNCHANGED <<account, next>>

AccountDeleted ==
  \E r \in Requests :
    /\ AtHandler(r, "delete") /\ DeleteAccount(req[r].acct)
    /\ UNCHANGED next

AccountUpserted ==
  \E u \in Users :
    /\ UpsertAccount(u, next.account) /\ TakeAccountId(u)
    /\ UNCHANGED session

SessionCreated ==
  \E r \in Requests :
    /\ req[r].pc = "create" /\ req'[r].pc = "respond"
    /\ AccountReferenced(NewSession(r)) /\ CreateSession(next.session, NewSession(r))
    /\ next' = [next EXCEPT !.session = @ + 1]
    /\ UNCHANGED account

SessionsExpired == DeleteExpiredSessions /\ UNCHANGED <<account, next>>

StoreEvent ==
  \/ StoreKept \/ TokensSaved \/ LoggedOut \/ AccountDeleted
  \/ AccountUpserted \/ SessionCreated \/ SessionsExpired

\* Every step is one of those seven events.
LEMMA Events ==
  ASSUME IInv, [Next]_vars
  PROVE  StoreEvent
<1> USE DEF IInv, TypeOK, tables, StoreEvent
<1>1. CASE UNCHANGED vars
  BY <1>1 DEF StoreKept, vars
<1>2. ASSUME NEW r \in Requests,
             \/ Start(r) \/ AuthRefused(r) \/ AuthAccepted(r) \/ AuthStale(r)
             \/ RefreshProfile(r) \/ RefreshProfileFails(r) \/ Page(r) \/ Guarded(r)
             \/ RefreshRefused(r) \/ Deliver(r) \/ Vanish(r)
             \/ Callback(r) \/ CallbackRefused(r)
      PROVE  StoreKept
  BY <1>2 DEF StoreKept, Start, AuthRefused, AuthAccepted, AuthStale, RefreshProfile,
     RefreshProfileFails, Page, Guarded, RefreshRefused, Deliver, Vanish, Callback,
     CallbackRefused
<1>3. ASSUME NEW r \in Requests,
             \/ RefreshGranted(r) \/ RefreshLost(r) \/ Exchange(r) \/ ExchangeRefused(r)
             \/ Login(r) \/ LoginRefused(r)
      PROVE  StoreKept
  BY <1>3 DEF StoreKept, RefreshGranted, RefreshLost, Exchange, ExchangeRefused, Login,
     LoginRefused
<1>4. ASSUME NEW r \in Requests, SaveTokens(r) \/ SaveTokensFails(r)
      PROVE  StoreKept \/ TokensSaved
  <2>1. req[r].pc = "updsess" /\ req'[r].pc = "handler"
    <3>1. CASE SaveTokens(r)
      BY <3>1 DEF SaveTokens, RequestRecords
    <3>2. CASE SaveTokensFails(r)
      BY <3>2 DEF SaveTokensFails, Anonymous, RequestRecords
    <3>3. QED
      BY <1>4, <3>1, <3>2
  <2>2. QED
    BY <1>4, <2>1 DEF StoreKept, TokensSaved, SaveTokens, SaveTokensFails
<1>5. ASSUME NEW r \in Requests, Logout(r) PROVE StoreKept \/ LoggedOut
  BY <1>5 DEF StoreKept, LoggedOut, Logout
<1>6. ASSUME NEW r \in Requests, Delete(r) \/ DeleteFails(r)
      PROVE  StoreKept \/ AccountDeleted
  BY <1>6 DEF StoreKept, AccountDeleted, Delete, DeleteFails
<1>7. ASSUME NEW r \in Requests, Upsert(r) \/ UpsertFails(r)
      PROVE  StoreKept \/ AccountUpserted
  <2>1. issued[req[r].tok].user \in Users
    BY <1>7 DEF Upsert, UpsertFails, Safe, InHand, IsTable
  <2>2. QED
    BY <1>7, <2>1 DEF StoreKept, AccountUpserted, Upsert, UpsertFails
<1>8. ASSUME NEW r \in Requests, CreateLogin(r) \/ CreateLoginFails(r)
      PROVE  StoreKept \/ SessionCreated
  <2>1. req[r].pc = "create"
    BY <1>8 DEF CreateLogin, CreateLoginFails
  <2>2. req'[r].pc = "respond"
    <3>1. CASE CreateLogin(r)
      BY <3>1 DEF CreateLogin, RequestRecords
    <3>2. CASE CreateLoginFails(r)
      BY <3>2 DEF CreateLoginFails, Answer, RequestRecords
    <3>3. QED
      BY <1>8, <3>1, <3>2
  <2>3. QED
    BY <1>8, <2>1, <2>2 DEF StoreKept, SessionCreated, CreateLogin, CreateLoginFails
<1>9. ASSUME \/ CollectStates \/ Crash \/ BootStates \/ Clock
             \/ \E b \in Browsers : ForgetCookie(b)
      PROVE  StoreKept
  BY <1>9 DEF StoreKept, CollectStates, Crash, BootStates, Clock, ForgetCookie
<1>10. ASSUME CollectSessions \/ BootSessions
       PROVE  StoreKept \/ SessionsExpired
  BY <1>10 DEF StoreKept, SessionsExpired, CollectSessions, BootSessions
<1>11. QED
  BY <1>1, <1>2, <1>3, <1>4, <1>5, <1>6, <1>7, <1>8, <1>9, <1>10
  DEF Next, Authenticate, Handle, TokenEndpoint

\* A step brings no session back and changes no session's account or expiry.
LEMMA IdentityStep ==
  ASSUME IInv, [Next]_vars, NEW s \in DOMAIN session', s < next.session
  PROVE  /\ s \in DOMAIN session
         /\ session'[s].account = session[s].account
         /\ session'[s].expires = session[s].expires
<1> USE DEF IInv, TypeOK, IsTable
<1>1. CASE StoreKept \/ AccountUpserted
  BY <1>1 DEF StoreKept, AccountUpserted
<1>2. CASE TokensSaved
  <2>1. PICK r \in Requests : UpdateSession(req[r].sid, TokenRow(r))
    BY <1>2 DEF TokensSaved
  <2>2. session[s] \in SessionRows /\ s \in DOMAIN session
    BY <2>1 DEF UpdateSession
  <2>3. QED
    BY <2>1, <2>2 DEF UpdateSession, SessionRows
<1>3. ASSUME NEW K, session' = Drop(session, K)
      PROVE  /\ s \in DOMAIN session
             /\ session'[s] = session[s]
  BY <1>3 DEF Drop
<1>4. CASE SessionCreated
  BY <1>4 DEF SessionCreated, CreateSession, Put
<1>5. QED
  BY <1>1, <1>2, <1>3, <1>4, Events
  DEF StoreEvent, LoggedOut, AccountDeleted, SessionsExpired, DeleteSession,
      DeleteAccount, DeleteExpiredSessions

\* A session that ended never comes back, never changes hands and is never
\* prolonged (auth.go:352, query.sql.go:337-341).
THEOREM IdentityKept == Spec => SessionsKeepIdentity
<1>1. IInv /\ [Next]_vars =>
        [\A s \in DOMAIN session' :
           s < next.session =>
             /\ s \in DOMAIN session
             /\ session'[s].account = session[s].account
             /\ session'[s].expires = session[s].expires]_vars
  BY IdentityStep
<1>2. QED BY <1>1, Invariance, PTL DEF Spec, SessionsKeepIdentity

\* A session that has not expired ends by its logout or its account's deletion.
LEMMA SessionEnds ==
  ASSUME IInv, [Next]_vars, NEW s \in DOMAIN session \ DOMAIN session'
  PROVE  \/ session[s].expires < DbNow
         \/ \E r \in Requests :
              \/ AtHandler(r, "logout") /\ req[r].sid = s
              \/ AtHandler(r, "delete") /\ req[r].acct = session[s].account
<1>1. CASE StoreKept \/ AccountUpserted \/ TokensSaved \/ SessionCreated
  BY <1>1 DEF StoreKept, AccountUpserted, TokensSaved, UpdateSession, SessionCreated,
     CreateSession, Put
<1>2. CASE LoggedOut
  BY <1>2 DEF LoggedOut, DeleteSession, Drop
<1>3. CASE AccountDeleted
  BY <1>3 DEF AccountDeleted, DeleteAccount, SessionsOf, Drop
<1>4. CASE SessionsExpired
  BY <1>4 DEF SessionsExpired, DeleteExpiredSessions, ExpiredRows, Drop
<1>5. QED
  BY <1>1, <1>2, <1>3, <1>4, Events DEF StoreEvent

\* A login state that has not expired ends by the callback that carries it.
LEMMA StateEnds ==
  ASSUME [Next]_vars, NEW st \in DOMAIN oauth2_state \ DOMAIN oauth2_state'
  PROVE  \/ oauth2_state[st].expires < DbNow
         \/ \E r \in Requests : AtHandler(r, "callback") /\ req[r].st = st
<1> USE DEF tables
<1>1. CASE UNCHANGED vars
  BY <1>1 DEF vars
<1>2. ASSUME NEW r \in Requests,
             \/ Start(r) \/ AuthRefused(r) \/ AuthAccepted(r) \/ AuthStale(r)
             \/ RefreshProfile(r) \/ RefreshProfileFails(r) \/ SaveTokens(r)
             \/ SaveTokensFails(r) \/ RefreshGranted(r) \/ RefreshRefused(r)
             \/ RefreshLost(r)
      PROVE  UNCHANGED oauth2_state
  BY <1>2 DEF Start, AuthRefused, AuthAccepted, AuthStale, RefreshProfile,
     RefreshProfileFails, SaveTokens, SaveTokensFails, RefreshGranted, RefreshRefused,
     RefreshLost
<1>3. ASSUME NEW r \in Requests,
             \/ Page(r) \/ Guarded(r) \/ Logout(r) \/ Delete(r) \/ DeleteFails(r)
             \/ Exchange(r) \/ ExchangeRefused(r) \/ Upsert(r) \/ UpsertFails(r)
             \/ CreateLogin(r) \/ CreateLoginFails(r) \/ Deliver(r) \/ Vanish(r)
      PROVE  UNCHANGED oauth2_state
  BY <1>3 DEF Page, Guarded, Logout, Delete, DeleteFails, Exchange, ExchangeRefused,
     Upsert, UpsertFails, CreateLogin, CreateLoginFails, Deliver, Vanish
<1>4. ASSUME NEW r \in Requests, Login(r) \/ LoginRefused(r)
      PROVE  DOMAIN oauth2_state \subseteq DOMAIN oauth2_state'
  BY <1>4 DEF Login, LoginRefused, CreateOAuth2State, Put
<1>5. ASSUME NEW r \in Requests, Callback(r) \/ CallbackRefused(r)
      PROVE  st \in DOMAIN oauth2_state' \/ (AtHandler(r, "callback") /\ req[r].st = st)
  BY <1>5 DEF Callback, CallbackRefused, GetAndDeleteOAuth2State, Drop
<1>6. ASSUME CollectStates \/ BootStates
      PROVE  oauth2_state[st].expires < DbNow
  BY <1>6 DEF CollectStates, BootStates, DeleteExpiredOAuth2States, ExpiredRows, Drop
<1>7. ASSUME \/ CollectSessions \/ Crash \/ BootSessions \/ Clock
             \/ \E b \in Browsers : ForgetCookie(b)
      PROVE  UNCHANGED oauth2_state
  BY <1>7 DEF CollectSessions, Crash, BootSessions, Clock, ForgetCookie
<1>8. QED
  BY <1>1, <1>2, <1>3, <1>4, <1>5, <1>6, <1>7
  DEF Next, Authenticate, Handle, TokenEndpoint

\* Nobody but the owner ends a session or a login before its time
\* (database.go:83-93, auth.go:165, 286).
THEOREM OwnersEnd == Spec => EndedByOwner
<1>1. IInv /\ [Next]_vars =>
        [/\ \A s \in DOMAIN session \ DOMAIN session' :
              \/ session[s].expires < DbNow
              \/ \E r \in Requests :
                   \/ AtHandler(r, "logout") /\ req[r].sid = s
                   \/ AtHandler(r, "delete") /\ req[r].acct = session[s].account
         /\ \A st \in DOMAIN oauth2_state \ DOMAIN oauth2_state' :
              \/ oauth2_state[st].expires < DbNow
              \/ \E r \in Requests : AtHandler(r, "callback") /\ req[r].st = st]_vars
  BY SessionEnds, StateEnds
<1>2. QED BY <1>1, Invariance, PTL DEF Spec, EndedByOwner

=============================================================================
