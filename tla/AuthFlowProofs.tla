--------------------------- MODULE AuthFlowProofs ---------------------------
(***************************************************************************)
(* The sign-in code implements LoginFlow: whatever the requests of a login *)
(* do, they take it through its stages once, and its session is for the    *)
(* user who agreed.                                                        *)
(***************************************************************************)
EXTENDS AuthLoginProofs

Stage == [st \in 1 .. next.state - 1 |-> LoginStage(st)]
Holders == [s \in DOMAIN session |-> UserAt(s)]

AbstractVars == <<Stage, consent, Holders>>

-----------------------------------------------------------------------------
(* A login past its row is in the hands of one request *)

Carrying(r) == req[r].pc \in {"exchange", "upsert", "create"}

OneCarrier ==
  \A r \in Requests :
    Carrying(r) =>
      /\ req[r].st \notin DOMAIN oauth2_state
      /\ \A q \in Requests : Carrying(q) /\ req[q].st = req[r].st => q = r

\* A request comes to present a code by its callback only.
LEMMA ExchangeAfter ==
  ASSUME IInv, Next, NEW q \in Requests, req'[q].pc = "exchange"
  PROVE  req'[q] = req[q] \/ Callback(q)
<1>0. req \in [Requests -> RequestRecords]
  BY DEF IInv, TypeOK
<1>1. CASE req'[q] = Idle \/ Deliver(q) \/ Vanish(q)
  BY <1>0, <1>1 DEF Idle, NoRequest, Deliver, Vanish
<1>2. CASE Start(q)
  BY <1>0, <1>2, StartedSlot
<1>3. CASE \/ AuthRefused(q) \/ RefreshRefused(q) \/ RefreshLost(q)
           \/ RefreshProfileFails(q) \/ SaveTokensFails(q)
  <2>1. Anonymous(q)
    BY <1>3 DEF AuthRefused, RefreshRefused, RefreshLost, RefreshProfileFails,
       SaveTokensFails
  <2>2. QED
    BY <1>0, <2>1 DEF Anonymous, RequestRecords
<1>4. CASE AuthAccepted(q) \/ AuthStale(q) \/ RefreshGranted(q) \/ Exchange(q) \/ Upsert(q)
  BY <1>4, TakenSlot, GrantedSlot, ExchangedSlot, UpsertedSlot
<1>5. CASE RefreshProfile(q)
  BY <1>0, <1>5 DEF RefreshProfile, RequestRecords
<1>6. CASE SaveTokens(q)
  BY <1>0, <1>6 DEF SaveTokens, RequestRecords
<1>7. CASE \/ Page(q) \/ Guarded(q) \/ Logout(q) \/ Delete(q) \/ DeleteFails(q)
           \/ Login(q) \/ LoginRefused(q) \/ CallbackRefused(q) \/ ExchangeRefused(q)
           \/ UpsertFails(q) \/ CreateLogin(q) \/ CreateLoginFails(q)
  BY <1>0, <1>7, Answered
<1>8. QED
  BY <1>1, <1>2, <1>3, <1>4, <1>5, <1>6, <1>7, SlotChange
  DEF OwnAction, Authenticate, Handle, TokenEndpoint

\* A request that has a login in its hands had it before, or took its row.
LEMMA CarryingAfter ==
  ASSUME IInv, Next, NEW q \in Requests, Carrying(q)'
  PROVE  \/ /\ Carrying(q) /\ req'[q].st = req[q].st
            /\ req'[q].pc = req[q].pc \/ Exchange(q) \/ Upsert(q)
         \/ Callback(q) /\ req'[q].pc = "exchange"
<1>1. req'[q].pc \in {"exchange", "upsert", "create"}
  BY DEF Carrying
<1>2. CASE Freed(q)
  <2>1. req'[q].pc = "exchange"
    BY <1>1, <1>2 DEF Freed
  <2>2. QED BY <2>1, ExchangeAfter DEF Carrying
<1>3. CASE Carries(q)
  BY <1>1, <1>3 DEF Carries, Carrying
<1>4. CASE AuthAccepted(q) \/ AuthStale(q) \/ RefreshGranted(q)
  BY <1>1, <1>4, TakenSlot, GrantedSlot
<1>5. CASE Exchange(q) \/ Upsert(q)
  BY <1>5, ExchangedSlot, UpsertedSlot DEF Carrying
<1>6. QED BY <1>2, <1>3, <1>4, <1>5, SlotStep DEF SlotEvent

\* What a callback does to its login.
LEMMA CallbackTakes ==
  ASSUME IInv, NEW q \in Requests, Callback(q)
  PROVE  /\ ~ Carrying(q) /\ req[q].st \in DOMAIN consent
         /\ req[q].st \in DOMAIN oauth2_state
         /\ DOMAIN oauth2_state' = DOMAIN oauth2_state \ {req[q].st}
         /\ \/ req'[q].pc = "respond"
            \/ req'[q].pc = "exchange" /\ req'[q].st = req[q].st
         /\ \A p \in Requests \ {q} : req'[p] = req[p]
         /\ UNCHANGED <<next, consent, session>>
<1>0. req \in [Requests -> RequestRecords]
  BY DEF IInv, TypeOK
<1>1. /\ ~ Carrying(q) /\ req[q].st \in DOMAIN oauth2_state
      /\ DOMAIN oauth2_state' = DOMAIN oauth2_state \ {req[q].st}
      /\ UNCHANGED <<next, consent, session>>
  BY DEF Callback, AtHandler, Carrying, GetAndDeleteOAuth2State, Drop, providerVars
<1>2. req[q].st \in DOMAIN consent
  BY DEF Callback, AtHandler, IInv, Safe, InHand
<1>3. Answer(q, "error") \/ req' = [req EXCEPT ![q].pc = "exchange"]
  BY DEF Callback
<1>4. CASE Answer(q, "error")
  BY <1>0, <1>1, <1>2, <1>4 DEF Answer, RequestRecords
<1>5. CASE req' = [req EXCEPT ![q].pc = "exchange"]
  BY <1>0, <1>1, <1>2, <1>5 DEF RequestRecords
<1>6. QED BY <1>3, <1>4, <1>5

\* Only a login adds a row, under a state that nobody has.
LEMMA RowsAfter ==
  ASSUME IInv, Next
  PROVE  DOMAIN oauth2_state' \subseteq DOMAIN oauth2_state \cup {next.state}
<1>1. ASSUME NEW r \in Requests,
             \/ Start(r) \/ AuthRefused(r) \/ AuthAccepted(r) \/ AuthStale(r)
             \/ RefreshGranted(r) \/ RefreshRefused(r) \/ RefreshLost(r)
             \/ RefreshProfile(r) \/ RefreshProfileFails(r) \/ SaveTokens(r)
             \/ SaveTokensFails(r) \/ Page(r) \/ Guarded(r)
      PROVE  oauth2_state' = oauth2_state
  BY <1>1 DEF tables, Start, AuthRefused, AuthAccepted, AuthStale, RefreshGranted,
     RefreshRefused, RefreshLost, RefreshProfile, RefreshProfileFails, SaveTokens,
     SaveTokensFails, Page, Guarded
<1>2. ASSUME NEW r \in Requests,
             \/ Logout(r) \/ Delete(r) \/ DeleteFails(r) \/ Exchange(r)
             \/ ExchangeRefused(r) \/ Upsert(r) \/ UpsertFails(r) \/ CreateLogin(r)
             \/ CreateLoginFails(r) \/ Deliver(r) \/ Vanish(r)
      PROVE  oauth2_state' = oauth2_state
  BY <1>2 DEF tables, Logout, Delete, DeleteFails, Exchange, ExchangeRefused, Upsert,
     UpsertFails, CreateLogin, CreateLoginFails, Deliver, Vanish
<1>3. ASSUME NEW r \in Requests, Login(r) \/ LoginRefused(r)
      PROVE  DOMAIN oauth2_state' \subseteq DOMAIN oauth2_state \cup {next.state}
  BY <1>3 DEF Login, LoginRefused, CreateOAuth2State, Put
<1>4. ASSUME NEW r \in Requests, Callback(r) \/ CallbackRefused(r)
      PROVE  DOMAIN oauth2_state' \subseteq DOMAIN oauth2_state
  BY <1>4 DEF Callback, CallbackRefused, GetAndDeleteOAuth2State, Drop
<1>5. ASSUME CollectStates \/ BootStates
      PROVE  DOMAIN oauth2_state' \subseteq DOMAIN oauth2_state
  BY <1>5 DEF CollectStates, BootStates, DeleteExpiredOAuth2States, Drop
<1>6. ASSUME \/ CollectSessions \/ Crash \/ BootSessions \/ Clock
             \/ \E b \in Browsers : ForgetCookie(b)
      PROVE  oauth2_state' = oauth2_state
  BY <1>6 DEF tables, CollectSessions, Crash, BootSessions, Clock, ForgetCookie
<1>7. QED
  BY <1>1, <1>2, <1>3, <1>4, <1>5, <1>6 DEF Next, Authenticate, Handle, TokenEndpoint

LEMMA OneCarrierStep ==
  ASSUME IInv, Next, OneCarrier
  PROVE  OneCarrier'
<1> DEFINE Kept(q) == Carrying(q) /\ req'[q].st = req[q].st
<1>1. ASSUME NEW q \in Requests, Carrying(q)'
      PROVE  Kept(q) \/ Callback(q)
  BY <1>1, CarryingAfter
<1>2. ASSUME NEW q \in Requests, Carrying(q)'
      PROVE  req'[q].st \notin DOMAIN oauth2_state'
  <2>1. CASE Kept(q)
    <3>1. req[q].st \in DOMAIN consent /\ req[q].st \notin DOMAIN oauth2_state
      BY <2>1 DEF OneCarrier, Carrying, IInv, Safe, InHand
    <3>2. req[q].st # next.state
      BY <3>1 DEF IInv, TypeOK, IsTable
    <3>3. QED BY <2>1, <3>1, <3>2, RowsAfter
  <2>2. CASE Callback(q)
    BY <1>2, <2>2, CallbackTakes DEF Carrying
  <2>3. QED BY <1>1, <1>2, <2>1, <2>2
<1>3. ASSUME NEW q \in Requests, NEW p \in Requests, Callback(q), Carrying(q)',
             Carrying(p)', p # q
      PROVE  req'[p].st # req'[q].st
  <2>1. req'[p] = req[p] /\ req'[q].st = req[q].st /\ req[q].st \in DOMAIN oauth2_state
    BY <1>3, CallbackTakes DEF Carrying
  <2>2. req[p].st \notin DOMAIN oauth2_state
    BY <1>3, <2>1 DEF Carrying, OneCarrier
  <2>3. QED BY <2>1, <2>2
<1>4. ASSUME NEW q \in Requests, NEW p \in Requests, Carrying(q)', Carrying(p)',
             req'[p].st = req'[q].st
      PROVE  p = q
  <2>1. CASE Kept(p) /\ Kept(q)
    BY <1>4, <2>1 DEF OneCarrier
  <2>2. QED BY <1>1, <1>3, <1>4, <2>1
<1>5. \A r \in Requests :
        Carrying(r)' =>
          /\ req'[r].st \notin DOMAIN oauth2_state'
          /\ \A q \in Requests : Carrying(q)' /\ req'[q].st = req'[r].st => q = r
  BY <1>2, <1>4
<1>6. QED BY <1>5 DEF OneCarrier, Carrying

-----------------------------------------------------------------------------
(* What a step does to the users of the sessions *)

\* A session that was open keeps its user.
LEMMA HolderKept ==
  ASSUME IInv, Next, NEW s \in DOMAIN session', s < next.session
  PROVE  s \in DOMAIN session /\ UserAt(s)' = UserAt(s)
<1>1. s \in DOMAIN session /\ session'[s].account = session[s].account
  BY IdentityStep
<1>2. session[s].account \in DOMAIN account'
  BY <1>1, SafeStep DEF Safe, SessionsHaveAccounts
<1>3. session[s].account < next.account
  BY <1>1 DEF IInv, Safe, SessionsHaveAccounts, TypeOK, IsTable
<1>4. account'[session[s].account].user = account[session[s].account].user
  BY <1>2, <1>3, GrowStep DEF Grows
<1>5. QED BY <1>1, <1>4 DEF UserAt

LEMMA HoldersSame ==
  ASSUME IInv, Next, DOMAIN session' = DOMAIN session
  PROVE  Holders' = Holders
<1>1. \A s \in DOMAIN session' : s < next.session
  BY DEF IInv, TypeOK, IsTable
<1>2. \A s \in DOMAIN session' : UserAt(s)' = UserAt(s)
  BY <1>1, HolderKept
<1>3. QED BY <1>2 DEF Holders

\* Where none is opened, some end.
LEMMA HoldersFade ==
  ASSUME IInv, Next, next'.session = next.session
  PROVE  /\ DOMAIN Holders' \subseteq DOMAIN Holders
         /\ Holders' = [s \in DOMAIN Holders' |-> Holders[s]]
<1>1. \A s \in DOMAIN session' : s < next.session
  BY TypeStep DEF TypeOK, IsTable
<1>2. \A s \in DOMAIN session' : s \in DOMAIN session /\ UserAt(s)' = UserAt(s)
  BY <1>1, HolderKept
<1>3. QED BY <1>2 DEF Holders

-----------------------------------------------------------------------------
(* What a step does to the stage of a login *)

\* The step of a request leaves alone the logins it has no part in.
LEMMA StageKept ==
  ASSUME req \in [Requests -> RequestRecords], NEW r \in Requests, OwnAction(r), NEW st,
         Carrying(r) => req[r].st # st, Carrying(r)' => req'[r].st # st,
         st \in DOMAIN oauth2_state' <=> st \in DOMAIN oauth2_state
  PROVE  LoginStage(st)' = LoginStage(st)
<1>1. \A q \in Requests \ {r} : req'[q] = req[q]
  BY OneSlot
<1>2. ASSUME NEW pcs \in SUBSET {"exchange", "upsert", "create"}
      PROVE  (\E q \in Requests : req'[q].pc \in pcs /\ req'[q].st = st) <=>
             (\E q \in Requests : req[q].pc \in pcs /\ req[q].st = st)
  BY <1>1 DEF Carrying
<1>3. QED BY <1>2 DEF LoginStage

\* A login that no callback takes and no provider vouches for goes no further.
LEMMA StageFades ==
  ASSUME IInv, Next, OneCarrier, NEW st \in 1 .. next.state - 1,
         \A q \in Requests : ~ Callback(q) /\ ~ Exchange(q)
  PROVE  LoginStage(st)' \in {LoginStage(st), "over"}
<1>1. st \in DOMAIN oauth2_state' => st \in DOMAIN oauth2_state
  <2>1. st # next.state
    BY DEF IInv, TypeOK
  <2>2. QED BY <2>1, RowsAfter
<1>2. ASSUME NEW q \in Requests, Carrying(q)', req'[q].st = st
      PROVE  /\ Carrying(q) /\ req[q].st = st /\ st \notin DOMAIN oauth2_state
             /\ req'[q].pc = "exchange" <=> req[q].pc = "exchange"
  <2>1. /\ Carrying(q) /\ req[q].st = st
        /\ req'[q].pc = req[q].pc \/ Upsert(q)
    BY <1>2, CarryingAfter
  <2>2. Upsert(q) => req[q].pc = "upsert" /\ req'[q].pc = "create"
    BY UpsertedSlot
  <2>3. QED BY <2>1, <2>2 DEF OneCarrier
<1>3. ASSUME NEW q \in Requests, req'[q].pc = "exchange", req'[q].st = st
      PROVE  LoginStage(st)' = LoginStage(st)
  <2>1. /\ req[q].pc = "exchange" /\ req[q].st = st /\ st \notin DOMAIN oauth2_state
    BY <1>2, <1>3 DEF Carrying
  <2>2. QED BY <1>1, <1>3, <2>1 DEF LoginStage
<1>4. ASSUME NEW q \in Requests, req'[q].pc \in {"upsert", "create"}, req'[q].st = st
      PROVE  LoginStage(st)' = LoginStage(st)
  <2>1. /\ req[q].pc \in {"upsert", "create"} /\ req[q].st = st
        /\ st \notin DOMAIN oauth2_state
    BY <1>2, <1>4 DEF Carrying
  <2>2. \A p \in Requests : req[p].pc = "exchange" => req[p].st # st
    BY <2>1 DEF OneCarrier, Carrying
  <2>3. \A p \in Requests : req'[p].pc = "exchange" => req'[p].st # st
    BY <2>2, <1>2 DEF Carrying
  <2>4. QED BY <1>1, <1>4, <2>1, <2>2, <2>3 DEF LoginStage
<1>5. CASE ~ \E q \in Requests : Carrying(q)' /\ req'[q].st = st
  BY <1>1, <1>5 DEF LoginStage, Carrying
<1>6. QED BY <1>3, <1>4, <1>5 DEF Carrying

LEMMA AbandonStep ==
  ASSUME next'.state = next.state, consent' = consent, Holders' = Holders,
         \A st \in 1 .. next.state - 1 : LoginStage(st)' \in {LoginStage(st), "over"}
  PROVE  Flow!Abandon
<1>1. DOMAIN Stage' = DOMAIN Stage
  BY DEF Stage
<1>2. \A st \in DOMAIN Stage : Stage'[st] \in {Stage[st], "over"}
  BY DEF Stage
<1>3. Stage' = [st \in DOMAIN Stage |->
                  IF Stage'[st] = Stage[st] THEN Stage[st] ELSE "over"]
  BY <1>1, <1>2 DEF Stage
<1>4. QED BY <1>1, <1>3 DEF Flow!Abandon, Stage, Holders

\* One login moves.
LEMMA MoveStep ==
  ASSUME NEW st \in 1 .. next.state - 1, NEW to, LoginStage(st)' = to,
         next'.state = next.state,
         \A q \in (1 .. next.state - 1) \ {st} : LoginStage(q)' = LoginStage(q)
  PROVE  Flow!Moves(st, LoginStage(st), to)
<1>1. Stage[st] = LoginStage(st)
  BY DEF Stage
<1>2. Stage' = [q \in DOMAIN Stage \cup {st} |-> IF q = st THEN to ELSE Stage[q]]
  BY DEF Stage
<1>3. QED BY <1>1, <1>2 DEF Flow!Moves, Flow!With, Stage

-----------------------------------------------------------------------------
(* The steps that take a login further, one by one *)

\* A callback presents its login, or finds it too old.
LEMMA PresentStep ==
  ASSUME IInv, Next, OneCarrier, NEW r \in Requests, Callback(r), NEW st, st = req[r].st
  PROVE  Flow!Present \/ Flow!Abandon
<1>1. /\ ~ Carrying(r) /\ st \in DOMAIN consent /\ st \in DOMAIN oauth2_state
      /\ DOMAIN oauth2_state' = DOMAIN oauth2_state \ {st}
      /\ \/ req'[r].pc = "respond"
         \/ req'[r].pc = "exchange" /\ req'[r].st = st
      /\ \A p \in Requests \ {r} : req'[p] = req[p]
      /\ UNCHANGED <<next, consent, session>>
  BY CallbackTakes
<1>2. st \in 1 .. next.state - 1 /\ req \in [Requests -> RequestRecords]
  BY <1>1 DEF IInv, TypeOK, IsTable
<1>3. Holders' = Holders
  BY <1>1, HoldersSame
<1>4. LoginStage(st) = "begun"
  BY <1>1 DEF LoginStage
<1>5. OwnAction(r)
  BY DEF OwnAction, Handle
<1>6. Carrying(r)' => req'[r].st = st
  BY <1>1 DEF Carrying
<1>7. ASSUME NEW q \in (1 .. next.state - 1) \ {st} PROVE LoginStage(q)' = LoginStage(q)
  BY <1>1, <1>2, <1>5, <1>6, <1>7, StageKept
<1>8. CASE req'[r].pc = "exchange"
  <2>1. req'[r].st = st /\ st \notin DOMAIN oauth2_state'
    BY <1>1, <1>8
  <2>2. \E q \in Requests : req'[q].pc = "exchange" /\ req'[q].st = st
    BY <1>8, <2>1
  <2>3. LoginStage(st)' = "presented"
    BY <2>1, <2>2 DEF LoginStage
  <2>4. Flow!Moves(st, "begun", "presented")
    BY <1>1, <1>2, <1>4, <1>7, <2>3, MoveStep
  <2>5. QED BY <1>1, <1>3, <2>4 DEF Flow!Present, Holders
<1>9. CASE req'[r].pc = "respond"
  <2>1. ASSUME NEW q \in Requests, req'[q].st = st PROVE ~ Carrying(q)'
    <3>1. CASE q = r
      BY <1>9, <3>1 DEF Carrying
    <3>2. CASE q # r
      <4>1. req'[q] = req[q]
        BY <1>1, <3>2
      <4>2. QED BY <4>1, <1>1, <2>1 DEF Carrying, OneCarrier
    <3>3. QED BY <3>1, <3>2
  <2>2. LoginStage(st)' = "over"
    BY <1>1, <2>1 DEF LoginStage, Carrying
  <2>3. QED BY <1>1, <1>3, <1>7, <2>2, AbandonStep
<1>10. QED BY <1>1, <1>8, <1>9

\* The provider vouches for the user of a login that was presented.
LEMMA TrustStep ==
  ASSUME IInv, Next, OneCarrier, NEW r \in Requests, Exchange(r), NEW st, st = req[r].st
  PROVE  Flow!Trust
<1>1. /\ req[r].pc = "exchange" /\ req'[r].pc = "upsert" /\ req'[r].st = st
      /\ UNCHANGED <<oauth2_state, session, consent>> /\ next'.state = next.state
  BY ExchangedSlot DEF Exchange, tables, IInv, TypeOK
<1>2. Carrying(r) /\ st \in DOMAIN consent /\ st \notin DOMAIN oauth2_state
  BY <1>1 DEF Carrying, OneCarrier, IInv, Safe, InHand
<1>3. st \in 1 .. next.state - 1 /\ req \in [Requests -> RequestRecords]
  BY <1>2 DEF IInv, TypeOK, IsTable
<1>4. Holders' = Holders
  BY <1>1, HoldersSame
<1>5. OwnAction(r)
  BY DEF OwnAction, TokenEndpoint
<1>6. ASSUME NEW q \in (1 .. next.state - 1) \ {st} PROVE LoginStage(q)' = LoginStage(q)
  BY <1>1, <1>3, <1>5, <1>6, StageKept DEF Carrying
<1>7. LoginStage(st) = "presented"
  BY <1>1, <1>2 DEF LoginStage
<1>8. LoginStage(st)' = "trusted"
  <2>1. ASSUME NEW q \in Requests, q # r, req'[q].st = st PROVE req'[q].pc # "exchange"
    <3>1. req'[q] = req[q]
      BY <1>3, <1>5, <2>1, OneSlot
    <3>2. QED BY <1>2, <2>1, <3>1 DEF Carrying, OneCarrier
  <2>2. \A q \in Requests : req'[q].pc = "exchange" => req'[q].st # st
    BY <1>1, <2>1
  <2>3. QED BY <1>1, <1>2, <2>2 DEF LoginStage
<1>9. Flow!Moves(st, "presented", "trusted")
  BY <1>1, <1>3, <1>6, <1>7, <1>8, MoveStep
<1>10. QED BY <1>1, <1>2, <1>4, <1>9 DEF Flow!Trust, Holders

\* A request that makes the session of its login.
Opening(r) ==
  /\ req[r].pc = "create" /\ req'[r].pc = "respond"
  /\ AccountReferenced(NewSession(r))
  /\ CreateSession(next.session, NewSession(r))
  /\ next'.state = next.state
  /\ UNCHANGED <<oauth2_state, account, consent>>

LEMMA OpenStep ==
  ASSUME IInv, Next, Truth, Consents, OneCarrier, NEW r \in Requests, OwnAction(r),
         Opening(r), NEW st, st = req[r].st
  PROVE  Flow!Open
<1>1. /\ req[r].pc = "create" /\ req'[r].pc = "respond"
      /\ req[r].new \in DOMAIN account
      /\ session' = Put(session, next.session, NewSession(r))
      /\ next'.state = next.state
      /\ UNCHANGED <<oauth2_state, account, consent>>
  BY DEF Opening, AccountReferenced, NewSession, CreateSession
<1>2. Carrying(r) /\ st \in DOMAIN consent /\ st \notin DOMAIN oauth2_state
  BY <1>1 DEF Carrying, OneCarrier, IInv, Safe, InHand
<1>3. st \in 1 .. next.state - 1 /\ req \in [Requests -> RequestRecords]
  BY <1>2 DEF IInv, TypeOK, IsTable
<1>4. ASSUME NEW q \in (1 .. next.state - 1) \ {st} PROVE LoginStage(q)' = LoginStage(q)
  BY <1>1, <1>3, <1>4, StageKept DEF Carrying
<1>5. \A q \in Requests : req[q].pc = "exchange" => req[q].st # st
  BY <1>1, <1>2 DEF Carrying, OneCarrier
<1>6. LoginStage(st) = "trusted"
  BY <1>1, <1>2, <1>5 DEF LoginStage
<1>7. LoginStage(st)' = "over"
  <2>1. ASSUME NEW q \in Requests, req'[q].st = st PROVE ~ Carrying(q)'
    <3>1. CASE q = r
      BY <1>1, <3>1 DEF Carrying
    <3>2. CASE q # r
      <4>1. req'[q] = req[q]
        BY <1>3, <3>2, OneSlot
      <4>2. QED BY <4>1, <3>2, <1>2, <2>1 DEF Carrying, OneCarrier
    <3>3. QED BY <3>1, <3>2
  <2>2. QED BY <1>1, <1>2, <2>1 DEF LoginStage, Carrying
<1>8. Flow!Moves(st, "trusted", "over")
  BY <1>1, <1>3, <1>4, <1>6, <1>7, MoveStep
<1>9. next.session \notin DOMAIN session
  BY DEF IInv, TypeOK, IsTable
<1>10. account[req[r].new].user = consent[st]
  <2>1. Signing(r) /\ Holding(r) /\ Holder(r) = req[r].new
    BY <1>1 DEF Signing, Holding, Holder
  <2>2. issued[req[r].tok].user = account[req[r].new].user
    BY <1>1, <2>1 DEF Truth, HoldersTrue, PairOf
  <2>3. QED BY <2>1, <2>2 DEF Consents, SigningForConsenter
<1>11. /\ DOMAIN session' = DOMAIN session \cup {next.session}
       /\ session'[next.session].account = req[r].new
       /\ \A s \in DOMAIN session : session'[s] = session[s]
  BY <1>1, <1>9 DEF Put, NewSession
<1>12. Holders' = [s \in DOMAIN session \cup {next.session} |->
                     IF s = next.session THEN consent[st] ELSE UserAt(s)]
  BY <1>1, <1>10, <1>11 DEF Holders, UserAt
<1> DEFINE new == next.session
<1> HIDE DEF new
<1>13. /\ new \in DOMAIN session' /\ new \notin DOMAIN session
       /\ Holders' = Flow!With(Holders, new, consent[st])
  BY <1>9, <1>11, <1>12 DEF new, Holders, Flow!With
<1>14. QED BY <1>1, <1>2, <1>8, <1>13 DEF Flow!Open, Holders

\* A request that stores a fresh state.
Beginning(r) ==
  /\ req[r].pc = "handler" /\ req'[r].pc = "respond"
  /\ DOMAIN oauth2_state' = DOMAIN oauth2_state \cup {next.state}
  /\ next'.state = next.state + 1
  /\ UNCHANGED <<account, session, consent>>

LEMMA BeginStep ==
  ASSUME IInv, Next, NEW r \in Requests, OwnAction(r), Beginning(r), NEW st, st = next.state
  PROVE  Flow!Begin
<1>1. /\ st \in Nat \ {0} /\ next'.state = st + 1 /\ next.state = st
      /\ st \in DOMAIN oauth2_state' /\ req \in [Requests -> RequestRecords]
  BY DEF Beginning, IInv, TypeOK
<1>2. ASSUME NEW q \in 1 .. st - 1 PROVE LoginStage(q)' = LoginStage(q)
  <2>1. q # next.state
    BY <1>1
  <2>2. q \in DOMAIN oauth2_state' <=> q \in DOMAIN oauth2_state
    BY <2>1 DEF Beginning
  <2>3. QED BY <1>1, <2>2, StageKept DEF Beginning, Carrying
<1>3. LoginStage(st)' = "begun"
  BY <1>1 DEF LoginStage
<1>4. DOMAIN Stage' = 1 .. st /\ DOMAIN Stage = 1 .. st - 1
  BY <1>1 DEF Stage
<1>5. Stage' = [q \in DOMAIN Stage \cup {st} |-> IF q = st THEN "begun" ELSE Stage[q]]
  <2>1. 1 .. st = (1 .. st - 1) \cup {st} /\ st \notin 1 .. st - 1
    BY <1>1
  <2>2. Stage' = [q \in 1 .. st |-> Stage'[q]]
    BY <1>1 DEF Stage
  <2>3. \A q \in 1 .. st : Stage'[q] = IF q = st THEN "begun" ELSE Stage[q]
    BY <1>1, <1>2, <1>3, <2>1 DEF Stage
  <2>4. QED BY <1>4, <2>1, <2>2, <2>3
<1>6. st \in DOMAIN Stage' /\ st \notin DOMAIN Stage /\ Stage' = Flow!With(Stage, st, "begun")
  BY <1>1, <1>4, <1>5 DEF Flow!With
<1>7. Holders' = Holders /\ consent' = consent
  BY HoldersSame DEF Beginning
<1>8. QED BY <1>6, <1>7 DEF Flow!Begin, Stage, Holders

\* A redirect leads its user to consent.
LEMMA AgreeStep ==
  ASSUME IInv, Next, FreshStates, NEW r \in Requests, Deliver(r), Asking(r),
         NEW u \in Users, Consent(req[r].st, u), NEW st, st = req[r].st
  PROVE  Flow!Agree
<1>1. /\ st \in 1 .. next.state - 1 /\ st \notin DOMAIN consent
      /\ req \in [Requests -> RequestRecords]
  BY DEF Asking, FreshStates, IInv, Safe, InHand, TypeOK
<1>2. /\ req[r].pc = "respond" /\ req'[r].pc = "idle"
      /\ UNCHANGED <<next, oauth2_state, account, session>>
  BY <1>1 DEF Deliver, tables, Idle, NoRequest
<1>3. OwnAction(r)
  BY DEF OwnAction
<1>4. ASSUME NEW q \in 1 .. next.state - 1 PROVE LoginStage(q)' = LoginStage(q)
  BY <1>1, <1>2, <1>3, StageKept DEF Carrying
<1>5. Stage' = Stage
  BY <1>2, <1>4 DEF Stage
<1>6. Holders' = Holders
  BY <1>2, HoldersSame
<1>7. consent' = Flow!With(consent, st, consent'[st]) /\ st \in DOMAIN consent'
  BY DEF Consent, Put, Flow!With
<1>8. st \in DOMAIN Stage
  BY <1>1 DEF Stage
<1>9. QED BY <1>1, <1>5, <1>6, <1>7, <1>8 DEF Flow!Agree, Stage, Holders

\* A step that touches no login; sessions may end.
Ending ==
  /\ \/ req' = req
     \/ \E r \in Requests :
          OwnAction(r) /\ req[r].pc = "handler" /\ req'[r].pc = "respond"
  /\ UNCHANGED <<next, oauth2_state, consent>>

LEMMA CloseStep ==
  ASSUME IInv, Next, Ending
  PROVE  Flow!Close
<1>1. UNCHANGED <<next, oauth2_state, consent>> /\ req \in [Requests -> RequestRecords]
  BY DEF Ending, IInv, TypeOK
<1>2. ASSUME NEW q \in 1 .. next.state - 1 PROVE LoginStage(q)' = LoginStage(q)
  <2>1. CASE req' = req
    BY <1>1, <2>1 DEF LoginStage
  <2>2. ASSUME NEW r \in Requests, OwnAction(r), req[r].pc = "handler", req'[r].pc = "respond"
        PROVE  LoginStage(q)' = LoginStage(q)
    BY <1>1, <2>2, StageKept DEF Carrying
  <2>3. QED BY <2>1, <2>2 DEF Ending
<1>3. Stage' = Stage
  BY <1>1, <1>2 DEF Stage
<1>4. /\ DOMAIN Holders' \subseteq DOMAIN Holders
      /\ Holders' = [s \in DOMAIN Holders' |-> Holders[s]]
  BY <1>1, HoldersFade
<1>5. QED BY <1>1, <1>3, <1>4 DEF Flow!Close, Stage, Holders

-----------------------------------------------------------------------------
(* Every step is one of these, or takes no login further *)

Quiet == next'.state = next.state /\ consent' = consent /\ DOMAIN session' = DOMAIN session

LEMMA QuietStep ==
  ASSUME IInv, Next, OneCarrier, Quiet
  PROVE  Flow!Next
<1>1. CASE \E r \in Requests : Callback(r)
  BY <1>1, PresentStep DEF Flow!Next
<1>2. CASE \E r \in Requests : Exchange(r)
  BY <1>2, TrustStep DEF Flow!Next
<1>3. CASE \A r \in Requests : ~ Callback(r) /\ ~ Exchange(r)
  <2>1. \A st \in 1 .. next.state - 1 : LoginStage(st)' \in {LoginStage(st), "over"}
    BY <1>3, StageFades
  <2>2. Holders' = Holders
    BY HoldersSame DEF Quiet
  <2>3. Flow!Abandon
    BY <2>1, <2>2, AbandonStep DEF Quiet
  <2>4. QED BY <2>3 DEF Flow!Next
<1>4. QED BY <1>1, <1>2, <1>3

\* The steps that may do more, action by action.
LEMMA LoginBegins ==
  ASSUME IInv, NEW r \in Requests, Login(r) \/ LoginRefused(r)
  PROVE  Beginning(r) \/ Quiet
<1>0. req \in [Requests -> RequestRecords] /\ next.state \in Nat
  BY DEF IInv, TypeOK
<1>1. CASE Login(r)
  <2>1. req'[r].pc = "respond"
    BY <1>0, <1>1, Answered
  <2>2. /\ req[r].pc = "handler" /\ next' = [next EXCEPT !.state = @ + 1]
        /\ CreateOAuth2State(next.state, now + StateTTL)
        /\ UNCHANGED <<account, session, consent>>
    BY <1>1 DEF Login, AtHandler, providerVars
  <2>3. next'.state = next.state + 1
    BY <2>2 DEF IInv, TypeOK
  <2>4. QED BY <2>1, <2>2, <2>3 DEF Beginning, CreateOAuth2State, Put
<1>2. CASE LoginRefused(r)
  <2>1. req'[r].pc = "respond"
    BY <1>0, <1>2, Answered
  <2>2. /\ req[r].pc = "handler" /\ UNCHANGED <<account, session, consent>>
        /\ \/ UNCHANGED next
           \/ /\ CreateOAuth2State(next.state, now + StateTTL)
              /\ next' = [next EXCEPT !.state = @ + 1]
    BY <1>2 DEF LoginRefused, AtHandler, providerVars
  <2>3. CASE UNCHANGED next
    BY <2>2, <2>3 DEF Quiet
  <2>4. CASE /\ CreateOAuth2State(next.state, now + StateTTL)
             /\ next' = [next EXCEPT !.state = @ + 1]
    <3>1. next'.state = next.state + 1
      BY <2>4 DEF IInv, TypeOK
    <3>2. QED BY <2>1, <2>2, <2>4, <3>1 DEF Beginning, CreateOAuth2State, Put
  <2>5. QED BY <2>2, <2>3, <2>4
<1>3. QED BY <1>1, <1>2

LEMMA CallbackOpens ==
  ASSUME IInv, NEW r \in Requests, CreateLogin(r) \/ CreateLoginFails(r)
  PROVE  Opening(r) \/ Quiet
<1>0. req \in [Requests -> RequestRecords]
  BY DEF IInv, TypeOK
<1>1. CASE CreateLogin(r)
  <2>1. req'[r].pc = "respond"
    BY <1>0, <1>1, Answered
  <2>2. next'.state = next.state
    BY <1>1 DEF CreateLogin, IInv, TypeOK
  <2>3. QED BY <1>1, <2>1, <2>2 DEF CreateLogin, Opening, providerVars
<1>2. CASE CreateLoginFails(r)
  <2>1. req'[r].pc = "respond"
    BY <1>0, <1>2, Answered
  <2>2. /\ req[r].pc = "create" /\ UNCHANGED <<oauth2_state, account, consent>>
        /\ \/ UNCHANGED <<session, next>>
           \/ /\ AccountReferenced(NewSession(r))
              /\ CreateSession(next.session, NewSession(r))
              /\ next' = [next EXCEPT !.session = @ + 1]
    BY <1>2 DEF CreateLoginFails, providerVars
  <2>3. CASE UNCHANGED <<session, next>>
    BY <2>2, <2>3 DEF Quiet
  <2>4. CASE /\ AccountReferenced(NewSession(r))
             /\ CreateSession(next.session, NewSession(r))
             /\ next' = [next EXCEPT !.session = @ + 1]
    <3>1. next'.state = next.state
      BY <2>4 DEF IInv, TypeOK
    <3>2. QED BY <2>1, <2>2, <2>4, <3>1 DEF Opening
  <2>5. QED BY <2>2, <2>3, <2>4
<1>3. QED BY <1>1, <1>2

LEMMA SessionsEnd ==
  ASSUME IInv, \/ \E r \in Requests : Logout(r) \/ Delete(r) \/ DeleteFails(r)
               \/ CollectSessions \/ BootSessions
  PROVE  Ending
<1>0. req \in [Requests -> RequestRecords]
  BY DEF IInv, TypeOK
<1>1. ASSUME NEW r \in Requests, Logout(r) \/ Delete(r) \/ DeleteFails(r)
      PROVE  Ending
  <2>1. req'[r].pc = "respond"
    BY <1>0, <1>1, Answered
  <2>2. req[r].pc = "handler" /\ UNCHANGED <<next, oauth2_state, consent>>
    BY <1>1 DEF Logout, Delete, DeleteFails, AtHandler, providerVars
  <2>3. OwnAction(r)
    BY <1>1 DEF OwnAction, Handle
  <2>4. QED BY <2>1, <2>2, <2>3 DEF Ending
<1>2. CASE CollectSessions \/ BootSessions
  BY <1>2 DEF CollectSessions, BootSessions, Ending, providerVars
<1>3. QED BY <1>1, <1>2

LEMMA QuietActions ==
  ASSUME IInv, Next
  PROVE  \/ Quiet \/ Ending
         \/ \E r \in Requests : OwnAction(r) /\ (Beginning(r) \/ Opening(r))
         \/ \E r \in Requests : Deliver(r) /\ Asking(r)
<1>1. ASSUME NEW r \in Requests,
             \/ Start(r) \/ AuthRefused(r) \/ AuthAccepted(r) \/ AuthStale(r)
             \/ RefreshRefused(r) \/ RefreshProfile(r) \/ RefreshProfileFails(r)
             \/ Page(r) \/ Guarded(r) \/ Callback(r) \/ CallbackRefused(r) \/ Vanish(r)
      PROVE  UNCHANGED <<next, consent, session>>
  BY <1>1 DEF tables, providerVars, Start, AuthRefused, AuthAccepted, AuthStale,
     RefreshRefused, RefreshProfile, RefreshProfileFails, Page, Guarded, Callback,
     CallbackRefused, Vanish
<1>2. ASSUME NEW r \in Requests,
             RefreshGranted(r) \/ RefreshLost(r) \/ Exchange(r) \/ ExchangeRefused(r)
      PROVE  Quiet
  <2>1. next' = [next EXCEPT !.token = @ + 1] \/ next' = next
    BY <1>2 DEF RefreshGranted, RefreshLost, Exchange, ExchangeRefused
  <2>2. next'.state = next.state
    BY <2>1 DEF IInv, TypeOK
  <2>3. UNCHANGED <<consent, session>>
    BY <1>2 DEF RefreshGranted, RefreshLost, Exchange, ExchangeRefused, tables, providerVars
  <2>4. QED BY <2>2, <2>3 DEF Quiet
<1>3. ASSUME NEW r \in Requests, SaveTokens(r) \/ SaveTokensFails(r)
      PROVE  Quiet
  <2>1. UpdateSession(req[r].sid, TokenRow(r)) \/ UNCHANGED session
    BY <1>3 DEF SaveTokens, SaveTokensFails
  <2>2. DOMAIN session' = DOMAIN session
    BY <2>1 DEF UpdateSession
  <2>3. UNCHANGED <<next, consent>>
    BY <1>3 DEF SaveTokens, SaveTokensFails, providerVars
  <2>4. QED BY <2>2, <2>3 DEF Quiet
<1>4. ASSUME NEW r \in Requests, Upsert(r) \/ UpsertFails(r)
      PROVE  Quiet
  <2>1. next' = next \/ \E u : TakeAccountId(u)
    BY <1>4 DEF Upsert, UpsertFails
  <2>2. next'.state = next.state
    BY <2>1 DEF TakeAccountId, IInv, TypeOK
  <2>3. UNCHANGED <<consent, session>>
    BY <1>4 DEF Upsert, UpsertFails, providerVars
  <2>4. QED BY <2>2, <2>3 DEF Quiet
<1>5. ASSUME NEW r \in Requests, Deliver(r)
      PROVE  Quiet \/ Asking(r)
  <2>1. \/ UNCHANGED consent
        \/ Asking(r)
    BY <1>5 DEF Deliver, Asking
  <2>2. UNCHANGED <<next, session>>
    BY <1>5 DEF Deliver, tables
  <2>3. QED BY <2>1, <2>2 DEF Quiet
<1>6. ASSUME NEW r \in Requests, Login(r) \/ LoginRefused(r)
      PROVE  Quiet \/ (OwnAction(r) /\ Beginning(r))
  BY <1>6, LoginBegins DEF OwnAction, Handle
<1>7. ASSUME NEW r \in Requests, CreateLogin(r) \/ CreateLoginFails(r)
      PROVE  Quiet \/ (OwnAction(r) /\ Opening(r))
  BY <1>7, CallbackOpens DEF OwnAction, Handle
<1>8. ASSUME \/ CollectStates \/ Crash \/ BootStates \/ Clock
             \/ \E b \in Browsers : ForgetCookie(b)
      PROVE  Quiet
  BY <1>8 DEF Quiet, tables, providerVars, CollectStates, Crash, BootStates, Clock,
     ForgetCookie
<1>9. QED
  BY <1>1, <1>2, <1>3, <1>4, <1>5, <1>6, <1>7, <1>8, SessionsEnd
  DEF Next, Authenticate, Handle, TokenEndpoint, Quiet

LEMMA FlowStep ==
  ASSUME IInv, Next, Truth, Consents, OneCarrier
  PROVE  Flow!Next
<1>1. ASSUME NEW r \in Requests, OwnAction(r), Beginning(r) PROVE Flow!Next
  BY <1>1, BeginStep DEF Flow!Next
<1>2. ASSUME NEW r \in Requests, OwnAction(r), Opening(r) PROVE Flow!Next
  BY <1>2, OpenStep DEF Flow!Next
<1>3. ASSUME NEW r \in Requests, Deliver(r), Asking(r) PROVE Flow!Next
  <2>1. PICK u \in Users : Consent(req[r].st, u)
    BY <1>3 DEF Deliver, Asking
  <2>2. QED BY <1>3, <2>1, AgreeStep DEF Flow!Next, Consents
<1>4. CASE Ending
  BY <1>4, CloseStep DEF Flow!Next
<1>5. CASE Quiet
  BY <1>5, QuietStep
<1>6. QED BY <1>1, <1>2, <1>3, <1>4, <1>5, QuietActions

-----------------------------------------------------------------------------
(* Initial states, and the theorem *)

LEMMA FlowInit ==
  ASSUME Init
  PROVE  Flow!Init /\ OneCarrier
<1>1. \A r \in Requests : req[r].pc = "idle"
  BY DEF Init, Idle, NoRequest
<1>2. DOMAIN consent = {}
  BY DEF Init, NoRows
<1>3. next.state = 1
  <2>1. CASE EmptyDatabase
    BY <2>1 DEF EmptyDatabase
  <2>2. ASSUME NEW b \in Browsers, NEW u \in Users, NEW k \in Keys, OneLogin(b, u, k)
        PROVE  next.state = 1
    BY <2>2 DEF OneLogin
  <2>3. QED BY <2>1, <2>2 DEF Init
<1>4. DOMAIN Stage = {}
  BY <1>3 DEF Stage
<1>5. Flow!Init
  BY <1>2, <1>4 DEF Flow!Init, Stage
<1>6. QED BY <1>1, <1>5 DEF OneCarrier, Carrying

LEMMA FlowStutter ==
  ASSUME UNCHANGED vars
  PROVE  UNCHANGED AbstractVars /\ (OneCarrier => OneCarrier')
<1>1. UNCHANGED <<req, next, oauth2_state, account, session, consent>>
  BY DEF vars, tables, providerVars
<1>2. \A st : LoginStage(st)' = LoginStage(st)
  BY <1>1 DEF LoginStage
<1>3. Stage' = Stage
  BY <1>1, <1>2 DEF Stage
<1>4. Holders' = Holders
  BY <1>1 DEF Holders, UserAt
<1>5. OneCarrier => OneCarrier'
  BY <1>1 DEF OneCarrier, Carrying
<1>6. QED BY <1>1, <1>3, <1>4, <1>5 DEF AbstractVars

\* A login that left the table is in the hands of one request, always: the
\* callback that removed its state (auth.go:195).
LEMMA OneCarrierInvariance == Spec => []OneCarrier
<1>1. Init => OneCarrier
  BY FlowInit
<1>2. IInv /\ OneCarrier /\ [Next]_vars => OneCarrier'
  BY OneCarrierStep, FlowStutter
<1>3. QED BY <1>1, <1>2, Invariance, PTL DEF Spec

\* However often its callback is called and whatever happens between the
\* statements of one, a login is presented once and opens one session at most,
\* for the user who consented to it (auth.go:119-265).
THEOREM FlowImplemented == Spec => ImplementsFlow
<1>1. Init => Flow!Init
  BY FlowInit
<1>2. IInv /\ Truth /\ Consents /\ OneCarrier /\ [Next]_vars
        => [Flow!Next]_(Flow!flowVars)
  BY FlowStep, FlowStutter DEF AbstractVars, Stage, Holders, Flow!flowVars
<1>3. QED
  BY <1>1, <1>2, Invariance, TruthInvariance, ConsentsInvariance, OneCarrierInvariance,
     PTL DEF Spec, ImplementsFlow, Flow!Spec
=============================================================================
