-------------------------- MODULE AuthStoreProofs --------------------------
(***************************************************************************)
(* The sign-in code implements SessionStore: each of the seven events of   *)
(* AuthProofs is a step of the abstract store or leaves it alone.          *)
(***************************************************************************)
EXTENDS AuthProofs

Members == DOMAIN account
Former  == (1 .. next.account - 1) \ DOMAIN account
Holder  == [s \in DOMAIN session |-> session[s].account]
Ended   == (1 .. next.session - 1) \ DOMAIN session

AbstractVars == <<Members, Former, Holder, Ended>>

\* The initial database is an initial store.
LEMMA StoreInit ==
  ASSUME IInv, Init
  PROVE  Store!Init
<1>1. CASE EmptyDatabase
  BY <1>1 DEF Init, EmptyDatabase, NoRows, Store!Init
<1>2. CASE \E b \in Browsers, u \in Users, k \in Keys : OneLogin(b, u, k)
  <2>1. PICK b \in Browsers, u \in Users, k \in Keys : OneLogin(b, u, k)
    BY <1>2
  <2>2. /\ DOMAIN account = {1} /\ DOMAIN session = {1} /\ session[1].account = 1
        /\ next.account = 2 /\ next.session = 2
    BY <2>1 DEF OneLogin, Put, NoRows
  <2>3. QED
    BY <2>2 DEF Store!Init
<1>3. QED BY <1>1, <1>2 DEF Init

\* Deleting rows closes those sessions.
LEMMA RowsDropped ==
  ASSUME IInv, NEW K, session' = Drop(session, K), next'.session = next.session
  PROVE  /\ DOMAIN session' = DOMAIN session \ K
         /\ Holder' = [s \in DOMAIN session \ K |-> Holder[s]]
         /\ Ended' = Ended \cup (DOMAIN session \cap K)
<1>1. DOMAIN session' = DOMAIN session \ K
  BY DEF Drop
<1>2. Holder' = [s \in DOMAIN session \ K |-> Holder[s]]
  BY <1>1 DEF Holder, Drop
<1>3. DOMAIN session \subseteq 1 .. (next.session - 1)
  BY DEF IInv, TypeOK, IsTable
<1>4. QED BY <1>1, <1>2, <1>3 DEF Ended

\* An event in which the rows of K go and the accounts stay.
LEMMA CloseStep ==
  ASSUME IInv, NEW K, session' = Drop(session, K), UNCHANGED <<account, next>>
  PROVE  Store!Close \/ UNCHANGED AbstractVars
<1> DEFINE S == DOMAIN session \cap K
<1>1. /\ Holder' = [s \in DOMAIN session \ K |-> Holder[s]]
      /\ Ended' = Ended \cup S
  BY RowsDropped
<1>2. UNCHANGED <<Members, Former>>
  BY DEF Members, Former
<1>3. DOMAIN Holder = DOMAIN session /\ DOMAIN session \ K = DOMAIN Holder \ S
  BY DEF Holder
<1>4. CASE S = {}
  <2>1. Holder' = Holder
    BY <1>1, <1>3, <1>4 DEF Holder
  <2>2. QED
    BY <1>1, <1>2, <1>4, <2>1 DEF AbstractVars
<1>5. CASE S # {}
  <2>1. S \in SUBSET DOMAIN Holder
    BY <1>3
  <2>2. QED
    BY <1>1, <1>2, <1>3, <1>5, <2>1 DEF Store!Close, Store!Keep, Members, Former, Holder, Ended
<1>6. QED BY <1>4, <1>5

\* Every step of the sign-in code is a step of the store or leaves it alone.
LEMMA StoreStep ==
  ASSUME IInv, [Next]_vars
  PROVE  [Store!Next]_AbstractVars
<1> USE DEF IInv, TypeOK
<1>1. CASE StoreKept
  BY <1>1 DEF StoreKept, AbstractVars, Members, Former, Holder, Ended
<1>2. CASE TokensSaved
  <2>1. PICK r \in Requests : UpdateSession(req[r].sid, TokenRow(r))
    BY <1>2 DEF TokensSaved
  <2>2. DOMAIN session' = DOMAIN session
    BY <2>1 DEF UpdateSession
  <2>3. \A s \in DOMAIN session : session'[s].account = session[s].account
    BY <2>1 DEF UpdateSession, IsTable, SessionRows
  <2>4. Holder' = Holder
    BY <2>2, <2>3 DEF Holder
  <2>5. QED
    BY <1>2, <2>2, <2>4 DEF TokensSaved, AbstractVars, Members, Former, Ended
<1>3. CASE LoggedOut
  BY <1>3, CloseStep DEF LoggedOut, DeleteSession, Store!Next
<1>4. CASE SessionsExpired
  BY <1>4, CloseStep DEF SessionsExpired, DeleteExpiredSessions, Store!Next
<1>5. CASE AccountDeleted
  <2>1. PICK r \in Requests : DeleteAccount(req[r].acct)
    BY <1>5 DEF AccountDeleted
  <2> DEFINE m == req[r].acct
             K == SessionsOf(m)
  <2>2. /\ account' = Drop(account, {m}) /\ session' = Drop(session, K)
        /\ UNCHANGED next
    BY <1>5, <2>1 DEF AccountDeleted, DeleteAccount
  <2>3. CASE m \notin DOMAIN account
    <3>1. account' = account
      BY <2>2, <2>3 DEF Drop, IsTable
    <3>2. QED
      BY <2>2, <3>1, CloseStep DEF Store!Next
  <2>4. CASE m \in DOMAIN account
    <3>1. Members' = Members \ {m} /\ m \in Members
      BY <2>2, <2>4 DEF Members, Drop
    <3>2. Former' = Former \cup {m}
      BY <2>2, <2>4 DEF Former, Drop, IsTable
    <3>3. K = {s \in DOMAIN Holder : Holder[s] = m}
      BY DEF SessionsOf, Holder
    <3>4. /\ Holder' = [s \in DOMAIN Holder \ K |-> Holder[s]]
          /\ Ended' = Ended \cup K
      BY <2>2, RowsDropped DEF Holder, SessionsOf
    <3> HIDE DEF m, K
    <3>5. Store!Leave
      BY <3>1, <3>2, <3>3, <3>4 DEF Store!Leave, Store!Keep, Members, Former, Holder, Ended
    <3>6. QED BY <3>5 DEF Store!Next
  <2>5. QED BY <2>3, <2>4
<1>6. CASE AccountUpserted
  <2>1. PICK u \in Users : UpsertAccount(u, next.account) /\ TakeAccountId(u)
    BY <1>6 DEF AccountUpserted
  <2> DEFINE id == UpsertedId(u, next.account)
  <2>2. DOMAIN account' = DOMAIN account \cup {id} /\ UNCHANGED session
    BY <1>6, <2>1 DEF AccountUpserted, UpsertAccount, Put
  <2>3. CASE AccountsOf(u) = {}
    <3>1. id = next.account /\ next' = [next EXCEPT !.account = @ + 1]
      BY <2>1, <2>3 DEF UpsertedId, TakeAccountId
    <3>2. id \notin DOMAIN account /\ id \notin Former
      BY <3>1 DEF IsTable, Former
    <3>3. next'.account = next.account + 1 /\ next'.session = next.session
      BY <3>1
    <3>4. DOMAIN account \subseteq 1 .. (next.account - 1)
      BY DEF IsTable
    <3>5. Former' = Former
      <4>1. (1 .. next'.account - 1) = (1 .. next.account - 1) \cup {next.account}
        BY <3>3
      <4>2. QED BY <4>1, <2>2, <3>1, <3>4 DEF Former
    <3>6. Holder' = Holder /\ Ended' = Ended
      BY <2>2, <3>3 DEF Holder, Ended
    <3>7. Members' = Members \cup {id}
      BY <2>2 DEF Members
    <3> HIDE DEF id
    <3>8. id \notin Members \cup Former /\ id \in Members'
      BY <3>2, <3>7 DEF Members
    <3>9. Store!Join
      BY <3>5, <3>6, <3>7, <3>8 DEF Store!Join, Members, Former, Holder, Ended
    <3>10. QED BY <3>9 DEF Store!Next
  <2>4. CASE AccountsOf(u) # {}
    <3>1. id \in DOMAIN account /\ next' = next
      BY <2>1, <2>4 DEF UpsertedId, TakeAccountId, AccountsOf
    <3>2. QED
      BY <2>2, <3>1 DEF AbstractVars, Members, Former, Holder, Ended
  <2>5. QED BY <2>3, <2>4
<1>7. CASE SessionCreated
  <2>1. PICK r \in Requests :
          /\ AccountReferenced(NewSession(r))
          /\ session' = Put(session, next.session, NewSession(r))
          /\ next' = [next EXCEPT !.session = @ + 1]
    BY <1>7 DEF SessionCreated, CreateSession
  <2> DEFINE s == next.session
             m == req[r].new
  <2>2. m \in Members
    BY <2>1 DEF AccountReferenced, NewSession, Members
  <2>3. Holder' = [q \in DOMAIN Holder \cup {s} |-> IF q = s THEN m ELSE Holder[q]]
    BY <2>1 DEF Holder, Put, NewSession
  <2>4. s \notin DOMAIN Holder \cup Ended /\ s \in DOMAIN Holder'
    BY <2>3 DEF Holder, Ended, IsTable
  <2>5. UNCHANGED <<Members, Former>>
    BY <1>7, <2>1 DEF SessionCreated, Members, Former
  <2>6. UNCHANGED Ended
    <3>1. DOMAIN session' = DOMAIN session \cup {s}
      BY <2>1 DEF Put
    <3>2. (1 .. next'.session - 1) = (1 .. next.session - 1) \cup {s}
      BY <2>1
    <3>3. s \notin 1 .. next.session - 1
      OBVIOUS
    <3>4. QED BY <3>1, <3>2, <3>3 DEF Ended
  <2> HIDE DEF s, m
  <2>7. Store!Open
    <3>1. \E q \in DOMAIN Holder' :
            /\ q \notin DOMAIN Holder \cup Ended
            /\ \E a \in Members :
                 Holder' = [p \in DOMAIN Holder \cup {q} |->
                              IF p = q THEN a ELSE Holder[p]]
      BY <2>2, <2>3, <2>4
    <3>2. QED
      BY <3>1, <2>5, <2>6 DEF Store!Open, Members, Former, Holder, Ended
  <2>8. QED BY <2>7 DEF Store!Next
<1>8. QED
  BY <1>1, <1>2, <1>3, <1>4, <1>5, <1>6, <1>7, Events DEF StoreEvent

\* Whatever requests, failures and restarts do, the tables account and
\* session behave as SessionStore promises (auth.go, query.sql).
THEOREM StoreImplemented == Spec => ImplementsStore
<1>1. IInv /\ Init => Store!Init
  BY StoreInit
<1>2. IInv /\ [Next]_vars => [Store!Next]_(Store!storeVars)
  BY StoreStep DEF AbstractVars, Members, Former, Holder, Ended, Store!storeVars
<1>3. QED
  BY <1>1, <1>2, Invariance, InitInv, PTL DEF Spec, ImplementsStore, Store!Spec
=============================================================================
