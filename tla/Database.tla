------------------------------ MODULE Database ------------------------------
(***************************************************************************)
(* The three tables the sign-in code uses and the queries over them        *)
(* (sql/schema.sql, sql/query.sql, internal/gen/database).  A query is one *)
(* SQL statement outside a transaction, so it is one atomic step; each     *)
(* operator below primes the tables its statement writes and no other.     *)
(*                                                                         *)
(* Profile columns (email, username, display_name, avatar_url) are left    *)
(* out: an account row keeps the identity (provider, provider_account_id)  *)
(* as one value, the user.  UpdateAccount writes profile columns only, so  *)
(* here it changes nothing.                                                *)
(***************************************************************************)
EXTENDS Basics

CONSTANTS
  DbSkew,          \* the database's clock minus the application's
  AccountColumns   \* the columns of table account after the migrations ran

ASSUME DatabaseAssumption == DbSkew \in Int

VARIABLES
  oauth2_state,    \* state |-> [expires]
  account,         \* id |-> [user]
  session          \* id |-> [key, access, refresh, accessExpires, expires, account]

tables == <<oauth2_state, account, session>>

DbNow == now + DbSkew

\* The rows a DELETE ... WHERE expires_at < now() removes.
ExpiredRows(table) == {k \in DOMAIN table : table[k].expires < DbNow}

-----------------------------------------------------------------------------
(* oauth2_state *)

CreateOAuth2State(st, expires) ==
  oauth2_state' = Put(oauth2_state, st, [expires |-> expires])

\* Mutant: the row is read and kept.
GetOAuth2State(st) == UNCHANGED oauth2_state

GetAndDeleteOAuth2State(st) == oauth2_state' = Drop(oauth2_state, {st})

\* Mutant: the comparison with the clock is dropped.
DeleteOAuth2States == oauth2_state' = Drop(oauth2_state, DOMAIN oauth2_state)

DeleteExpiredOAuth2States ==
  oauth2_state' = Drop(oauth2_state, ExpiredRows(oauth2_state))

-----------------------------------------------------------------------------
(* account *)

\* Every statement that names provider_account_id fails when the table has
\* no such column.
AccountsReadable == "provider_account_id" \in AccountColumns

\* ON CONFLICT (provider, provider_account_id): the accounts of one identity.
AccountsOf(u) == {a \in DOMAIN account : account[a].user = u}

\* Mutant: ON CONFLICT DO NOTHING, which returns no row.
InsertedId(u, id) == IF AccountsOf(u) = {} THEN id ELSE 0

\* Mutant: ON CONFLICT (provider), where there is one provider.
UpsertedByProvider(u, id) ==
  IF DOMAIN account = {} THEN id ELSE CHOOSE a \in DOMAIN account : TRUE

UpsertedId(u, id) ==
  IF AccountsOf(u) = {} THEN id ELSE CHOOSE a \in AccountsOf(u) : TRUE

\* Mutant: no conflict target.
InsertAccount(u, id) == account' = Put(account, id, [user |-> u])

UpsertAccount(u, id) == account' = Put(account, UpsertedId(u, id), [user |-> u])

SessionsOf(a) == {s \in DOMAIN session : session[s].account = a}

\* Mutant: a foreign key without ON DELETE CASCADE.
DeleteAccountOnly(a) == account' = Drop(account, {a}) /\ UNCHANGED session

DeleteAccount(a) ==
  /\ account' = Drop(account, {a})
  /\ session' = Drop(session, SessionsOf(a))

-----------------------------------------------------------------------------
(* session *)

\* The join of account and session finds a row.
SessionFound(s) ==
  /\ AccountsReadable
  /\ s \in DOMAIN session
  /\ session[s].account \in DOMAIN account

\* Mutant: no foreign key.
NotReferenced(row) == TRUE

\* The foreign key session.account_id REFERENCES account (id).
AccountReferenced(row) == row.account \in DOMAIN account

CreateSession(s, row) == session' = Put(session, s, row)

\* Mutant: an UPDATE that inserts the row it does not find.
UpsertSession(s, row) ==
  session' = Put(session, s,
                 [key |-> row.key, access |-> row.access, refresh |-> row.refresh,
                  accessExpires |-> row.accessExpires, expires |-> now,
                  account |-> 1])

\* Mutant: the refresh token is not among the columns.
UpdateAccessToken(s, row) ==
  session' = IF s \in DOMAIN session
             THEN [session EXCEPT ![s] = [@ EXCEPT !.key = row.key,
                                                   !.access = row.access,
                                                   !.accessExpires = row.accessExpires]]
             ELSE session

\* Mutant: a refresh prolongs the session.
ProlongSession(s, row) ==
  session' = IF s \in DOMAIN session
             THEN [session EXCEPT ![s] = [@ EXCEPT !.key = row.key,
                                                   !.access = row.access,
                                                   !.refresh = row.refresh,
                                                   !.accessExpires = row.accessExpires,
                                                   !.expires = @ + 1]]
             ELSE session

\* UPDATE ... WHERE id = $1: no row, no effect.
UpdateSession(s, row) ==
  session' = IF s \in DOMAIN session
             THEN [session EXCEPT ![s] = [@ EXCEPT !.key = row.key,
                                                   !.access = row.access,
                                                   !.refresh = row.refresh,
                                                   !.accessExpires = row.accessExpires]]
             ELSE session

DeleteSession(s) == session' = Drop(session, {s})

DeleteExpiredSessions == session' = Drop(session, ExpiredRows(session))
=============================================================================
