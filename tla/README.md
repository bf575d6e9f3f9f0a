# Verification of mkrepo

mkrepo is a web server that creates repositories on GitHub, GitLab and Gitea
for users who sign in through OAuth2. This directory holds TLA+ modules of the
parts that keep state, the TLC runs that check them on small instances, and
TLAPS proofs of their main properties for every value of the constants.

## The system

| Part | Code | State it keeps | Operations |
|---|---|---|---|
| Authentication middleware | `internal/handler/auth.go:65-103, 299-373` | none of its own; reads and writes the session row, holds an account and a token in the request context | look the session up, refresh its token, clear the cookie on any error |
| Sign-in handlers | `auth.go:105-297` | rows of `oauth2_state`, `account`, `session`; the browser's cookie | Login, OAuth2Callback, Logout, DeleteAccount |
| Tables and queries | `sql/`, `internal/gen/database` | the three tables above (two more for templates are unused) | one SQL statement per query, no transaction |
| Start-up and garbage collector | `internal/database/database.go` | the tables, a pool of connections, a ticker | migrations, initial Cleanup, Cleanup every 12 hours, Close |
| Repository creation | `internal/handler/repo.go`, `internal/service/mkrepo.go`, `git.go`, `license.go` | a temporary directory per request, the repository at the provider | parse form, create remote repo, add files, commit, push, clean up |
| Template registration | `internal/handler/template.go`, `internal/service/template.go` | a temporary directory per request | clone, read `mkrepo.yaml`, clean up |
| Providers | `internal/provider` | nothing; builds clients and OAuth2 settings from the configuration | NewClient, OAuth2Config, GetUser, CreateRemoteRepo |
| Configuration | `internal/config` | nothing after start | load, default, expand the environment, validate |
| Server and command line | `internal/server`, `cmd/mkrepo` | listener, the collector's goroutine, the exit status | start, serve, shut down in 15 s, close the pool |
| Pages, static files, logging | `template/html`, `static`, `internal/log` | nothing | render |

Every request runs in its own goroutine, passes the middleware, then its
handler. Requests share nothing in memory but the pool of connections: they meet
in the database, at the provider and in the file system. Between two statements of one request anything
else may happen, since no query runs in a transaction and no lock is taken.

What is hard in this code, and what the modules are aimed at:

- two requests of one session refreshing one token at a time;
- a session row read, then written after calls to the provider, while a logout,
  an account deletion or the collector removes it;
- a refresh token replaced at the provider and lost before it is stored;
- callbacks repeated by the browser, and callbacks racing account deletion;
- clocks of the server and of the database that differ;
- a process that stops between two steps and returns with another key or
  other providers;
- a repository that exists at the provider while its initialisation fails;
- an end in which Shutdown, late handlers, the collector and the closing of the
  pool wait for one another;
- a configuration that is defaulted, expanded and only then validated, and
  providers whose OAuth2 addresses, API address and callback key come from
  different fields of it.

`PROJECT.json` lists these and the rest under `hazards`, each at its line.

Two shortcomings of the code lie outside the models and are worth knowing when
reading them. The page of `GET /new` always breaks off at `new.html:28`, which
asks a provider for a `Url` it does not have; the models begin at the form that
is posted. And `executeTemplateRepo` panics before it looks at a template, so
what follows it cannot run, `executeTemplateDir` with its files in directories
nobody made among it.

## The modules

| Module | What it is | Lines of the code |
|---|---|---|
| `Basics` | the clock, and tables as partial functions | |
| `Database` | `oauth2_state`, `account`, `session` and the ten statements over them | `query.sql.go`, `schema.sql` |
| `OAuthProvider` | what the providers do with codes, access tokens and refresh tokens (external) | |
| `Auth` | the middleware, the sign-in handlers, the collector, crash and start | `handler/auth.go`, `database.go` |
| `SessionStore` | the abstract store that `Auth` implements | |
| `LoginFlow` | the stages of a login, which `Auth` and `SignIn` implement | |
| `CreateRepo` | `POST /new` and `POST /templates` with their temporary directories | `handler/repo.go`, `handler/template.go`, `internal/service` |
| `RepoHost` | what creating repositories comes to at the provider; `CreateRepo` implements it | |
| `Pool` | the pool of connections: a line, who holds one, closed or not (external) | as used by `database.go` |
| `Lifecycle` | the process from start to exit, its clients of the pool | `cmd/mkrepo/main.go`, `database.go`, `server.go` |
| `GracefulServer` | the abstract server that `Lifecycle` implements | |
| `Config` | what `LoadConfig` makes of a file and an environment | `internal/config` |
| `Providers` | the addresses and keys of the providers of a configuration | `internal/provider` |
| `SignIn` | a login followed from address to address | `internal/provider`, `handler/auth.go`, `main.go` |
| `MCAuth`, `MCCreateRepo`, `MCLifecycle`, `MCSignIn` | the small instances TLC checks | |
| `AuthProofs`, `AuthStoreProofs`, `AuthTokenProofs`, `AuthLoginProofs`, `AuthFlowProofs`, `CreateRepoProofs`, `LifecycleProofs`, `SignInProofs` | theorems and proofs | |

`Auth` extends `Database` and `OAuthProvider`; all of them share the clock of
`Basics`. `Lifecycle` extends `Pool`; `SignIn` extends `Providers`, which extends
`Config`. The four state machines look at one process from four sides, and what
one of them needs of another it takes as an assumption that the other one has as
a step:

- `Auth` and `CreateRepo` meet in the request context only, which `Auth` fills
  with an account and a token and `CreateRepo` takes as the token's remaining
  life: no later step of either reads what the other one writes.
- `Lifecycle` has the statements of `Auth` as "take a connection, hold it, give
  it back"; what they do to the tables is left to `Auth`, where the collector may
  run and the process end at any point that `Lifecycle` allows.
- `SignIn` has the steps of `Login` and `OAuth2Callback` again, without failures
  and clocks, for providers as they are configured; `Auth` has them with failures
  and clocks, for providers that work as they should. What the two have in common is
  `LoginFlow`: a login is begun once, agreed to once, presented to a provider once and
  only after its user agreed, and opens one session at most, for that user. Both
  implement it, the one whatever is repeated, fails or restarts, the other whatever
  the addresses in the configuration, where the user is the user of a server.

### How Auth follows the code

A slot of `req` is one request and its goroutine. `Start` is the arrival of a
request, with the cookie its browser has at that moment. Then the steps are the
statements and the calls of `auth.go`, in its order:

- `authenticateSession` (299-373): `AuthRefused`, `AuthAccepted`, `AuthStale` are
  the outcomes of the row's lookup, its expiry, the provider's lookup, the
  decryption and the token's expiry; `RefreshGranted`, `RefreshRefused` and
  `RefreshLost` the token endpoint; `RefreshProfile` GetUser and UpdateAccount;
  `SaveTokens` UpdateSession. Every `...Fails` is an error of the same call,
  before or after it took effect. Any error leads to `Anonymous`: the handler
  runs without an account and the response clears the cookie (72-80).
- the handlers: `Page` (those that only read), `Guarded` (MustAuthenticate,
  87-103), `Logout`, `Delete`, `Login`, `Callback`; the callback goes on with
  `Exchange`, `Upsert`, `CreateLogin`.
- `Deliver` is the response reaching the browser, with its cookie; `Vanish` its
  loss.
- `CollectStates`, `CollectSessions` are the two statements of `Cleanup`;
  `BootStates`, `BootSessions` the same at start, with the key and providers the
  operator configured; `Crash` ends the process between any two steps.

The database's clock is the server's plus `DbSkew`. Ids, states and tokens, which
the code draws at random, are numbers never used before. `lost` and the field
`late` are history: no guard reads them.

What is left out: profile columns (`UpdateAccount` and `UpsertAccount` write
them; nothing but the author line of a commit reads them, and a wrong value there
is one assignment, not an order of steps), the PKCE verifier and the application's
secret (`SignIn` has them; the token endpoint of `Auth` knows the application),
and the AES-GCM of a token beyond "opens under the key it was sealed with".

### How CreateRepo follows the code

`Start` takes a form and the time the request's token has left. `ReadForm` and
`FormRefused` are `CreateRepoFromForm` and `NewClient`; `Create`, `CreateFails`
the provider's answer to `CreateRemoteRepo`; `MakeDir`, `AddFiles`, `Push` and
their failures are `InitializeRepo`, `addFiles`, `pushRepo`; `Clone`, `Inspect`
`RegisterTemplate`. `CleanUp` is the deferred `RemoveAll`, which runs on every
return and while a panic unwinds. The provider and the disk outlive `Crash`; the
slots do not. `Crash` also stands for the end of the 15 seconds `Shutdown` waits
for handlers (`main.go:172-180`).

A file is its name. `Written` has the one file that ends in the directory, the
`.gitignore`; README and license are written to a `memfs` nobody reads
(`mkrepo.go:98`). `LicenseGiven` is TRUE for every form because
`CreateRepoFromForm` takes the address of a string that may be empty
(`repo.go:211`). `faulted` and `leaked` are history, as are the fields `by`,
`form` and `expires` of a repository. Nobody deletes or renames repositories at
the provider.

### How Lifecycle follows the code

`pc[Main]` is where `runServer` (`main.go:79-185`) is: `LoadConfig`, `Migrate` and
the two statements of the first Cleanup (`database.New`), `StartCollector`,
`Prepare` (.gitignore files, licenses, templates), then `serving`, the `select`
between the listener's error (`ListenerLost`) and the signal (`Shutdown`). Every
return runs the deferred `Close` (`CloseDB`, `End`), which waits for each
connection to come back. `Listen` and `ServeFails` are the goroutine of
`ListenAndServe`.

A statement of a request, the collector or the start-up is `Ask`, `Query`,
`Answer`, or one of its ends: the pool is closed (`TurnedAway`), the context ends
while waiting (`GiveUp`) or before (`AskTooLate`). A cleaner's context derives from
the signal's, so after it a statement fails at once or is cut off; a request's does
not, and ends with its browser. `Accept` to `Respond` is a connection's state as
`Shutdown` sees it: new, active or idle.

The pool is pgxpool with puddle under it: `AcquireFunc` looks at the context, then
waits on a weighted semaphore, whose line is first come first served; `Close`
marks the pool closed and waits for all resources. A waiter that gets its turn
after that finds the pool closed. Connections are not opened and closed in the
model, since that shows nowhere but in time.

### How SignIn follows the code

`Start` is `LoadConfig` (`Loaded`, `Loads`), `NewProvidersFromConfig` and the
decoding of the key. `Ask` is `Login` for a key of the map, `Consent` the user at
the address `OAuth2Config` gives, `Callback` to `Identify` are `OAuth2Callback` for
the key in the callback's URL. `ExpandEnv` has the one surprise of `config.go:64-76`:
the expanded text is decoded into the variable that already holds the file, where
a null (an expansion that came out empty) leaves what was there; so an unset
`$SECRET_KEY` stays as that text, which `database.New` refuses since it is not
hexadecimal.

From the vendored libraries come four facts: the endpoints of GitHub and GitLab in
`golang.org/x/oauth2/endpoints` are fixed; go-github's `WithURLs` takes its argument
as the address of the API as it is; GitLab's `WithBaseURL` appends `api/v4` to it
and Gitea's client `/api/v1`. Whether a server takes an OAuth2 token in the header a
library sends is the server's affair, for GitLab's `Private-Token` not obvious:
`TakesToken` names the types that do, the theorems hold for each choice, and the
runs take all three. How a token endpoint knows the application is its affair too:
`Exchange` refuses unless the secret sent is the one registered (`AppSecret`) or
none is sent and the application is a public one (`PublicApps`). GitHub and GitLab
are sent the secret of the configuration; for Gitea it is commented out
(`gitea.go:58`), although `config.go:154` demands one and `config.yaml:17-19` shows
one. So of Gitea's applications only those registered as public can be signed in
with (`Workable` says so), and a confidential one ends in an error after the user
agreed. The theorems hold for every choice of both constants. `Strings` stands for
the set of strings, since the provers cannot see that a literal belongs to `STRING`;
the runs give it `STRING`.

## The runs

| Run | Instance | What it shows |
|---|---|---|
| `auth_login` | two users of one browser, two requests at a time, five in all; login, callback, delete, a restart with another key, a provider that keeps refresh tokens | references between tables hold, one account per user, a code is presented once, a handler's token is its account's, rows end by their owners, a callback's session is the consenting user's, nobody with a live session is sent to the login page, `Auth` implements `SessionStore` and `LoginFlow` |
| `auth_refresh` | one session of one of two providers, two requests at a time, four in all; refresh, logout, delete, collector, every failure, a crash, two keys, the database's clock ahead | an ended session stays out, a refresh token that is no longer honoured is accounted for, a row tells whose token it holds and until when, sessions keep their identity |
| `auth_liveness` | one request at a time, failures, a restart, fairness | requests are answered or wait for a token endpoint; expired rows go |
| `create_repo` | two requests, ten forms for two names, faults, a crash, tokens that run out | a redirect means a filled repository, an empty one has a reason, so has a refusal, no directory is forgotten, one commit by the creator, `CreateRepo` implements `RepoHost` |
| `create_liveness` | one request at a time, faults, a crash, fairness | requests are answered or wait for a push or a clone |
| `lifecycle` | three requests, the collector and main on two connections, a signal at any time, every failure | no connection is lost or lent twice, the pool outlives the requests Shutdown waits for, `Lifecycle` implements `GracefulServer`, a signal ends the process, who waits for a connection is served |
| `sign_in` | twelve files in eight environments, two logins, two users | a process that serves has all it needs filled in, no account is kept of another server's user, the providers whose addresses, application and key fit (`Workable`) refuse nobody and sign in whoever consents, `SignIn` implements `LoginFlow` |
| `auth_race` | a provider that rotates refresh tokens, nothing failing | violated: finding 1 |
| `auth_migration` | the schema of the embedded migration, nothing failing | violated: finding 2 |
| `create_none` | a form that asks for nothing | violated: finding 3 |
| `create_license` | a form with a license | violated: finding 4 |
| `sign_in_shipped` | `config.yaml` as shipped, every variable set | violated: finding 5 |

Findings:

1. Two requests of one session that find its token expired both trade the same
   refresh token. A provider that rotates them refuses the second, and a user
   with a live session, just refreshed, is sent to the login page with the
   cookie cleared (`auth.go:325`). `auth_login`, where the same property holds
   though its tokens are refreshed as often, shows that it takes a rotating provider;
   the theorem `OnlyRotationTurnsAway` proves that nothing else does it.
2. The embedded migration has no column `provider_account_id`, which
   `schema.sql` and the queries have: on a database the program made, every
   callback fails after its code was redeemed. The theorem
   `CompleteSchemaKeepsLogins` proves that with the column no redeemed login is lost so.
3. "None" as a license is the license `""`, which does not exist: a form that
   asks for nothing creates the repository and answers with an error.
4. README and license never reach the commit.
5. The API client of GitHub is given `https://github.com`, the address of its
   pages, so after the user's consent `GetUser` fails and the callback answers
   with an error (`github.go:78`).

### Bounds

- Two slots: every hazard listed is a race of two requests, or of a request with
  the collector, the clock or a crash, which are processes of their own. The
  theorems hold for any number.
- `MaxRequests` counts requests in a behaviour, one after another included: five
  make two logins, a repeated callback and two deletions; four make two
  concurrent refreshes with a logout and a request after it.
- `MaxTime` 2 or 3 with lifetimes 1 and 2 lets every row and token expire, before
  and during a request; `ExpiryDelta` 1 makes a token stale while the provider
  still honours it; `DbSkew` 1 lets the collector see an expiry before the
  server does. In `auth_login` one instant is enough: with `DbSkew` 1 and lifetimes
  of 1 a row made at 0 has expired for the collector at 1 and not for the server,
  and `ExpiryDelta` 1 has a token used as it is at the instant of its issue and
  refreshed after it.
- Two keys: the process reads what it wrote, or what another one wrote.
- `MaxRestarts` 1: what a crash leaves behind is met by the process after it;
  after a second crash it would meet the same.
- The slots are interchangeable, and so are keys and users of one provider:
  symmetry is used in the runs of `Auth` without liveness.
- `lifecycle`: more clients (three requests, two cleaners) than connections (two),
  so there is a line at the pool while it closes. There is no bound on its
  statements or requests; its states are finite as they are.
- `sign_in`: the files have public and private servers, keys equal and unequal to
  types, two applications of one site, two sites of one type, keys AES does not
  take and files that are refused, a public and a confidential application of Gitea,
  a secret that is no longer the registered one; the environments are complete, empty,
  or lack one variable. A login takes its own state only, also at another provider's
  callback; the second login is there so that the steps of one are seen to leave the
  state and the account of the other alone.
- Two refreshes of one session that both succeed and write in either order take a
  provider that keeps its refresh token; the expiring provider of `auth_refresh`
  rotates, so for `RowTellsTheTruth` that order rests on the theorem
  `RowsTellTheTruth`, which holds for every provider.
- Deadlock is checked for `Auth`, `Lifecycle` (an ended process is a step of its
  own, `Gone`) and `SignIn` (`Rest`). A `CreateRepo` whose bounded number of
  requests has been served may rest, so its four runs say
  `CHECK_DEADLOCK FALSE`.

### Fairness

A goroutine that can go on is scheduled and the database answers or fails: weak
fairness for the steps of a request. The exceptions are calls without a time
limit: the token endpoint (`http.DefaultClient`, `auth.go:209, 325`), and push
and clone (`git.go:23, 90`) get no fairness, which is why a request may wait
there forever, though `WriteTimeout` has long ended its connection. The
provider's other calls have 30 seconds (`gitea.go:77`). The collector ticks
forever and a statement it retries at every tick succeeds at last, and so does a
start that is tried again: strong fairness of these two, for
`ExpiredRowsCollected` only. Nothing obliges browsers, the clock or a crash.

In `Lifecycle` main, the listener and the cleaners go on, timers fire, the pool
serves its line and the database answers; a connection that sends nothing is
dropped after `ReadTimeout` (`server.go:54`). A handler need never come back
between two statements, which is the point of `SignalEndsProcess`: the 15 seconds
end it, and the pool closes because whoever is between statements holds no
connection. In `SignIn` a handler goes on and providers answer; users need not.

## The proofs

Each rests on the named assumptions of the constants (`BasicsAssumption`,
`AuthAssumption` and those of the modules `Auth` extends; `CreateRepoAssumption`;
`PoolAssumption`, `LifecycleAssumption`; `ConfigAssumption`, `SitesAssumption`,
`SignInAssumption`) and on nothing else: any number of requests, browsers, users,
keys, forms, names, connections, files and environments, any bounds.

`AuthProofs`. `TypeOK` alone is not inductive: a request in the middle of a
refresh or a callback holds keys that later end up in tables. The invariant
`IInv` adds

- `InHand`: the token a request holds between its calls was issued, and the state
  of a callback was consented to;
- `StatesUnused`: a login state still in the table was not redeemed and no
  request is about to present its code, hence each code has one presenter;
- `KnownIds`: cookies and requests name sessions that were created, so an ended
  one cannot be a number that is yet to be handed out;
- `LateStaysOut`: the session of a late request is not in the table either;
- `SessionsHaveAccounts`, `LoginRedeemedOnce` themselves.

`Invariance` proves it, one lemma per group of actions; `TypeCorrect`,
`AccountsKept`, `RedeemedOnce`, `EndedStaysOut` follow, and the action properties
`IdentityKept` and `OwnersEnd` from it and the step at hand.

`AuthStoreProofs`. `StoreImplemented`: under the mapping in `Auth!Store`, every
step is one of seven events that touch the tables `account` and `session`, or
leaves the mapped state alone (lemma `Events`); each event is an action of
`SessionStore`.

`AuthTokenProofs`. Two further invariants, proved on top of `IInv`, are about the
tokens; both speak of rows and of requests in the middle of their calls alike,
since the one becomes the other. `Truth` says whose they are:

- `HoldersTrue`, `RowsTrue`: the pair a request works with, or a row keeps, was
  issued to the user of its account, as far as that account still exists (a
  deletion may have come between), and the number of an account is never used again;
- `OfItsSession`: a request that refreshes works for its session's account, so what
  it writes suits the row it finds;
- `SigningOwn`: a callback's refresh token came with its access token.

`Lineage` says where a refresh token is. A row holds it, or requests of that row's
session (`RowsDiffer`, `AtItsRow`, `AtOneSession`); one that a request just got
and has not written is nowhere else (`SigningUnshared`, `RotatedUnshared`) and
still honoured (`HeldHonoured`). That is what `RefreshTokenAccounted` needs: the
refresh that ends a token was made by a request of the very session whose row holds
it, so the row is accounted for by that request, or by the loss on record. Both use
the same frame: `GrowStep` (tokens and accounts keep their user), `SlotStep`,
`RowStep`, `HonouredStep`, `UnsavedStep` (all that can happen to a slot, a row, a
token, a token unsaved), and one lemma per conjunct. `TruthInvariance`,
`LineageInvariance`, `OneAccount`, `RowsTellTheTruth`, `OneUserInContext`,
`RefreshTokensKept`.

`AuthLoginProofs`, about who is let in. A property like "no live session is sent to
the login page" looks back: the request was turned away earlier, for what the row,
the clock, the key and the provider said then. `Admission` is what ties then to now:

- `ServedWhileUp`: no request runs before the process is up, so none sees the key
  or the providers change under it (a change takes a crash, which ends it);
- `RefreshersOpen`: while a request refreshes, its row opens under the running key,
  since only that key's process writes rows;
- `Renewable`: a token that expires comes with a refresh token, in rows and in hand;
- `DurableHonoured`: a provider that keeps its refresh tokens honours those in rows
  and in hand;
- `AnswersUnset`: only an answer sets a cookie or leads anywhere.

With it, `BarredStays`: under one process nothing makes a session live again. So
whoever is turned away where nothing fails holds a session that was over, and is,
or was refused a refresh, which takes a provider that rotates
(`OnlyRotationTurnsAway`); `LiveSessionLetIn` is the case of no such provider. Both
assume `~ Fallible`: a statement that fails turns a live session away by design,
and with a rotating provider the property is false, which is finding 1.

`ConsenterGetsSession` needs `Consents`: a state that is on its way to the provider
has no consent yet and belongs to one request (`FreshStates`), so a consent is
never overwritten (`ConsentKept`); a callback's token is the consenting user's
(`SigningForConsenter`), and so is the account it upserts and the session made for
it (`GivingToConsenter`, by `Truth`, though the account may have been deleted and
made again in between).

`CompleteSchemaKeepsLogins`, under the hypotheses its
property names (the columns are there, nothing fails or dies, no account is
deleted), follows an exchange to its upsert: no other step takes the slot
(`RedeemedWaits`), and a user who has an account keeps one (`AccountsStay`).

`AuthFlowProofs`. `FlowImplemented`: under the mapping in `Auth!Flow` the stage of a
login is where its row or its request is, which no variable says. It takes one more
invariant, `OneCarrier`: a login whose row is gone is in the hands of one request, from
the callback that removed the row to its answer (`CarryingAfter`: a request has a login
in hand because it had it before, or took its row). So the step of a request leaves
every other stage alone (`StageKept`), and where no callback takes a row and no
provider answers, stages stay or end (`StageFades`). `PresentStep`, `TrustStep`,
`OpenStep`, `BeginStep`, `AgreeStep` and `CloseStep` take the steps that do something
one by one, `QuietStep` the others; that the session is for the user who agreed is
`SigningForConsenter` and `Truth` again.

`CreateRepoProofs`. None of the properties is inductive: that a redirected user
finds the repository filled follows from what the directory held before the push,
which follows from its number being the request's own. `IInv` adds

- `Numbered`, `OnPath`: no two requests have one number, and a request is where
  its kind can be;
- `Made`, `Unmade`, `Held`: a repository belongs to the one request that made it,
  as that request's form says, and stays empty until the push;
- `Filled`, `Ready`: the directory holds what `addFiles` wrote, then the
  repository does.

The argument is by frames. `OwnStep` says that a step touches no slot, repository
or directory but the request's own; `OthersKept`, `EmptyKept`, `DirsKept` show that
such a step keeps what holds of the others, `OwnStepSafe` what is left to show of
the request that steps, and one lemma per action shows it. Then
`RedirectReady`, `EmptyExplained`, `DirsInUse`; by `StepKinds` (a step creates,
pushes, or leaves the repositories alone) also `CreatorPushes` and
`HostImplemented`, where a creation is `Take`, a push `Finish`, and any other step
`GiveUp` or a stutter. `RefusedForOwnReason` has an invariant of its own,
`Explained`: from the moment the outcome is settled, at the clean-up already, there is
a reason for it. Reasons are of kinds that stay (`ReasonsStay`: a name stays taken by
who took it, a token that ran out stays so, a fault stays on record), and each
failing branch is shown to have one (`ExplainedStep`); that nothing but the
form leaves a push without files needs `Filled` of `IInv`, for which the directory must
be no other request's.

`LifecycleProofs`. `ConnectionsAccounted` is inductive with the types and the
finiteness of `held`; most of its proof is about the line, where taking the first,
one in the middle or adding one must keep every client there at most once.
`PoolOutlivesRequests` needs `Ordered`, which ties the listener, the requests, the
pool and the exit status to where main is. The refinement (`ServiceImplemented`)
maps every action to one of `GracefulServer` or a stutter; `Succeed` needs that status
0 comes only from a Shutdown that saw every connection idle, which is the last line
of `Ordered`.

`SignInProofs`. `Served` says that a process that is up has a valid configuration
and exactly its providers; with `TypeOK` (a login on its way is one with a provider
of the map and of a user who agreed) it makes `AccountsOfOwnServer` inductive: whatever the callback's key,
`Exchange` ties the code's site to the provider's OAuth2 site and `Identify` ties
the token's site to its API's, so an account is written where the two agree.
`ServesSoundConfig` follows from validation coming after expansion. `WorkableLetIn` is
proved by `Journey`: what a login carries from address to address (site, application,
challenge, verifier, the key its callback will name) was made for the provider that
was asked (`Carries`), and for a workable one these fit together and its token
endpoint knows the application by what is sent (`WorkableFits`),
wherever another provider of the file would get between them; so a login that failed
was not with a workable one (`Justified`). `FlowImplemented` needs that a row waits only
for a login not past its callback (`RowsWait`), and for the session's server what
`AccountsOfOwnServer` needs.

Every invariant, action property and refinement the passing runs check has its
theorem. Only model-checked are the liveness properties `RequestsAnswered`,
`ExpiredRowsCollected`, `RequestsFinish`, `SignalEndsProcess`, `WaitersServed` and
`WorkableSignsIn`, which the prover cannot reach: it knows neither fairness nor
ENABLED. `NothingAskedIsRedirected`, `LicensePushed` and `ConsentedIsSignedIn` are
false of the code; `LiveSessionNotSentToLogin` and `RedeemedLoginHasAccount` are
false in the instances of findings 1 and 2 and proved away from them.

## Not modelled

The four state machines, their four abstract specifications and the proofs are all
that was planned. What is left out, and why:

- the other commands of the program (they print and return);
- the template tables and their queries: nothing calls them, the functions that did
  are commented out (`database.go:114-192`);
- the execution of templates: it comes in when the code gets past its panic;
- the listing of owners and repositories for the form (`provider` packages): it
  fills the options of a page and changes nothing;
- profile columns, for the reason given under `Auth`;
- what pages show, static files, schemas, logs; the text of READMEs and licenses;
- the order in which a browser applies the cookies of two responses: `Deliver` has
  each response at any time, which is all the server can count on; which cookie
  ought to win is said nowhere;
- vendored code, beyond what the models take from it.

## Running it

Each run of `PROJECT.json` names its module and configuration, for example
`tlc -config auth_login.cfg MCAuth` (the longest: about two minutes with two
workers). `tlapm AuthProofs.tla` and the same for the other seven proof modules check
the proofs, each in about two minutes or less.
A definition marked "Mutant" in a module replaces the definition after it to
show that the property named with it in `PROJECT.json` would notice.
