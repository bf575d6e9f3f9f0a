----------------------------- MODULE SignInProofs -----------------------------
(***************************************************************************)
(* Theorems about SignIn, for every set of configuration files,            *)
(* environments, registrations, users and logins.                          *)
(***************************************************************************)
EXTENDS SignIn, SequenceTheorems, TLAPS

-----------------------------------------------------------------------------
(* What LoadConfig makes of a file *)

\* Doing something to each element of a list of records gives a list of records.
LEMMA EachRecord ==
  ASSUME NEW s \in Seq(ProviderRecords), NEW t, DOMAIN t = 1 .. Len(s),
         t = [i \in 1 .. Len(s) |-> t[i]],
         \A i \in 1 .. Len(s) : t[i] \in ProviderRecords
  PROVE  t \in Seq(ProviderRecords) /\ Len(t) = Len(s)
<1>1. Len(s) \in Nat
  BY LenProperties
<1>2. t \in [1 .. Len(s) -> ProviderRecords]
  OBVIOUS
<1>3. t \in Seq(ProviderRecords)
  BY <1>1, <1>2, IsASeq
<1>4. QED BY <1>1, <1>2, <1>3, LenProperties

\* A file that is loaded has the same entries, with defaults and the
\* environment filled in.
LEMMA LoadedEntries ==
  ASSUME NEW f \in Files, NEW e \in Envs
  PROVE  LET s == f.providers
             t == Loaded(f, e).providers
         IN  /\ t \in Seq(ProviderRecords) /\ Len(t) = Len(s)
             /\ s \in Seq(ProviderRecords)
             /\ \A i \in 1 .. Len(s) :
                  t[i] = ExpandProvider(SetDefaultsProvider(s[i]), e)
             /\ Loaded(f, e) \in FileRecords
<1> DEFINE s == f.providers
           d == SetDefaults(f).providers
           t == Loaded(f, e).providers
<1>1. /\ f.secretKey \in Strings /\ s \in Seq(ProviderRecords)
      /\ f \in FileRecords /\ e \in [DOMAIN e -> Strings]
  BY SignInAssumption DEF FileRecords, ProviderRecords
<1>2. d = [i \in 1 .. Len(s) |-> SetDefaultsProvider(s[i])]
  BY <1>1 DEF SetDefaults, FileRecords
<1>3. ASSUME NEW p \in ProviderRecords
      PROVE  SetDefaultsProvider(p) \in ProviderRecords
  BY ConfigAssumption DEF SetDefaultsProvider, ProviderRecords
<1>4. ASSUME NEW p \in ProviderRecords
      PROVE  ExpandProvider(p, e) \in ProviderRecords
  BY <1>1 DEF ExpandProvider, Expand, ProviderRecords
<1>5. \A i \in 1 .. Len(s) : s[i] \in ProviderRecords
  BY <1>1, ElementOfSeq
<1>6. d \in Seq(ProviderRecords) /\ Len(d) = Len(s)
  <2> HIDE DEF s, d
  <2>1. \A i \in 1 .. Len(s) : d[i] \in ProviderRecords
    BY <1>2, <1>3, <1>5
  <2>2. DOMAIN d = 1 .. Len(s) /\ d = [i \in 1 .. Len(s) |-> d[i]]
    BY <1>2
  <2>3. QED BY <1>1, <2>1, <2>2, EachRecord
<1>7. t = [i \in 1 .. Len(d) |-> ExpandProvider(d[i], e)]
  BY <1>1 DEF Loaded, ExpandEnv, SetDefaults, FileRecords
<1>8. Loaded(f, e).secretKey \in Strings
  <2> DEFINE k == SetDefaults(f).secretKey
  <2>1. k \in Strings
    BY <1>1, ConfigAssumption DEF SetDefaults, FileRecords
  <2>2. Loaded(f, e).secretKey = IF Expand(k, e) = "" THEN k ELSE Expand(k, e)
    BY <1>1 DEF Loaded, ExpandEnv, SetDefaults, FileRecords
  <2> HIDE DEF k
  <2>3. Expand(k, e) \in Strings
    BY <1>1, <2>1 DEF Expand
  <2>4. QED BY <2>1, <2>2, <2>3
<1> HIDE DEF s, d, t
<1>9. \A i \in 1 .. Len(s) : t[i] = ExpandProvider(SetDefaultsProvider(s[i]), e)
  BY <1>2, <1>6, <1>7
<1>10. \A i \in 1 .. Len(s) : t[i] \in ProviderRecords
  BY <1>3, <1>4, <1>5, <1>9
<1>11. t \in Seq(ProviderRecords) /\ Len(t) = Len(s)
  <2>1. DOMAIN t = 1 .. Len(s) /\ t = [i \in 1 .. Len(s) |-> t[i]]
    BY <1>6, <1>7
  <2>2. QED BY <1>1, <1>10, <2>1, EachRecord
<1>12. Loaded(f, e) = [secretKey |-> Loaded(f, e).secretKey, providers |-> t]
  <2>1. DOMAIN f = {"secretKey", "providers"}
    BY <1>1 DEF FileRecords
  <2>2. DOMAIN Loaded(f, e) = {"secretKey", "providers"}
    BY <2>1 DEF Loaded, ExpandEnv, SetDefaults
  <2>3. Loaded(f, e) = [x \in DOMAIN Loaded(f, e) |-> Loaded(f, e)[x]]
    BY DEF Loaded, ExpandEnv
  <2> DEFINE g == Loaded(f, e)
  <2>4. t = g.providers
    BY DEF t
  <2> HIDE DEF g
  <2>5. g = [secretKey |-> g.secretKey, providers |-> t]
    BY <2>2, <2>3, <2>4 DEF g
  <2>6. QED BY <2>5 DEF g
<1>13. Loaded(f, e) \in FileRecords
  BY <1>8, <1>11, <1>12 DEF FileRecords
<1>14. QED BY <1>1, <1>9, <1>11, <1>13 DEF s, t

\* Of a valid configuration every entry becomes the provider under its key.
LEMMA ProvidersOfValid ==
  ASSUME NEW c, Valid(c), NEW P, P = NewProvidersFromConfig(c)
  PROVE  /\ \A k \in DOMAIN P : P[k] \in Configured(c) /\ P[k].key = k
         /\ \A p \in Configured(c) : p.key \in DOMAIN P
<1> DEFINE known == {p \in Configured(c) : p.type \in ProviderTypes}
<1>1. known = Configured(c)
  BY DEF Valid, ValidProvider, Configured
<1>2. P = [k \in {p.key : p \in known} |-> CHOOSE p \in known : p.key = k]
  BY DEF NewProvidersFromConfig
<1> HIDE DEF known
<1>3. ASSUME NEW k \in DOMAIN P PROVE P[k] \in known /\ P[k].key = k
  <2>1. \E p \in known : p.key = k
    BY <1>2
  <2>2. P[k] = CHOOSE p \in known : p.key = k
    BY <1>2
  <2>3. QED BY <2>1, <2>2
<1>4. QED BY <1>1, <1>2, <1>3

-----------------------------------------------------------------------------
(* The inductive invariant *)

\* A process that is up has a valid configuration and its providers; before
\* that there is no login and no account.
Served ==
  /\ file \in Files /\ env \in Envs
  /\ process = "up" =>
       /\ cfg = Loaded(file, env) /\ Valid(cfg) /\ cfg.secretKey \in HexKeys
       /\ providers = NewProvidersFromConfig(cfg)
  /\ process # "up" => accounts = {} /\ \A l \in Logins : login[l].pc = "idle"

IInv == TypeOK /\ Served /\ AccountsOfOwnServer

\* The providers made from a file that is loaded.
LEMMA ProvidersOfLoaded ==
  ASSUME NEW f \in Files, NEW e \in Envs, NEW c, c = Loaded(f, e), Valid(c),
         NEW P, P = NewProvidersFromConfig(c)
  PROVE  /\ c.providers \in Seq(ProviderRecords)
         /\ \A k \in DOMAIN P :
              /\ P[k] \in Configured(c) /\ P[k].key = k
              /\ P[k] \in ProviderRecords /\ k \in Strings
              /\ P[k].type \in ProviderTypes
<1>1. c.providers \in Seq(ProviderRecords) /\ Valid(c)
  BY LoadedEntries
<1>2. \A k \in DOMAIN P : P[k] \in Configured(c) /\ P[k].key = k
  BY ProvidersOfValid
<1>3. \A p \in Configured(c) : p \in ProviderRecords /\ p.type \in ProviderTypes
  <2> DEFINE s == c.providers
  <2>1. \A i \in 1 .. Len(s) : s[i] \in ProviderRecords
    BY <1>1, ElementOfSeq
  <2>2. \A i \in 1 .. Len(s) : s[i].type \in ProviderTypes
    BY <1>1 DEF Valid, ValidProvider
  <2>3. Configured(c) = {s[i] : i \in 1 .. Len(s)}
    BY DEF Configured
  <2> HIDE DEF s
  <2>4. QED BY <2>1, <2>2, <2>3
<1>4. \A p \in ProviderRecords : p.key \in Strings
  BY DEF ProviderRecords
<1>5. QED BY <1>1, <1>2, <1>3, <1>4

\* What is known of the providers of a process that is up.
LEMMA ProvidersSound ==
  ASSUME Served, process = "up"
  PROVE  /\ cfg.providers \in Seq(ProviderRecords)
         /\ \A k \in DOMAIN providers :
              /\ providers[k] \in Configured(cfg) /\ providers[k].key = k
              /\ providers[k] \in ProviderRecords /\ k \in Strings
              /\ providers[k].type \in ProviderTypes
BY ProvidersOfLoaded DEF Served

-----------------------------------------------------------------------------
(* Each action keeps it *)

\* A login that changes stays a login record, and the others stay as they are.
LEMMA LoginMoves ==
  ASSUME login \in [Logins -> LoginRecords], NEW l \in Logins, NEW new \in LoginRecords,
         login' = [login EXCEPT ![l] = new]
  PROVE  /\ login' \in [Logins -> LoginRecords] /\ login'[l] = new
         /\ \A m \in Logins \ {l} : login'[m] = login[m]
OBVIOUS

\* Where a provider sends its users are strings.
LEMMA AddressesTyped ==
  ASSUME NEW p \in ProviderRecords, p.type \in ProviderTypes
  PROVE  /\ OAuthSite(p) \in Strings /\ CallbackKey(p) \in Strings
         /\ p.clientId \in Strings /\ UsesPKCE(p) \in BOOLEAN
<1>1. PublicSite(p.type) \in Strings
  BY SitesAssumption DEF PublicSite
<1>2. p.url \in Strings /\ p.key \in Strings /\ p.clientId \in Strings /\ p.type \in Strings
  BY DEF ProviderRecords
<1>3. QED BY <1>1, <1>2 DEF OAuthSite, CallbackKey, UsesPKCE

\* The start-up: what it lets through is sound.
LEMMA StartKeeps ==
  ASSUME IInv, Start
  PROVE  IInv'
<1>1. Served'
  <2>1. CASE Loads(file, env) /\ cfg'.secretKey \in HexKeys
    BY <2>1 DEF IInv, Served, Start, Loads
  <2>2. CASE ~ (Loads(file, env) /\ cfg'.secretKey \in HexKeys)
    BY <2>2 DEF IInv, Served, Start
  <2>3. QED BY <2>1, <2>2
<1>2. UNCHANGED <<file, env, states, login, accounts>>
      /\ process' \in {"up", "refused"} /\ process = "down"
  BY DEF Start
<1>3. accounts' = {} /\ \A l \in Logins : login'[l].pc = "idle"
  BY <1>2 DEF IInv, Served
<1>4. TypeOK'
  <2>1. /\ file' \in Files /\ env' \in Envs /\ process' \in {"down", "up", "refused"}
        /\ login' \in [Logins -> LoginRecords]
        /\ DOMAIN states' \subseteq Logins /\ states' \in [DOMAIN states' -> BOOLEAN]
    BY <1>2 DEF IInv, TypeOK
  <2>2. cfg' \in FileRecords
    BY LoadedEntries DEF IInv, TypeOK, Start
  <2>3. DOMAIN providers' \subseteq Strings
        /\ providers' \in [DOMAIN providers' -> ProviderRecords]
    <3>1. CASE providers' = NewProvidersFromConfig(cfg') /\ Loads(file, env)
      <4> DEFINE P == NewProvidersFromConfig(cfg')
      <4>1. \A k \in DOMAIN P : k \in Strings /\ P[k] \in ProviderRecords
        BY <3>1, ProvidersOfLoaded DEF IInv, TypeOK, Start, Loads
      <4>2. P = [k \in DOMAIN P |-> P[k]]
        BY DEF NewProvidersFromConfig
      <4> HIDE DEF P
      <4>3. DOMAIN P \subseteq Strings /\ P \in [DOMAIN P -> ProviderRecords]
        BY <4>1, <4>2
      <4>4. QED BY <3>1, <4>3 DEF P
    <3>2. CASE UNCHANGED providers
      BY <3>2 DEF IInv, TypeOK
    <3>3. QED BY <3>1, <3>2 DEF Start
  <2>4. QED BY <1>3, <2>1, <2>2, <2>3 DEF TypeOK
<1>5. AccountsOfOwnServer'
  BY <1>3 DEF AccountsOfOwnServer
<1>6. QED BY <1>1, <1>4, <1>5 DEF IInv

\* What every later step leaves as it is: the configuration.
LEMMA ConfigStays ==
  ASSUME Served, UNCHANGED configVars, process = "up"
  PROVE  Served' /\ process' = "up"
BY DEF Served, configVars

\* Steps of a login that write no account.
LEMMA LoginStepKeeps ==
  ASSUME IInv, NEW l \in Logins,
         Ask(l) \/ Consent(l) \/ NoConsent(l) \/ Callback(l) \/ UnknownProvider(l)
           \/ Exchange(l)
  PROVE  IInv'
<1>0. /\ TypeOK /\ Served /\ AccountsOfOwnServer
      /\ login \in [Logins -> LoginRecords] /\ login[l] \in LoginRecords
      /\ UNCHANGED configVars /\ UNCHANGED accounts
  BY DEF IInv, TypeOK, Ask, Consent, NoConsent, Callback, UnknownProvider, Exchange
<1>1. process = "up"
  <2>1. Ask(l) \/ login[l].pc # "idle"
    BY DEF Consent, NoConsent, Callback, UnknownProvider, Exchange
  <2>2. QED BY <1>0, <2>1 DEF Ask, Served
<1>2. Served' /\ process' = "up" /\ AccountsOfOwnServer'
  BY <1>0, <1>1, ConfigStays DEF AccountsOfOwnServer, configVars
<1>3. \A k \in DOMAIN providers :
        /\ providers[k] \in ProviderRecords /\ k \in Strings
        /\ providers[k].type \in ProviderTypes
  BY <1>0, <1>1, ProvidersSound
<1> DEFINE Fits(new, rows) ==
      /\ new.pc # "idle" => new.asked \in DOMAIN providers
      /\ new.pc \in {"sent", "back"} => l \in rows
      /\ new.pc \in {"exchange", "identify", "done"} => new.at \in DOMAIN providers
      /\ new.pc \in {"back", "exchange", "identify", "done"} => new.user \in Users
<1>4. ASSUME NEW new \in LoginRecords, login' = [login EXCEPT ![l] = new],
             DOMAIN states' \subseteq Logins, states' \in [DOMAIN states' -> BOOLEAN],
             Fits(new, DOMAIN states'), DOMAIN states \ {l} \subseteq DOMAIN states'
      PROVE  TypeOK'
  <2>1. /\ login' \in [Logins -> LoginRecords] /\ login'[l] = new
        /\ \A m \in Logins \ {l} : login'[m] = login[m]
    BY <1>0, <1>4, LoginMoves
  <2>2. UNCHANGED <<file, env, process, cfg, providers, accounts>>
    BY <1>0 DEF configVars
  <2>3. QED BY <1>0, <1>1, <1>4, <2>1, <2>2 DEF TypeOK
<1>5. CASE Ask(l)
  <2>1. PICK k \in DOMAIN providers :
          /\ states' = [s \in DOMAIN states \cup {l} |->
                          IF s = l THEN StoredVerifier(providers[k]) ELSE states[s]]
          /\ login' = [login EXCEPT ![l] =
               [@ EXCEPT !.pc = "sent", !.asked = k,
                         !.challenged = UsesPKCE(providers[k])]]
    BY <1>5 DEF Ask
  <2> DEFINE new == [login[l] EXCEPT !.pc = "sent", !.asked = k,
                                     !.challenged = UsesPKCE(providers[k])]
  <2>2. UsesPKCE(providers[k]) \in BOOLEAN /\ StoredVerifier(providers[k]) \in BOOLEAN
    BY DEF UsesPKCE, StoredVerifier
  <2>3. new \in LoginRecords /\ new.pc = "sent" /\ new.asked = k
    BY <1>0, <1>3, <2>2 DEF LoginRecords
  <2>4. login' = [login EXCEPT ![l] = new]
    BY <1>0, <2>1
  <2>5. /\ DOMAIN states' = DOMAIN states \cup {l}
        /\ states' \in [DOMAIN states' -> BOOLEAN] /\ DOMAIN states' \subseteq Logins
    BY <1>0, <2>1, <2>2 DEF TypeOK
  <2> HIDE DEF new
  <2>6. QED BY <1>0, <1>2, <1>4, <2>3, <2>4, <2>5 DEF IInv
<1>6. CASE Consent(l)
  <2> DEFINE p == providers[login[l].asked]
  <2>1. login[l].pc = "sent" /\ states' = states /\ l \in DOMAIN states
        /\ login[l].asked \in DOMAIN providers
    BY <1>0, <1>6 DEF Consent, TypeOK
  <2>2. PICK u \in Users :
          login' = [login EXCEPT ![l] =
            [@ EXCEPT !.pc = "back", !.at = CallbackKey(p), !.site = OAuthSite(p),
                      !.user = u, !.client = p.clientId]]
    BY <1>6 DEF Consent
  <2>3. /\ OAuthSite(p) \in Strings /\ CallbackKey(p) \in Strings
        /\ p.clientId \in Strings
    BY <1>3, <2>1, AddressesTyped
  <2> HIDE DEF p
  <2> DEFINE new == [login[l] EXCEPT !.pc = "back", !.at = CallbackKey(p),
                       !.site = OAuthSite(p), !.user = u, !.client = p.clientId]
  <2>4. /\ new \in LoginRecords /\ new.pc = "back" /\ new.asked = login[l].asked
        /\ new.user \in Users
    BY <1>0, <2>3 DEF LoginRecords
  <2>5. login' = [login EXCEPT ![l] = new]
    BY <1>0, <2>2
  <2> HIDE DEF new
  <2>6. QED BY <1>0, <1>2, <1>4, <2>1, <2>4, <2>5 DEF IInv, TypeOK
<1>7. CASE Callback(l)
  <2> DEFINE new == [login[l] EXCEPT !.pc = "exchange", !.verifier = states[l]]
  <2>1. /\ login[l].pc = "back" /\ login[l].at \in DOMAIN providers
        /\ states' = [s \in DOMAIN states \ {l} |-> states[s]]
        /\ login' = [login EXCEPT ![l] = new]
    BY <1>0, <1>7 DEF Callback, KnownKey
  <2>2. l \in DOMAIN states /\ login[l].asked \in DOMAIN providers
    BY <1>0, <2>1 DEF TypeOK
  <2>3. states[l] \in BOOLEAN
    BY <1>0, <2>2 DEF TypeOK
  <2>4. /\ new \in LoginRecords /\ new.pc = "exchange"
        /\ new.asked = login[l].asked /\ new.at = login[l].at
        /\ new.user = login[l].user /\ login[l].user \in Users
    BY <1>0, <2>1, <2>3 DEF LoginRecords, TypeOK
  <2>5. /\ DOMAIN states' = DOMAIN states \ {l} /\ DOMAIN states' \subseteq Logins
        /\ states' \in [DOMAIN states' -> BOOLEAN]
    BY <1>0, <2>1 DEF TypeOK
  <2> HIDE DEF new
  <2>6. QED BY <1>0, <1>2, <1>4, <2>1, <2>2, <2>4, <2>5 DEF IInv
<1>8. CASE NoConsent(l) \/ UnknownProvider(l) \/ Exchange(l)
  <2>1. PICK w \in {"gone", "failed", "identify"} :
          /\ Goes(l, w) /\ states' = states /\ login[l].pc # "idle"
          /\ w = "identify" => login[l].pc = "exchange"
    BY <1>8 DEF NoConsent, UnknownProvider, Exchange
  <2> DEFINE new == [login[l] EXCEPT !.pc = w]
  <2>2. /\ new \in LoginRecords /\ new.pc = w
        /\ new.asked = login[l].asked /\ new.at = login[l].at
        /\ new.user = login[l].user
    BY <1>0 DEF LoginRecords
  <2>3. login' = [login EXCEPT ![l] = new]
    BY <1>0, <2>1 DEF Goes
  <2>4. /\ login[l].asked \in DOMAIN providers
        /\ w = "identify" => login[l].at \in DOMAIN providers /\ login[l].user \in Users
    BY <1>0, <2>1 DEF TypeOK
  <2> HIDE DEF new
  <2>5. QED BY <1>0, <1>2, <1>4, <2>1, <2>2, <2>3, <2>4 DEF IInv, TypeOK
<1>9. QED BY <1>5, <1>6, <1>7, <1>8

\* An account is made where the token's own server answered.
LEMMA IdentifyKeeps ==
  ASSUME IInv, NEW l \in Logins, Identify(l)
  PROVE  IInv'
<1>0. /\ TypeOK /\ Served /\ AccountsOfOwnServer
      /\ login \in [Logins -> LoginRecords] /\ login[l] \in LoginRecords
      /\ UNCHANGED configVars /\ states' = states /\ login[l].pc = "identify"
  BY DEF IInv, TypeOK, Identify
<1>1. process = "up"
  BY <1>0 DEF Served
<1>2. Served' /\ process' = "up" /\ UNCHANGED <<file, env, cfg, providers>>
  BY <1>0, <1>1, ConfigStays DEF configVars
<1>3. /\ login[l].at \in DOMAIN providers /\ login[l].asked \in DOMAIN providers
      /\ login[l].user \in Users /\ login[l].site \in Strings
  BY <1>0 DEF TypeOK, LoginRecords
<1>4. TypeOK'
  <2>1. PICK w \in {"failed", "done"} : Goes(l, w)
    BY DEF Identify
  <2> DEFINE new == [login[l] EXCEPT !.pc = w]
  <2>2. /\ new \in LoginRecords /\ new.pc = w
        /\ new.asked = login[l].asked /\ new.at = login[l].at
        /\ new.user = login[l].user
    BY <1>0 DEF LoginRecords
  <2>3. login' = [login EXCEPT ![l] = new]
    BY <1>0, <2>1 DEF Goes
  <2> HIDE DEF new
  <2>4. /\ login' \in [Logins -> LoginRecords] /\ login'[l] = new
        /\ \A m \in Logins \ {l} : login'[m] = login[m]
    BY <1>0, <2>2, <2>3, LoginMoves
  <2>5. accounts' \subseteq [provider : DOMAIN providers, id : Users, site : Strings]
    <3>1. accounts' \subseteq accounts \cup
            {[provider |-> login[l].at, id |-> login[l].user, site |-> login[l].site]}
      BY DEF Identify
    <3>2. QED BY <1>0, <1>3, <3>1 DEF TypeOK
  <2>6. QED BY <1>0, <1>1, <1>2, <1>3, <2>2, <2>4, <2>5 DEF TypeOK
<1>5. AccountsOfOwnServer'
  <2> DEFINE a == [provider |-> login[l].at, id |-> login[l].user, site |-> login[l].site]
             p == providers[login[l].at]
  <2>1. CASE ApiAddress(p) = [site |-> login[l].site, door |-> "api"]
    <3>1. ApiAddress(p).site = SiteOf(p)
      BY DEF ApiAddress
    <3>2. login[l].site = SiteOf(p)
      BY <2>1, <3>1
    <3>3. accounts' \subseteq accounts \cup {a}
      BY <2>1 DEF Identify
    <3>4. a.site = SiteOf(providers[a.provider])
      BY <3>2
    <3> HIDE DEF a
    <3>5. QED BY <1>0, <1>2, <3>3, <3>4 DEF AccountsOfOwnServer
  <2>2. CASE ApiAddress(p) # [site |-> login[l].site, door |-> "api"]
    <3>1. accounts' = accounts
      BY <2>2 DEF Identify
    <3>2. QED BY <1>0, <1>2, <3>1 DEF AccountsOfOwnServer
  <2>3. QED BY <2>1, <2>2
<1>6. QED BY <1>2, <1>4, <1>5 DEF IInv

LEMMA Inductive == IInv /\ [Next]_vars => IInv'
<1> SUFFICES ASSUME IInv, [Next]_vars PROVE IInv'
  OBVIOUS
<1>1. CASE UNCHANGED vars
  BY <1>1 DEF vars, IInv, TypeOK, Served, AccountsOfOwnServer
<1>2. QED
  BY <1>1, StartKeeps, LoginStepKeeps, IdentifyKeeps DEF Next, Handle, Rest

LEMMA Begins == Init => IInv
<1> SUFFICES ASSUME Init PROVE IInv
  OBVIOUS
<1>1. NotBegun \in LoginRecords /\ NotBegun.pc = "idle"
  BY ConfigAssumption DEF NotBegun, LoginRecords
<1>2. /\ file \in Files /\ env \in Envs /\ process = "down" /\ accounts = {}
      /\ DOMAIN states = {} /\ states \in [{} -> BOOLEAN]
      /\ DOMAIN providers = {} /\ providers \in [{} -> ProviderRecords]
      /\ cfg \in FileRecords /\ login = [l \in Logins |-> NotBegun]
  BY SignInAssumption DEF Init
<1>3. \A l \in Logins : login[l] = NotBegun
  BY <1>2
<1>4. QED BY <1>1, <1>2, <1>3 DEF IInv, TypeOK, Served, AccountsOfOwnServer

LEMMA Invariance == Spec => []IInv
BY Begins, Inductive, PTL DEF Spec

-----------------------------------------------------------------------------
(* What follows from it *)

\* Every variable keeps its type: a process has a configuration and providers of
\* the declared form, a login on its way is one with such a provider and of a user
\* who agreed, and an account is kept under one (auth.go:124-128, 188-241).
THEOREM TypeCorrect == Spec => []TypeOK
BY Invariance, PTL DEF IInv

\* What is kept of a user was said by the server the provider stands for
\* (auth.go:209-241, provider NewClient).
THEOREM AccountsTrue == Spec => []AccountsOfOwnServer
BY Invariance, PTL DEF IInv

\* Whatever file and environment a process starts with, when it serves it
\* serves all that the file lists, with nothing left to fill in
\* (config.go:51-161, provider.go:79-94, database.go:33).
THEOREM ConfigSound == Spec => []ServesSoundConfig
<1>1. ASSUME Served, process = "up" PROVE ServesSoundConfig
  <2>0. /\ file \in Files /\ env \in Envs /\ cfg = Loaded(file, env) /\ Valid(cfg)
        /\ cfg.secretKey \in HexKeys /\ providers = NewProvidersFromConfig(cfg)
    BY <1>1 DEF Served
  <2>1. /\ cfg.providers \in Seq(ProviderRecords)
        /\ file.providers \in Seq(ProviderRecords)
        /\ Len(cfg.providers) = Len(file.providers)
        /\ \A i \in 1 .. Len(file.providers) :
             cfg.providers[i] = ExpandProvider(SetDefaultsProvider(file.providers[i]), env)
    BY <2>0, LoadedEntries
  <2>2. ASSUME NEW i \in 1 .. Len(file.providers)
        PROVE  Expand(file.providers[i].key, env) \in DOMAIN providers
    <3>1. file.providers[i] \in ProviderRecords
      BY <2>1, ElementOfSeq
    <3>2. cfg.providers[i].key = Expand(file.providers[i].key, env)
      BY <2>1, <3>1 DEF ExpandProvider, SetDefaultsProvider, ProviderRecords
    <3>3. cfg.providers[i] \in Configured(cfg)
      BY <2>1 DEF Configured
    <3>4. QED BY <2>0, <3>2, <3>3, ProvidersOfValid
  <2>3. ASSUME NEW k \in DOMAIN providers
        PROVE  /\ providers[k].key = k /\ providers[k].type \in ProviderTypes
               /\ {providers[k].clientId, providers[k].clientSecret}
                    \cap ({""} \cup DOMAIN env) = {}
    <3>1. PICK i \in 1 .. Len(cfg.providers) : providers[k] = cfg.providers[i]
      BY <2>0, ProvidersOfValid DEF Configured
    <3>2. providers[k].key = k
      BY <2>0, ProvidersOfValid
    <3>3. ValidProvider(providers[k])
      BY <2>0, <3>1 DEF Valid
    <3> DEFINE p == SetDefaultsProvider(file.providers[i])
    <3>4. p \in ProviderRecords
      <4>1. file.providers[i] \in ProviderRecords
        BY <2>1, ElementOfSeq
      <4>2. QED BY <4>1 DEF SetDefaultsProvider, ProviderRecords
    <3>5. providers[k] = ExpandProvider(p, env)
      BY <2>1, <3>1
    <3> HIDE DEF p
    <3>6. /\ providers[k].clientId = Expand(p.clientId, env)
          /\ providers[k].clientSecret = Expand(p.clientSecret, env)
      BY <3>4, <3>5 DEF ExpandProvider, ProviderRecords
    <3>7. \A v : Expand(v, env) \notin DOMAIN env
      BY <2>0, SignInAssumption DEF Expand
    <3>8. QED BY <3>2, <3>3, <3>6, <3>7 DEF ValidProvider
  <2>4. cfg.secretKey \notin DOMAIN env
    BY <2>0, SignInAssumption
  <2>5. QED BY <2>2, <2>3, <2>4 DEF ServesSoundConfig
<1>2. IInv => ServesSoundConfig
  BY <1>1 DEF IInv, ServesSoundConfig
<1>3. QED BY <1>2, Invariance, PTL

-----------------------------------------------------------------------------
(* Which logins may fail *)

\* What a login carries was made for the provider asked: where its user went and
\* comes back, the application he agreed to, the challenge and its verifier.
Carries(l) ==
  LET p == providers[login[l].asked]
      pc == login[l].pc
  IN  /\ pc \in {"sent", "back"} => states[l] = UsesPKCE(p)
      /\ pc \in {"sent", "back", "exchange"} => login[l].challenged = UsesPKCE(p)
      /\ pc \in {"back", "exchange", "identify"} =>
           /\ login[l].at = CallbackKey(p) /\ login[l].site = OAuthSite(p)
           /\ login[l].client = p.clientId
      /\ pc = "exchange" => login[l].verifier = UsesPKCE(p)

Justified(l) == login[l].pc = "failed" => ~ Workable(login[l].asked)

Journey == \A l \in Logins : Carries(l) /\ Justified(l)

\* The callback of a workable provider names it, its code was given by its own
\* site, and its API answers there.
LEMMA WorkableFits ==
  ASSUME Served, process = "up", NEW k \in DOMAIN providers, Workable(k)
  PROVE  /\ CallbackKey(providers[k]) = k
         /\ ApiAddress(providers[k]) = [site |-> OAuthSite(providers[k]), door |-> "api"]
         /\ KnowsApplication(providers[k])
         /\ providers[k].type \in TakesToken /\ cfg.secretKey \in AesKeys
<1> DEFINE p == providers[k]
<1>1. k = p.type /\ p.type \in TakesToken /\ cfg.secretKey \in AesKeys
  BY DEF Workable
<1>2. \/ p.type = GitLab /\ SiteOf(p) = PublicSite(GitLab)
      \/ p.type = Gitea /\ p.url # ""
  BY DEF Workable
<1>3. p.type # GitHub
  BY <1>2 DEF GitHub, GitLab, Gitea
<1>4. SiteOf(p) = OAuthSite(p)
  BY <1>2 DEF SiteOf, OAuthSite, GitLab, Gitea
<1>5. KnowsApplication(p)
  BY DEF Workable, KnowsApplication, SentSecret, GitLab, Gitea
<1> HIDE DEF p
<1>6. QED BY <1>1, <1>3, <1>4, <1>5 DEF p, CallbackKey, ApiAddress

\* The steps of one login leave the others, and every login's provider, alone.
LEMMA OthersCarry ==
  ASSUME IInv, Journey, NEW l \in Logins, UNCHANGED configVars,
         \A m \in Logins \ {l} :
           /\ login'[m] = login[m]
           /\ m \in DOMAIN states => states'[m] = states[m]
  PROVE  \A m \in Logins \ {l} : Carries(m)' /\ Justified(m)'
<1>1. SUFFICES ASSUME NEW m \in Logins \ {l}
               PROVE  Carries(m)' /\ Justified(m)'
  OBVIOUS
<1>2. login[m].pc \in {"sent", "back"} => states'[m] = states[m]
  BY DEF IInv, TypeOK
<1>3. Carries(m)'
  BY <1>2 DEF Journey, Carries, configVars
<1>4. Justified(m)'
  BY DEF Journey, Justified, Workable, configVars
<1>5. QED BY <1>3, <1>4

\* Each step of a login carries on what the one before it left.
LEMMA JourneyGoes ==
  ASSUME IInv, Journey, NEW l \in Logins,
         Ask(l) \/ Consent(l) \/ NoConsent(l) \/ Callback(l)
  PROVE  /\ Carries(l)' /\ Justified(l)'
         /\ \A m \in Logins \ {l} :
              /\ login'[m] = login[m]
              /\ m \in DOMAIN states => states'[m] = states[m]
<1>0. /\ login \in [Logins -> LoginRecords] /\ login[l] \in LoginRecords
      /\ UNCHANGED configVars /\ Carries(l)
  BY DEF IInv, TypeOK, Journey, Ask, Consent, NoConsent, Callback
<1>1. CASE Ask(l)
  <2>1. PICK k \in DOMAIN providers :
          /\ states' = [s \in DOMAIN states \cup {l} |->
                          IF s = l THEN StoredVerifier(providers[k]) ELSE states[s]]
          /\ login' = [login EXCEPT ![l] =
               [@ EXCEPT !.pc = "sent", !.asked = k,
                         !.challenged = UsesPKCE(providers[k])]]
    BY <1>1 DEF Ask
  <2>2. /\ login'[l].pc = "sent" /\ login'[l].asked = k
        /\ login'[l].challenged = UsesPKCE(providers[k])
        /\ states'[l] = UsesPKCE(providers[k])
    BY <1>0, <2>1 DEF LoginRecords, StoredVerifier
  <2>3. Carries(l)' /\ Justified(l)'
    BY <1>0, <2>2 DEF Carries, Justified, configVars
  <2>4. QED BY <1>0, <2>1, <2>3
<1>2. CASE Consent(l)
  <2> DEFINE p == providers[login[l].asked]
  <2>1. PICK u \in Users :
          login' = [login EXCEPT ![l] =
            [@ EXCEPT !.pc = "back", !.at = CallbackKey(p), !.site = OAuthSite(p),
                      !.user = u, !.client = p.clientId]]
    BY <1>2 DEF Consent
  <2>2. /\ login[l].pc = "sent" /\ states' = states /\ providers' = providers
    BY <1>0, <1>2 DEF Consent, configVars
  <2>3. /\ login'[l].pc = "back" /\ login'[l].asked = login[l].asked
        /\ login'[l].at = CallbackKey(p) /\ login'[l].site = OAuthSite(p)
        /\ login'[l].client = p.clientId
        /\ login'[l].challenged = login[l].challenged
    BY <1>0, <2>1 DEF LoginRecords
  <2>4. Carries(l)' /\ Justified(l)'
    BY <1>0, <2>2, <2>3 DEF Carries, Justified
  <2>5. QED BY <1>0, <2>1, <2>2, <2>4
<1>3. CASE NoConsent(l)
  <2>1. login' = [login EXCEPT ![l].pc = "gone"] /\ states' = states
    BY <1>3 DEF NoConsent, Goes
  <2>2. login'[l].pc = "gone"
    BY <1>0, <2>1 DEF LoginRecords
  <2>3. QED BY <1>0, <2>1, <2>2 DEF Carries, Justified
<1>4. CASE Callback(l)
  <2>1. /\ login' = [login EXCEPT ![l] = [@ EXCEPT !.pc = "exchange", !.verifier = states[l]]]
        /\ states' = [s \in DOMAIN states \ {l} |-> states[s]]
        /\ login[l].pc = "back" /\ providers' = providers
    BY <1>0, <1>4 DEF Callback, configVars
  <2>2. /\ login'[l].pc = "exchange" /\ login'[l].asked = login[l].asked
        /\ login'[l].at = login[l].at /\ login'[l].site = login[l].site
        /\ login'[l].client = login[l].client
        /\ login'[l].challenged = login[l].challenged /\ login'[l].verifier = states[l]
    BY <1>0, <2>1 DEF LoginRecords
  <2>3. Carries(l)' /\ Justified(l)'
    BY <1>0, <2>1, <2>2 DEF Carries, Justified
  <2>4. QED BY <1>0, <2>1, <2>3
<1>5. QED BY <1>1, <1>2, <1>3, <1>4

\* A login that fails at its callback, at the token endpoint or at the API is one
\* that some part of the configuration does not fit.
LEMMA JourneyEnds ==
  ASSUME IInv, Journey, NEW l \in Logins,
         UnknownProvider(l) \/ Exchange(l) \/ Identify(l)
  PROVE  /\ Carries(l)' /\ Justified(l)'
         /\ \A m \in Logins \ {l} :
              /\ login'[m] = login[m]
              /\ m \in DOMAIN states => states'[m] = states[m]
<1> DEFINE k == login[l].asked
           p == providers[k]
<1>0. /\ login \in [Logins -> LoginRecords] /\ login[l] \in LoginRecords
      /\ UNCHANGED configVars /\ UNCHANGED states /\ Carries(l)
      /\ login[l].pc \in {"back", "exchange", "identify"}
  BY DEF IInv, TypeOK, Journey, UnknownProvider, Exchange, Identify
<1>1. k \in DOMAIN providers /\ process = "up" /\ Served
  BY <1>0 DEF IInv, TypeOK
<1>2. /\ login[l].at = CallbackKey(p) /\ login[l].site = OAuthSite(p)
      /\ login[l].client = p.clientId
  BY <1>0 DEF Carries
<1>3. PICK w \in {"failed", "identify", "done"} :
        /\ Goes(l, w)
        /\ w = "identify" => login[l].pc = "exchange"
        /\ w = "failed" => ~ Workable(k)
  <2>1. ASSUME UnknownProvider(l), Workable(k) PROVE FALSE
    BY <1>1, <1>2, <2>1, WorkableFits DEF UnknownProvider, KnownKey
  <2>2. ASSUME Exchange(l), Workable(k) PROVE Goes(l, "identify")
    <3>1. login[l].at = k /\ login[l].pc = "exchange"
      BY <1>1, <1>2, <2>2, WorkableFits DEF Exchange
    <3>2. login[l].challenged => login[l].verifier
      BY <1>0, <3>1 DEF Carries
    <3>3. KnowsApplication(p)
      BY <1>1, <2>2, WorkableFits
    <3>4. QED BY <1>2, <2>2, <3>1, <3>2, <3>3 DEF Exchange
  <2>3. ASSUME Identify(l), Workable(k) PROVE Goes(l, "done")
    <3>1. login[l].at = k
      BY <1>1, <1>2, <2>3, WorkableFits
    <3>2. /\ ApiAddress(providers[login[l].at]) = [site |-> login[l].site, door |-> "api"]
          /\ providers[login[l].at].type \in TakesToken /\ cfg.secretKey \in AesKeys
      BY <1>1, <1>2, <2>3, <3>1, WorkableFits
    <3>3. QED BY <2>3, <3>2 DEF Identify
  <2>4. CASE UnknownProvider(l)
    BY <2>1, <2>4 DEF UnknownProvider
  <2>5. CASE Exchange(l)
    <3>1. (Goes(l, "identify") \/ Goes(l, "failed")) /\ login[l].pc = "exchange"
      BY <2>5 DEF Exchange
    <3>2. QED BY <2>2, <2>5, <3>1
  <2>6. CASE Identify(l)
    <3>1. Goes(l, "done") \/ Goes(l, "failed")
      BY <2>6 DEF Identify
    <3>2. QED BY <2>3, <2>6, <3>1
  <2>7. QED BY <2>4, <2>5, <2>6
<1>4. /\ login'[l].pc = w /\ login'[l].asked = login[l].asked
      /\ login'[l].at = login[l].at /\ login'[l].site = login[l].site
      /\ login'[l].client = login[l].client
      /\ \A m \in Logins \ {l} : login'[m] = login[m]
  BY <1>0, <1>3 DEF Goes, LoginRecords
<1>5. Carries(l)'
  BY <1>0, <1>2, <1>4 DEF Carries, configVars
<1>6. Justified(l)'
  BY <1>0, <1>3, <1>4 DEF Justified, Workable, configVars
<1>7. QED BY <1>0, <1>4, <1>5, <1>6

LEMMA JourneyStep ==
  ASSUME IInv, Journey, [Next]_vars
  PROVE  Journey'
<1>1. CASE UNCHANGED vars
  <2>1. UNCHANGED <<login, states, cfg, providers>>
    BY <1>1 DEF vars
  <2>2. \A l \in Logins : Carries(l)'
    BY <2>1 DEF Journey, Carries
  <2>3. \A l \in Logins : Justified(l)'
    BY <2>1 DEF Journey, Justified, Workable
  <2>4. QED BY <2>2, <2>3 DEF Journey
<1>2. CASE Start
  <2>1. \A l \in Logins : login'[l].pc = "idle"
    BY <1>2 DEF Start, IInv, Served
  <2>2. QED BY <2>1 DEF Journey, Carries, Justified
<1>3. ASSUME NEW l \in Logins,
             Ask(l) \/ Consent(l) \/ NoConsent(l) \/ Handle(l)
      PROVE  Journey'
  <2>1. /\ Carries(l)' /\ Justified(l)'
        /\ \A m \in Logins \ {l} :
             /\ login'[m] = login[m]
             /\ m \in DOMAIN states => states'[m] = states[m]
    BY <1>3, JourneyGoes, JourneyEnds DEF Handle
  <2>2. UNCHANGED configVars
    BY <1>3 DEF Handle, Ask, Consent, NoConsent, Callback, UnknownProvider, Exchange,
       Identify
  <2>3. \A m \in Logins \ {l} : Carries(m)' /\ Justified(m)'
    BY <2>1, <2>2, OthersCarry
  <2>4. \A m \in Logins : Carries(m)' /\ Justified(m)'
    BY <2>1, <2>3
  <2>5. QED BY <2>4 DEF Journey
<1>4. QED BY <1>1, <1>2, <1>3 DEF Next, Rest

\* A login with a provider that can be signed in with (Workable: its addresses fit,
\* its token endpoint knows the application by what is sent, its API takes the
\* token and the key can seal it) is never answered with an error, for every file,
\* environment and registration (auth.go:119-265).
THEOREM WorkableLetIn == Spec => []WorkableNotRefused
<1>1. ASSUME Init PROVE Journey
  <2>1. \A l \in Logins : login[l].pc = "idle"
    BY <1>1 DEF Init, NotBegun
  <2>2. QED BY <2>1 DEF Journey, Carries, Justified
<1>2. IInv /\ Journey /\ [Next]_vars => Journey'
  BY JourneyStep
<1>3. Journey => WorkableNotRefused
  BY DEF Journey, Justified, WorkableNotRefused
<1>4. QED BY <1>1, <1>2, <1>3, Invariance, PTL DEF Spec

-----------------------------------------------------------------------------
(* Refinement of LoginFlow *)

Stage == [l \in Begun |-> LoginStage(l)]
Consents == [l \in Agreed |-> [site |-> login[l].site, user |-> login[l].user]]
Holders == [l \in SignedIn |-> [site |-> SiteOf(providers[login[l].at]),
                               user |-> login[l].user]]

AbstractVars == <<Stage, Consents, Holders>>

\* A row waits only for a login that is not past its callback.
RowsWait ==
  \A l \in DOMAIN states : login[l].pc \in {"sent", "back", "gone", "failed"}

\* A step of one login leaves the others and the providers alone.
Frame(l) ==
  /\ login' \in [Logins -> LoginRecords] /\ UNCHANGED providers
  /\ \A m \in Logins \ {l} :
       login'[m] = login[m] /\ (m \in DOMAIN states' <=> m \in DOMAIN states)

LEMMA OneLoginSteps ==
  ASSUME IInv, NEW l \in Logins, Ask(l) \/ Consent(l) \/ NoConsent(l) \/ Handle(l)
  PROVE  Frame(l)
<1>0. login \in [Logins -> LoginRecords]
  BY DEF IInv, TypeOK
<1>1. login' \in [Logins -> LoginRecords]
  BY LoginStepKeeps, IdentifyKeeps DEF Handle, IInv, TypeOK
<1>2. UNCHANGED providers
  BY DEF Ask, Consent, NoConsent, Handle, Callback, UnknownProvider, Exchange, Identify,
     configVars
<1>3. \E new : login' = [login EXCEPT ![l] = new]
  BY Zenon DEF Ask, Consent, NoConsent, Handle, Callback, UnknownProvider, Exchange,
     Identify, Goes
<1>4. \A m \in Logins \ {l} : login'[m] = login[m]
  BY <1>0, <1>3
<1>5. \A m \in Logins \ {l} : m \in DOMAIN states' <=> m \in DOMAIN states
  BY DEF Ask, Consent, NoConsent, Handle, Callback, UnknownProvider, Exchange, Identify
<1>6. QED BY <1>1, <1>2, <1>4, <1>5 DEF Frame

\* Then its stage is all that changes of the stages.
LEMMA StageMoves ==
  ASSUME NEW l \in Logins, Frame(l), login'[l].pc # "idle",
         NEW w, (LoginStage(l))' = w
  PROVE  Stage' = Flow!With(Stage, l, w)
<1>1. Begun' = Begun \cup {l}
  BY DEF Begun, Frame
<1>2. \A m \in Begun \ {l} : (LoginStage(m))' = LoginStage(m)
  BY DEF Begun, Frame, LoginStage
<1>3. QED BY <1>1, <1>2 DEF Stage, Flow!With

\* One that stays where it was changes nothing.
LEMMA StageStays ==
  ASSUME NEW l \in Logins, Frame(l), l \in Begun, Stage' = Flow!With(Stage, l, LoginStage(l))
  PROVE  Stage' = Stage
BY DEF Stage, Flow!With

\* Who agreed and who is signed in change with the login only.
LEMMA ConsentsStay ==
  ASSUME NEW l \in Logins, Frame(l), l \in Agreed' <=> l \in Agreed,
         l \in Agreed => login'[l].site = login[l].site /\ login'[l].user = login[l].user
  PROVE  Consents' = Consents
<1>1. Agreed' = Agreed
  BY DEF Frame, Agreed, Begun
<1>2. \A m \in Agreed : login'[m].site = login[m].site /\ login'[m].user = login[m].user
  BY DEF Frame, Agreed, Begun
<1>3. QED BY <1>1, <1>2 DEF Consents

LEMMA HoldersStay ==
  ASSUME NEW l \in Logins, Frame(l), login[l].pc # "done", login'[l].pc # "done"
  PROVE  Holders' = Holders
<1>1. SignedIn' = SignedIn
  BY DEF Frame, SignedIn, Begun
<1>2. \A m \in SignedIn : login'[m] = login[m] /\ providers' = providers
  BY DEF Frame, SignedIn, Begun
<1>3. QED BY <1>1, <1>2 DEF Holders

\* What each action makes of its login and of its row.
LEMMA LoginAfter ==
  ASSUME IInv, NEW l \in Logins
  PROVE  /\ Ask(l) => /\ login[l].pc = "idle" /\ login'[l].pc = "sent"
                      /\ l \in DOMAIN states'
         /\ Consent(l) => /\ login[l].pc = "sent" /\ login'[l].pc = "back"
                          /\ states' = states
         /\ NoConsent(l) => /\ login[l].pc = "sent" /\ login'[l].pc = "gone"
                            /\ states' = states
         /\ Callback(l) => /\ login[l].pc = "back" /\ login'[l].pc = "exchange"
                           /\ l \notin DOMAIN states'
         /\ UnknownProvider(l) => /\ login[l].pc = "back" /\ login'[l].pc = "failed"
                                  /\ states' = states
         /\ Exchange(l) => /\ login[l].pc = "exchange"
                           /\ login'[l].pc \in {"identify", "failed"}
                           /\ states' = states
         /\ Identify(l) => /\ login[l].pc = "identify"
                           /\ login'[l].pc \in {"done", "failed"}
                           /\ states' = states
<1>0. login \in [Logins -> LoginRecords]
  BY DEF IInv, TypeOK
<1>1. ASSUME Ask(l)
      PROVE  login[l].pc = "idle" /\ login'[l].pc = "sent" /\ l \in DOMAIN states'
  <2>1. PICK k \in DOMAIN providers :
          login' = [login EXCEPT ![l] = [@ EXCEPT !.pc = "sent", !.asked = k,
                                          !.challenged = UsesPKCE(providers[k])]]
    BY <1>1 DEF Ask
  <2>2. login'[l].pc = "sent"
    BY <1>0, <2>1 DEF LoginRecords
  <2>3. QED BY <1>1, <2>2 DEF Ask
<1>2. ASSUME Consent(l)
      PROVE  login[l].pc = "sent" /\ login'[l].pc = "back" /\ states' = states
  <2> DEFINE p == providers[login[l].asked]
  <2>1. PICK u \in Users :
          login' = [login EXCEPT ![l] =
            [@ EXCEPT !.pc = "back", !.at = CallbackKey(p), !.site = OAuthSite(p),
                      !.user = u, !.client = p.clientId]]
    BY <1>2 DEF Consent
  <2> HIDE DEF p
  <2>2. login'[l].pc = "back"
    BY <1>0, <2>1 DEF LoginRecords
  <2>3. QED BY <1>2, <2>2 DEF Consent
<1>3. ASSUME Callback(l)
      PROVE  /\ login[l].pc = "back" /\ login'[l].pc = "exchange"
             /\ l \notin DOMAIN states'
  BY <1>0, <1>3 DEF Callback, LoginRecords
<1>4. ASSUME NEW w, Goes(l, w) PROVE login'[l].pc = w
  BY <1>0, <1>4 DEF Goes, LoginRecords
<1>5. ASSUME NoConsent(l)
      PROVE  login[l].pc = "sent" /\ login'[l].pc = "gone" /\ states' = states
  BY <1>4, <1>5 DEF NoConsent
<1>6. ASSUME UnknownProvider(l)
      PROVE  login[l].pc = "back" /\ login'[l].pc = "failed" /\ states' = states
  BY <1>4, <1>6 DEF UnknownProvider
<1>7. ASSUME Exchange(l)
      PROVE  /\ login[l].pc = "exchange" /\ login'[l].pc \in {"identify", "failed"}
             /\ states' = states
  BY <1>4, <1>7 DEF Exchange
<1>8. ASSUME Identify(l)
      PROVE  /\ login[l].pc = "identify" /\ login'[l].pc \in {"done", "failed"}
             /\ states' = states
  BY <1>4, <1>8 DEF Identify
<1>9. QED BY <1>1, <1>2, <1>3, <1>5, <1>6, <1>7, <1>8

LEMMA RowsWaitStep ==
  ASSUME IInv, RowsWait, [Next]_vars
  PROVE  RowsWait'
<1>1. CASE UNCHANGED vars \/ Start
  BY <1>1 DEF vars, Start, RowsWait
<1>2. ASSUME NEW l \in Logins, Ask(l) \/ Consent(l) \/ NoConsent(l) \/ Handle(l)
      PROVE  RowsWait'
  <2>1. Frame(l)
    BY <1>2, OneLoginSteps
  <2>2. l \in DOMAIN states' => login'[l].pc \in {"sent", "back", "gone", "failed"}
    BY <1>2, LoginAfter DEF Handle, RowsWait
  <2>3. DOMAIN states' \subseteq Logins
    BY Inductive DEF IInv, TypeOK
  <2>4. QED BY <2>1, <2>2, <2>3 DEF Frame, RowsWait
<1>3. QED BY <1>1, <1>2 DEF Next, Rest

\* A login keeps what its user agreed to.
LEMMA AgreedKept ==
  ASSUME IInv, NEW l \in Logins,
         Ask(l) \/ NoConsent(l) \/ Handle(l)
  PROVE  /\ login'[l].site = login[l].site /\ login'[l].user = login[l].user
         /\ login'[l].at = login[l].at
<1>0. login \in [Logins -> LoginRecords]
  BY DEF IInv, TypeOK
<1>1. CASE Ask(l)
  <2>1. PICK k \in DOMAIN providers :
          login' = [login EXCEPT ![l] = [@ EXCEPT !.pc = "sent", !.asked = k,
                                          !.challenged = UsesPKCE(providers[k])]]
    BY <1>1 DEF Ask
  <2>2. QED BY <1>0, <2>1 DEF LoginRecords
<1>2. CASE Callback(l)
  BY <1>0, <1>2 DEF Callback, LoginRecords
<1>3. CASE NoConsent(l) \/ UnknownProvider(l) \/ Exchange(l) \/ Identify(l)
  <2>1. \E w : Goes(l, w)
    BY <1>3 DEF NoConsent, UnknownProvider, Exchange, Identify
  <2>2. QED BY <1>0, <2>1 DEF Goes, LoginRecords
<1>4. QED BY <1>1, <1>2, <1>3 DEF Handle

\* Every step of a login is a step of the flow or leaves it alone.
LEMMA FlowLoginStep ==
  ASSUME IInv, RowsWait, NEW l \in Logins,
         Ask(l) \/ Consent(l) \/ NoConsent(l) \/ Handle(l)
  PROVE  [Flow!Next]_AbstractVars
<1>0. /\ Frame(l) /\ login \in [Logins -> LoginRecords]
  BY OneLoginSteps DEF IInv, TypeOK
<1>1. CASE Ask(l)
  <2>1. login[l].pc = "idle" /\ login'[l].pc = "sent" /\ l \in DOMAIN states'
    BY <1>1, LoginAfter
  <2>2. Stage' = Flow!With(Stage, l, "begun")
    BY <1>0, <2>1, StageMoves DEF LoginStage
  <2>3. l \notin DOMAIN Stage /\ l \in DOMAIN Stage'
    BY <2>1, <2>2 DEF Stage, Begun, Flow!With
  <2>4. Consents' = Consents /\ Holders' = Holders
    BY <1>0, <2>1, ConsentsStay, HoldersStay DEF Agreed, Begun
  <2>5. Flow!Begin
    BY <2>2, <2>3, <2>4 DEF Flow!Begin, Stage, Consents, Holders
  <2>6. QED BY <2>5 DEF Flow!Next
<1>2. CASE Consent(l)
  <2>1. login[l].pc = "sent" /\ login'[l].pc = "back" /\ states' = states
    BY <1>2, LoginAfter
  <2>2. Stage' = Stage /\ l \in DOMAIN Stage
    <3>1. l \in DOMAIN states
      BY <2>1 DEF IInv, TypeOK
    <3>2. Stage' = Flow!With(Stage, l, LoginStage(l)) /\ l \in Begun
      BY <1>0, <2>1, <3>1, StageMoves DEF LoginStage, Begun
    <3>3. QED BY <1>0, <3>2, StageStays DEF Stage
  <2>3. Holders' = Holders
    BY <1>0, <2>1, HoldersStay
  <2>4. l \notin DOMAIN Consents
    BY <2>1 DEF Consents, Agreed
  <2>5. Consents' = Flow!With(Consents, l, Consents'[l]) /\ l \in DOMAIN Consents'
    <3>1. Agreed' = Agreed \cup {l}
      BY <1>0, <2>1 DEF Frame, Agreed, Begun
    <3>2. \A m \in Agreed : login'[m] = login[m]
      BY <1>0, <2>1 DEF Frame, Agreed, Begun
    <3>3. QED BY <3>1, <3>2 DEF Consents, Flow!With
  <2>6. Flow!Agree
    BY <2>2, <2>3, <2>4, <2>5 DEF Flow!Agree, Stage, Consents, Holders
  <2>7. QED BY <2>6 DEF Flow!Next
<1>3. CASE NoConsent(l) \/ UnknownProvider(l)
  <2>1. /\ login[l].pc \in {"sent", "back"} /\ states' = states
        /\ login'[l].pc = IF login[l].pc = "sent" THEN "gone" ELSE "failed"
    BY <1>3, LoginAfter
  <2>2. l \in DOMAIN states
    BY <2>1 DEF IInv, TypeOK
  <2>3. Stage' = Stage
    BY <1>0, <2>1, <2>2, StageMoves, StageStays DEF LoginStage, Begun
  <2>4. Holders' = Holders
    BY <1>0, <2>1, HoldersStay
  <2>5. login'[l].site = login[l].site /\ login'[l].user = login[l].user
    BY <1>3, AgreedKept DEF Handle
  <2>6. Consents' = Consents
    BY <1>0, <2>1, <2>5, ConsentsStay DEF Agreed, Begun
  <2>7. QED BY <2>3, <2>4, <2>6 DEF AbstractVars
<1>4. ASSUME Callback(l) \/ Exchange(l) \/ Identify(l)
      PROVE  /\ login[l].pc \in {"back", "exchange", "identify"}
             /\ login'[l].pc \in {"exchange", "identify", "done", "failed"}
             /\ l \in DOMAIN Consents /\ l \in DOMAIN Stage
             /\ Consents' = Consents
             /\ login'[l].pc # "done" => Holders' = Holders
             /\ login[l].pc # "back" => l \notin DOMAIN states /\ l \notin DOMAIN states'
  <2>1. /\ login[l].pc \in {"back", "exchange", "identify"}
        /\ login'[l].pc \in {"exchange", "identify", "done", "failed"}
    BY <1>4, LoginAfter
  <2>2. login'[l].site = login[l].site /\ login'[l].user = login[l].user
    BY <1>4, AgreedKept DEF Handle
  <2>3. l \in Agreed /\ l \in Begun /\ l \in Agreed'
    BY <2>1 DEF Agreed, Begun
  <2>4. Consents' = Consents
    BY <1>0, <2>2, <2>3, ConsentsStay
  <2>5. login'[l].pc # "done" => Holders' = Holders
    BY <1>0, <2>1, HoldersStay
  <2>6. login[l].pc # "back" => l \notin DOMAIN states /\ l \notin DOMAIN states'
    BY <1>4, <2>1, LoginAfter DEF RowsWait
  <2>7. QED BY <2>1, <2>3, <2>4, <2>5, <2>6 DEF Consents, Stage
<1>5. CASE Callback(l)
  <2>1. /\ login[l].pc = "back" /\ login'[l].pc = "exchange"
        /\ l \in DOMAIN states /\ l \notin DOMAIN states'
    BY <1>5, LoginAfter DEF IInv, TypeOK
  <2>2. Stage' = Flow!With(Stage, l, "presented")
    BY <1>0, <2>1, StageMoves DEF LoginStage
  <2>3. Stage[l] = "begun"
    BY <1>4, <1>5, <2>1 DEF Stage, LoginStage
  <2>4. Flow!Present
    BY <1>4, <1>5, <2>1, <2>2, <2>3 DEF Flow!Present, Flow!Moves, Stage, Consents, Holders
  <2>5. QED BY <2>4 DEF Flow!Next
<1>6. ASSUME Exchange(l) \/ Identify(l), login'[l].pc = "failed"
      PROVE  Flow!Abandon
  <2>1. Stage' = Flow!With(Stage, l, "over")
    BY <1>0, <1>4, <1>6, LoginAfter, StageMoves DEF LoginStage
  <2>2. /\ DOMAIN Stage' = DOMAIN Stage
        /\ Stage' = [m \in DOMAIN Stage |->
                       IF Stage'[m] = Stage[m] THEN Stage[m] ELSE "over"]
    BY <1>4, <1>6, <2>1 DEF Stage, Flow!With
  <2>3. QED
    BY <1>4, <1>6, <2>2 DEF Flow!Abandon, Stage, Consents, Holders
<1>7. CASE Exchange(l) /\ login'[l].pc = "identify"
  <2>1. /\ login[l].pc = "exchange"
        /\ l \notin DOMAIN states /\ l \notin DOMAIN states'
    BY <1>4, <1>7, LoginAfter
  <2>2. Stage' = Flow!With(Stage, l, "trusted")
    BY <1>0, <1>7, <2>1, StageMoves DEF LoginStage
  <2>3. Stage[l] = "presented"
    BY <1>4, <1>7, <2>1 DEF Stage, LoginStage
  <2>4. Flow!Trust
    BY <1>4, <1>7, <2>2, <2>3 DEF Flow!Trust, Flow!Moves, Stage, Consents, Holders
  <2>5. QED BY <2>4 DEF Flow!Next
<1>8. CASE Identify(l) /\ login'[l].pc = "done"
  <2>1. /\ login[l].pc = "identify"
        /\ l \notin DOMAIN states /\ l \notin DOMAIN states'
    BY <1>4, <1>8, LoginAfter
  <2>2. Stage' = Flow!With(Stage, l, "over")
    BY <1>0, <1>8, <2>1, StageMoves DEF LoginStage
  <2>3. Stage[l] = "trusted"
    BY <1>4, <1>8, <2>1 DEF Stage, LoginStage
  <2>4. login[l].site = SiteOf(providers[login[l].at])
    <3>1. \A w : Goes(l, w) => login'[l].pc = w
      BY <1>0 DEF Goes, LoginRecords
    <3>2. ApiAddress(providers[login[l].at]) = [site |-> login[l].site, door |-> "api"]
      BY <1>8, <3>1 DEF Identify
    <3>3. QED BY <3>2 DEF ApiAddress
  <2>5. /\ login'[l].site = login[l].site /\ login'[l].user = login[l].user
        /\ login'[l].at = login[l].at /\ providers' = providers
    BY <1>0, <1>8, AgreedKept DEF Handle, Frame
  <2>6. l \notin DOMAIN Holders /\ l \in DOMAIN Holders'
    BY <1>8, <2>1 DEF Holders, SignedIn, Begun
  <2>7. Holders' = Flow!With(Holders, l, Consents[l])
    <3>1. SignedIn' = SignedIn \cup {l}
      BY <1>0, <1>8 DEF Frame, SignedIn, Begun
    <3>2. \A m \in SignedIn \ {l} : login'[m] = login[m]
      BY <1>0 DEF Frame, SignedIn, Begun
    <3>3. Consents[l] = [site |-> SiteOf(providers[login[l].at]), user |-> login[l].user]
      BY <1>4, <1>8, <2>4 DEF Consents
    <3>4. QED BY <2>5, <3>1, <3>2, <3>3 DEF Holders, Flow!With
  <2>8. Flow!Open
    BY <1>4, <1>8, <2>2, <2>3, <2>6, <2>7
    DEF Flow!Open, Flow!Moves, Stage, Consents, Holders
  <2>9. QED BY <2>8 DEF Flow!Next
<1>9. QED
  BY <1>1, <1>2, <1>3, <1>5, <1>6, <1>7, <1>8, LoginAfter DEF Handle, Flow!Next

\* Whatever addresses the file has, who is signed in under a provider agreed to it
\* at that provider's own server: sign-in implements LoginFlow (auth.go:119-265).
THEOREM FlowImplemented == Spec => ImplementsFlow
<1>1. ASSUME Init PROVE RowsWait /\ Flow!Init
  <2>0. DOMAIN states = {} /\ login = [l \in Logins |-> NotBegun]
    BY <1>1 DEF Init
  <2>1. DOMAIN states = {} /\ \A l \in Logins : login[l].pc = "idle"
    BY <2>0 DEF NotBegun
  <2>2. Begun = {} /\ Agreed = {}
    BY <2>1 DEF Begun, Agreed
  <2>3. QED BY <2>1, <2>2 DEF RowsWait, Flow!Init
<1>2. IInv /\ RowsWait /\ [Next]_vars => RowsWait'
  BY RowsWaitStep
<1>3. ASSUME IInv, RowsWait, [Next]_vars PROVE [Flow!Next]_AbstractVars
  <2>1. CASE UNCHANGED vars
    BY <2>1 DEF vars, AbstractVars, Stage, Consents, Holders, Begun, Agreed, SignedIn,
       LoginStage
  <2>2. CASE Start
    <3>0. process # "up" /\ login' = login
      BY <2>2 DEF Start
    <3>1. Begun = {} /\ login' = login
      BY <1>3, <3>0 DEF IInv, Served, Begun
    <3>2. Begun' = {} /\ Agreed = {} /\ Agreed' = {} /\ SignedIn = {} /\ SignedIn' = {}
      BY <3>1 DEF Begun, Agreed, SignedIn
    <3>3. Stage' = Stage
      BY <3>1, <3>2 DEF Stage
    <3>4. Consents' = Consents
      BY <3>1, <3>2 DEF Consents
    <3>5. Holders' = Holders
      BY <3>1, <3>2 DEF Holders
    <3>6. QED BY <3>3, <3>4, <3>5 DEF AbstractVars
  <2>3. QED BY <1>3, <2>1, <2>2, FlowLoginStep DEF Next, Rest
<1>4. IInv /\ RowsWait /\ [Next]_vars => [Flow!Next]_(Flow!flowVars)
  BY <1>3 DEF AbstractVars, Stage, Consents, Holders, Flow!flowVars
<1>5. QED
  BY <1>1, <1>2, <1>4, Invariance, PTL DEF Spec, ImplementsFlow, Flow!Spec
=============================================================================
