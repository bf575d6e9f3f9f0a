------------------------------ MODULE MCSignIn ------------------------------
(***************************************************************************)
(* Small instances of SignIn for TLC: configuration files worth telling    *)
(* apart, and the operator's registrations.                                *)
(***************************************************************************)
EXTENDS SignIn, TLC

CONSTANTS l1, l2

AllStrings == STRING

Entry(key, type, id, url) ==
  [key |-> key, type |-> type, clientId |-> id, clientSecret |-> "$SECRET", url |-> url]

File(secretKey, entries) == [secretKey |-> secretKey, providers |-> entries]

\* config.yaml as it is shipped, and its minimal entries for all three types.
Shipped == File("", << Entry("github", "", "$GITHUB", "") >>)

Minimal == File("", << Entry("github", "", "$GITHUB", ""),
                       Entry("gitlab", "", "$GITLAB", ""),
                       Entry("gitea", "", "$GITEA", "") >>)

\* Servers of one's own beside the public ones, under other keys or the same.
Private == File("key", << Entry("gitlab", "", "$GITLAB", ""),
                          Entry("work", "gitlab", "wl", "git.work"),
                          Entry("gitea", "", "wt", "tea.work") >>)

Renamed == File("key", << Entry("public", "gitlab", "$GITLAB", ""),
                          Entry("tea", "gitea", "wt", "tea.work"),
                          Entry("hub", "github", "wh", "hub.work") >>)

\* Two applications at one site, and two sites of one type.
Doubled == File("key", << Entry("gitlab", "", "$GITLAB", ""),
                          Entry("second", "gitlab", "gl2", ""),
                          Entry("gitea", "", "wt", "tea.work"),
                          Entry("tea", "gitea", "gt", "gitea.com") >>)

\* The public application of GitLab given to a server of one's own.
Confused == File("key", << Entry("gitlab", "", "$GITLAB", "git.work") >>)

\* A confidential application of Gitea, and a secret that is no longer GitLab's.
Secrets == File("key", << Entry("gitea", "", "wc", "tea.work"),
                          [Entry("gitlab", "", "$GITLAB", "") EXCEPT !.clientSecret = "old"] >>)

\* A key too short for AES, and files that are refused.
ShortKey == File("short", << Entry("gitlab", "", "$GITLAB", "") >>)
NotHex == File("text", << Entry("gitlab", "", "$GITLAB", "") >>)
Twice == File("key", << Entry("gitlab", "", "$GITLAB", ""), Entry("$TYPE", "gitlab", "wl", "") >>)
Untyped == File("key", << Entry("$TYPE", "", "$GITLAB", "") >>)
Nobody == File("key", <<>>)

VariousFiles == {Shipped, Minimal, Private, Renamed, Doubled, Confused, Secrets, ShortKey,
                 NotHex, Twice, Untyped, Nobody}
ShippedFile == {Shipped}

Filled == [v \in {"$SECRET_KEY", "$SECRET", "$GITHUB", "$GITLAB", "$GITEA", "$TYPE"} |->
             CASE v = "$SECRET_KEY" -> "key" [] v = "$SECRET" -> "s" [] v = "$GITHUB" -> "gh"
               [] v = "$GITLAB" -> "gl" [] v = "$GITEA" -> "gt" [] v = "$TYPE" -> "gitlab"]

\* Everything is set, one variable is not, or none is.
FilledEnv == {Filled}
VariousEnvs == {[Filled EXCEPT ![v] = ""] : v \in DOMAIN Filled}
                 \cup {Filled, [v \in DOMAIN Filled |-> ""]}

Registered == [id \in {"gh", "gl", "gl2", "gt", "wl", "wt", "wc", "wh"} |->
                 CASE id = "gh" -> "github.com" [] id = "gl" -> "gitlab.com"
                   [] id = "gt" -> "gitea.com"  [] id = "gl2" -> "gitlab.com"
                   [] id = "wl" -> "git.work"   [] id = "wt" -> "tea.work"
                   [] id = "wc" -> "tea.work" [] id = "wh" -> "hub.work"]

\* What the variable of the environment holds is the secret of each of them.
Secret == [id \in DOMAIN Registered |-> "s"]
=============================================================================
