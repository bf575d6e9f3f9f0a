----------------------------- MODULE CreateRepo -----------------------------
(***************************************************************************)
(* POST /new and POST /templates (internal/handler/repo.go, template.go,   *)
(* internal/service): a repository is created at the provider, a temporary *)
(* directory is filled, committed and pushed, and removed; a template is   *)
(* cloned into a temporary directory, looked at, and removed.              *)
(*                                                                         *)
(* A request arrives here authenticated, with the token that module Auth   *)
(* put in its context.  Its steps are its calls to the provider and to the *)
(* file system; other requests, the clock and a crash come between them.   *)
(***************************************************************************)
EXTENDS Basics

CONSTANTS
  Requests,      \* slots for the requests being served at one time
  Names,         \* full names of repositories
  Gitignores,    \* the .gitignore files on offer
  Licenses,      \* the keys of the licenses on offer
  Forms,         \* what browsers post to /new, a subset of AllForms
  Lifetimes,     \* what is left of a token when its request begins, 0: it never expires
  Sha256Repo,    \* TRUE: the provider makes SHA-256 repositories on demand
  Fallible,      \* TRUE: provider calls and file operations may fail
  MaxRequests,   \* bound: requests served in a behaviour
  MaxRestarts    \* bound: crashes of the process

\* The empty string stands for None in the two choices of the form.
AllForms ==
  [name : Names, valid : BOOLEAN, template : BOOLEAN, readme : BOOLEAN,
   gitignore : Gitignores \cup {"", "unknown"}, license : Licenses \cup {"", "unknown"},
   tag : BOOLEAN, sha256 : BOOLEAN]

ASSUME CreateRepoAssumption ==
  /\ Forms \subseteq AllForms /\ Forms # {}
  /\ {"", "unknown"} \cap (Gitignores \cup Licenses) = {}
  /\ Lifetimes \subseteq Nat
  /\ Sha256Repo \in BOOLEAN /\ Fallible \in BOOLEAN
  /\ MaxRequests \in Nat /\ MaxRestarts \in Nat

VARIABLES
  repos,      \* name |-> the repository at the provider, see NewRepo
  disk,       \* temporary directory |-> the files in it
  req,        \* slot |-> the request it serves
  served,     \* requests begun so far; each is known by its number
  process,    \* "up" or "down"
  restarts,   \* crashes so far
  faulted,    \* history: requests that met a fault of the provider or the disk
  leaked      \* history: directories whose removal failed or was cut off

vars == <<now, repos, disk, req, served, process, restarts, faulted, leaked>>

AnyForm == CHOOSE f \in Forms : TRUE

Idle == [pc |-> "idle", kind |-> "new", id |-> 0, form |-> AnyForm,
         expires |-> 0, out |-> "ok"]

Init ==
  /\ now = 0
  /\ repos = NoRows /\ disk = NoRows
  /\ req = [r \in Requests |-> Idle]
  /\ served = 0 /\ process = "up" /\ restarts = 0
  /\ faulted = {} /\ leaked = {}

-----------------------------------------------------------------------------
(* A request begins and reads its form *)

\* The form of a template is its url and full name, valid when both are given.
Start(r) ==
  /\ process = "up" /\ req[r].pc = "idle" /\ served < MaxRequests
  /\ served' = served + 1
  /\ \E f \in Forms, kind \in {"new", "register"}, life \in Lifetimes :
       req' = [req EXCEPT ![r] =
                 [pc |-> "form", kind |-> kind, id |-> served + 1, form |-> f,
                  expires |-> IF life = 0 THEN 0 ELSE now + life, out |-> "ok"]]
  /\ UNCHANGED <<now, repos, disk, process, restarts, faulted, leaked>>

GoTo(r, pc) == req' = [req EXCEPT ![r].pc = pc]

Leave(r, pc, out) == req' = [req EXCEPT ![r] = [@ EXCEPT !.pc = pc, !.out = out]]

\* The fault, if the step needs one to explain it.
Blame(r, explained) ==
  /\ explained \/ Fallible
  /\ faulted' = IF explained THEN faulted ELSE faulted \cup {req[r].id}

\* The form is read and, for /new, the provider's client made.
ReadForm(r) ==
  /\ req[r].pc = "form" /\ req[r].form.valid
  /\ GoTo(r, IF req[r].kind = "new" THEN "create" ELSE "mkdir")
  /\ UNCHANGED <<now, repos, disk, served, process, restarts, faulted, leaked>>

\* A bad form, or a client that cannot be made.
FormRefused(r) ==
  /\ req[r].pc = "form"
  /\ \/ ~ req[r].form.valid /\ Leave(r, "respond", "bad") /\ UNCHANGED faulted
     \/ /\ req[r].form.valid /\ req[r].kind = "new"
        /\ Leave(r, "respond", "error")
        /\ Blame(r, FALSE)
  /\ UNCHANGED <<now, repos, disk, served, process, restarts, leaked>>

-----------------------------------------------------------------------------
(* CreateNewRepo: the repository at the provider *)

TokenHonoured(r) == req[r].expires = 0 \/ now < req[r].expires

Format(sha256) == IF sha256 THEN "sha256" ELSE "sha1"

\* by, form and expires are history: the request that made the repository,
\* what it asked for and how long its token lasted.
NewRepo(r) ==
  [by |-> req[r].id, form |-> req[r].form, expires |-> req[r].expires,
   format |-> Format(req[r].form.sha256 /\ Sha256Repo),
   pushed |-> FALSE, files |-> {}, tag |-> FALSE]

\* CreateRepoFromForm points License at a string whether one was chosen or not.
LicenseGiven(f) == TRUE

NeedsInitialization(f) ==
  f.template \/ f.readme \/ f.gitignore # "" \/ LicenseGiven(f)

CreateRemoteRepo(r) == repos' = Put(repos, req[r].form.name, NewRepo(r))

\* Mutant: a name that is taken is adopted.
CreatableOrTaken(r) == TokenHonoured(r)

\* What the provider asks of a creation.
Creatable(r) == TokenHonoured(r) /\ req[r].form.name \notin DOMAIN repos

Create(r) ==
  /\ req[r].pc = "create" /\ Creatable(r)
  /\ CreateRemoteRepo(r)
  /\ IF NeedsInitialization(req[r].form)
     THEN GoTo(r, "mkdir")
     ELSE Leave(r, "respond", "redirect")
  /\ UNCHANGED <<now, disk, served, process, restarts, faulted, leaked>>

\* The provider refuses, cannot be reached, or its answer is lost.
CreateFails(r) ==
  /\ req[r].pc = "create"
  /\ \/ Blame(r, ~ Creatable(r)) /\ UNCHANGED repos
     \/ Creatable(r) /\ Blame(r, FALSE) /\ CreateRemoteRepo(r)
  /\ Leave(r, "respond", "error")
  /\ UNCHANGED <<now, disk, served, process, restarts, leaked>>

-----------------------------------------------------------------------------
(* InitializeRepo: the directory, its files, the commit and the push *)

\* Mutant: one directory for the whole process.
SharedDir(r) == 1

\* A directory is known by the request that made it: no two have one name.
Dir(r) == req[r].id

MakeDir(r) ==
  /\ req[r].pc = "mkdir"
  /\ disk' = Put(disk, Dir(r), {})
  /\ GoTo(r, IF req[r].kind = "new" THEN "fill" ELSE "clone")
  /\ UNCHANGED <<now, repos, served, process, restarts, faulted, leaked>>

MakeDirFails(r) ==
  /\ req[r].pc = "mkdir"
  /\ Leave(r, "respond", "error")
  /\ Blame(r, FALSE)
  /\ UNCHANGED <<now, repos, disk, served, process, restarts, leaked>>

\* Mutant: every file goes to the in-memory file system.
NothingWritten(f) == {}

\* Mutant: the destination is made before the source is looked up.
WrittenUnchecked(f) == IF f.gitignore # "" THEN {f.gitignore} ELSE {}

\* The files addFiles puts in the directory.  README and license go to an
\* in-memory file system that nothing reads.
Written(f) == IF f.gitignore \in Gitignores THEN {f.gitignore} ELSE {}

\* addFiles gets through: the names it looks up are on offer.
Fillable(f) ==
  /\ ~ f.template
  /\ f.gitignore \in Gitignores \cup {""}
  /\ LicenseGiven(f) => f.license \in Licenses

\* Mutant: a template is waited for.
AddFilesWithoutTemplate(r) ==
  LET f == req[r].form
  IN  /\ req[r].pc = "fill" /\ ~ f.template
      /\ disk' = [disk EXCEPT ![Dir(r)] = @ \cup Written(f)]
      /\ IF Fillable(f) THEN GoTo(r, "push") ELSE Leave(r, "cleanup", "error")
      /\ UNCHANGED <<now, repos, served, process, restarts, faulted, leaked>>

\* With a template, executeTemplateRepo dereferences a nil pointer first.
AddFiles(r) ==
  LET f == req[r].form
  IN  /\ req[r].pc = "fill"
      /\ disk' = IF f.template THEN disk ELSE [disk EXCEPT ![Dir(r)] = @ \cup Written(f)]
      /\ IF Fillable(f)
         THEN GoTo(r, "push")
         ELSE Leave(r, "cleanup", IF f.template THEN "panic" ELSE "error")
      /\ UNCHANGED <<now, repos, served, process, restarts, faulted, leaked>>

AddFilesFails(r) ==
  /\ req[r].pc = "fill" /\ ~ req[r].form.template
  /\ Leave(r, "cleanup", "error")
  /\ Blame(r, FALSE)
  /\ UNCHANGED <<now, repos, disk, served, process, restarts, leaked>>

\* What git finds to commit; a directory that is gone holds nothing.
Content(r) == IF Dir(r) \in DOMAIN disk THEN disk[Dir(r)] ELSE {}

\* There is something to commit, and the provider takes what is pushed.
Pushable(r) ==
  /\ Content(r) # {}
  /\ TokenHonoured(r)
  /\ repos[req[r].form.name].format = Format(req[r].form.sha256)

\* Mutant: the tag is created and not pushed.
PushedBranchOnly(r, tag) ==
  repos' = [repos EXCEPT ![req[r].form.name] =
              [@ EXCEPT !.pushed = TRUE, !.files = Content(r)]]

Pushed(r, tag) ==
  repos' = [repos EXCEPT ![req[r].form.name] =
              [@ EXCEPT !.pushed = TRUE, !.files = Content(r), !.tag = tag]]

Push(r) ==
  /\ req[r].pc = "push" /\ Pushable(r)
  /\ Pushed(r, req[r].form.tag)
  /\ Leave(r, "cleanup", "redirect")
  /\ UNCHANGED <<now, disk, served, process, restarts, faulted, leaked>>

\* An empty commit, a refused token or format, an unreachable provider, or an
\* answer lost after the branch, or the branch and the tag, got there.
PushFails(r) ==
  /\ req[r].pc = "push"
  /\ \/ Blame(r, ~ Pushable(r)) /\ UNCHANGED repos
     \/ /\ Pushable(r) /\ Blame(r, FALSE)
        /\ \E tag \in {FALSE, req[r].form.tag} : Pushed(r, tag)
  /\ Leave(r, "cleanup", "error")
  /\ UNCHANGED <<now, disk, served, process, restarts, leaked>>

-----------------------------------------------------------------------------
(* RegisterTemplate: the clone and a look at its mkrepo.yaml *)

Clone(r) ==
  /\ req[r].pc = "clone"
  /\ disk' = [disk EXCEPT ![Dir(r)] = {"clone"}]
  /\ GoTo(r, "inspect")
  /\ UNCHANGED <<now, repos, served, process, restarts, faulted, leaked>>

\* A repository that does not exist is no fault.
CloneFails(r) ==
  /\ req[r].pc = "clone"
  /\ Leave(r, "cleanup", "error")
  /\ UNCHANGED <<now, repos, disk, served, process, restarts, faulted, leaked>>

\* mkrepo.yaml is there and parses, or not; nothing is stored.
Inspect(r) ==
  /\ req[r].pc = "inspect"
  /\ \E out \in {"created", "error"} : Leave(r, "cleanup", out)
  /\ UNCHANGED <<now, repos, disk, served, process, restarts, faulted, leaked>>

-----------------------------------------------------------------------------
(* The deferred removal, the answer *)

\* Mutant: the directory is removed on the path without errors only.
RemovedOnSuccess(r) ==
  disk' = IF req[r].out \in {"redirect", "created"} THEN Drop(disk, {Dir(r)}) ELSE disk

Removed(r) == disk' = Drop(disk, {Dir(r)})

\* The deferred RemoveAll runs on every return and while a panic unwinds;
\* net/http recovers the panic and closes the connection.
CleanUp(r) ==
  /\ req[r].pc = "cleanup"
  /\ \/ Removed(r) /\ UNCHANGED leaked
     \/ Fallible /\ leaked' = leaked \cup {Dir(r)} /\ UNCHANGED disk
  /\ IF req[r].out = "panic"
     THEN req' = [req EXCEPT ![r] = Idle]
     ELSE GoTo(r, "respond")
  /\ UNCHANGED <<now, repos, served, process, restarts, faulted>>

Respond(r) ==
  /\ req[r].pc = "respond"
  /\ req' = [req EXCEPT ![r] = Idle]
  /\ UNCHANGED <<now, repos, disk, served, process, restarts, faulted, leaked>>

-----------------------------------------------------------------------------
(* The rest of the world *)

\* A crash, or the end of the 15 seconds Shutdown waits for the handlers.
Crash ==
  /\ process = "up" /\ restarts < MaxRestarts
  /\ restarts' = restarts + 1 /\ process' = "down"
  /\ req' = [r \in Requests |-> Idle]
  /\ faulted' = faulted \cup {req[r].id : r \in Requests}
  /\ leaked' = leaked \cup DOMAIN disk
  /\ UNCHANGED <<now, repos, disk, served>>

Boot ==
  /\ process = "down" /\ process' = "up"
  /\ UNCHANGED <<now, repos, disk, req, served, restarts, faulted, leaked>>

Clock == Tick /\ UNCHANGED <<repos, disk, req, served, process, restarts, faulted, leaked>>

\* The steps within the process, and CreateRemoteRepo with its 30 seconds.
Bounded(r) ==
  \/ ReadForm(r) \/ FormRefused(r) \/ Create(r) \/ CreateFails(r)
  \/ MakeDir(r) \/ MakeDirFails(r) \/ AddFiles(r) \/ AddFilesFails(r)
  \/ Inspect(r) \/ CleanUp(r) \/ Respond(r)

\* git over HTTP, without a time limit.
Unbounded(r) == Push(r) \/ PushFails(r) \/ Clone(r) \/ CloneFails(r)

Next ==
  \/ \E r \in Requests : Start(r) \/ Bounded(r) \/ Unbounded(r)
  \/ Crash \/ Boot \/ Clock

Spec == Init /\ [][Next]_vars

(***************************************************************************)
(* Fairness.  A goroutine is scheduled and the provider's HTTP client has a *)
(* time limit; a push or a clone may hang, and nobody has to call.          *)
(***************************************************************************)
FairSpec == Spec /\ \A r \in Requests : WF_vars(Bounded(r))

-----------------------------------------------------------------------------
(* Type invariant *)

RepoRecords ==
  [by : Nat, form : AllForms, expires : Nat, format : {"sha1", "sha256"},
   pushed : BOOLEAN, files : SUBSET (Gitignores \cup {"clone"}), tag : BOOLEAN]

RequestRecords ==
  [pc : {"idle", "form", "create", "mkdir", "fill", "push", "clone", "inspect",
         "cleanup", "respond"},
   kind : {"new", "register"}, id : Nat, form : AllForms, expires : Nat,
   out : {"ok", "bad", "error", "redirect", "created", "panic"}]

\* Every variable has its type; a repository and a directory are made by a
\* request that was served.
TypeOK ==
  /\ now \in Nat /\ served \in Nat /\ restarts \in Nat
  /\ DOMAIN repos \subseteq Names /\ repos \in [DOMAIN repos -> RepoRecords]
  /\ DOMAIN disk \subseteq 1 .. served
  /\ disk \in [DOMAIN disk -> SUBSET (Gitignores \cup {"clone"})]
  /\ req \in [Requests -> RequestRecords]
  /\ \A r \in Requests : req[r].pc # "idle" => req[r].id \in 1 .. served
  /\ process \in {"up", "down"}
  /\ faulted \subseteq Nat /\ leaked \subseteq Nat

-----------------------------------------------------------------------------
(* Safety *)

\* The request that made this repository is still busy with it.
Busy(r, n) ==
  /\ req[r].id = repos[n].by /\ req[r].kind = "new"
  /\ req[r].pc \in {"mkdir", "fill", "push"}

InProgress(n) == \E r \in Requests : Busy(r, n)

\* Who is redirected to a repository finds it there, made and filled by the
\* own request, in the format and with the .gitignore and the tag asked for
\* (repo.go:102-108, mkrepo.go:51-95, git.go:38-96).
RedirectedRepoReady ==
  \A r \in Requests :
    req[r].pc = "respond" /\ req[r].out = "redirect" =>
      LET f == req[r].form
      IN  /\ f.name \in DOMAIN repos
          /\ repos[f.name].by = req[r].id
          /\ repos[f.name].pushed
          /\ repos[f.name].files = {f.gitignore}
          /\ repos[f.name].tag = f.tag
          /\ repos[f.name].format = Format(f.sha256)

\* A repository stays empty after its request only for a reason that can be
\* named: a template, a license that is not on offer, a .gitignore that is not
\* or is not asked for, a format or a token the provider does not take, a
\* fault (mkrepo.go:97-150, git.go:38-96).
EmptyRepoExplained ==
  \A n \in DOMAIN repos :
    LET f == repos[n].form
    IN  \/ repos[n].pushed \/ InProgress(n)
        \/ f.template
        \/ f.license \notin Licenses
        \/ f.gitignore \notin Gitignores
        \/ f.sha256 /\ ~ Sha256Repo
        \/ repos[n].expires # 0 /\ now >= repos[n].expires
        \/ repos[n].by \in faulted

\* Who is not redirected is refused for a reason of the own form, token or name,
\* or for a fault that request itself met: never for what another request does
\* at the same time, be it for the same name (repo.go:74-108, mkrepo.go:51-150).
RefusalExplained ==
  \A r \in Requests :
    LET f == req[r].form
    IN  req[r].pc = "respond" /\ req[r].kind = "new" /\ req[r].out # "redirect" =>
          \/ ~ f.valid \/ f.template
          \/ f.name \in DOMAIN repos /\ repos[f.name].by # req[r].id
          \/ f.license \notin Licenses \/ f.gitignore \notin Gitignores
          \/ f.sha256 /\ ~ Sha256Repo
          \/ ~ TokenHonoured(r)
          \/ req[r].id \in faulted

\* A temporary directory on the disk is one a running request works in, unless
\* its removal failed or a crash cut it off (mkrepo.go:78-87, git.go:18-36,
\* template.go:101-108).
TempDirsInUse ==
  \A d \in DOMAIN disk :
    \/ d \in leaked
    \/ \E r \in Requests :
         /\ req[r].id = d
         /\ req[r].pc \in {"fill", "push", "clone", "inspect", "cleanup"}

\* "Create remote repo and initialize it if needed. Returns url to the repo."
\* (mkrepo.go:50): whoever asks for nothing and gets the repository is
\* redirected to it.
NothingAskedIsRedirected ==
  \A r \in Requests :
    LET f == req[r].form
    IN  /\ req[r].pc = "respond" /\ req[r].kind = "new"
        /\ ~ f.template /\ ~ f.readme /\ f.gitignore = "" /\ f.license = ""
        /\ f.name \in DOMAIN repos /\ repos[f.name].by = req[r].id
        => req[r].out = "redirect"

\* "AddLicense adds a license and all it's first class dependecies to
\* filesystem" (license.go:31): the license asked for is in the repository a
\* user is redirected to.
LicensePushed ==
  \A r \in Requests :
    LET f == req[r].form
    IN  req[r].pc = "respond" /\ req[r].out = "redirect" /\ f.license # ""
        => f.license \in repos[f.name].files

-----------------------------------------------------------------------------
(* What a step may never do *)

\* Only the request that made a repository puts a commit in it, once, and with
\* the .gitignore of its own form and nothing else; README and license never get
\* as far as the directory (mkrepo.go:78, 98, git.go:90).
PushedByCreator ==
  [][\A n \in DOMAIN repos :
       repos'[n] # repos[n] =>
         /\ ~ repos[n].pushed
         /\ repos'[n].by = repos[n].by
         /\ repos'[n].files = {repos[n].form.gitignore}
         /\ \E r \in Requests : Busy(r, n) /\ ~ Busy(r, n)']_vars

-----------------------------------------------------------------------------
(* Refinement *)

Stage(n) ==
  IF repos[n].pushed THEN "ready" ELSE IF InProgress(n) THEN "making" ELSE "left"

Host == INSTANCE RepoHost WITH stage <- [n \in DOMAIN repos |-> Stage(n)]

\* The repositories at the provider go through the stages of RepoHost
\* (mkrepo.go:51-95).
ImplementsHost == Host!Spec

-----------------------------------------------------------------------------
(* Liveness *)

\* A request is answered, or waits for a push or a clone (git.go:23, 90).
RequestsFinish ==
  \A r \in Requests : req[r].pc # "idle" ~> req[r].pc \in {"idle", "push", "clone"}
=============================================================================
