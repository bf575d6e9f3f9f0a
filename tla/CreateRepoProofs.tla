-------------------------- MODULE CreateRepoProofs --------------------------
(***************************************************************************)
(* Theorems about CreateRepo, for every value of its constants: the safety *)
(* invariants through one inductive invariant, what a step may do to a     *)
(* repository, and the refinement of RepoHost.                             *)
(***************************************************************************)
EXTENDS CreateRepo, TLAPS

-----------------------------------------------------------------------------
(* The inductive invariant *)

\* No two requests have one number.
Numbered ==
  \A r, q \in Requests :
    req[r].pc # "idle" /\ req[q].pc # "idle" /\ req[r].id = req[q].id => r = q

\* Each kind of request has its own path, and an answer only at its end.
OnPath(r) ==
  /\ req[r].pc \in {"create", "fill", "push"} => req[r].kind = "new"
  /\ req[r].pc \in {"clone", "inspect"} => req[r].kind = "register"
  /\ req[r].out = "redirect" => req[r].kind = "new"
  /\ req[r].pc \notin {"cleanup", "respond"} => req[r].out = "ok"

\* A repository knows its name and the number of the one request that made it.
Made ==
  /\ \A n \in DOMAIN repos : repos[n].by \in 1 .. served /\ repos[n].form.name = n
  /\ \A n, m \in DOMAIN repos : repos[n].by = repos[m].by => n = m

\* A request that has not come to the creation has made nothing.
Unmade(r) ==
  req[r].pc \in {"form", "create"} => \A n \in DOMAIN repos : repos[n].by # req[r].id

\* A request busy with a repository made it, as its form says, and has not
\* pushed to it yet.
Held(r) ==
  LET n == req[r].form.name
  IN  req[r].pc \in {"mkdir", "fill", "push"} /\ req[r].kind = "new" =>
        /\ n \in DOMAIN repos
        /\ repos[n].by = req[r].id /\ repos[n].form = req[r].form
        /\ repos[n].expires = req[r].expires
        /\ repos[n].format = Format(req[r].form.sha256 /\ Sha256Repo)
        /\ ~ repos[n].pushed

\* A request about to fill its directory finds it empty, and one about to push
\* finds there what addFiles wrote.
Filled(r) ==
  /\ req[r].pc = "fill" => Dir(r) \in DOMAIN disk /\ disk[Dir(r)] = {}
  /\ req[r].pc = "push" => Dir(r) \in DOMAIN disk /\ disk[Dir(r)] = Written(req[r].form)

\* From the push to the answer, a redirect stands for a filled repository.
Ready(r) ==
  req[r].out = "redirect" =>
    LET f == req[r].form
    IN  /\ f.name \in DOMAIN repos
        /\ repos[f.name].by = req[r].id
        /\ repos[f.name].pushed
        /\ repos[f.name].files = {f.gitignore}
        /\ repos[f.name].tag = f.tag
        /\ repos[f.name].format = Format(f.sha256)

SlotSafe(r) == OnPath(r) /\ Unmade(r) /\ Held(r) /\ Filled(r) /\ Ready(r)

Safe == /\ Numbered /\ Made /\ \A r \in Requests : SlotSafe(r)
        /\ EmptyRepoExplained /\ TempDirsInUse

IInv == TypeOK /\ Safe

-----------------------------------------------------------------------------
(* TypeOK is preserved, one step per action *)

\* A slot that changes its place, or its place and its answer, stays typed.
LEMMA SlotTyped ==
  ASSUME req \in [Requests -> RequestRecords], NEW r \in Requests,
         NEW pc \in {"idle", "form", "create", "mkdir", "fill", "push", "clone",
                     "inspect", "cleanup", "respond"}
  PROVE  /\ GoTo(r, pc) => /\ req' \in [Requests -> RequestRecords]
                           /\ req'[r].id = req[r].id
                           /\ \A q \in Requests \ {r} : req'[q] = req[q]
         /\ \A out \in {"ok", "bad", "error", "redirect", "created", "panic"} :
              Leave(r, pc, out) => /\ req' \in [Requests -> RequestRecords]
                                   /\ req'[r].id = req[r].id
                                   /\ \A q \in Requests \ {r} : req'[q] = req[q]
<1>1. ASSUME GoTo(r, pc)
      PROVE  /\ req' \in [Requests -> RequestRecords]
             /\ req'[r].id = req[r].id
             /\ \A q \in Requests \ {r} : req'[q] = req[q]
  BY <1>1 DEF GoTo, RequestRecords
<1>2. ASSUME NEW out \in {"ok", "bad", "error", "redirect", "created", "panic"},
             Leave(r, pc, out)
      PROVE  /\ req' \in [Requests -> RequestRecords]
             /\ req'[r].id = req[r].id
             /\ \A q \in Requests \ {r} : req'[q] = req[q]
  <2>1. ASSUME NEW rec \in RequestRecords
        PROVE  /\ [rec EXCEPT !.pc = pc, !.out = out] \in RequestRecords
               /\ [rec EXCEPT !.pc = pc, !.out = out].id = rec.id
    BY DEF RequestRecords
  <2>2. QED BY <1>2, <2>1 DEF Leave
<1>3. QED BY <1>1, <1>2

\* An empty slot is a request record.
LEMMA IdleTyped == Idle \in RequestRecords
<1>1. AnyForm \in AllForms
  BY CreateRepoAssumption DEF AnyForm
<1>2. QED BY <1>1 DEF Idle, RequestRecords

\* The repository a request makes, and the one it pushed to, are typed.
LEMMA RepoTyped ==
  ASSUME TypeOK, NEW r \in Requests
  PROVE  /\ NewRepo(r) \in RepoRecords /\ req[r].form.name \in Names
         /\ CreateRemoteRepo(r) => /\ DOMAIN repos' \subseteq Names
                                   /\ repos' \in [DOMAIN repos' -> RepoRecords]
         /\ \A tag \in BOOLEAN :
              Pushed(r, tag) => /\ DOMAIN repos' \subseteq Names
                                /\ repos' \in [DOMAIN repos' -> RepoRecords]
<1>1. /\ req[r].form \in AllForms /\ req[r].id \in Nat /\ req[r].expires \in Nat
      /\ req[r].form.name \in Names
  BY DEF TypeOK, RequestRecords, AllForms
<1>2. NewRepo(r) \in RepoRecords
  <2>1. Format(req[r].form.sha256 /\ Sha256Repo) \in {"sha1", "sha256"}
    BY DEF Format
  <2>2. QED BY <1>1, <2>1 DEF NewRepo, RepoRecords
<1>3. ASSUME CreateRemoteRepo(r)
      PROVE  /\ DOMAIN repos' \subseteq Names
             /\ repos' \in [DOMAIN repos' -> RepoRecords]
  BY <1>1, <1>2, <1>3 DEF CreateRemoteRepo, Put, TypeOK
<1>4. ASSUME NEW tag \in BOOLEAN, Pushed(r, tag)
      PROVE  /\ DOMAIN repos' \subseteq Names
             /\ repos' \in [DOMAIN repos' -> RepoRecords]
  <2>1. Content(r) \in SUBSET (Gitignores \cup {"clone"})
    BY DEF Content, TypeOK
  <2> DEFINE n == req[r].form.name
             new == [repos[n] EXCEPT !.pushed = TRUE, !.files = Content(r), !.tag = tag]
  <2>2. repos' = [repos EXCEPT ![n] = new]
    BY <1>4 DEF Pushed
  <2>3. n \in DOMAIN repos => new \in RepoRecords
    <3>1. n \in DOMAIN repos => repos[n] \in RepoRecords
      BY DEF TypeOK
    <3>2. QED BY <1>4, <2>1, <3>1 DEF RepoRecords
  <2> HIDE DEF n, new
  <2>4. DOMAIN repos \subseteq Names /\ repos \in [DOMAIN repos -> RepoRecords]
    BY DEF TypeOK
  <2>5. QED BY <2>2, <2>3, <2>4
<1>5. QED BY <1>1, <1>2, <1>3, <1>4

\* Every step keeps the type invariant.
LEMMA TypeStep ==
  ASSUME IInv, Next
  PROVE  TypeOK'
<1> USE DEF IInv, TypeOK
<1>1. ASSUME NEW r \in Requests, Start(r) PROVE TypeOK'
  <2>1. PICK f \in Forms, kind \in {"new", "register"}, life \in Lifetimes :
          req' = [req EXCEPT ![r] =
                    [pc |-> "form", kind |-> kind, id |-> served + 1, form |-> f,
                     expires |-> IF life = 0 THEN 0 ELSE now + life, out |-> "ok"]]
    BY <1>1 DEF Start
  <2> DEFINE end == IF life = 0 THEN 0 ELSE now + life
  <2>0. f \in AllForms /\ end \in Nat /\ served + 1 \in Nat
    <3>1. f \in AllForms /\ life \in Nat
      BY CreateRepoAssumption
    <3>2. now \in Nat /\ served \in Nat
      BY DEF IInv, TypeOK
    <3>3. QED BY <3>1, <3>2
  <2> HIDE DEF end
  <2>2. [pc |-> "form", kind |-> kind, id |-> served + 1, form |-> f,
         expires |-> end, out |-> "ok"] \in RequestRecords
    BY <2>0 DEF RequestRecords
  <2>3. req' \in [Requests -> RequestRecords]
    BY <2>1, <2>2 DEF end
  <2>4. \A q \in Requests : req'[q].pc # "idle" => req'[q].id \in 1 .. served'
    <3>1. served' = served + 1
      BY <1>1 DEF Start
    <3>2. req'[r].id = served + 1 /\ \A q \in Requests \ {r} : req'[q] = req[q]
      BY <2>1
    <3>3. served \in Nat /\ \A q \in Requests : req[q].pc # "idle" => req[q].id \in 1 .. served
      OBVIOUS
    <3> HIDE DEF IInv, TypeOK
    <3>4. QED BY <3>1, <3>2, <3>3
  <2>5. served' = served + 1 /\ UNCHANGED <<now, repos, disk, process, restarts, faulted, leaked>>
    BY <1>1 DEF Start
  <2>6. DOMAIN disk \subseteq 1 .. served + 1
    <3>1. served \in Nat /\ DOMAIN disk \subseteq 1 .. served
      OBVIOUS
    <3> HIDE DEF IInv, TypeOK
    <3>2. QED BY <3>1
  <2>7. QED BY <2>0, <2>3, <2>4, <2>5, <2>6
<1>2. ASSUME NEW r \in Requests, ReadForm(r) PROVE TypeOK'
  <2>1. /\ req' \in [Requests -> RequestRecords]
        /\ \A q \in Requests : req'[q].pc # "idle" => req'[q].id \in 1 .. served
    BY <1>2, SlotTyped DEF ReadForm
  <2>2. QED BY <1>2, <2>1 DEF ReadForm
<1>3. ASSUME NEW r \in Requests, FormRefused(r) PROVE TypeOK'
  <2>1. /\ req' \in [Requests -> RequestRecords]
        /\ \A q \in Requests : req'[q].pc # "idle" => req'[q].id \in 1 .. served
    BY <1>3, SlotTyped DEF FormRefused
  <2>2. QED BY <1>3, <2>1 DEF FormRefused, Blame, RequestRecords
<1>4. ASSUME NEW r \in Requests, Create(r) PROVE TypeOK'
  <2>1. /\ req' \in [Requests -> RequestRecords]
        /\ \A q \in Requests : req'[q].pc # "idle" => req'[q].id \in 1 .. served
    BY <1>4, SlotTyped DEF Create
  <2>2. QED BY <1>4, <2>1, RepoTyped DEF Create
<1>5. ASSUME NEW r \in Requests, CreateFails(r) PROVE TypeOK'
  <2>1. /\ req' \in [Requests -> RequestRecords]
        /\ \A q \in Requests : req'[q].pc # "idle" => req'[q].id \in 1 .. served
    BY <1>5, SlotTyped DEF CreateFails
  <2>2. faulted' \subseteq Nat
    BY <1>5 DEF CreateFails, Blame, RequestRecords
  <2>3. QED BY <1>5, <2>1, <2>2, RepoTyped DEF CreateFails
<1>6. ASSUME NEW r \in Requests, MakeDir(r) PROVE TypeOK'
  <2>1. /\ req' \in [Requests -> RequestRecords]
        /\ \A q \in Requests : req'[q].pc # "idle" => req'[q].id \in 1 .. served
    BY <1>6, SlotTyped DEF MakeDir
  <2>2. QED BY <1>6, <2>1 DEF MakeDir, Put, Dir
<1>7. ASSUME NEW r \in Requests, MakeDirFails(r) PROVE TypeOK'
  <2>1. /\ req' \in [Requests -> RequestRecords]
        /\ \A q \in Requests : req'[q].pc # "idle" => req'[q].id \in 1 .. served
    BY <1>7, SlotTyped DEF MakeDirFails
  <2>2. QED BY <1>7, <2>1 DEF MakeDirFails, Blame, RequestRecords
<1>8. ASSUME NEW r \in Requests, AddFiles(r) PROVE TypeOK'
  <2>1. /\ req' \in [Requests -> RequestRecords]
        /\ \A q \in Requests : req'[q].pc # "idle" => req'[q].id \in 1 .. served
    BY <1>8, SlotTyped DEF AddFiles
  <2>2. QED BY <1>8, <2>1 DEF AddFiles, Written, Dir
<1>9. ASSUME NEW r \in Requests, AddFilesFails(r) PROVE TypeOK'
  <2>1. /\ req' \in [Requests -> RequestRecords]
        /\ \A q \in Requests : req'[q].pc # "idle" => req'[q].id \in 1 .. served
    BY <1>9, SlotTyped DEF AddFilesFails
  <2>2. QED BY <1>9, <2>1 DEF AddFilesFails, Blame, RequestRecords
<1>10. ASSUME NEW r \in Requests, Push(r) PROVE TypeOK'
  <2>1. /\ req' \in [Requests -> RequestRecords]
        /\ \A q \in Requests : req'[q].pc # "idle" => req'[q].id \in 1 .. served
    BY <1>10, SlotTyped DEF Push
  <2>2. req[r].form.tag \in BOOLEAN
    BY DEF RequestRecords, AllForms
  <2>3. QED BY <1>10, <2>1, <2>2, RepoTyped DEF Push
<1>11. ASSUME NEW r \in Requests, PushFails(r) PROVE TypeOK'
  <2>1. /\ req' \in [Requests -> RequestRecords]
        /\ \A q \in Requests : req'[q].pc # "idle" => req'[q].id \in 1 .. served
    BY <1>11, SlotTyped DEF PushFails
  <2>2. faulted' \subseteq Nat /\ req[r].form.tag \in BOOLEAN
    BY <1>11 DEF PushFails, Blame, RequestRecords, AllForms
  <2>3. QED BY <1>11, <2>1, <2>2, RepoTyped DEF PushFails
<1>12. ASSUME NEW r \in Requests, Clone(r) PROVE TypeOK'
  <2>1. /\ req' \in [Requests -> RequestRecords]
        /\ \A q \in Requests : req'[q].pc # "idle" => req'[q].id \in 1 .. served
    BY <1>12, SlotTyped DEF Clone
  <2>2. QED BY <1>12, <2>1 DEF Clone, Dir
<1>13. ASSUME NEW r \in Requests, CloneFails(r) PROVE TypeOK'
  <2>1. /\ req' \in [Requests -> RequestRecords]
        /\ \A q \in Requests : req'[q].pc # "idle" => req'[q].id \in 1 .. served
    BY <1>13, SlotTyped DEF CloneFails
  <2>2. QED BY <1>13, <2>1 DEF CloneFails
<1>14. ASSUME NEW r \in Requests, Inspect(r) PROVE TypeOK'
  <2>1. /\ req' \in [Requests -> RequestRecords]
        /\ \A q \in Requests : req'[q].pc # "idle" => req'[q].id \in 1 .. served
    BY <1>14, SlotTyped DEF Inspect
  <2>2. QED BY <1>14, <2>1 DEF Inspect
<1>15. ASSUME NEW r \in Requests, CleanUp(r) PROVE TypeOK'
  <2>1. /\ req' \in [Requests -> RequestRecords]
        /\ \A q \in Requests : req'[q].pc # "idle" => req'[q].id \in 1 .. served
    <3>1. CASE req[r].out = "panic"
        <4>1. req' = [req EXCEPT ![r] = Idle]
        BY <1>15, <3>1 DEF CleanUp
      <4>2. Idle.pc = "idle"
        BY DEF Idle
      <4>3. req' \in [Requests -> RequestRecords]
        BY <4>1, IdleTyped
      <4>4. QED BY <4>1, <4>2, <4>3
    <3>2. CASE req[r].out # "panic"
      BY <1>15, <3>2, SlotTyped DEF CleanUp
    <3>3. QED BY <3>1, <3>2
  <2>2. leaked' \subseteq Nat
    BY <1>15 DEF CleanUp, Dir, RequestRecords
  <2>3. QED BY <1>15, <2>1, <2>2 DEF CleanUp, Removed, Drop
<1>16. ASSUME NEW r \in Requests, Respond(r) PROVE TypeOK'
  <2>1. /\ req' \in [Requests -> RequestRecords]
        /\ \A q \in Requests : req'[q].pc # "idle" => req'[q].id \in 1 .. served
    BY <1>16, SlotTyped, IdleTyped DEF Respond, Idle
  <2>2. QED BY <1>16, <2>1 DEF Respond
<1>17. CASE Crash
  <2>1. req' \in [Requests -> RequestRecords] /\ \A r \in Requests : req'[r].pc = "idle"
    BY <1>17, IdleTyped DEF Crash, Idle
  <2>2. faulted' \subseteq Nat
    <3>1. \A r \in Requests : req[r].id \in Nat
      BY DEF RequestRecords
    <3>2. faulted \subseteq Nat /\ faulted' = faulted \cup {req[r].id : r \in Requests}
      BY <1>17 DEF Crash
    <3> HIDE DEF IInv, TypeOK
    <3>3. QED BY <3>1, <3>2
  <2>3. leaked' \subseteq Nat
    <3>1. leaked \subseteq Nat /\ DOMAIN disk \subseteq 1 .. served
      OBVIOUS
    <3>2. leaked' = leaked \cup DOMAIN disk
      BY <1>17 DEF Crash
    <3>3. 1 .. served \subseteq Nat
      OBVIOUS
    <3> HIDE DEF IInv, TypeOK
    <3>4. QED BY <3>1, <3>2, <3>3, Zenon
  <2>4. restarts' \in Nat /\ process' = "down" /\ UNCHANGED <<now, repos, disk, served>>
    <3>1. restarts \in Nat /\ restarts' = restarts + 1
      BY <1>17 DEF Crash
    <3> HIDE DEF IInv, TypeOK
    <3>2. QED BY <1>17, <3>1 DEF Crash
  <2>5. QED BY <2>1, <2>2, <2>3, <2>4
<1>18. CASE Boot
  BY <1>18 DEF Boot
<1>19. CASE Clock
  <2>1. now' \in Nat
    <3>1. now \in Nat /\ now' = now + 1
      BY <1>19 DEF Clock, Tick
    <3> HIDE DEF IInv, TypeOK
    <3>2. QED BY <3>1
  <2>2. UNCHANGED <<repos, disk, req, served, process, restarts, faulted, leaked>>
    BY <1>19 DEF Clock
  <2>3. QED BY <2>1, <2>2
<1>20. QED
  BY <1>1, <1>2, <1>3, <1>4, <1>5, <1>6, <1>7, <1>8, <1>9, <1>10, <1>11, <1>12, <1>13,
     <1>14, <1>15, <1>16, <1>17, <1>18, <1>19
     DEF Next, Bounded, Unbounded

-----------------------------------------------------------------------------
(* A step of one request, and what it leaves to the others *)

\* A reason why a repository may stay empty (the last parts of
\* EmptyRepoExplained).
Excused(n) ==
  LET f == repos[n].form
  IN  \/ f.template
      \/ f.license \notin Licenses
      \/ f.gitignore \notin Gitignores
      \/ f.sha256 /\ ~ Sha256Repo
      \/ repos[n].expires # 0 /\ now >= repos[n].expires
      \/ repos[n].by \in faulted

\* The places at which a request has its directory.
DirStages == {"fill", "push", "clone", "inspect", "cleanup"}

\* The step touches no slot but r, no repository but the one r made and no
\* directory but its own.
OwnStep(r) ==
  /\ \A q \in Requests \ {r} : req'[q] = req[q]
  /\ req[r].pc # "idle" /\ (req'[r].pc # "idle" => req'[r].id = req[r].id)
  /\ now' = now /\ served' = served
  /\ faulted \subseteq faulted' /\ leaked \subseteq leaked'
  /\ \A n \in DOMAIN repos :
       n \in DOMAIN repos' /\ (repos'[n] = repos[n] \/ repos[n].by = req[r].id)
  /\ \A n \in DOMAIN repos' :
       (n \in DOMAIN repos /\ repos'[n] = repos[n]) \/ repos'[n].by = req[r].id
  /\ \A d \in DOMAIN disk \ {Dir(r)} : d \in DOMAIN disk' /\ disk'[d] = disk[d]
  /\ \A d \in DOMAIN disk' : d \in DOMAIN disk \/ d = Dir(r)

\* What one request does keeps what holds of the others.
LEMMA OthersKept ==
  ASSUME IInv, NEW r \in Requests, OwnStep(r)
  PROVE  Numbered' /\ \A q \in Requests \ {r} : SlotSafe(q)'
<1>1. Numbered'
  BY DEF IInv, Safe, Numbered, OwnStep
<1>2. ASSUME NEW q \in Requests \ {r} PROVE SlotSafe(q)'
  <2>1. SlotSafe(q) /\ req'[q] = req[q]
    BY DEF IInv, Safe, OwnStep
  <2>2. req[q].pc # "idle" => req[q].id # req[r].id
    BY DEF IInv, Safe, Numbered, OwnStep
  <2>3. OnPath(q)'
    BY <2>1 DEF SlotSafe, OnPath
  <2>4. Unmade(q)'
    BY <2>1, <2>2 DEF SlotSafe, Unmade, OwnStep
  <2>5. Held(q)'
    BY <2>1, <2>2 DEF SlotSafe, Held, OwnStep
  <2>6. Filled(q)'
    BY <2>1, <2>2 DEF SlotSafe, Filled, Dir, OwnStep
  <2>7. req[q].out = "redirect" => req[q].pc # "idle"
    BY <2>1 DEF SlotSafe, OnPath
  <2>8. Ready(q)'
    BY <2>1, <2>2, <2>7 DEF SlotSafe, Ready, OwnStep
  <2>9. QED BY <2>3, <2>4, <2>5, <2>6, <2>8 DEF SlotSafe
<1>3. QED BY <1>1, <1>2

\* A repository stays explained when its request keeps at it or leaves a reason.
LEMMA EmptyKept ==
  ASSUME IInv, NEW r \in Requests, OwnStep(r),
         \A n \in DOMAIN repos' :
           \/ n \in DOMAIN repos /\ repos'[n] = repos[n] /\ ~ Busy(r, n)
           \/ repos'[n].pushed \/ Busy(r, n)' \/ Excused(n)'
  PROVE  EmptyRepoExplained'
<1> SUFFICES ASSUME NEW n \in DOMAIN repos'
             PROVE  repos'[n].pushed \/ InProgress(n)' \/ Excused(n)'
  BY DEF EmptyRepoExplained, Excused
<1>1. CASE n \in DOMAIN repos /\ repos'[n] = repos[n] /\ ~ Busy(r, n)
  <2>1. repos[n].pushed \/ InProgress(n) \/ Excused(n)
    BY <1>1 DEF IInv, Safe, EmptyRepoExplained, Excused
  <2>2. Excused(n) => Excused(n)'
    BY <1>1 DEF Excused, OwnStep
  <2>3. ASSUME NEW q \in Requests, Busy(q, n) PROVE Busy(q, n)'
    BY <1>1, <2>3 DEF Busy, OwnStep
  <2>4. QED BY <1>1, <2>1, <2>2, <2>3 DEF InProgress
<1>2. CASE repos'[n].pushed \/ Busy(r, n)' \/ Excused(n)'
  BY <1>2 DEF InProgress
<1>3. QED BY <1>1, <1>2

\* A directory stays in use when its request keeps it or its loss is noted.
LEMMA DirsKept ==
  ASSUME IInv, NEW r \in Requests, OwnStep(r),
         Dir(r) \in DOMAIN disk' =>
           \/ Dir(r) \in leaked'
           \/ req'[r].pc \in DirStages
  PROVE  TempDirsInUse'
<1> SUFFICES ASSUME NEW d \in DOMAIN disk'
             PROVE  \/ d \in leaked'
                    \/ \E q \in Requests : req'[q].id = d /\ req'[q].pc \in DirStages
  BY DEF TempDirsInUse, DirStages
<1>1. CASE d = Dir(r)
  BY <1>1 DEF Dir, OwnStep, DirStages
<1>2. CASE d # Dir(r)
  <2>1. d \in DOMAIN disk
    BY <1>2 DEF OwnStep
  <2>2. d \in leaked \/ \E q \in Requests : req[q].id = d /\ req[q].pc \in DirStages
    BY <2>1 DEF IInv, Safe, TempDirsInUse, DirStages
  <2>3. QED BY <1>2, <2>2 DEF Dir, OwnStep
<1>3. QED BY <1>1, <1>2

\* The parts put together: what is left to show of the request that steps.
LEMMA OwnStepSafe ==
  ASSUME IInv, NEW r \in Requests, OwnStep(r), Made', SlotSafe(r)',
         \A n \in DOMAIN repos' :
           \/ n \in DOMAIN repos /\ repos'[n] = repos[n] /\ ~ Busy(r, n)
           \/ repos'[n].pushed \/ Busy(r, n)' \/ Excused(n)',
         Dir(r) \in DOMAIN disk' =>
           \/ Dir(r) \in leaked'
           \/ req'[r].pc \in DirStages
  PROVE  Safe'
<1>1. \A q \in Requests : SlotSafe(q)'
  BY OthersKept
<1>2. QED BY <1>1, OthersKept, EmptyKept, DirsKept DEF Safe

\* The slot r goes to another place with an answer, and keeps the rest.
Moved(r, pc, out) ==
  /\ \A q \in Requests \ {r} : req'[q] = req[q]
  /\ req'[r].pc = pc /\ req'[r].out = out
  /\ req'[r].id = req[r].id /\ req'[r].kind = req[r].kind
  /\ req'[r].form = req[r].form /\ req'[r].expires = req[r].expires

\* What GoTo and Leave do to a slot.
LEMMA SlotMoved ==
  ASSUME TypeOK, NEW r \in Requests, NEW pc
  PROVE  /\ GoTo(r, pc) => Moved(r, pc, req[r].out)
         /\ \A out : Leave(r, pc, out) => Moved(r, pc, out)
<1>1. req \in [Requests -> RequestRecords] /\ req[r] \in RequestRecords
  BY DEF TypeOK
<1>2. GoTo(r, pc) => Moved(r, pc, req[r].out)
  BY <1>1 DEF GoTo, Moved, RequestRecords
<1>3. ASSUME NEW out, Leave(r, pc, out) PROVE Moved(r, pc, out)
  BY <1>1, <1>3 DEF Leave, Moved, RequestRecords
<1>4. QED BY <1>2, <1>3

\* A step that leaves the provider and the disk alone.
LEMMA QuietSafe ==
  ASSUME IInv, NEW r \in Requests,
         UNCHANGED <<now, repos, disk, served>>,
         req[r].pc # "idle", \A q \in Requests \ {r} : req'[q] = req[q],
         req'[r].pc # "idle" => req'[r].id = req[r].id,
         faulted \subseteq faulted', leaked \subseteq leaked',
         SlotSafe(r)',
         \A n \in DOMAIN repos : Busy(r, n) => Excused(n)',
         Dir(r) \in DOMAIN disk => Dir(r) \in leaked' \/ req'[r].pc \in DirStages
  PROVE  Safe'
<1>1. OwnStep(r)
  BY DEF OwnStep
<1>2. Made'
  BY DEF IInv, Safe, Made
<1>3. QED BY <1>1, <1>2, OwnStepSafe

\* A directory on the disk that is not lost is that of a request working in it.
LEMMA DirAtWork ==
  ASSUME IInv, NEW r \in Requests, req[r].pc # "idle",
         Dir(r) \in DOMAIN disk, Dir(r) \notin leaked
  PROVE  req[r].pc \in DirStages
<1>1. PICK q \in Requests : req[q].id = Dir(r) /\ req[q].pc \in DirStages
  BY DEF IInv, Safe, TempDirsInUse, DirStages
<1>2. q = r
  BY <1>1 DEF IInv, Safe, Numbered, Dir, DirStages
<1>3. QED BY <1>1, <1>2

\* The repository a request is busy with is the one its form names.
LEMMA BusyWithOwn ==
  ASSUME IInv, NEW r \in Requests, NEW n \in DOMAIN repos, Busy(r, n)
  PROVE  /\ n = req[r].form.name /\ repos[n].form = req[r].form
         /\ repos[n].by = req[r].id /\ repos[n].expires = req[r].expires
         /\ repos[n].format = Format(req[r].form.sha256 /\ Sha256Repo)
         /\ ~ repos[n].pushed
<1>1. Held(r) /\ Made
  BY DEF IInv, Safe, SlotSafe
<1>2. QED BY <1>1 DEF Held, Made, Busy

\* Reading the form.
LEMMA ReadFormSafe == ASSUME IInv, NEW r \in Requests, ReadForm(r) PROVE Safe'
<1>1. /\ req[r].pc = "form" /\ SlotSafe(r)
      /\ UNCHANGED <<now, repos, disk, served, faulted, leaked>>
  BY DEF ReadForm, IInv, Safe
<1>2. Moved(r, IF req[r].kind = "new" THEN "create" ELSE "mkdir", req[r].out)
  BY SlotMoved DEF ReadForm, IInv
<1>3. SlotSafe(r)'
  BY <1>1, <1>2 DEF SlotSafe, OnPath, Unmade, Held, Filled, Ready, Moved
<1>4. Dir(r) \in DOMAIN disk => Dir(r) \in leaked
  BY <1>1, DirAtWork DEF DirStages
<1>5. QED BY <1>1, <1>2, <1>3, <1>4, QuietSafe DEF Moved, Busy

\* Refusing the form.
LEMMA FormRefusedSafe == ASSUME IInv, NEW r \in Requests, FormRefused(r) PROVE Safe'
<1>1. /\ req[r].pc = "form" /\ SlotSafe(r) /\ UNCHANGED <<now, repos, disk, served, leaked>>
      /\ faulted \subseteq faulted'
  BY DEF FormRefused, Blame, IInv, Safe
<1>2. PICK out \in {"bad", "error"} : Moved(r, "respond", out)
  BY SlotMoved DEF FormRefused, IInv
<1>3. SlotSafe(r)'
  BY <1>1, <1>2 DEF SlotSafe, OnPath, Unmade, Held, Filled, Ready, Moved
<1>4. Dir(r) \in DOMAIN disk => Dir(r) \in leaked
  BY <1>1, DirAtWork DEF DirStages
<1>5. QED BY <1>1, <1>2, <1>3, <1>4, QuietSafe DEF Moved, Busy

\* No temporary directory.
LEMMA MakeDirFailsSafe == ASSUME IInv, NEW r \in Requests, MakeDirFails(r) PROVE Safe'
<1>1. /\ req[r].pc = "mkdir" /\ SlotSafe(r) /\ UNCHANGED <<now, repos, disk, served, leaked>>
      /\ faulted' = faulted \cup {req[r].id}
  BY DEF MakeDirFails, Blame, IInv, Safe
<1>2. Moved(r, "respond", "error")
  BY SlotMoved DEF MakeDirFails, IInv
<1>3. SlotSafe(r)'
  BY <1>1, <1>2 DEF SlotSafe, OnPath, Unmade, Held, Filled, Ready, Moved
<1>4. Dir(r) \in DOMAIN disk => Dir(r) \in leaked
  BY <1>1, DirAtWork DEF DirStages
<1>5. \A n \in DOMAIN repos : Busy(r, n) => Excused(n)'
  BY <1>1 DEF Busy, Excused
<1>6. QED BY <1>1, <1>2, <1>3, <1>4, <1>5, QuietSafe DEF Moved

\* The files cannot be written.
LEMMA AddFilesFailsSafe == ASSUME IInv, NEW r \in Requests, AddFilesFails(r) PROVE Safe'
<1>1. /\ req[r].pc = "fill" /\ SlotSafe(r) /\ UNCHANGED <<now, repos, disk, served, leaked>>
      /\ faulted' = faulted \cup {req[r].id}
  BY DEF AddFilesFails, Blame, IInv, Safe
<1>2. Moved(r, "cleanup", "error")
  BY SlotMoved DEF AddFilesFails, IInv
<1>3. SlotSafe(r)'
  BY <1>1, <1>2 DEF SlotSafe, OnPath, Unmade, Held, Filled, Ready, Moved
<1>4. \A n \in DOMAIN repos : Busy(r, n) => Excused(n)'
  BY <1>1 DEF Busy, Excused
<1>5. QED BY <1>1, <1>2, <1>3, <1>4, QuietSafe DEF Moved, DirStages

\* The clone fails.
LEMMA CloneFailsSafe == ASSUME IInv, NEW r \in Requests, CloneFails(r) PROVE Safe'
<1>1. /\ req[r].pc = "clone" /\ SlotSafe(r)
      /\ UNCHANGED <<now, repos, disk, served, faulted, leaked>>
  BY DEF CloneFails, IInv, Safe
<1>2. Moved(r, "cleanup", "error")
  BY SlotMoved DEF CloneFails, IInv
<1>3. SlotSafe(r)'
  BY <1>1, <1>2 DEF SlotSafe, OnPath, Unmade, Held, Filled, Ready, Moved
<1>4. QED BY <1>1, <1>2, <1>3, QuietSafe DEF Moved, DirStages, Busy

\* A look at the clone.
LEMMA InspectSafe == ASSUME IInv, NEW r \in Requests, Inspect(r) PROVE Safe'
<1>1. /\ req[r].pc = "inspect" /\ SlotSafe(r)
      /\ UNCHANGED <<now, repos, disk, served, faulted, leaked>>
  BY DEF Inspect, IInv, Safe
<1>2. PICK out \in {"created", "error"} : Moved(r, "cleanup", out)
  BY SlotMoved DEF Inspect, IInv
<1>3. SlotSafe(r)'
  BY <1>1, <1>2 DEF SlotSafe, OnPath, Unmade, Held, Filled, Ready, Moved
<1>4. QED BY <1>1, <1>2, <1>3, QuietSafe DEF Moved, DirStages, Busy

\* The answer.
LEMMA RespondSafe == ASSUME IInv, NEW r \in Requests, Respond(r) PROVE Safe'
<1>1. /\ req[r].pc = "respond" /\ SlotSafe(r)
      /\ UNCHANGED <<now, repos, disk, served, faulted, leaked>>
  BY DEF Respond, IInv, Safe
<1>2. req'[r] = Idle /\ \A q \in Requests \ {r} : req'[q] = req[q]
  BY DEF Respond, IInv, TypeOK
<1>3. SlotSafe(r)'
  BY <1>2 DEF SlotSafe, OnPath, Unmade, Held, Filled, Ready, Idle
<1>4. Dir(r) \in DOMAIN disk => Dir(r) \in leaked
  BY <1>1, DirAtWork DEF DirStages
<1>5. QED BY <1>1, <1>2, <1>3, <1>4, QuietSafe DEF Busy, Idle

\* The repository made at the provider, and what that leaves to the others.
LEMMA Creation ==
  ASSUME IInv, NEW r \in Requests, req[r].pc = "create", Creatable(r),
         CreateRemoteRepo(r), UNCHANGED <<now, served, disk, leaked>>,
         faulted \subseteq faulted',
         req'[r].id = req[r].id, \A q \in Requests \ {r} : req'[q] = req[q]
  PROVE  /\ OwnStep(r) /\ Made'
         /\ DOMAIN repos' = DOMAIN repos \cup {req[r].form.name}
         /\ repos'[req[r].form.name] = NewRepo(r)
         /\ \A n \in DOMAIN repos : repos'[n] = repos[n] /\ ~ Busy(r, n)
<1> DEFINE name == req[r].form.name
<1>1. /\ name \notin DOMAIN repos
      /\ DOMAIN repos' = DOMAIN repos \cup {name}
      /\ repos'[name] = NewRepo(r)
      /\ \A n \in DOMAIN repos : repos'[n] = repos[n]
  BY DEF Creatable, CreateRemoteRepo, Put
<1>2. NewRepo(r).by = req[r].id /\ NewRepo(r).form = req[r].form
  BY DEF NewRepo
<1> HIDE DEF name
<1>3. OwnStep(r)
  BY <1>1, <1>2 DEF OwnStep
<1>4. Made'
  <2>1. Made /\ \A n \in DOMAIN repos : repos[n].by # req[r].id
    BY DEF IInv, Safe, SlotSafe, Unmade
  <2>2. req[r].id \in 1 .. served
    BY DEF IInv, TypeOK
  <2>3. req[r].form.name = name
    BY DEF name
  <2>4. QED BY <1>1, <1>2, <2>1, <2>2, <2>3 DEF Made
<1>5. \A n \in DOMAIN repos : ~ Busy(r, n)
  BY DEF Busy
<1>6. QED BY <1>1, <1>3, <1>4, <1>5 DEF name

\* The creation.
LEMMA CreateSafe == ASSUME IInv, NEW r \in Requests, Create(r) PROVE Safe'
<1>1. /\ req[r].pc = "create" /\ Creatable(r) /\ CreateRemoteRepo(r) /\ SlotSafe(r)
      /\ UNCHANGED <<now, disk, served, faulted, leaked>>
  BY DEF Create, IInv, Safe
<1>2. Moved(r, "mkdir", req[r].out)
  BY SlotMoved DEF Create, NeedsInitialization, LicenseGiven, IInv
<1>3. /\ OwnStep(r) /\ Made'
      /\ DOMAIN repos' = DOMAIN repos \cup {req[r].form.name}
      /\ repos'[req[r].form.name] = NewRepo(r)
      /\ \A n \in DOMAIN repos : repos'[n] = repos[n] /\ ~ Busy(r, n)
  BY <1>1, <1>2, Creation DEF Moved
<1>4. req[r].kind = "new" /\ req[r].out = "ok"
  BY <1>1 DEF SlotSafe, OnPath
<1>5. SlotSafe(r)'
  <2>1. OnPath(r)' /\ Unmade(r)' /\ Filled(r)' /\ Ready(r)'
    BY <1>2, <1>4 DEF OnPath, Unmade, Filled, Ready, Moved
  <2>2. Held(r)'
    BY <1>2, <1>3 DEF Held, Moved, NewRepo
  <2>3. QED BY <2>1, <2>2 DEF SlotSafe
<1>6. \A n : n = req[r].form.name => Busy(r, n)'
  BY <1>2, <1>3, <1>4 DEF Busy, Moved, NewRepo
<1>7. Dir(r) \in DOMAIN disk => Dir(r) \in leaked
  BY <1>1, DirAtWork DEF DirStages
<1>8. \A n \in DOMAIN repos' :
        (n \in DOMAIN repos /\ repos'[n] = repos[n] /\ ~ Busy(r, n)) \/ Busy(r, n)'
  BY <1>3, <1>6
<1>9. Dir(r) \in DOMAIN disk' => Dir(r) \in leaked'
  BY <1>1, <1>7
<1>10. QED BY <1>3, <1>5, <1>8, <1>9, OwnStepSafe

\* The creation fails, or its answer is lost.
LEMMA CreateFailsSafe == ASSUME IInv, NEW r \in Requests, CreateFails(r) PROVE Safe'
<1>1. /\ req[r].pc = "create" /\ SlotSafe(r) /\ UNCHANGED <<now, disk, served, leaked>>
      /\ faulted \subseteq faulted'
  BY DEF CreateFails, Blame, IInv, Safe
<1>2. Moved(r, "respond", "error")
  BY SlotMoved DEF CreateFails, IInv
<1>3. OnPath(r)' /\ Unmade(r)' /\ Held(r)' /\ Filled(r)' /\ Ready(r)'
  BY <1>1, <1>2 DEF SlotSafe, OnPath, Unmade, Held, Filled, Ready, Moved
<1>4. Dir(r) \in DOMAIN disk => Dir(r) \in leaked
  BY <1>1, DirAtWork DEF DirStages
<1>5. CASE UNCHANGED repos
  BY <1>1, <1>2, <1>3, <1>4, <1>5, QuietSafe DEF Moved, Busy, SlotSafe
<1>6. CASE Creatable(r) /\ Blame(r, FALSE) /\ CreateRemoteRepo(r)
  <2>1. /\ OwnStep(r) /\ Made'
        /\ DOMAIN repos' = DOMAIN repos \cup {req[r].form.name}
        /\ repos'[req[r].form.name] = NewRepo(r)
        /\ \A n \in DOMAIN repos : repos'[n] = repos[n] /\ ~ Busy(r, n)
    BY <1>1, <1>2, <1>6, Creation DEF Moved
  <2>2. ASSUME NEW n, n = req[r].form.name PROVE Excused(n)'
    <3>1. repos'[n].by = req[r].id
      BY <2>1, <2>2 DEF NewRepo
    <3>2. req[r].id \in faulted'
      BY <1>6 DEF Blame
    <3>3. QED BY <3>1, <3>2 DEF Excused
  <2>3. \A n \in DOMAIN repos' :
          (n \in DOMAIN repos /\ repos'[n] = repos[n] /\ ~ Busy(r, n)) \/ Excused(n)'
    BY <2>1, <2>2
  <2>4. Dir(r) \in DOMAIN disk' => Dir(r) \in leaked'
    BY <1>1, <1>4
  <2>5. SlotSafe(r)'
    BY <1>3 DEF SlotSafe
  <2>6. QED BY <2>1, <2>3, <2>4, <2>5, OwnStepSafe
<1>7. QED BY <1>5, <1>6 DEF CreateFails

\* A step that leaves the provider alone and works in the own directory.
LEMMA DiskSafe ==
  ASSUME IInv, NEW r \in Requests, NEW files,
         UNCHANGED <<now, repos, served, faulted, leaked>>,
         disk' = Put(disk, Dir(r), files),
         req[r].pc # "idle", \A q \in Requests \ {r} : req'[q] = req[q],
         req'[r].id = req[r].id, req'[r].pc \in DirStages,
         SlotSafe(r)',
         \A n \in DOMAIN repos : Busy(r, n) => Busy(r, n)' \/ Excused(n)'
  PROVE  Safe'
<1>1. OwnStep(r)
  BY DEF OwnStep, Put
<1>2. Made'
  BY DEF IInv, Safe, Made
<1>3. QED BY <1>1, <1>2, OwnStepSafe

\* The temporary directory is made.
LEMMA MakeDirSafe == ASSUME IInv, NEW r \in Requests, MakeDir(r) PROVE Safe'
<1>1. /\ req[r].pc = "mkdir" /\ SlotSafe(r) /\ UNCHANGED <<now, repos, served, faulted, leaked>>
      /\ disk' = Put(disk, Dir(r), {})
  BY DEF MakeDir, IInv, Safe
<1>2. Moved(r, IF req[r].kind = "new" THEN "fill" ELSE "clone", req[r].out)
  BY SlotMoved DEF MakeDir, IInv
<1>3. SlotSafe(r)'
  <2>1. req[r].kind \in {"new", "register"}
    BY DEF IInv, TypeOK, RequestRecords
  <2>2. OnPath(r)' /\ Unmade(r)' /\ Held(r)' /\ Ready(r)'
    BY <1>1, <1>2, <2>1 DEF SlotSafe, OnPath, Unmade, Held, Ready, Moved
  <2>3. Filled(r)'
    BY <1>1, <1>2 DEF Filled, Moved, Dir, Put
  <2>4. QED BY <2>2, <2>3 DEF SlotSafe
<1>4. \A n \in DOMAIN repos : Busy(r, n) => Busy(r, n)'
  BY <1>1, <1>2 DEF Busy, Moved
<1>5. QED BY <1>1, <1>2, <1>3, <1>4, DiskSafe DEF Moved, DirStages

\* The clone.
LEMMA CloneSafe == ASSUME IInv, NEW r \in Requests, Clone(r) PROVE Safe'
<1>1. /\ req[r].pc = "clone" /\ SlotSafe(r) /\ UNCHANGED <<now, repos, served, faulted, leaked>>
      /\ disk' = [disk EXCEPT ![Dir(r)] = {"clone"}]
  BY DEF Clone, IInv, Safe
<1>2. Moved(r, "inspect", req[r].out)
  BY SlotMoved DEF Clone, IInv
<1>3. OnPath(r)' /\ Unmade(r)' /\ Held(r)' /\ Filled(r)' /\ Ready(r)'
  BY <1>1, <1>2 DEF SlotSafe, OnPath, Unmade, Held, Filled, Ready, Moved
<1>4. OwnStep(r)
  BY <1>1, <1>2 DEF OwnStep, Moved
<1>5. Made'
  BY <1>1 DEF IInv, Safe, Made
<1>6. QED BY <1>1, <1>2, <1>3, <1>4, <1>5, OwnStepSafe DEF Busy, Moved, DirStages, SlotSafe

\* The files are added, or a name in the form stops it.
LEMMA AddFilesSafe == ASSUME IInv, NEW r \in Requests, AddFiles(r) PROVE Safe'
<1> DEFINE f == req[r].form
<1>1. /\ req[r].pc = "fill" /\ SlotSafe(r) /\ UNCHANGED <<now, repos, served, faulted, leaked>>
      /\ disk' = IF f.template THEN disk ELSE [disk EXCEPT ![Dir(r)] = @ \cup Written(f)]
  BY DEF AddFiles, IInv, Safe
<1>2. /\ Fillable(f) => Moved(r, "push", req[r].out)
      /\ ~ Fillable(f) => \E out \in {"panic", "error"} : Moved(r, "cleanup", out)
  BY SlotMoved DEF AddFiles, IInv
<1>3. Dir(r) \in DOMAIN disk /\ disk[Dir(r)] = {} /\ req[r].kind = "new"
  BY <1>1 DEF SlotSafe, Filled, OnPath
<1>4. req[r].out = "ok"
  BY <1>1 DEF SlotSafe, OnPath
<1>5. SlotSafe(r)'
  <2>1. OnPath(r)' /\ Unmade(r)' /\ Held(r)' /\ Ready(r)'
    BY <1>1, <1>2, <1>3, <1>4 DEF SlotSafe, OnPath, Unmade, Held, Ready, Moved
  <2>2. CASE Fillable(f)
    <3>1. disk' = [disk EXCEPT ![Dir(r)] = @ \cup Written(f)]
      BY <1>1, <2>2 DEF Fillable
    <3>2. disk'[Dir(r)] = Written(f) /\ Dir(r) \in DOMAIN disk'
      BY <1>3, <3>1
    <3>3. Filled(r)'
      BY <1>2, <2>2, <3>2 DEF Filled, Moved, Dir
    <3>4. QED BY <2>1, <3>3 DEF SlotSafe
  <2>3. CASE ~ Fillable(f)
    BY <1>2, <2>1, <2>3 DEF SlotSafe, Filled, Moved
  <2>4. QED BY <2>2, <2>3
<1>6. /\ req'[r].id = req[r].id /\ req'[r].pc \in DirStages
      /\ \A q \in Requests \ {r} : req'[q] = req[q]
  BY <1>2 DEF Moved, DirStages
<1>7. \A n \in DOMAIN repos : Busy(r, n) => Busy(r, n)' \/ Excused(n)'
  <2>1. CASE Fillable(f)
    BY <1>1, <1>2, <2>1 DEF Busy, Moved
  <2>2. CASE ~ Fillable(f)
    BY <1>1, <2>2, BusyWithOwn DEF Fillable, Excused
  <2>3. QED BY <2>1, <2>2
<1>8. OwnStep(r)
  BY <1>1, <1>6 DEF OwnStep
<1>9. Made'
  BY <1>1 DEF IInv, Safe, Made
<1>10. QED BY <1>1, <1>5, <1>6, <1>7, <1>8, <1>9, OwnStepSafe

\* What arrives with a push is the .gitignore of the form, in a repository of
\* the format asked for.
LEMMA PushedContent ==
  ASSUME IInv, NEW r \in Requests, req[r].pc = "push"
  PROVE  /\ Busy(r, req[r].form.name) /\ req[r].form.name \in DOMAIN repos
         /\ Content(r) = Written(req[r].form)
         /\ Pushable(r) => /\ Content(r) = {req[r].form.gitignore}
                           /\ repos[req[r].form.name].format = Format(req[r].form.sha256)
<1>1. OnPath(r) /\ Held(r) /\ Filled(r)
  BY DEF IInv, Safe, SlotSafe
<1>2. Busy(r, req[r].form.name) /\ req[r].form.name \in DOMAIN repos
  BY <1>1 DEF OnPath, Held, Busy
<1>3. Content(r) = Written(req[r].form)
  BY <1>1 DEF Filled, Content
<1>4. QED BY <1>2, <1>3 DEF Pushable, Written

\* A push, and what it leaves to the others.
LEMMA Pushing ==
  ASSUME IInv, NEW r \in Requests, req[r].pc = "push", NEW tag \in BOOLEAN,
         Pushed(r, tag), UNCHANGED <<now, served, disk, leaked>>,
         faulted \subseteq faulted',
         req'[r].id = req[r].id, \A q \in Requests \ {r} : req'[q] = req[q]
  PROVE  /\ OwnStep(r) /\ Made' /\ DOMAIN repos' = DOMAIN repos
         /\ \A n \in DOMAIN repos :
              \/ n = req[r].form.name /\ repos'[n].pushed
              \/ n # req[r].form.name /\ repos'[n] = repos[n] /\ ~ Busy(r, n)
         /\ LET n == req[r].form.name
            IN  /\ repos'[n].by = req[r].id /\ repos'[n].format = repos[n].format
                /\ repos'[n].pushed /\ repos'[n].files = Content(r) /\ repos'[n].tag = tag
<1> DEFINE name == req[r].form.name
<1>1. name \in DOMAIN repos /\ repos[name].by = req[r].id
  BY PushedContent DEF Busy
<1>2. repos[name] \in RepoRecords
  BY <1>1 DEF IInv, TypeOK
<1>3. /\ DOMAIN repos' = DOMAIN repos
      /\ \A n \in DOMAIN repos : n # name => repos'[n] = repos[n]
      /\ repos'[name] = [repos[name] EXCEPT !.pushed = TRUE, !.files = Content(r), !.tag = tag]
  BY <1>1 DEF Pushed, IInv, TypeOK
<1>4. /\ repos'[name].by = repos[name].by /\ repos'[name].form = repos[name].form
      /\ repos'[name].format = repos[name].format
      /\ repos'[name].pushed /\ repos'[name].files = Content(r) /\ repos'[name].tag = tag
  BY <1>2, <1>3 DEF RepoRecords
<1>5. \A n \in DOMAIN repos : Busy(r, n) => n = name
  BY BusyWithOwn
<1> HIDE DEF name
<1>6. OwnStep(r)
  BY <1>1, <1>3, <1>4 DEF OwnStep
<1>7. Made'
  <2>1. \A n \in DOMAIN repos : repos'[n].by = repos[n].by /\ repos'[n].form = repos[n].form
    BY <1>3, <1>4
  <2>2. Made
    BY DEF IInv, Safe
  <2>3. QED BY <1>3, <2>1, <2>2 DEF Made
<1>8. QED BY <1>1, <1>3, <1>4, <1>5, <1>6, <1>7 DEF name

\* The push.
LEMMA PushSafe == ASSUME IInv, NEW r \in Requests, Push(r) PROVE Safe'
<1> DEFINE f == req[r].form
<1>1. /\ req[r].pc = "push" /\ Pushable(r) /\ Pushed(r, f.tag) /\ SlotSafe(r)
      /\ UNCHANGED <<now, disk, served, faulted, leaked>>
  BY DEF Push, IInv, Safe
<1>2. Moved(r, "cleanup", "redirect")
  BY SlotMoved DEF Push, IInv
<1>3. f.tag \in BOOLEAN
  BY DEF IInv, TypeOK, RequestRecords, AllForms
<1>4. /\ f.name \in DOMAIN repos /\ Content(r) = {f.gitignore}
      /\ repos[f.name].format = Format(f.sha256)
  BY <1>1, PushedContent
<1>5. /\ OwnStep(r) /\ Made' /\ DOMAIN repos' = DOMAIN repos
      /\ \A n \in DOMAIN repos :
           \/ repos'[n].pushed
           \/ repos'[n] = repos[n] /\ ~ Busy(r, n)
      /\ repos'[f.name].by = req[r].id /\ repos'[f.name].format = repos[f.name].format
      /\ repos'[f.name].pushed /\ repos'[f.name].files = Content(r)
      /\ repos'[f.name].tag = f.tag
  BY <1>1, <1>2, <1>3, Pushing DEF Moved
<1>6. SlotSafe(r)'
  <2>1. OnPath(r)' /\ Unmade(r)' /\ Held(r)' /\ Filled(r)'
    BY <1>1, <1>2 DEF SlotSafe, OnPath, Unmade, Held, Filled, Moved
  <2>2. Ready(r)'
    BY <1>2, <1>4, <1>5 DEF Ready, Moved
  <2>3. QED BY <2>1, <2>2 DEF SlotSafe
<1>7. QED BY <1>2, <1>5, <1>6, OwnStepSafe DEF Moved, DirStages

\* The push fails, or its answer is lost.
LEMMA PushFailsSafe == ASSUME IInv, NEW r \in Requests, PushFails(r) PROVE Safe'
<1> DEFINE f == req[r].form
<1>1. /\ req[r].pc = "push" /\ SlotSafe(r) /\ UNCHANGED <<now, disk, served, leaked>>
      /\ faulted \subseteq faulted'
  BY DEF PushFails, Blame, IInv, Safe
<1>2. Moved(r, "cleanup", "error")
  BY SlotMoved DEF PushFails, IInv
<1>3. SlotSafe(r)'
  BY <1>1, <1>2 DEF SlotSafe, OnPath, Unmade, Held, Filled, Ready, Moved
<1>4. CASE Blame(r, ~ Pushable(r)) /\ UNCHANGED repos
  <2>1. ASSUME NEW n \in DOMAIN repos, Busy(r, n) PROVE Excused(n)'
    <3>1. /\ n = f.name /\ repos[n].form = f /\ repos[n].by = req[r].id
          /\ repos[n].expires = req[r].expires
          /\ repos[n].format = Format(f.sha256 /\ Sha256Repo)
      BY <2>1, BusyWithOwn
    <3>2. CASE Pushable(r)
      BY <1>4, <3>1, <3>2 DEF Blame, Excused
    <3>3. CASE Content(r) = {}
      <4>1. f.gitignore \notin Gitignores
        BY <1>1, <3>3, PushedContent DEF Written
      <4>2. QED BY <1>4, <3>1, <4>1 DEF Excused
    <3>4. CASE ~ TokenHonoured(r)
      <4>1. now \in Nat /\ req[r].expires \in Nat
        BY DEF IInv, TypeOK, RequestRecords
      <4>2. req[r].expires # 0 /\ now >= req[r].expires
        BY <3>4, <4>1 DEF TokenHonoured
      <4>3. QED BY <1>1, <1>4, <3>1, <4>2 DEF Excused
    <3>5. CASE repos[f.name].format # Format(f.sha256)
      <4>1. f.sha256 /\ ~ Sha256Repo
        BY <3>1, <3>5 DEF Format
      <4>2. QED BY <1>4, <3>1, <4>1 DEF Excused
    <3>6. QED BY <3>2, <3>3, <3>4, <3>5 DEF Pushable
  <2>2. QED BY <1>1, <1>2, <1>3, <1>4, <2>1, QuietSafe DEF Moved, DirStages
<1>5. CASE \E tag \in {FALSE, f.tag} : Pushed(r, tag)
  <2>1. PICK tag \in {FALSE, f.tag} : Pushed(r, tag)
    BY <1>5
  <2>2. tag \in BOOLEAN
    BY DEF IInv, TypeOK, RequestRecords, AllForms
  <2>3. /\ OwnStep(r) /\ Made' /\ DOMAIN repos' = DOMAIN repos
        /\ \A n \in DOMAIN repos :
             \/ repos'[n].pushed
             \/ repos'[n] = repos[n] /\ ~ Busy(r, n)
    BY <1>1, <1>2, <2>1, <2>2, Pushing DEF Moved
  <2>4. QED BY <1>2, <1>3, <2>3, OwnStepSafe DEF Moved, DirStages
<1>6. QED BY <1>4, <1>5 DEF PushFails

\* The removal of the directory, and the end of a panic.
LEMMA CleanUpSafe == ASSUME IInv, NEW r \in Requests, CleanUp(r) PROVE Safe'
<1>1. /\ req[r].pc = "cleanup" /\ SlotSafe(r) /\ UNCHANGED <<now, repos, served, faulted>>
      /\ leaked \subseteq leaked'
      /\ \/ disk' = Drop(disk, {Dir(r)})
         \/ disk' = disk /\ Dir(r) \in leaked'
  BY DEF CleanUp, Removed, IInv, Safe
<1>2. /\ \A q \in Requests \ {r} : req'[q] = req[q]
      /\ req'[r] = Idle \/ Moved(r, "respond", req[r].out)
  BY SlotMoved DEF CleanUp, Moved, IInv, TypeOK
<1>3. SlotSafe(r)'
  <2>1. CASE req'[r] = Idle
    BY <2>1 DEF SlotSafe, OnPath, Unmade, Held, Filled, Ready, Idle
  <2>2. CASE Moved(r, "respond", req[r].out)
    BY <1>1, <2>2 DEF SlotSafe, OnPath, Unmade, Held, Filled, Ready, Moved
  <2>3. QED BY <1>2, <2>1, <2>2
<1>4. req'[r].pc # "idle" => req'[r].id = req[r].id
  BY <1>2 DEF Idle, Moved
<1>5. OwnStep(r)
  BY <1>1, <1>2, <1>4 DEF OwnStep, Drop
<1>6. Made'
  BY <1>1 DEF IInv, Safe, Made
<1>7. Dir(r) \in DOMAIN disk' => Dir(r) \in leaked'
  BY <1>1 DEF Drop
<1>8. QED BY <1>1, <1>3, <1>5, <1>6, <1>7, OwnStepSafe DEF Busy

\* A request begins: its number is new.
LEMMA StartSafe == ASSUME IInv, NEW r \in Requests, Start(r) PROVE Safe'
<1>1. /\ req[r].pc = "idle" /\ served' = served + 1
      /\ UNCHANGED <<now, repos, disk, faulted, leaked>>
  BY DEF Start
<1>2. /\ \A q \in Requests \ {r} : req'[q] = req[q]
      /\ req'[r].pc = "form" /\ req'[r].id = served + 1 /\ req'[r].out = "ok"
  BY DEF Start, IInv, TypeOK
<1>3. /\ served \in Nat
      /\ \A q \in Requests : req[q].pc # "idle" => req[q].id \in 1 .. served
      /\ \A n \in DOMAIN repos : repos[n].by \in 1 .. served
  BY DEF IInv, Safe, TypeOK, Made
<1>4. Numbered'
  BY <1>2, <1>3 DEF IInv, Safe, Numbered
<1>5. Made'
  <2>1. Made
    BY DEF IInv, Safe
  <2>2. \A i \in 1 .. served : i \in 1 .. served'
    BY <1>1, <1>3
  <2>3. QED BY <1>1, <2>1, <2>2 DEF Made
<1>6. \A q \in Requests : SlotSafe(q)'
  <2>1. SlotSafe(r)'
    BY <1>1, <1>2, <1>3 DEF SlotSafe, OnPath, Unmade, Held, Filled, Ready
  <2>2. ASSUME NEW q \in Requests \ {r} PROVE SlotSafe(q)'
    BY <1>1, <1>2 DEF IInv, Safe, SlotSafe, OnPath, Unmade, Held, Filled, Ready, Dir
  <2>3. QED BY <2>1, <2>2
<1>7. EmptyRepoExplained'
  <2>1. ASSUME NEW n \in DOMAIN repos, InProgress(n) PROVE InProgress(n)'
    BY <1>1, <1>2, <2>1 DEF InProgress, Busy
  <2>2. QED BY <1>1, <2>1 DEF IInv, Safe, EmptyRepoExplained
<1>8. TempDirsInUse'
  BY <1>1, <1>2 DEF IInv, Safe, TempDirsInUse
<1>9. QED BY <1>4, <1>5, <1>6, <1>7, <1>8 DEF Safe

\* A crash: every slot is empty, every open request a victim.
LEMMA CrashSafe == ASSUME IInv, Crash PROVE Safe'
<1>1. /\ UNCHANGED <<now, repos, disk, served>>
      /\ faulted' = faulted \cup {req[r].id : r \in Requests}
      /\ leaked' = leaked \cup DOMAIN disk
      /\ \A r \in Requests : req'[r] = Idle
  BY DEF Crash
<1>2. Numbered' /\ \A r \in Requests : SlotSafe(r)'
  BY <1>1 DEF Numbered, SlotSafe, OnPath, Unmade, Held, Filled, Ready, Idle
<1>3. Made'
  BY <1>1 DEF IInv, Safe, Made
<1>4. EmptyRepoExplained'
  <2> SUFFICES ASSUME NEW n \in DOMAIN repos
               PROVE  repos[n].pushed \/ Excused(n)'
    BY <1>1 DEF EmptyRepoExplained, Excused
  <2>1. repos[n].pushed \/ InProgress(n) \/ Excused(n)
    BY DEF IInv, Safe, EmptyRepoExplained, Excused
  <2>2. InProgress(n) => repos[n].by \in faulted'
    BY <1>1 DEF InProgress, Busy
  <2>3. QED BY <1>1, <2>1, <2>2 DEF Excused
<1>5. TempDirsInUse'
  BY <1>1 DEF TempDirsInUse
<1>6. QED BY <1>2, <1>3, <1>4, <1>5 DEF Safe

\* Only the token of an unexplained repository could run out, and that explains.
LEMMA ClockSafe == ASSUME IInv, Clock PROVE Safe'
<1>1. UNCHANGED <<repos, disk, req, served, process, restarts, faulted, leaked>> /\ now' = now + 1
  BY DEF Clock, Tick
<1>2. Numbered' /\ Made' /\ TempDirsInUse' /\ \A r \in Requests : SlotSafe(r)'
  BY <1>1 DEF IInv, Safe, Numbered, Made, TempDirsInUse, SlotSafe, OnPath, Unmade, Held,
              Filled, Ready, Dir
<1>3. EmptyRepoExplained'
  <2> SUFFICES ASSUME NEW n \in DOMAIN repos
               PROVE  repos[n].pushed \/ InProgress(n)' \/ Excused(n)'
    BY <1>1 DEF EmptyRepoExplained, Excused
  <2>1. repos[n].pushed \/ InProgress(n) \/ Excused(n)
    BY DEF IInv, Safe, EmptyRepoExplained, Excused
  <2>2. now \in Nat /\ repos[n].expires \in Nat
    BY DEF IInv, TypeOK, RepoRecords
  <2>3. now >= repos[n].expires => now' >= repos[n].expires
    BY <1>1, <2>2
  <2>4. QED BY <1>1, <2>1, <2>3 DEF Excused, InProgress, Busy
<1>4. QED BY <1>2, <1>3 DEF Safe

\* What no step changes.
LEMMA SafeUnchanged ==
  ASSUME IInv, UNCHANGED <<now, repos, disk, req, served, faulted, leaked>>
  PROVE  Safe'
<1>1. Numbered' /\ Made' /\ TempDirsInUse' /\ \A r \in Requests : SlotSafe(r)'
  BY DEF IInv, Safe, Numbered, Made, TempDirsInUse, SlotSafe, OnPath, Unmade, Held,
         Filled, Ready, Dir
<1>2. EmptyRepoExplained'
  BY DEF IInv, Safe, EmptyRepoExplained, InProgress, Busy
<1>3. QED BY <1>1, <1>2 DEF Safe

\* Every step keeps the inductive invariant.
LEMMA InvStep == ASSUME IInv, [Next]_vars PROVE IInv'
<1>1. CASE UNCHANGED vars
  <2>1. Safe'
    BY <1>1, SafeUnchanged DEF vars
  <2>2. TypeOK'
    BY <1>1 DEF IInv, TypeOK, vars
  <2>3. QED BY <2>1, <2>2 DEF IInv
<1>2. CASE Next
  <2>1. TypeOK'
    BY <1>2, TypeStep
  <2>2. ASSUME NEW r \in Requests, Bounded(r) PROVE Safe'
    BY <2>2, ReadFormSafe, FormRefusedSafe, CreateSafe, CreateFailsSafe, MakeDirSafe,
       MakeDirFailsSafe, AddFilesSafe, AddFilesFailsSafe, InspectSafe, CleanUpSafe,
       RespondSafe DEF Bounded
  <2>3. ASSUME NEW r \in Requests, Unbounded(r) PROVE Safe'
    BY <2>3, PushSafe, PushFailsSafe, CloneSafe, CloneFailsSafe DEF Unbounded
  <2>4. ASSUME Boot PROVE Safe'
    BY <2>4, SafeUnchanged DEF Boot
  <2>5. QED BY <1>2, <2>1, <2>2, <2>3, <2>4, StartSafe, CrashSafe, ClockSafe DEF Next, IInv
<1>3. QED BY <1>1, <1>2

\* The invariant holds at the start.
LEMMA InvInit == ASSUME Init PROVE IInv
<1>1. TypeOK
  BY IdleTyped, CreateRepoAssumption DEF Init, TypeOK, NoRows, Idle
<1>2. Safe
  BY DEF Init, Safe, Numbered, Made, SlotSafe, OnPath, Unmade, Held, Filled, Ready,
         EmptyRepoExplained, TempDirsInUse, NoRows, Idle
<1>3. QED BY <1>1, <1>2 DEF IInv

-----------------------------------------------------------------------------
(* The theorems *)

\* The inductive invariant holds throughout.
THEOREM Invariance == Spec => []IInv
<1>1. Init => IInv
  BY InvInit
<1>2. IInv /\ [Next]_vars => IInv'
  BY InvStep
<1>3. QED BY <1>1, <1>2, PTL DEF Spec

\* Every variable of the model has its type (TypeOK).
THEOREM TypeCorrect == Spec => []TypeOK
<1>1. IInv => TypeOK
  BY DEF IInv
<1>2. QED BY <1>1, Invariance, PTL

\* Whoever is redirected to a repository finds it there, made and filled by the
\* own request (repo.go:102-108, mkrepo.go:51-95, git.go:38-96).
THEOREM RedirectReady == Spec => []RedirectedRepoReady
<1>1. IInv => RedirectedRepoReady
  BY DEF IInv, Safe, SlotSafe, Ready, RedirectedRepoReady
<1>2. QED BY <1>1, Invariance, PTL

\* A repository stays empty only for a reason that can be named
\* (mkrepo.go:97-150, git.go:38-96).
THEOREM EmptyExplained == Spec => []EmptyRepoExplained
<1>1. IInv => EmptyRepoExplained
  BY DEF IInv, Safe
<1>2. QED BY <1>1, Invariance, PTL

\* A temporary directory is in use, or its removal failed or was cut off
\* (mkrepo.go:78-87, git.go:18-36, template.go:101-108).
THEOREM DirsInUse == Spec => []TempDirsInUse
<1>1. IInv => TempDirsInUse
  BY DEF IInv, Safe
<1>2. QED BY <1>1, Invariance, PTL

-----------------------------------------------------------------------------
(* What a step does to a repository *)

\* A step that pushes, whether its answer gets back or not.
Pushes(r) ==
  /\ req[r].pc = "push" /\ Pushable(r)
  /\ \E tag \in BOOLEAN : Pushed(r, tag)
  /\ \E out \in {"redirect", "error"} : Moved(r, "cleanup", out)
  /\ now' = now

\* A step that makes a repository, whether its answer gets back or not.
Creates(r) ==
  /\ req[r].pc = "create" /\ Creatable(r) /\ CreateRemoteRepo(r)
  /\ \A q \in Requests \ {r} : req'[q] = req[q]
  /\ req'[r].id = req[r].id

\* Any other step leaves the repositories alone and nobody takes one up.
Leaves ==
  /\ UNCHANGED repos
  /\ \A r \in Requests, n \in DOMAIN repos : Busy(r, n)' => Busy(r, n)

\* There are no more kinds of step than these.
LEMMA StepKinds ==
  ASSUME IInv, [Next]_vars
  PROVE  Leaves \/ \E r \in Requests : Pushes(r) \/ Creates(r)
<1>1. CASE UNCHANGED vars
  BY <1>1 DEF vars, Leaves, Busy
<1>2. ASSUME NEW r \in Requests, UNCHANGED repos, NEW pc, NEW out, Moved(r, pc, out),
             pc \in {"mkdir", "fill", "push"} /\ req[r].kind = "new" =>
               req[r].pc \in {"mkdir", "fill", "push"}
      PROVE  Leaves
  BY <1>2 DEF Leaves, Busy, Moved
<1>3. ASSUME NEW r \in Requests, UNCHANGED repos,
             \A q \in Requests \ {r} : req'[q] = req[q],
             req'[r].pc \in {"idle", "form"}
      PROVE  Leaves
  BY <1>3 DEF Leaves, Busy
<1>4. ASSUME NEW r \in Requests, Start(r) PROVE Leaves
  <2>1. (\A q \in Requests \ {r} : req'[q] = req[q]) /\ req'[r].pc = "form" /\ UNCHANGED repos
    BY <1>4 DEF Start, IInv, TypeOK
  <2>2. QED BY <1>3, <2>1
<1>5. ASSUME NEW r \in Requests, Bounded(r) PROVE Leaves \/ Creates(r)
  <2>1. CASE ReadForm(r)
    <3>1. UNCHANGED repos /\ Moved(r, IF req[r].kind = "new" THEN "create" ELSE "mkdir", req[r].out)
      BY <2>1, SlotMoved DEF ReadForm, IInv
    <3>2. QED BY <1>2, <3>1
  <2>2. CASE FormRefused(r)
    <3>1. UNCHANGED repos /\ \E out \in {"bad", "error"} : Moved(r, "respond", out)
      BY <2>2, SlotMoved DEF FormRefused, IInv
    <3>2. QED BY <1>2, <3>1
  <2>3. CASE Create(r)
    <3>1. \E pc \in {"mkdir", "respond"} : Moved(r, pc, req[r].out) \/ Moved(r, pc, "redirect")
      BY <2>3, SlotMoved DEF Create, IInv
    <3>2. QED BY <2>3, <3>1 DEF Create, Creates, Moved
  <2>4. CASE CreateFails(r)
    <3>1. Moved(r, "respond", "error")
      BY <2>4, SlotMoved DEF CreateFails, IInv
    <3>2. CASE UNCHANGED repos
      BY <1>2, <3>1, <3>2
    <3>3. CASE Creatable(r) /\ CreateRemoteRepo(r)
      BY <2>4, <3>1, <3>3 DEF CreateFails, Creates, Moved
    <3>4. QED BY <2>4, <3>2, <3>3 DEF CreateFails
  <2>5. CASE MakeDir(r)
    <3>1. /\ UNCHANGED repos /\ req[r].pc = "mkdir"
          /\ Moved(r, IF req[r].kind = "new" THEN "fill" ELSE "clone", req[r].out)
      BY <2>5, SlotMoved DEF MakeDir, IInv
    <3>2. QED BY <1>2, <3>1
  <2>6. CASE MakeDirFails(r)
    <3>1. UNCHANGED repos /\ Moved(r, "respond", "error")
      BY <2>6, SlotMoved DEF MakeDirFails, IInv
    <3>2. QED BY <1>2, <3>1
  <2>7. CASE AddFiles(r)
    <3>1. /\ UNCHANGED repos /\ req[r].pc = "fill"
          /\ \/ Moved(r, "push", req[r].out)
             \/ \E out \in {"panic", "error"} : Moved(r, "cleanup", out)
      BY <2>7, SlotMoved DEF AddFiles, IInv
    <3>2. QED BY <1>2, <3>1
  <2>8. CASE AddFilesFails(r)
    <3>1. UNCHANGED repos /\ Moved(r, "cleanup", "error")
      BY <2>8, SlotMoved DEF AddFilesFails, IInv
    <3>2. QED BY <1>2, <3>1
  <2>9. CASE Inspect(r)
    <3>1. UNCHANGED repos /\ \E out \in {"created", "error"} : Moved(r, "cleanup", out)
      BY <2>9, SlotMoved DEF Inspect, IInv
    <3>2. QED BY <1>2, <3>1
  <2>10. CASE CleanUp(r)
    <3>1. /\ UNCHANGED repos
          /\ \/ Moved(r, "respond", req[r].out)
             \/ req'[r] = Idle /\ \A q \in Requests \ {r} : req'[q] = req[q]
      BY <2>10, SlotMoved DEF CleanUp, IInv, TypeOK
    <3>2. QED BY <1>2, <1>3, <3>1 DEF Idle
  <2>11. CASE Respond(r)
    <3>1. UNCHANGED repos /\ req'[r] = Idle /\ \A q \in Requests \ {r} : req'[q] = req[q]
      BY <2>11 DEF Respond, IInv, TypeOK
    <3>2. QED BY <1>3, <3>1 DEF Idle
  <2>12. QED BY <1>5, <2>1, <2>2, <2>3, <2>4, <2>5, <2>6, <2>7, <2>8, <2>9, <2>10, <2>11
             DEF Bounded
<1>6. ASSUME NEW r \in Requests, Unbounded(r) PROVE Leaves \/ Pushes(r)
  <2>1. req[r].form.tag \in BOOLEAN
    BY DEF IInv, TypeOK, RequestRecords, AllForms
  <2>2. CASE Push(r)
    <3>1. Moved(r, "cleanup", "redirect")
      BY <2>2, SlotMoved DEF Push, IInv
    <3>2. QED BY <2>1, <2>2, <3>1 DEF Push, Pushes
  <2>3. CASE PushFails(r)
    <3>1. Moved(r, "cleanup", "error")
      BY <2>3, SlotMoved DEF PushFails, IInv
    <3>2. CASE UNCHANGED repos
      BY <1>2, <3>1, <3>2
    <3>3. CASE Pushable(r) /\ \E tag \in {FALSE, req[r].form.tag} : Pushed(r, tag)
      BY <2>1, <2>3, <3>1, <3>3 DEF PushFails, Pushes
    <3>4. QED BY <2>3, <3>2, <3>3 DEF PushFails
  <2>4. CASE Clone(r)
    <3>1. UNCHANGED repos /\ Moved(r, "inspect", req[r].out)
      BY <2>4, SlotMoved DEF Clone, IInv
    <3>2. QED BY <1>2, <3>1
  <2>5. CASE CloneFails(r)
    <3>1. UNCHANGED repos /\ Moved(r, "cleanup", "error")
      BY <2>5, SlotMoved DEF CloneFails, IInv
    <3>2. QED BY <1>2, <3>1
  <2>6. QED BY <1>6, <2>2, <2>3, <2>4, <2>5 DEF Unbounded
<1>7. CASE Crash
  BY <1>7 DEF Crash, Leaves, Busy, Idle
<1>8. CASE Boot \/ Clock
  BY <1>8 DEF Boot, Clock, Leaves, Busy
<1>9. QED BY <1>1, <1>4, <1>5, <1>6, <1>7, <1>8 DEF Next

\* A push changes the one repository its request is busy with.
LEMMA PushesOwn ==
  ASSUME IInv, NEW r \in Requests, Pushes(r)
  PROVE  LET name == req[r].form.name
         IN  /\ name \in DOMAIN repos /\ DOMAIN repos' = DOMAIN repos
             /\ Busy(r, name) /\ ~ repos[name].pushed
             /\ repos'[name].pushed /\ repos'[name].by = repos[name].by
             /\ repos'[name].files = {repos[name].form.gitignore}
             /\ \A n \in DOMAIN repos : ~ Busy(r, n)'
             /\ \A n \in DOMAIN repos : n # name => repos'[n] = repos[n] /\ ~ Busy(r, n)
<1> DEFINE name == req[r].form.name
<1>1. /\ name \in DOMAIN repos /\ Busy(r, name) /\ Content(r) = {req[r].form.gitignore}
  BY PushedContent DEF Pushes
<1>2. repos[name].form = req[r].form /\ ~ repos[name].pushed
  BY <1>1, BusyWithOwn
<1>3. PICK tag \in BOOLEAN : Pushed(r, tag)
  BY DEF Pushes
<1>4. repos[name] \in RepoRecords
  BY <1>1 DEF IInv, TypeOK
<1>5. /\ DOMAIN repos' = DOMAIN repos
      /\ \A n \in DOMAIN repos : n # name => repos'[n] = repos[n]
      /\ repos'[name] = [repos[name] EXCEPT !.pushed = TRUE, !.files = Content(r), !.tag = tag]
  BY <1>1, <1>3 DEF Pushed, IInv, TypeOK
<1>6. /\ repos'[name].by = repos[name].by
      /\ repos'[name].pushed /\ repos'[name].files = Content(r)
  BY <1>4, <1>5 DEF RepoRecords
<1>7. \A n \in DOMAIN repos : ~ Busy(r, n)'
  BY DEF Pushes, Moved, Busy
<1>8. \A n \in DOMAIN repos : Busy(r, n) => n = name
  BY BusyWithOwn
<1>9. QED BY <1>1, <1>2, <1>5, <1>6, <1>7, <1>8

\* Only the request that made a repository puts a commit in it, once, with the
\* .gitignore of its form and nothing else (mkrepo.go:78, 98, git.go:90).
THEOREM CreatorPushes == Spec => PushedByCreator
<1> DEFINE Change ==
      \A n \in DOMAIN repos :
        repos'[n] # repos[n] =>
          /\ ~ repos[n].pushed
          /\ repos'[n].by = repos[n].by
          /\ repos'[n].files = {repos[n].form.gitignore}
          /\ \E r \in Requests : Busy(r, n) /\ ~ Busy(r, n)'
<1>1. ASSUME IInv, [Next]_vars PROVE Change
  <2>1. CASE Leaves
    BY <2>1 DEF Leaves
  <2>2. ASSUME NEW r \in Requests, Pushes(r) PROVE Change
    BY <1>1, <2>2, PushesOwn
  <2>3. ASSUME NEW r \in Requests, Creates(r) PROVE Change
    BY <2>3 DEF Creates, CreateRemoteRepo, Creatable, Put
  <2>4. QED BY <1>1, <2>1, <2>2, <2>3, StepKinds
<1>2. IInv /\ [Next]_vars => [Change]_vars
  BY <1>1
<1> HIDE DEF Change
<1>3. Spec => [][Change]_vars
  BY <1>2, Invariance, PTL DEF Spec
<1>4. QED BY <1>3 DEF PushedByCreator, Change

-----------------------------------------------------------------------------
(* The refinement of RepoHost *)

\* The stages of the repositories, as ImplementsHost maps them.
Stages == [n \in DOMAIN repos |-> Stage(n)]

\* Requests that give up are GiveUp of RepoHost.
LEMMA LeavesMaps ==
  ASSUME Leaves
  PROVE  Host!Next \/ Stages' = Stages
<1> DEFINE S == {n \in DOMAIN repos : Stage(n) = "making" /\ Stage(n)' = "left"}
<1>1. UNCHANGED repos
  BY DEF Leaves
<1>2. \A n \in DOMAIN repos : InProgress(n)' => InProgress(n)
  BY DEF Leaves, InProgress
<1>3. \A n \in DOMAIN repos : Stage(n)' = IF n \in S THEN "left" ELSE Stage(n)
  BY <1>1, <1>2 DEF Stage
<1>4. S \in SUBSET {n \in DOMAIN Stages : Stages[n] = "making"}
  BY DEF Stages
<1> HIDE DEF S
<1>5. Stages' = [n \in DOMAIN Stages |-> IF n \in S THEN "left" ELSE Stages[n]]
  BY <1>1, <1>3 DEF Stages
<1>6. CASE S = {}
  BY <1>5, <1>6 DEF Stages
<1>7. CASE S # {}
  BY <1>4, <1>5, <1>7 DEF Host!Next, Host!GiveUp, Host!At, Stages
<1>8. QED BY <1>6, <1>7

\* A creation is Take of RepoHost.
LEMMA CreatesMaps ==
  ASSUME IInv, NEW r \in Requests, Creates(r)
  PROVE  Host!Next
<1> DEFINE name == req[r].form.name
           s == Stages'[name]
<1>1. /\ name \notin DOMAIN repos /\ DOMAIN repos' = DOMAIN repos \cup {name}
      /\ \A n \in DOMAIN repos : repos'[n] = repos[n]
      /\ ~ repos'[name].pushed
  BY DEF Creates, Creatable, CreateRemoteRepo, Put, NewRepo
<1>2. \A n \in DOMAIN repos : Busy(r, n)' <=> Busy(r, n)
  <2>1. \A n \in DOMAIN repos : repos[n].by # req[r].id
    BY DEF IInv, Safe, SlotSafe, Unmade, Creates
  <2>2. QED BY <1>1, <2>1 DEF Busy, Creates
<1>3. \A n \in DOMAIN repos : Stage(n)' = Stage(n)
  <2>1. \A n \in DOMAIN repos : InProgress(n)' <=> InProgress(n)
    BY <1>1, <1>2 DEF InProgress, Busy, Creates
  <2>2. QED BY <1>1, <2>1 DEF Stage
<1> HIDE DEF name
<1>4. s \in {"making", "left"}
  BY <1>1 DEF Stages, Stage
<1>5. Stages' = [k \in DOMAIN Stages \cup {name} |-> IF k = name THEN s ELSE Stages[k]]
  BY <1>1, <1>3 DEF Stages
<1>6. name \in DOMAIN Stages' /\ name \notin DOMAIN Stages
  BY <1>1 DEF Stages
<1> HIDE DEF s
<1>7. QED BY <1>4, <1>5, <1>6 DEF Host!Next, Host!Take, Stages

\* A push is Finish of RepoHost.
LEMMA PushesMaps ==
  ASSUME IInv, NEW r \in Requests, Pushes(r)
  PROVE  Host!Next
<1> DEFINE name == req[r].form.name
<1>1. /\ name \in DOMAIN repos /\ DOMAIN repos' = DOMAIN repos
      /\ Busy(r, name) /\ ~ repos[name].pushed /\ repos'[name].pushed
      /\ \A n \in DOMAIN repos : ~ Busy(r, n)'
      /\ \A n \in DOMAIN repos : n # name => repos'[n] = repos[n] /\ ~ Busy(r, n)
  BY PushesOwn
<1>2. \A q \in Requests \ {r} : req'[q] = req[q]
  BY DEF Pushes, Moved
<1> HIDE DEF name
<1>3. Stages[name] = "making" /\ name \in DOMAIN Stages
  BY <1>1 DEF Stages, Stage, InProgress
<1>4. \A n \in DOMAIN repos : n # name => Stage(n)' = Stage(n)
  <2>1. \A n \in DOMAIN repos : n # name => (InProgress(n)' <=> InProgress(n))
    BY <1>1, <1>2 DEF InProgress, Busy
  <2>2. QED BY <1>1, <2>1 DEF Stage
<1>5. Stages' = [Stages EXCEPT ![name] = "ready"]
  BY <1>1, <1>4 DEF Stages, Stage
<1>6. QED BY <1>3, <1>5 DEF Host!Next, Host!Finish, Host!At, Stages

\* The repositories at the provider go through the stages of RepoHost: a name
\* is taken once, and filled once or left for good (mkrepo.go:51-95).
THEOREM HostImplemented == Spec => ImplementsHost
<1>1. Init => Host!Init
  BY DEF Init, NoRows, Host!Init
<1>2. IInv /\ [Next]_vars => [Host!Next]_([n \in DOMAIN repos |-> Stage(n)])
  BY StepKinds, LeavesMaps, CreatesMaps, PushesMaps DEF Stages
<1>3. QED BY <1>1, <1>2, Invariance, PTL DEF Spec, ImplementsHost, Host!Spec

-----------------------------------------------------------------------------
(* Why a request may be refused *)

\* A reason to refuse it (the parts of RefusalExplained).
Refusable(r) ==
  LET f == req[r].form
  IN  \/ ~ f.valid \/ f.template
      \/ f.name \in DOMAIN repos /\ repos[f.name].by # req[r].id
      \/ f.license \notin Licenses \/ f.gitignore \notin Gitignores
      \/ f.sha256 /\ ~ Sha256Repo
      \/ ~ TokenHonoured(r)
      \/ req[r].id \in faulted

\* The reason is there from the moment the outcome is settled.
Explained(r) ==
  /\ req[r].pc \in {"cleanup", "respond"}
  /\ req[r].kind = "new" /\ req[r].out # "redirect"
  => Refusable(r)

\* A name stays taken, by the request that took it; tokens that ran out and
\* faults that were met stay so.
LEMMA ReasonsStay ==
  ASSUME IInv, [Next]_vars
  PROVE  /\ \A n \in DOMAIN repos : n \in DOMAIN repos' /\ repos'[n].by = repos[n].by
         /\ now' \in {now, now + 1} /\ faulted \subseteq faulted'
<1>1. /\ now' \in {now, now + 1} /\ faulted \subseteq faulted'
  <2>1. ASSUME NEW r \in Requests, Start(r) \/ Bounded(r) \/ Unbounded(r)
        PROVE  now' = now /\ faulted \subseteq faulted'
    BY <2>1 DEF Start, Bounded, Unbounded, ReadForm, FormRefused, Create, CreateFails,
       MakeDir, MakeDirFails, AddFiles, AddFilesFails, Inspect, CleanUp, Respond, Push,
       PushFails, Clone, CloneFails, Blame
  <2>2. ASSUME Crash \/ Boot \/ Clock \/ UNCHANGED vars
        PROVE  now' \in {now, now + 1} /\ faulted \subseteq faulted'
    BY <2>2 DEF Crash, Boot, Clock, Tick, vars
  <2>3. QED BY <2>1, <2>2 DEF Next
<1>2. CASE Leaves
  BY <1>1, <1>2 DEF Leaves
<1>3. ASSUME NEW r \in Requests, Pushes(r)
      PROVE  \A n \in DOMAIN repos : n \in DOMAIN repos' /\ repos'[n].by = repos[n].by
  BY <1>3, PushesOwn
<1>4. ASSUME NEW r \in Requests, Creates(r)
      PROVE  \A n \in DOMAIN repos : n \in DOMAIN repos' /\ repos'[n].by = repos[n].by
  BY <1>4 DEF Creates, Creatable, CreateRemoteRepo, Put
<1>5. QED BY <1>1, <1>2, <1>3, <1>4, StepKinds

\* A reason to refuse a request outlives the steps that leave it where it is.
LEMMA RefusableStays ==
  ASSUME IInv, [Next]_vars, NEW r \in Requests, Refusable(r),
         req'[r].form = req[r].form, req'[r].id = req[r].id,
         req'[r].expires = req[r].expires
  PROVE  Refusable(r)'
<1>1. now \in Nat /\ req[r].expires \in Nat
  BY DEF IInv, TypeOK, RequestRecords
<1>2. ~ TokenHonoured(r) => ~ TokenHonoured(r)'
  BY <1>1, ReasonsStay DEF TokenHonoured
<1>3. QED BY <1>2, ReasonsStay DEF Refusable

\* The step that settles the outcome of a request has a reason to refuse it.
LEMMA Settles ==
  ASSUME IInv, [Next]_vars, NEW r \in Requests, Explained(r),
         Bounded(r) \/ Unbounded(r)
  PROVE  Explained(r)' /\ \A q \in Requests \ {r} : req'[q] = req[q]
<1> DEFINE f == req[r].form
<1>0. TypeOK /\ SlotSafe(r)
  BY DEF IInv, Safe
\* A place before the end, or an answer that needs no reason.
<1>1. ASSUME NEW pc, NEW out, Moved(r, pc, out),
             \/ pc \notin {"cleanup", "respond"} \/ out = "redirect"
             \/ req[r].kind = "register" \/ Refusable(r)'
      PROVE  Explained(r)' /\ \A q \in Requests \ {r} : req'[q] = req[q]
  <2>1. req[r].kind # "new" => req'[r].kind # "new"
    BY <1>1 DEF Moved
  <2>2. QED BY <1>1, <2>1 DEF Moved, Explained
<1>2. ASSUME NEW pc, NEW out, Moved(r, pc, out), Blame(r, FALSE) PROVE Refusable(r)'
  BY <1>2 DEF Moved, Blame, Refusable
<1>3. CASE ReadForm(r) \/ MakeDir(r) \/ Clone(r)
  <2>1. \E pc \in {"create", "mkdir", "fill", "clone", "inspect"} : Moved(r, pc, req[r].out)
    BY <1>0, <1>3, SlotMoved DEF ReadForm, MakeDir, Clone
  <2>2. QED BY <1>1, <2>1
<1>4. CASE FormRefused(r)
  <2>1. CASE ~ f.valid /\ Leave(r, "respond", "bad")
    <3>1. Moved(r, "respond", "bad")
      BY <1>0, <2>1, SlotMoved
    <3>2. Refusable(r)'
      BY <2>1, <3>1 DEF Moved, Refusable
    <3>3. QED BY <1>1, <3>1, <3>2
  <2>2. CASE Leave(r, "respond", "error") /\ Blame(r, FALSE)
    <3>1. Moved(r, "respond", "error")
      BY <1>0, <2>2, SlotMoved
    <3>2. QED BY <1>1, <1>2, <2>2, <3>1
  <2>3. QED BY <1>4, <2>1, <2>2 DEF FormRefused
<1>5. CASE Create(r)
  <2>1. Moved(r, "mkdir", req[r].out) \/ Moved(r, "respond", "redirect")
    BY <1>0, <1>5, SlotMoved DEF Create
  <2>2. QED BY <1>1, <2>1
<1>6. CASE CreateFails(r)
  <2>1. Moved(r, "respond", "error") /\ req[r].pc = "create"
    BY <1>0, <1>6, SlotMoved DEF CreateFails
  <2>2. CASE Blame(r, FALSE)
    BY <1>1, <1>2, <2>1, <2>2
  <2>3. CASE Blame(r, ~ Creatable(r)) /\ Creatable(r)
    <3>1. Blame(r, FALSE)
      BY <2>3 DEF Blame
    <3>2. QED BY <1>1, <1>2, <2>1, <3>1
  <2>4. CASE ~ Creatable(r)
    <3>1. f.name \in DOMAIN repos => repos[f.name].by # req[r].id
      BY <1>0, <2>1 DEF SlotSafe, Unmade
    <3>2. Refusable(r)
      BY <2>4, <3>1 DEF Creatable, Refusable
    <3>3. QED BY <1>1, <2>1, <3>2, RefusableStays DEF Moved
  <2>5. QED BY <1>6, <2>2, <2>3, <2>4 DEF CreateFails
<1>7. CASE MakeDirFails(r) \/ AddFilesFails(r)
  <2>1. Blame(r, FALSE) /\ \E pc \in {"respond", "cleanup"} : Moved(r, pc, "error")
    BY <1>0, <1>7, SlotMoved DEF MakeDirFails, AddFilesFails
  <2>2. QED BY <1>1, <1>2, <2>1
<1>8. CASE AddFiles(r)
  <2>1. CASE Fillable(f)
    <3>1. Moved(r, "push", req[r].out)
      BY <1>0, <1>8, <2>1, SlotMoved DEF AddFiles
    <3>2. QED BY <1>1, <3>1
  <2>2. CASE ~ Fillable(f)
    <3>1. \E out \in {"panic", "error"} : Moved(r, "cleanup", out)
      BY <1>0, <1>8, <2>2, SlotMoved DEF AddFiles
    <3>2. Refusable(r)
      BY <2>2 DEF Fillable, LicenseGiven, Refusable
    <3>3. QED BY <1>1, <3>1, <3>2, RefusableStays DEF Moved
  <2>3. QED BY <2>1, <2>2
<1>9. CASE Push(r)
  <2>1. Moved(r, "cleanup", "redirect")
    BY <1>0, <1>9, SlotMoved DEF Push
  <2>2. QED BY <1>1, <2>1
<1>10. CASE PushFails(r)
  <2>1. Moved(r, "cleanup", "error") /\ req[r].pc = "push"
    BY <1>0, <1>10, SlotMoved DEF PushFails
  <2>2. CASE Blame(r, FALSE)
    BY <1>1, <1>2, <2>1, <2>2
  <2>3. CASE Blame(r, ~ Pushable(r)) /\ Pushable(r)
    <3>1. Blame(r, FALSE)
      BY <2>3 DEF Blame
    <3>2. QED BY <1>1, <1>2, <2>1, <3>1
  <2>4. CASE ~ Pushable(r)
    <3>1. /\ Busy(r, f.name) /\ f.name \in DOMAIN repos /\ Content(r) = Written(f)
      BY <2>1, PushedContent
    <3>2. repos[f.name].format = Format(f.sha256 /\ Sha256Repo)
      BY <3>1, BusyWithOwn
    <3>3. Content(r) = {} => f.gitignore \notin Gitignores
      BY <3>1 DEF Written
    <3>4. repos[f.name].format # Format(f.sha256) => f.sha256 /\ ~ Sha256Repo
      BY <3>2 DEF Format
    <3>5. Refusable(r)
      BY <2>4, <3>3, <3>4 DEF Pushable, Refusable
    <3>6. QED BY <1>1, <2>1, <3>5, RefusableStays DEF Moved
  <2>5. QED BY <1>10, <2>2, <2>3, <2>4 DEF PushFails
<1>11. CASE CloneFails(r) \/ Inspect(r)
  <2>1. req[r].kind = "register" /\ \E out \in {"created", "error"} : Moved(r, "cleanup", out)
    BY <1>0, <1>11, SlotMoved DEF CloneFails, Inspect, SlotSafe, OnPath
  <2>2. QED BY <1>1, <2>1
<1>12. CASE CleanUp(r) /\ Moved(r, "respond", req[r].out)
  <2>1. req[r].pc = "cleanup"
    BY <1>12 DEF CleanUp
  <2>2. req[r].kind \in {"new", "register"}
    BY <1>0 DEF TypeOK, RequestRecords
  <2>3. CASE req[r].kind = "register" \/ req[r].out = "redirect"
    BY <1>1, <1>12, <2>3
  <2>4. CASE req[r].kind = "new" /\ req[r].out # "redirect"
    <3>1. Refusable(r)
      BY <2>1, <2>4 DEF Explained
    <3>2. QED BY <1>1, <1>12, <3>1, RefusableStays DEF Moved
  <2>5. QED BY <2>2, <2>3, <2>4
<1>13. CASE req' = [req EXCEPT ![r] = Idle]
  <2>1. req'[r].pc = "idle" /\ \A q \in Requests \ {r} : req'[q] = req[q]
    BY <1>0, <1>13 DEF TypeOK, Idle
  <2>2. QED BY <2>1 DEF Explained
<1>14. CASE CleanUp(r)
  <2>1. Moved(r, "respond", req[r].out) \/ req' = [req EXCEPT ![r] = Idle]
    BY <1>0, <1>14, SlotMoved DEF CleanUp
  <2>2. QED BY <1>12, <1>13, <1>14, <2>1
<1>15. CASE Respond(r)
  BY <1>13, <1>15 DEF Respond
<1>16. QED
  BY <1>3, <1>4, <1>5, <1>6, <1>7, <1>8, <1>9, <1>10, <1>11, <1>14, <1>15
  DEF Bounded, Unbounded

\* What the steps of the others leave unexplained is nothing.
LEMMA ExplainedStep ==
  ASSUME IInv, [Next]_vars, \A r \in Requests : Explained(r)
  PROVE  \A r \in Requests : Explained(r)'
<1>1. ASSUME NEW q \in Requests, req'[q] = req[q] PROVE Explained(q)'
  <2>1. Refusable(q) => Refusable(q)'
    BY <1>1, RefusableStays
  <2>2. Explained(q)
    OBVIOUS
  <2>3. QED BY <1>1, <2>1, <2>2 DEF Explained
<1>2. ASSUME NEW r \in Requests, Start(r) PROVE \A q \in Requests : Explained(q)'
  <2>1. req'[r].pc = "form" /\ \A q \in Requests \ {r} : req'[q] = req[q]
    BY <1>2 DEF Start, IInv, TypeOK
  <2>2. Explained(r)'
    BY <2>1 DEF Explained
  <2>3. QED BY <1>1, <2>1, <2>2
<1>3. ASSUME NEW r \in Requests, Bounded(r) \/ Unbounded(r)
      PROVE  \A q \in Requests : Explained(q)'
  BY <1>1, <1>3, Settles
<1>4. CASE Crash
  <2>1. \A q \in Requests : req'[q].pc = "idle"
    BY <1>4 DEF Crash, Idle
  <2>2. QED BY <2>1 DEF Explained
<1>5. CASE Boot \/ Clock \/ UNCHANGED vars
  <2>1. req' = req
    BY <1>5 DEF Boot, Clock, vars
  <2>2. QED BY <1>1, <2>1
<1>6. QED BY <1>2, <1>3, <1>4, <1>5 DEF Next

\* Who is not redirected is refused for a reason of the own request, and never
\* for what others do meanwhile (repo.go:74-108, mkrepo.go:51-150).
THEOREM RefusedForOwnReason == Spec => []RefusalExplained
<1> DEFINE AllExplained == \A r \in Requests : Explained(r)
<1>1. Init => AllExplained
  BY DEF Init, Idle, Explained
<1>2. IInv /\ AllExplained /\ [Next]_vars => AllExplained'
  BY ExplainedStep
<1>3. AllExplained => RefusalExplained
  BY DEF Explained, Refusable, RefusalExplained
<1> HIDE DEF AllExplained
<1>4. QED BY <1>1, <1>2, <1>3, Invariance, PTL DEF Spec
=============================================================================
