------------------------------ MODULE Lifecycle ------------------------------
(***************************************************************************)
(* The process from start to end (cmd/mkrepo/main.go, internal/database,   *)
(* internal/server): configuration, migrations, first clean-up, resources, *)
(* listening, the signal, Shutdown with its 15 seconds, the closing of the *)
(* connection pool, the exit.  Meanwhile requests run their statements,    *)
(* and the garbage collector its two every 12 hours.                       *)
(*                                                                         *)
(* Three kinds of client share the pool; what statements do to the tables  *)
(* is in module Auth, here they only take, hold and return a connection.   *)
(***************************************************************************)
EXTENDS Pool

CONSTANT Requests     \* slots for connections from browsers

Main == "main"
Collector == "collector"
Cleaners == {Main, Collector}
Clients == Requests \cup Cleaners

ASSUME LifecycleAssumption == Requests \cap Cleaners = {}

VARIABLES
  pc,          \* client |-> where it is
  part,        \* cleaner |-> which of Cleanup's two statements comes next
  signalled,   \* SIGINT or SIGTERM arrived: the process's context is done
  server,      \* what became of ListenAndServe
  timer,       \* Shutdown's 15 seconds: "off", "running" or "fired"
  status       \* the exit status main is about to return

vars == <<poolVars, pc, part, signalled, server, timer, status>>

Init ==
  /\ PoolInit
  /\ pc = [c \in Clients |->
             IF c = Main THEN "config" ELSE IF c = Collector THEN "off" ELSE "idle"]
  /\ part = [c \in Cleaners |-> 1]
  /\ signalled = FALSE
  /\ server = "none" /\ timer = "off" /\ status = "none"

GoTo(c, where) == pc' = [pc EXCEPT ![c] = where]

\* Main returns: what is deferred runs, then the process ends.
Leave(how) == GoTo(Main, "leaving") /\ status' = how

Alive == pc[Main] # "ended"

-----------------------------------------------------------------------------
(* One statement of a client *)

\* The context of the statement has ended: a cleaner's derives from the signal's.
Done(c) == c \in Cleaners /\ signalled

\* It may end: a browser hangs up, the collector's own 15 seconds pass.
MayEnd(c) == c # Main \/ Done(c)

\* Mutant: the second statement is followed by a third.
PartWithoutEnd(c, ok) == IF ok THEN part[c] + 1 ELSE 1

\* Cleanup goes on after its first statement only, and starts over next time.
PartAfter(c, ok) == IF ok /\ part[c] = 1 THEN 2 ELSE 1

\* Where a client goes on when a statement of it is over.
After(c, ok) ==
  CASE c \in Requests -> "running"
    [] c = Collector  -> IF ok /\ part[c] = 1 THEN "running" ELSE "resting"
    [] c = Main       -> IF ~ ok THEN "leaving"
                         ELSE IF part[c] = 1 THEN "running" ELSE "opened"

GoOn(c, ok) ==
  /\ GoTo(c, After(c, ok))
  /\ part' = IF c \in Cleaners THEN [part EXCEPT ![c] = PartAfter(c, ok)] ELSE part
  /\ status' = IF c = Main /\ ~ ok THEN "failed" ELSE status
  /\ UNCHANGED <<signalled, server, timer>>

Ask(c) ==
  /\ Alive /\ pc[c] = "running" /\ ~ Done(c)
  /\ Enqueue(c)
  /\ GoTo(c, "asking")
  /\ UNCHANGED <<part, signalled, server, timer, status>>

\* Acquire looks at the context before anything else.
AskTooLate(c) ==
  /\ Alive /\ pc[c] = "running" /\ c \in Cleaners /\ MayEnd(c)
  /\ GoOn(c, FALSE)
  /\ UNCHANGED poolVars

Query(c) ==
  /\ Alive /\ pc[c] = "asking" /\ ~ Done(c)
  /\ Acquire(c)
  /\ GoTo(c, "query")
  /\ UNCHANGED <<part, signalled, server, timer, status>>

TurnedAway(c) ==
  /\ Alive /\ pc[c] = "asking"
  /\ Refuse(c)
  /\ GoOn(c, FALSE)

GiveUp(c) ==
  /\ Alive /\ pc[c] = "asking" /\ MayEnd(c)
  /\ Withdraw(c)
  /\ GoOn(c, FALSE)

\* The database answers, or the statement fails, or its context cuts it off.
Answer(c) ==
  /\ Alive /\ pc[c] = "query"
  /\ Release(c)
  /\ \E ok \in BOOLEAN : GoOn(c, ok)

-----------------------------------------------------------------------------
(* Start-up *)

LoadConfig ==
  /\ pc[Main] = "config"
  /\ \/ GoTo(Main, "migrate") /\ UNCHANGED status
     \/ GoTo(Main, "ended") /\ status' = "failed"
  /\ UNCHANGED <<poolVars, part, signalled, server, timer>>

\* database.New up to its Cleanup.  It fails before there is a pool, or after:
\* then the deferred function closes it.  The migration tool stops with the
\* context.
Migrate ==
  /\ pc[Main] = "migrate"
  /\ \/ ~ signalled /\ GoTo(Main, "running") /\ UNCHANGED status
     \/ Leave("failed")
     \/ GoTo(Main, "ended") /\ status' = "failed"
  /\ UNCHANGED <<poolVars, part, signalled, server, timer>>

StartCollector ==
  /\ pc[Main] = "opened"
  /\ pc' = [pc EXCEPT ![Main] = "prepare", ![Collector] = "resting"]
  /\ UNCHANGED <<poolVars, part, signalled, server, timer, status>>

\* .gitignore files, licenses and templates; then the listener's goroutine.
Prepare ==
  /\ pc[Main] = "prepare"
  /\ \/ GoTo(Main, "serving") /\ server' = "starting" /\ UNCHANGED status
     \/ Leave("failed") /\ UNCHANGED server
  /\ UNCHANGED <<poolVars, part, signalled, timer>>

\* ListenAndServe binds its address, or returns at once.
Listen ==
  /\ Alive /\ server = "starting"
  /\ server' \in {"open", "unbound"}
  /\ UNCHANGED <<poolVars, pc, part, signalled, timer, status>>

\* Serve returns on an error of Accept; connections live on.
ServeFails ==
  /\ Alive /\ server = "open"
  /\ server' = "broken"
  /\ UNCHANGED <<poolVars, pc, part, signalled, timer, status>>

-----------------------------------------------------------------------------
(* The end *)

\* Only the first signal counts.
Signal ==
  /\ Alive /\ ~ signalled
  /\ signalled' = TRUE
  /\ UNCHANGED <<poolVars, pc, part, server, timer, status>>

\* Mutant: the error of ListenAndServe is returned to nobody.
ListenerLostSilently ==
  /\ pc[Main] = "serving" /\ server \in {"unbound", "broken"}
  /\ Leave("ok")
  /\ UNCHANGED <<poolVars, part, signalled, server, timer>>

\* main's select takes the listener's error.
ListenerLost ==
  /\ pc[Main] = "serving" /\ server \in {"unbound", "broken"}
  /\ Leave("failed")
  /\ UNCHANGED <<poolVars, part, signalled, server, timer>>

\* Mutant: Shutdown gets a context without a time limit.
ShutdownUnlimited ==
  /\ pc[Main] = "serving" /\ signalled
  /\ GoTo(Main, "shutdown") /\ server' = "closed"
  /\ UNCHANGED <<poolVars, part, signalled, timer, status>>

\* It takes the signal: no more connections, 15 seconds for those there are.
Shutdown ==
  /\ pc[Main] = "serving" /\ signalled
  /\ GoTo(Main, "shutdown") /\ server' = "closed" /\ timer' = "running"
  /\ UNCHANGED <<poolVars, part, signalled, status>>

TimerFires ==
  /\ Alive /\ timer = "running"
  /\ timer' = "fired"
  /\ UNCHANGED <<poolVars, pc, part, signalled, server, status>>

\* Mutant: only statements under way are waited for.
QuietDatabase == \A r \in Requests : pc[r] \notin {"asking", "query"}

\* No connection is active.
Quiescent == \A r \in Requests : pc[r] = "idle"

ShutdownDone ==
  /\ pc[Main] = "shutdown" /\ Quiescent
  /\ Leave("ok")
  /\ UNCHANGED <<poolVars, part, signalled, server, timer>>

ShutdownLate ==
  /\ pc[Main] = "shutdown" /\ timer = "fired"
  /\ Leave("failed")
  /\ UNCHANGED <<poolVars, part, signalled, server, timer>>

\* The deferred db.Close, which returns when every connection is back.
CloseDB ==
  /\ pc[Main] = "leaving"
  /\ ClosePool
  /\ GoTo(Main, "closing")
  /\ UNCHANGED <<part, signalled, server, timer, status>>

End ==
  /\ pc[Main] = "closing" /\ AllReturned
  /\ GoTo(Main, "ended")
  /\ UNCHANGED <<poolVars, part, signalled, server, timer, status>>

-----------------------------------------------------------------------------
(* Requests and the collector between statements *)

\* A browser connects, or sends its next request on a connection kept alive.
Accept(r) ==
  /\ Alive /\ pc[r] = "idle" /\ server \in {"open", "broken"}
  /\ GoTo(r, "new")
  /\ UNCHANGED <<poolVars, part, signalled, server, timer, status>>

\* The request is read, be it after the signal.
Begin(r) ==
  /\ Alive /\ pc[r] = "new"
  /\ GoTo(r, "running")
  /\ UNCHANGED <<poolVars, part, signalled, server, timer, status>>

\* It does not come in time, and the connection is closed.
Drop(r) ==
  /\ Alive /\ pc[r] = "new"
  /\ GoTo(r, "idle")
  /\ UNCHANGED <<poolVars, part, signalled, server, timer, status>>

Respond(r) ==
  /\ Alive /\ pc[r] = "running"
  /\ GoTo(r, "idle")
  /\ UNCHANGED <<poolVars, part, signalled, server, timer, status>>

\* Between a tick and a signal that are both there select chooses at random.
CollectorWakes ==
  /\ Alive /\ pc[Collector] = "resting"
  /\ GoTo(Collector, "running")
  /\ UNCHANGED <<poolVars, part, signalled, server, timer, status>>

CollectorStops ==
  /\ Alive /\ pc[Collector] = "resting" /\ signalled
  /\ GoTo(Collector, "off")
  /\ UNCHANGED <<poolVars, part, signalled, server, timer, status>>

-----------------------------------------------------------------------------
(* Specification *)

Statement(c) ==
  Ask(c) \/ AskTooLate(c) \/ Query(c) \/ TurnedAway(c) \/ GiveUp(c) \/ Answer(c)

MainStep ==
  \/ LoadConfig \/ Migrate \/ StartCollector \/ Prepare
  \/ ListenerLost \/ Shutdown \/ ShutdownDone \/ ShutdownLate \/ CloseDB \/ End

RequestStep(r) == Accept(r) \/ Begin(r) \/ Drop(r) \/ Respond(r)

\* The process is gone, and nothing of it moves.
Gone == ~ Alive /\ UNCHANGED vars

Next ==
  \/ MainStep \/ Listen \/ ServeFails \/ Signal \/ TimerFires
  \/ \E c \in Clients : Statement(c)
  \/ \E r \in Requests : RequestStep(r)
  \/ CollectorWakes \/ CollectorStops
  \/ Gone

Spec == Init /\ [][Next]_vars

(***************************************************************************)
(* Fairness.  The runtime schedules main, the listener's goroutine and the *)
(* cleaners; timers fire; a database answers and the pool serves its line; *)
(* a connection sends its request or is dropped after ReadTimeout.  A      *)
(* handler need not come to an end, nor a browser call, nor a signal come. *)
(***************************************************************************)
Fairness ==
  /\ WF_vars(MainStep) /\ WF_vars(Listen) /\ WF_vars(TimerFires)
  /\ \A c \in Cleaners : WF_vars(Statement(c))
  /\ \A r \in Requests :
       /\ WF_vars(Query(r)) /\ WF_vars(TurnedAway(r)) /\ WF_vars(Answer(r))
       /\ WF_vars(Begin(r) \/ Drop(r))

FairSpec == Spec /\ Fairness

-----------------------------------------------------------------------------
(* Type invariant *)

StatementPCs == {"running", "asking", "query"}
RequestPCs == {"idle", "new"} \cup StatementPCs
CollectorPCs == {"off", "resting"} \cup StatementPCs
MainPCs == {"config", "migrate", "opened", "prepare", "serving", "shutdown",
            "leaving", "closing", "ended"} \cup StatementPCs

\* Every variable has its type; a client waits in line or it does not.
TypeOK ==
  /\ queue \in Seq(Clients) /\ held \subseteq Clients /\ closed \in BOOLEAN
  /\ pc \in [Clients -> MainPCs \cup RequestPCs \cup CollectorPCs]
  /\ \A r \in Requests : pc[r] \in RequestPCs
  /\ pc[Main] \in MainPCs /\ pc[Collector] \in CollectorPCs
  /\ part \in [Cleaners -> 1 .. 2]
  /\ signalled \in BOOLEAN
  /\ server \in {"none", "starting", "open", "unbound", "broken", "closed"}
  /\ timer \in {"off", "running", "fired"}
  /\ status \in {"none", "ok", "failed"}

-----------------------------------------------------------------------------
(* Safety *)

\* No connection is lost or lent twice: exactly the clients with a statement at
\* the database hold one, exactly those that ask wait for one, each once, and
\* never are more out than there are (database.go:37, pgxpool).
ConnectionsAccounted ==
  /\ held = {c \in Clients : pc[c] = "query"}
  /\ \A c \in Clients : pc[c] = "asking" <=> \E i \in 1 .. Len(queue) : queue[i] = c
  /\ \A i, j \in 1 .. Len(queue) : queue[i] = queue[j] => i = j
  /\ Cardinality(held) <= PoolSize

\* The pool is closed under a request only when Shutdown's 15 seconds are past
\* or the listener broke: one that began before the signal and keeps within
\* them never meets a closed pool (main.go:121, 158-180).
PoolOutlivesRequests ==
  closed =>
    \/ \A r \in Requests : pc[r] = "idle"
    \/ timer = "fired"
    \/ server = "broken"

-----------------------------------------------------------------------------
(* Refinement *)

Phase ==
  IF ~ Alive THEN "over"
  ELSE IF server \in {"open", "broken"} THEN "open"
  ELSE IF server = "closed" THEN "draining" ELSE "starting"

Service == INSTANCE GracefulServer WITH
             phase <- Phase,
             inflight <- {r \in Requests : pc[r] # "idle"},
             verdict <- IF Alive THEN "none" ELSE status

\* The process is a graceful server: it ends with status 0 only when told to
\* and with every request answered (main.go:100-183).
ImplementsService == Service!Spec

-----------------------------------------------------------------------------
(* Liveness *)

\* A signal ends the process, at whatever point of the start-up or of serving
\* it comes, whatever the handlers do (main.go:45, 171-180).
SignalEndsProcess == signalled ~> ~ Alive

\* Who waits for a connection gets one, or an error, although the pool is small
\* and everybody uses it (database.go:37).
WaitersServed == \A c \in Clients : pc[c] = "asking" ~> pc[c] # "asking" \/ ~ Alive
=============================================================================
